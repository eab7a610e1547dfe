# A verification project for lke-landing-zone

The repository builds and operates LKE clusters. Most of it is declarative
configuration and one-shot commands of the `llz` tool; what runs for ever, and
what replaces live credentials and keys, is a small part of `src/tools`, and this
project models that part in TLA+. TLC checks the models on small instances; TLAPS
proves the main safety properties for every value of the constants.

Paths below are relative to `src/`; `reconciler/`, `credrotate/`,
`reconcilelanes/`, `statepassphrase/`, `database/` and `openbao/` stand for the
directories of those names under `tools/internal/extensions/lifecycle/`.

Contents: [inventory](#inventory) -- [plan](#plan) --
[ReconcilerLease](#reconcilerlease) -- [ReconcilerManager](#reconcilermanager) --
[ObjKeyRotation and Credential](#objkeyrotation-and-credential) --
[ESStoreRecovery](#esstorerecovery) -- [AplOverlay](#aploverlay) --
[PATRotation](#patrotation) -- [StatePassphrase](#statepassphrase) --
[DBAdmin](#dbadmin) -- [runs](#runs) -- [proofs](#proofs) --
[findings](#findings) -- [limits](#what-is-not-modelled-and-what-is-only-checked) --
[how to run](#how-to-run)

## Inventory

| Component | State | Operations | Interacts with | Hard behaviour | What makes it correct | Module |
|---|---|---|---|---|---|---|
| Leader election, `reconciler/reconcile_leader.go` | `isLeader`, `lastEval`; the Lease object | evaluate (GET, then POST or PATCH), release, health verdict | API server; the gate and the kicker of the manager; kubelet via `/healthz` | no compare-and-swap; late and lost writes; clock skew; hung calls; SIGTERM in the middle | bounded overlap of two leaders, prompt handoff, one leader in the end | `ReconcilerLease` |
| Reconciler manager, `reconciler/reconcile_manager.go` | per lane: loop, trigger channel, kick channel, watcher | initial pass, wake, pass, reconnect, drain | elector (gate, kick), API server streams, credential waiters | coalescing channels, passes racing with events, streams that fail | no lost wakeup, eventual currency, complete shutdown | `ReconcilerManager` |
| Credential waiters, `reconciler/reconcile_apl_overlay_wait.go`, `reconcile_linode_token_wait.go` | one goroutine per call of `watch` | look, poll, kick, give up | External Secrets, OpenBao, the lane's trigger | the credential arriving around the first look | the lane learns of the credential | `ReconcilerManager` |
| Process wiring, `reconciler/reconcile.go` | gate, `kicker`, servers | start, cancel | all of the above | elector started before the lanes subscribe | as above | both |
| Object-key rotation, `credrotate/table.go`, `mintobjkeys.go` | keys at Linode, `rotated_at` and the key in OpenBao, what consumers hold | due check, probe, mint, write, drain | Linode API, OpenBao, External Secrets | failing or lost calls between mint, write and drain; two programs | a key in use is not revoked; a broken one is replaced | `ObjKeyRotation` |
| es-store-recovery lane, `reconcilelanes/es_store_recovery.go` | `lastReady`, `fanoutErr` | observe, probe, force-sync all | External Secrets, the gate | partial fan-out, restart, leadership that comes back | each recovery is followed by a full fan-out, or by the retry budget | `ESStoreRecovery` |
| apl-overlay lane, `tools/internal/shared/apl/overlay/overlay.go`, `shared/ghgitdata/gitdata.go` | a Git branch | read, compute, commit with retry | GitHub, apl-operator, the Console | a retry that reuses content computed earlier | only recent pushes to its own files are undone; it delivers, then is quiet | `AplOverlay` |
| PAT rotators, `credrotate/broadpat.go`, `pat.go`, `graceperiod.go`, `inclusterpat.go` | tokens at Linode, GitHub environments, OpenBao | mint, publish to each environment, stamp, revoke after grace | Linode, GitHub, OpenBao, CI jobs | partial publication, unpublished tokens in the supersession order | the published token is not revoked; a job keeps its token | `PATRotation` |
| State passphrase, `statepassphrase/*.go`, the wizard | passphrase, fallback, every state's key | plan, push, roll over, license | GitHub secrets, OpenTofu, Terraform jobs | stale caches, partial rollover, jobs from before the window | every state stays readable; the licence is true | `StatePassphrase` |
| Database admin, `database/*.go` | password at Linode, in Terraform's state and in OpenBao | seed, reset, wait, read, store | Linode, OpenBao, Terraform | no overlap of old and new password; overlapping workflows | a lost password is reported; one run loses one | `DBAdmin` |
| Key command-line rotators, `credrotate/objkey.go`, `tempobjkey.go`, `lkeadmin.go` | GitHub secrets, files | create, revoke | Linode, GitHub | two secrets written one after the other | readers see a matching pair or fail safely | -- |
| Other lanes, `reconcilelanes/*.go` | none | list, compare, patch | API server | scheduling only | level based | -- |
| OpenBao bootstrap, `openbao/*.go` | init output, root token, seeds | init, unseal, seed, regenerate root | OpenBao, GitHub secrets | a job that dies between steps | re-runnable from any point | -- |
| Converge, teardown, tofudriver, brownfield, promote, render | none of their own | sequences of external calls | everything | deadlines | -- | -- |
| Guards (28) and assertions (17) | none | read-only checks | files, cluster | -- | -- | -- |
| Charts, Terraform modules, workflows, templates | declarative | -- | -- | -- | -- | -- |

`PROJECT.json` lists each with its status, and the hazards of the code line by
line with the properties that cover them.

## Plan

Done, in this order: `ReconcilerLease` (everything that drives depends on it),
`ReconcilerManager` (when a driving pass starts, and whether one is missed),
`ObjKeyRotation` with its abstract specification `Credential`, the two lanes with
memory or a shared branch (`ESStoreRecovery`, `AplOverlay`), and the three
rotations whose failure cannot be undone (`PATRotation`, `StatePassphrase`,
`DBAdmin`).

Left, in order of value:

1. `OpenBaoBootstrap`: init, unseal, seeding and root regeneration as CI steps, a
   death between any two; question: is every prefix re-runnable?
2. `LeaderRotation`: composition of `ReconcilerLease` and `ObjKeyRotation`. Two
   rotators may run while two electors lead (bounded by `OverlapBounded`); what
   does an overlap cost an object key?
3. Proofs: the margin of `HeldSafe` for more than one rotator, and which of the
   claims about object keys survive an overlap of two leaders.

## ReconcilerLease

One process per replica. State and code:

| Variable | Code |
|---|---|
| `lease` | the Lease object: presence, `holderIdentity`, the age of `renewTime`, whether it parses (`LeaseHolderRenew`, `shared/kube/lease.go:37-54`) |
| `pc` | where `run` is: between evaluations, in the GET, in the write, in `release()`, in a call that never returns, or the process is down or gone |
| `leader` | `isLeader` |
| `since`, `evalAge` | the ticker of `run`, and `now - lastEval` as `/healthz` computes it |
| `wire`, `reply` | writes under way, and answers their callers wait for |
| `faults` | count of what the environment did wrong |

`tryAcquire` is three steps, because what happens between them is the point:
`BeginEval` (the ticker), `Evaluate` (the GET answers; decision; the write leaves),
`Conclude` (the write answered; `setLeader`; `markEval`). `EvalFails` is each of its
error returns and the timeout. `Serve` is the API server: POST fails if the Lease
exists, a merge PATCH never looks at what the caller read. `Forsake` says what a
timeout leaves behind: the request may be lost or may still arrive. `CancelIdle`,
`CancelBusy` and `Leave` are SIGTERM in each place; `Crash`, `Wedge` and
`ProbeRestart` are the container's life; `DeleteLease` and `GarbleRenewTime` are
other actors on the shared object.

A GET is one step with its answer: what a replica sees is the Lease at that moment,
and the delay between seeing and writing is the time in `put`. A write stamped
`renewTime` when it was built, so a Lease written by a request of age *a* has
`renewTime` of age *a* (`HeldBy(m.from, m.age)`).

Time is relative: only ages are kept, and they saturate, so runs are not bounded
in length. `Tick` cannot pass while someone is late beyond the stated limits
(`OnTime`): this is the assumption that the scheduler, the API server's timeout
and the kubelet work.

Timing values in the run, one tick being about 10/3 s: `LeaseDuration` 9 (30 s),
`RenewInterval` 3 (10 s), `OpTimeout` 1 (5 s: a call that has seen
one tick may have lasted up to two tick lengths), `WireLife` 2 (an abandoned
request may land one further tick late), `StaleAfter` 9 (30 s), `ProbeLag` 1,
`Lag` 0, `AgeCap` 11 (the least value above every comparison). The assumption
`RenewalAssumption` is the relation the code relies on and never states:
`WireLife + RenewInterval + OpTimeout + 2*Lag + skew <= LeaseDuration`. With a
`RenewInterval` as short as twice `OpTimeout` TLC finds two electors that keep
overwriting one another; the shipped values are clear of it.

`LeaseTiming` extends the module with two history variables: `stray` counts how
long a replica has led without being the holder, `vacant` how long it has left a
cleared Lease untaken. They saturate at `Long`, which `LongAssumption` puts above
every limit that is claimed, and no action reads them.

`LeadershipKept` says when leadership may change hands at all. A replica is
`Undisputed` when it alone leads, its Lease names it and no write but its own
renewal is under way; from there only a fault or its own SIGTERM may end that.
Renewals, peers' looks, other pods' rollouts, late writes and the liveness probe may
not. For the probe this needs `ProbeAssumption`,
`RenewInterval + OpTimeout + 2*Lag <= StaleAfter`, the headroom that the comment of
`staleAfter` (`reconcile_leader.go:42-51`) describes.

The comment of `reconcile_leader.go:4-6` asks for "a single writer". Takeover is
not atomic, so two electors may lead at once without any fault, which lines 12-14
accept; `OverlapBounded` says for how long. `reconcile_leader.go:198-201` calls an
unreadable `renewTime` "a delayed takeover"; with its holder gone the delay has no
end, and the same holds for a *released* Lease whose `renewTime` does not parse,
because `!renewOK` is looked at before the empty holder. `EventuallySettled` names
that as the one exception (`Abandoned`).

## ReconcilerManager

One process `llz reconcile`. A lane has a kind, given by constants: gated, with a
stream, needing a credential, waiting for it, ticking. Variables mirror the
channels and goroutines: `kick` and `trigger` are the channels of size one, `loop`
and `watcher` where the two goroutines are, `looking` and `polling` the waiters.
`stale` is the level: something in the cluster the lane has not yet read in a
driving pass. `arrival` says whether the credential's arrival has been read, or
was missed by a waiter that left without a kick.

A pass is `Gate` (reads `isLeader`), `Read` (reads credential and cluster) and
`Finish` or `PassFails`, so that events, leadership and credentials may change
inside it. `Acquire` and `Kick` are separate, as `setLeader` and `onAcquire` are.
`Spawn` is separate from process start because the elector's goroutine is started
first. `Drop` covers a refused dial, an error and a clean close; its last conjunct
is the `fire()` that follows each of them. `Stopped` is the end of `runManager`.

Backoff durations, poll intervals and the order in which lanes are spawned are left
open (any time, any order), so what holds here does not depend on them.
`MaxWaiters` bounds the waiters that reconnecting accumulates while the token is
absent; two are enough for an early and a late one to interleave.

The gauges are left out. One of them is worth a remark: `llz_watch_connected`
(help text at `reconcile_manager.go:208-209`) is set to 0 when a stream fails
(219-220) and to 1 only when a *later* stream has closed cleanly (234-235), so
a stream that is re-established after one error is reported as down for as long
as it lives, and the alert on it (`prometheusrule.yaml:448`) fires.

## ObjKeyRotation and Credential

One credential of `BuildRotationTable`. Keys are numbers, as Linode's ids are:
increasing. `live` and `granting` are the account, `recorded` and `aged` the OpenBao
path, `held` what the consumers use, `drained` the keys a drain has revoked, `run`
the local variables of each process.

Both programs share the actions; they differ where the code does: the rotator
starts from the stamp (`IsDue`) and probes only a key that is not due, the bootstrap
starts from the key and replaces a broken one only under `--reseed` (`Probe`); the
bootstrap keeps two whatever `KEEP_NEWEST` says and never revokes its own key
(`Keep`, `Survey`). `Drain` revokes one key per step, newest first.

Failures: `Abort` is any error return, and the death of the process, between any
two calls; `MintLost` and `WriteLost` are calls that took effect although they
reported an error; `RevokeFails` is the error that is logged and skipped. `Break`
and `Wipe` are what happens to the key or the path from outside. `Sync` stands for
External Secrets (`refreshInterval` 1m and 5m) and for the values repository;
both halves of the key arrive together. `Age` lets a rotation fall due only when
runs have ended and consumers are current: 80 days against minutes.

`Credential` is what a rotation promises to those who use the credential, with no
mention of runs, failures or counts: a newer key may be published, the consumers
may adopt what is published, and a key may be retired only when it is neither
published nor in use. `ImplementsCredential` maps `recorded`, `held` and `drained`
to it; it is checked by TLC and proved (`Implements`) for a single rotator whose
`KEEP_NEWEST` has the margin.

A PAT has no entry in the table today, so `rotateOne`'s PAT branch is unreachable
from it and is not modelled here.

## ESStoreRecovery

One lane on several replicas, of which one at a time has its gate open (`lead`).
`lastReady` and `fanoutErr` are the fields of `ESStoreRecovery`, so each process
has its own, keeps them while another leads, and forgets them in a restart. `up`
is the store, `ill` the objects whose latest reconcile failed, `due` those with a
force-sync stamp that External Secrets has not handled.

`Observe` is the part of `Reconcile` up to `bump` (a failing GET changes nothing
and is a stutter), `Probe` the first look (`anyExternalSecretNotReady`), `Patch`
one merge patch, `ListFails` a collection that cannot be listed, `Conclude` the end
of the fan-out with the retry budget. Calls fail nondeterministically and without
a bound: `WriteLoopEnds` is about calls that fail for ever. `Sync` is External
Secrets, at any time; only the handling of a stamp is fair.

What a replica may be held to depends on what it knows at first hand of the latest
outage (`witness`): a process that saw it answers for every object, one that was
started since for ExternalSecrets only, because that is all the first look lists
(`es_store_recovery.go:18-22` speaks of a restart amnesty; PushSecrets that failed
in the outage are not part of it). A replica that neither saw the outage nor was
restarted answers for nothing: its `lastReady` is still "true" from before.

## AplOverlay

`theirs[f]` is the number of the latest push of apl-operator or the Console that the
content of `f` rests on, `ours` the files in which LLZ's keys are as LLZ wants them,
`obj` the key in `obj.yaml`. A pass reads the key (`ReadCred`) and each file (`Read`),
remembers what it read (`base`) and which files it will write, and then commits:
`Head` reads the head, builds the tree and stops when nothing would change or the
branch is absent; `Commit` is the accepted fast-forward, `Refused` the rejected
one, after which the head is read again and the files are not
(`gitdata.go:253`), `CommitLost` one that succeeds and whose answer is lost. A commit writes its files as computed from `base` and leaves
every other file as it is at the head (`base_tree`).

Two replicas may run passes at once, since the gate is read when a pass begins.
`Merged` are files of which LLZ owns some keys, `Team` a file it creates and then
leaves alone. `overlay.go:5-8` says that the two writers share the branch without
clobbering each other and 207-209 that a team is never clobbered; a push that comes
between the read and the commit *is* undone in a file the pass writes, and
`LossIsRecent` is the exact limit of that. `MaxAttempts` is 2 in the run instead of
the code's 4: one refused attempt is enough for stale content, two for
giving up.

## PATRotation

Tokens of one label, the copy in every `infra-<deployment>` environment (`copy`), the
copy in OpenBao (`bao`) and its date (`stamp`). `owner` says whether the cluster's
weekly CronJob rotates (`RotateBroadPAT`) or CI (`RunPATCreate` monthly,
`RunPATRevokeOld` daily). `Begin` is the due check, `Mint` create and verify,
`Publish` one environment, `Write` the OpenBao write that stamps, `Survey` and
`Revoke` the drain, `BeginReap` CI's own. `Abort`, `MintLost` and `RevokeFails` are
what fails; a run may die between any two steps. That every environment comes before
OpenBao is the order of the code (`broadpat.go:24-38`, 191-216); the design
(`docs/designs/credential-single-pane.md:82-87`) and the head of the CronJob
(`cronjob.yaml:4-5`) tell it the other way round. `JobStarts` and `JobEnds` are a CI
job that resolved the token when it started.

Time is in weeks: `RotateAfter` 9 (60 days), `Month` 4, `Grace` 1 (7 days), `Validity`
13 (90 days). `age` is relative to now, so a run of the model has no end; tokens of
no use any more are renamed to fresh ones (`Forgotten`). `Drain` is the rule of
`decideByGrace`: a token was superseded when the next younger one was *created*.

The properties have one exception, the gap that `graceperiod.go:34-51` names: a
token that was minted and never published everywhere (`MintedInVain`) counts as a
successor. Under the CronJob this never reaches a published token, because it
drains only after a complete publication; CI's reaper does reach it. (That comment
says `pat_id` is written to OpenBao; `broadpat.go:210-213` writes `token` and
`rotated_at` only.) `CopiesUnexpired` holds with `MaxFaults` = 3: between 60 and 90
days there are four weekly attempts, and four failures in a row would let the token
expire, which TLC confirms.

## StatePassphrase

`secret` and `old` are the two repository secrets, `key[f]` the passphrase a state
is encrypted with. The rollover (`job`) takes one deployment after the other and
root by root: `Pull`, `Push` (refused when a later serial is there), `Verify`, or a
failure; `Report` is `reportRollover` with its conditions for the licence.
`OpenWindow` and `DeleteOld` are the operator. `ApplyReads` and `ApplyEnds` are a
Terraform job that resolved its passphrases when it started. The wizard is `Plan`
(`PlanStatePassphrase`, `EnsureStatePassphrase`), `Drop` (`DropStatePassphraseIfLive`
after the prompts) and `Set` (the push).

`FileOf` lets deployments share a state (a shared VPC), `Checkouts` which roots a
checkout may have rendered; passphrases are numbers in the order of their making.

`StatesReadable` has three exceptions, and each of them is a behaviour of the code
with its workflows, which the histories `stray`, `forsaken` and `displaced` mark:

- A Terraform job from before the window writes after the rollover. The rollover's
  concurrency group is `terraform-state-<region>` (`llz-secret-rotation.yml:479-481`),
  Terraform's `terraform-infra-<region>` (`llz-terraform.yml:104-106`), against the
  comment at `llz-secret-rotation.yml:458-460`.
- The old passphrase is deleted on one deployment's licence. The passphrase is the
  repository's; the summary (`rotate.go:301-305`) is one deployment's.
- Two wizards are told that there is no passphrase before either pushes.

The workflow itself carries a note that the rotation is blocked today
(`llz-secret-rotation.yml:493-509`); the model has the rotation that the code and the
workflow describe.

## DBAdmin

A password at Linode (`live`), in Terraform's state (`state`) and in OpenBao (`path`,
with the endpoint that tells a cluster from its predecessor and whether the stamp is
due). The passwords of a name are numbers in the order of their issue; `provisioned`
is the one its present cluster was created with. Two workflows run, one run of each at
a time: the bootstrap (`Seed`, then `RotateNow`, which is a program of its own) and the
dispatched rotation (`Start`). Each program reads Terraform's outputs once, when it
starts (`ids`, and for the seed `passwords`). `rotateOneDBAdmin` is `Carry` (reads the
fields to carry and the old password), `Reset`, `Wait`, `Read`, `Put`; a reset is
accepted (`pending`) before it takes effect (`Apply`).

A run ends badly in two ways, which the model keeps apart. `Break` is an error that the
program returns, and past the reset that is `dbAdminLostCredentialErr`, which names the
database (`reported`); it happens when a call fails (`Fails`), OpenBao refuses
(`PutRefused`), an answer is lost (`ResetLost`, `PutLost`) or the cluster was replaced
under the run (`ClusterGone`). `Dies` is a runner that is lost, or a job that is
cancelled or timed out (`llz-bootstrap-openbao.yml:173`, `llz-secret-rotation.yml:641`):
the program returns nothing, so nothing is printed; the run ends red, and `killed`
remembers the name. A write or a reset that lands as the runner dies is the step
followed by `Dies`.

`Deny` and `Allow` are OpenBao, `Age`, `Refresh` and `Recreate` time and Terraform,
`Recover` the operator who follows the error, at any time. Terraform
(`terraform-infra-<region>`, `llz-terraform.yml:104-106`) is kept out by a dispatched
rotation, which is in its group (`llz-secret-rotation.yml:644-645`), and by nothing
else: it may refresh the state or replace a cluster in the middle of a bootstrap
(`openbao-bootstrap-<region>`, `llz-bootstrap-openbao.yml:115-117`), which is the guard
`TerraformFree`. Only `Age` waits until no job runs: a stamp becomes due after eighty
days, a job is timed out within ninety minutes.

`LossReported` says when a dead stored password is nobody's to notice. An error names
it, or its run was cut off: a red run, but its log says nothing of a password. Beyond
these two there are four ways (`excused`), all behaviours of the code:

- Two jobs reset one database at once: the groups of rotation and bootstrap differ. The
  run that stores last may have read first, and both are green.
- A seed takes from Terraform's outputs a password that is dead already (`Stale`), since
  no code refreshes the state any more (the comments at
  `llz-secret-rotation.yml:642-643` and 715-718 speak of one). A seed of the live
  password, as in a first bootstrap, excuses nothing.
- A reset is accepted and its answer lost; the error then says "Nothing has changed
  yet" (`rotate_dbadmin.go:184`).
- A pair from before the reset is read. It is told from a new one by the *stored*
  password (`rotate_dbadmin.go:199`), so not if that was dead already.

`ProvisioningBurnt` is about the password a cluster was provisioned with, and about the
clusters that the bootstrap has read of; one that Terraform creates under the run is
the next bootstrap's. It does not say that the state holds no live password: a plan or
apply beside the bootstrap, or after it, takes the current one into the state, which is
the "HONEST LIMIT" of `rotate_dbadmin.go:50-54`.

## Runs

| Run | Instance | Shows | Distinct states |
|---|---|---|---|
| `lease` | 2 replicas, clocks 1 tick apart, 2 faults, edits of the Lease, fair | `LiveLeaderNotExpired`, `OverlapBounded`, `HandoffBounded`, `LeadershipKept`, `EventuallySettled`, `TypeOK` | 755,868 |
| `manager_edges` | a gated, streamed lane that waits for a credential, no ticker, one failing pass, fair | `EdgesSuffice`, `ShutdownCompletes`, `TypeOK` | 43,590 |
| `manager_resync` | a gated, waiting, ticking lane beside an ungated ticking one, fair | `NoLostWakeup`, `ResyncCovers` | 134,316 |
| `objkey_margin` | the rotator, keep 5, 2 faults, 1 upset, 3 rotations | `RecordedNotDrained`, `HeldNotDrained`, `ImplementsCredential` | 9,618 |
| `objkey_recover` | rotator and bootstrap, keep 2, 1 fault, 1 upset, 1 rotation, fair | `ConsumersRecover`, `TypeOK` | 212,391 |
| `objkey_orphan` | the rotator, keep 2, 1 fault | violation of `HeldNotDrained` | -- |
| `store_recovery` | 2 replicas, an object of each kind, budget 3, 3 upsets, fair | `TransitionDelivered`, `RecoveryCompletes`, `WriteLoopEnds`, `TypeOK` | 546,203 |
| `overlay` | 2 replicas, a co-written file and a team, 2 pushes, 2 keys, 1 fault, fair | `LossIsRecent`, `Delivered`, `QuietWhenSynced`, `TypeOK` | 683,598 |
| `pat_rotation` | 2 environments, 7 tokens, 3 faults between publications, fair | `CopiesNotRevoked`, `InFlightSpared`, `StampTruthful`, `CopiesUnexpired`, `RotationConverges`, `TypeOK` | 1,233,950 |
| `passphrase` | 2 deployments with a shared VPC, 2 laptops, 2 passphrases, 1 fault, fair | `LicenceTrue`, `StatesReadable`, `RolloverConverges`, `TypeOK` | 902,978 |
| `db_admin` | 2 databases, 2 workflows, 3 runs, 2 clusters a name, 1 fault | `LossReported`, `LossContained`, `ProvisioningBurnt`, `TypeOK` | 5,418,583 |
| `db_recovery` | 1 database, the bootstrap, 2 runs, 1 fault | violation of `LiveNotOverwritten` | -- |

Why the bounds are enough. Two replicas, jobs or laptops are the two sides of every
race here, and a rolling update of a one-replica Deployment has no more. Lanes share
nothing but the elector's two variables, so one lane of each kind shows each kind's
behaviour, and the two-lane run the kick of two subscriptions. Faults: the lease has
two, so that one falls into the recovery from another; `objkey_margin` uses three
rotations because a drain can meet what an earlier one needed, and it fails with
`KeepNewest` = 4, so the margin it shows is exact. `store_recovery` needs three upsets
for an outage, a change of leader and the change back, or a second outage.
`overlay` needs two pushes for one before and one inside a pass, and one of them may
make the branch. `pat_rotation`'s seven tokens are what one may mint weekly while
older ones are valid, with three failures. In `passphrase` two keys are one rotation;
a second rotation starts from a state like the first. `db_admin`: three runs are two
that overlap and a third that builds on what they left, which is how a loss could
stay unnoticed; two databases are what a loop can lose more than one of; two clusters
of a name are what Terraform replaces under a run.

Fairness, and why the code justifies it. Lease: each replica's own steps (goroutine,
API answers within the timeout, kubelet), the API server and time; no fault and no
rollout is ever obliged to happen. The steps of one replica are one condition: in
each place one of them is enabled. Manager: each goroutine (`WF`), the answer to a
dial, the delivery of a frame, the backoff timer; `SF` on `Exit` because Go's
`select` picks uniformly among ready cases and so does not pass over `ctx.Done()`
for ever; streams need not open and credentials need not come. Keys: the lane's
hourly tick and External Secrets' refresh; a bootstrap that has begun goes on, and
nobody need begin one. Store recovery: the lane's ticker and the handling of stamps,
but no success of a call. Overlay: the lane's ticker. PAT: schedules fire, runs and
jobs end, and weeks pass (`SF`, because jobs may start again and again). Passphrase:
an operator who has opened a window has the rollover run until it is through, and
Terraform jobs end; nobody has to delete anything or run a wizard. `DBAdmin` has
safety only, and no fairness.

`CHECK_DEADLOCK` is left on everywhere: a state where nothing can happen would be
reported.

Every property of a passing run has a mutant in `PROJECT.json`: an operator beside
the mapped definition that a plausible bug would have produced (`A plausible bug:`
in the modules), under which TLC finds that property violated.

## Proofs

All are checked by `tlapm`; none rests on an assumption other than the named
`ASSUME`s of the modules and the hypotheses stated in the theorem.

**ReconcilerLeaseProofs.** `TypeCorrect`; `LiveLeaderSafe`: `Spec =>
[]LiveLeaderNotExpired`, for any set of replicas and any timing that satisfies
`RenewalAssumption`. The property alone is not inductive: whether a Lease looks
expired depends on when its last write was stamped, which depends on where the
leader's loop is. The inductive invariant is `TypeOK` with three parts: `CallInv` (a replica waits for
at most one write, and an answer only for one in a write), `SinceInv` (no goroutine
is later than `OnTime` lets it be) and `FreshInv`, which bounds the age of a leader's
stamp by the time since its evaluation began, one bound per place of the loop.
`Tick` is the interesting step, where `OnTime` supplies the bound, and `Serve` the
second, where a late write of the leader itself puts an older stamp back.

`OverlapSafe` and `HandoffSafe` state `OverlapBounded` and `HandoffBounded` for
`TimedSpec`, from one invariant (`TimedInv`) that bounds each measure by the replica's
own timers, place by place. An overthrown leader has led at most since its last
evaluation plus a call (`StrayAt`): the evaluation under way when it lost the Lease
may still succeed, because its GET came before, but the next one sees another holder.
A wedged one makes no evaluation, and there `ProbeInv` supplies the limit. A cleared
Lease is found by the first evaluation that begins after it was cleared, which then
takes it or fails; failing is a fault, so `VacantAt` counts `Cost(faults)`, one
interval for each.

`LeadershipSafe` is `LeadershipKept` for the same instances. `OthersYield` says that no
peer can do anything: it sees the Lease as live, by `LiveLeaderNotExpired`, and has
nothing in flight. `LeaderRenews` follows the leader's own loop, and `LateWritesHarmless`
its abandoned writes. That the probe spares it is `ProbeSpares`, which needs `EvalInv`:
the latest completed evaluation is at most an interval older than the timer of the
current one.

**ReconcilerManagerProofs.** `TypeCorrect`; `WakeupsSafe`: `Spec => []NoLostWakeup`
for any set and mix of lanes. The property speaks of sleeping loops only and is not
inductive: a loop that has read the cluster and is still acting goes to sleep next,
and by then a wakeup for what changed meanwhile must be pending. `RousedInv` extends
the claim to such loops; `WatchedInv` and `ArrivalInv` say that a spawned lane has the
watcher and the waiters the claim counts on. The hard cases are a credential that
arrives around the waiters' first look, and leadership that comes during a pass.

**ObjKeyRotationProofs.** `TypeCorrect`; `RecordedSafe`: with one process on the
account, `RecordedNotDrained`, for every `KEEP_NEWEST` and every number of faults;
the invariant says that a run which writes or drains holds the highest id, and that
a drain never dooms it (`DrainKeeps`). `HeldSafe`: with one rotator, no
bootstrap and `KeepNewest >= 2 + MaxFaults + MaxUpsets` (hypotheses `OneProcess` and
`Margin`), `HeldNotDrained`. The invariant (`LagInv`) bounds how far the consumers'
key lags the newest id by the failures and upsets so far; a drain reaches only keys
with `KeepNewest` newer ones (`DrainKeeps`). The margin is sharp: the run
`objkey_orphan` shows what one failure does to the default. Here `MaxFaults`
and `MaxUpsets` are not bounds of a finite model but the number of mishaps the
claim is about. `Implements` is the refinement of `Credential` under the same
hypotheses, step by step from that invariant.

**ESStoreRecoveryProofs.** `TypeCorrect`; `DeliveredSafe`: `Spec =>
[]TransitionDelivered`. The strengthening follows a fan-out in progress: every ill
object is already stamped, still to do, or the fan-out has failed and will not
consume the transition; and a process that has seen the outage has "false" in its
memory until then. `BudgetSafe` is the safety core of `WriteLoopEnds`
(`FanoutsSpend`): as long as nothing else happens, a fan-out that ends takes one from
the retries its process has left, and while the store is up nothing adds to them.

**AplOverlayProofs.** `TypeCorrect`; `LossBounded`: the action property `LossIsRecent`
for any files, replicas, attempts and pushes. The invariant says of every pass that
what it read in a file is at least as recent as any push from before the pass, unless
another replica has committed since. `ChurnSafe` is the safety core of
`QuietWhenSynced` (`NoChurn`): once the branch says what LLZ wants and no pass carries
anything older, no pass commits, until somebody pushes or the key changes.

**StatePassphraseProofs.** `TypeCorrect`; `LicenceSafe` and `ReadableSafe` from one
invariant: what a licensed or verified root's state may be encrypted with, and which
passphrases laptops and jobs may still push or write.

**PATRotationProofs.** `TypeCorrect`; `CopiesSafe`, `FlightSafe`, `StampSafe`:
`CopiesNotRevoked`, `InFlightSpared` and `StampTruthful` for any environments, periods
and failures; `UnexpiredSafe`: `CopiesUnexpired` under `InTime`, that between the day a
rotation is due and the expiry there is a week for each failure (`MaxFaults` is then
the number of mishaps the claim is about). What makes the properties inductive is an
order: a live token that is no orphan and is not being published was published
everywhere, so nothing that an environment holds is older (`OrderInv`; `FlightInv`
says the same of a job's token). A drain dooms a token because of a younger one that
is no longer of this week, and by that order the younger one is an orphan if the
doomed one is held (`DrainSpares`). `ClusterInv` ties the stamp to the ages, and each week of delay to
a failure. `RotatedSafe` is the safety half of `RotationConverges`: while the stamp is
fresh OpenBao has a valid token and every environment has that very one (`StampInv`),
so all that fairness has to bring about is a fresh stamp.

**DBAdminProofs.** `TypeCorrect`; `ReportedSafe`, `ContainedSafe` and `BurntSafe`: the
three properties for any databases, jobs and failures, with Terraform beside every job
but those of its group. A dead password may come from a run that has yet to store, so
`LostInv` counts a pending reset as a loss already; `PairInv` says that what is about to
be stored is live, or excused, which a rival's reset can spoil only as `RivalInv`
allows; `CountInv` holds the names left with an error or without a word against red
runs; `BurntInv` follows a bootstrap's queue. All of them speak of the cluster that the
run has read of, and hold only while it is the present one: `EndpointInv` says that no
run knows of a later cluster and that what a run stores belongs to none later than it
has reset, so a cluster that is replaced takes its runs out of every claim
(`Replaced`, `GonePut`).

## Findings

Two statements of the repository do not hold of the code; each has a run that
expects the violation, and an entry in `PROJECT.json`.

1. *"a bad mint or a failed write never breaks a consumer"*
   (`credrotate/table.go:16-17`). Either leaves an orphan: in TLC's trace the answer of
   the mint is lost, and a failed OpenBao write (`table.go:315`) does the same one step
   later. The next drain counts the orphan as one of the two to keep, and the key in use
   is revoked before the consumers have synced its replacement.
2. *Seeding "will never push state's dead credential back over the live one"*
   (`llz-bootstrap-openbao.yml:544-546`). The recovery that the error of a lost
   credential prescribes (`rotate_dbadmin.go:282`) replaces the whole secret and drops
   the endpoint; the next bootstrap's seed, whether that bootstrap was started before or
   after the recovery, takes the path for absent and writes what Terraform's state has. (As printed the command is refused, since the path wants `secret/`, and
   it dry-runs without `--yes`; an operator who corrects both is in this case.)

Smaller disagreements, met while modelling, are told in the sections above.

## What is not modelled, and what is only checked

Only model-checked: every liveness property (`EventuallySettled`, `EdgesSuffice`,
`ResyncCovers`, `ShutdownCompletes`, `ConsumersRecover`, `RecoveryCompletes`,
`WriteLoopEnds`, `Delivered`, `QuietWhenSynced`, `RotationConverges`,
`RolloverConverges`), because fairness and `ENABLED` are out of the prover's reach. Of some the safety
half is proved: `HandoffSafe` and `LeadershipSafe` for `EventuallySettled`, `BudgetSafe`
for `WriteLoopEnds`, `ChurnSafe` for `QuietWhenSynced`, `RotatedSafe` for
`RotationConverges`. Every invariant and every
action property of a passing run is a theorem. The two runs that expect a violation
are counterexamples of small instances by nature.

Not modelled inside the modelled components: logging, gauges and counters, the
metrics and health listeners' own failure, durations of backoff and polling, the
derivation of labels and buckets of a key, the merge of YAML documents, the HCL of
Terraform's encryption block, dry runs.

Not modelled at all: single-pass tools without state (guards, assertions, rendering,
promotion, brownfield planning), drivers of external programs whose state machine is
elsewhere (`tofudriver`, `converge`, `teardown`), lanes that are a pure function of
one listing, and declarative files. They are most of the repository's lines, and a
model of them would be a second copy of the code. `OpenBaoBootstrap` is a real
candidate and is in the plan. The reason for each component is in `PROJECT.json`.

## How to run

    tlc -workers 2 -config lease.cfg MCReconcilerLease
    tlc -workers 2 -config manager_edges.cfg MCReconcilerManager
    tlc -workers 2 -config objkey_margin.cfg MCObjKeyRotation
    tlc -workers 2 -config store_recovery.cfg MCESStoreRecovery
    tlc -workers 2 -config overlay.cfg MCAplOverlay
    tlc -workers 2 -config pat_rotation.cfg MCPATRotation
    tlc -workers 2 -config passphrase.cfg MCStatePassphrase
    tlc -workers 2 -config db_admin.cfg MCDBAdmin
    tlapm ReconcilerLeaseProofs.tla

The module of each configuration is named in `PROJECT.json`, "runs".
