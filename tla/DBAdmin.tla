------------------------------- MODULE DBAdmin -------------------------------
(***************************************************************************)
(* Admin credentials of the managed databases                              *)
(* (tools/internal/extensions/lifecycle/database/seed_dbadmin.go,          *)
(* rotate_dbadmin.go).                                                     *)
(*                                                                         *)
(* Linode resets a password in place and a while later: there is never a   *)
(* second one to fall back on, and what OpenBao holds is dead from then    *)
(* until the new one is stored.  Two workflows rotate, the bootstrap       *)
(* (seed, then --rotate-now) and the dispatched rotation; their            *)
(* concurrency groups differ, so that they may overlap.  Terraform is      *)
(* excluded by the group of the rotation, not by that of the bootstrap.    *)
(***************************************************************************)
EXTENDS Naturals, FiniteSets

CONSTANTS
  Database,    \* clusters that the deployment declares, by name
  Job,         \* workflows, one run of each at a time
  Bootstrap,   \* those that seed, and then rotate whatever the age
  MaxRuns,     \* bound: runs of all the jobs
  MaxClusters, \* bound: clusters that a name has stood for
  MaxFaults    \* bound: calls that fail and answers that mislead

ASSUME JobAssumption == Bootstrap \subseteq Job
\* Without a database neither program does anything.
ASSUME DatabaseAssumption == IsFiniteSet(Database) /\ Database # {}
ASSUME BoundAssumption == {MaxRuns, MaxFaults} \subseteq Nat /\ MaxClusters \in Nat \ {0}

VARIABLES
  cluster,  \* the cluster of each name; its endpoint tells it from the last one
  live,     \* the password it takes; those of a name are numbered as they are issued
  pending,  \* clusters with a reset that was accepted and has not been applied
  state,    \* the password in Terraform's state
  provisioned, \* history: the password that the cluster was created with
  path,     \* secret/infra/db-admin/<name>
  writable, \* OpenBao takes writes
  job,      \* each job's run
  runs,
  reported, \* history: "THE ADMIN PASSWORD WAS RESET BUT NOT PERSISTED", and nothing stored since
  killed,   \* history: a run was cut off after the reset, without a word, and nothing stored since
  excused,  \* history: names for which a loss may go unreported
  red,      \* history: runs that did not end well
  faults

linode == <<cluster, live, pending, state, provisioned>>
history == <<reported, killed, excused, red>>
vars == <<linode, path, writable, job, runs, history, faults>>

NoCluster == 0
NoPassword == 0
NoSecret == [endpoint |-> NoCluster, password |-> NoPassword, due |-> TRUE]

Secret == [endpoint : Nat, password : Nat, due : BOOLEAN]
Run == [at : {"idle", "seed", "next", "reset", "wait", "read", "put"}, queue : SUBSET Database,
        ids : [Database -> Nat], passwords : [Database -> Nat],
        db : Database, endpoint : Nat, old : Nat, new : Nat]

TypeOK ==
  /\ cluster \in [Database -> 1..MaxClusters]
  /\ {live, state, provisioned} \subseteq [Database -> Nat \ {0}]
  /\ pending \subseteq Database
  /\ path \in [Database -> Secret]
  /\ \A d \in Database : /\ state[d] <= live[d] /\ provisioned[d] <= live[d]
                         /\ path[d].password <= live[d] /\ path[d].endpoint <= cluster[d]
  /\ writable \in BOOLEAN
  /\ job \in [Job -> Run]
  /\ \A j \in Job : job[j].at \in {"reset", "wait", "read", "put"} =>
       job[j].db \in job[j].queue /\ job[j].endpoint # NoCluster
  /\ runs \in 0..MaxRuns /\ red \in Nat /\ faults \in 0..MaxFaults
  /\ {reported, killed, excused} \subseteq SUBSET Database

NoRun == [at |-> "idle", queue |-> {},
          ids |-> [d \in Database |-> NoCluster], passwords |-> [d \in Database |-> NoPassword],
          db |-> CHOOSE d \in Database : TRUE,
          endpoint |-> NoCluster, old |-> NoPassword, new |-> NoPassword]

\* A deployment that has been applied and has not been bootstrapped.
Init ==
  /\ cluster = [d \in Database |-> 1]
  /\ live = [d \in Database |-> 1]
  /\ state = live /\ provisioned = live /\ pending = {}
  /\ path = [d \in Database |-> NoSecret]
  /\ writable = TRUE
  /\ job = [j \in Job |-> NoRun] /\ runs = 0
  /\ reported = {} /\ killed = {} /\ excused = {} /\ red = 0 /\ faults = 0

-----------------------------------------------------------------------------
(* A run *)

\* Names are taken in their sorted order.
First(s) == CHOOSE d \in s : TRUE

Becomes(j, run) == job' = [job EXCEPT ![j] = run]

Ends(j) == Becomes(j, NoRun)

Fault == faults < MaxFaults /\ faults' = faults + 1

\* Jobs other than j that have begun to rotate d.
Rivals(j, d) == {k \in Job \ {j} : job[k].at \in {"reset", "wait", "read", "put"} /\ job[k].db = d}

\* The cluster that j rotates has been replaced since j read Terraform's outputs:
\* Linode no longer knows the one it asks for.
Gone(j) == job[j].ids[job[j].db] # cluster[job[j].db]

\* Terraform's outputs are read once, when a program starts, and so are the stamps;
\* a path without one is due.
Start(j) ==
  /\ job[j].at = "idle"
  /\ runs < MaxRuns /\ runs' = runs + 1
  /\ Becomes(j, IF j \in Bootstrap
                THEN [NoRun EXCEPT !.at = "seed", !.queue = Database, !.ids = cluster, !.passwords = state]
                ELSE [NoRun EXCEPT !.at = "next", !.queue = {d \in Database : path[d].due}, !.ids = cluster])
  /\ UNCHANGED <<linode, path, writable, history, faults>>

\* The path names the cluster that the seed has read of.
Ours(j, d) == path[d].endpoint = job[j].ids[d]

\* The password that is to be seeded for a cluster is not the live one.
Stale(j, d) == job[j].ids[d] = cluster[d] /\ (job[j].passwords[d] # live[d] \/ d \in pending)

\* RunSeedDBAdmin on one name: a path that names this cluster is left alone.  What
\* is seeded is as old as Terraform's state.
Seed(j) ==
  /\ job[j].at = "seed" /\ job[j].queue # {}
  /\ LET d == First(job[j].queue) IN
       /\ writable \/ Ours(j, d)
       /\ path' = IF Ours(j, d) THEN path
                  ELSE [path EXCEPT ![d] = [endpoint |-> job[j].ids[d], password |-> job[j].passwords[d],
                                            due |-> FALSE]]
       /\ excused' = IF ~Ours(j, d) /\ Stale(j, d) THEN excused \cup {d} ELSE excused
       /\ Becomes(j, [job[j] EXCEPT !.queue = @ \ {d}])
  /\ UNCHANGED <<linode, writable, runs, reported, killed, red, faults>>

\* A plausible bug: --rotate-now is forgotten, and what was just seeded is not due.
RotateDue(j) ==
  /\ job[j].at = "seed" /\ job[j].queue = {}
  /\ Becomes(j, [NoRun EXCEPT !.at = "next", !.queue = {d \in Database : path[d].due}, !.ids = cluster])
  /\ UNCHANGED <<linode, path, writable, runs, history, faults>>

\* The next step of the workflow, a program of its own: --rotate-now --apply.
RotateNow(j) ==
  /\ job[j].at = "seed" /\ job[j].queue = {}
  /\ Becomes(j, [NoRun EXCEPT !.at = "next", !.queue = Database, !.ids = cluster])
  /\ UNCHANGED <<linode, path, writable, runs, history, faults>>

\* A plausible bug: a path that was never seeded is rotated.
CarryUnseeded(j) ==
  /\ job[j].at = "next" /\ job[j].queue # {}
  /\ LET d == First(job[j].queue) IN
       /\ Becomes(j, [job[j] EXCEPT !.at = "reset", !.db = d,
                                    !.endpoint = path[d].endpoint, !.old = path[d].password])
       /\ excused' = IF Rivals(j, d) = {} THEN excused ELSE excused \cup {d}
  /\ UNCHANGED <<linode, path, writable, runs, reported, killed, red, faults>>

\* rotateOneDBAdmin reads what it has to carry across, and the password; a path
\* with no endpoint ends the run.
Carry(j) ==
  /\ job[j].at = "next" /\ job[j].queue # {}
  /\ LET d == First(job[j].queue) IN
       \/ /\ path[d].endpoint # NoCluster
          /\ Becomes(j, [job[j] EXCEPT !.at = "reset", !.db = d,
                                       !.endpoint = path[d].endpoint, !.old = path[d].password])
          /\ excused' = IF Rivals(j, d) = {} THEN excused ELSE excused \cup {d}
          /\ UNCHANGED red
       \/ /\ path[d].endpoint = NoCluster
          /\ Ends(j) /\ red' = red + 1
          /\ UNCHANGED excused
  /\ UNCHANGED <<linode, path, writable, runs, reported, killed, faults>>

\* The reset is accepted: the point of no return.
Reset(j) ==
  /\ job[j].at = "reset" /\ ~Gone(j)
  /\ pending' = pending \cup {job[j].db}
  /\ Becomes(j, [job[j] EXCEPT !.at = "wait"])
  /\ UNCHANGED <<cluster, live, state, provisioned, path, writable, runs, history, faults>>

\* waitDBActive.  That the cluster is active although the reset has yet to begin
\* is an answer that misleads.
Wait(j) ==
  /\ job[j].at = "wait" /\ ~Gone(j)
  /\ IF job[j].db \in pending THEN Fault ELSE UNCHANGED faults
  /\ Becomes(j, [job[j] EXCEPT !.at = "read"])
  /\ UNCHANGED <<linode, path, writable, runs, history>>

\* A plausible bug: an unchanged password is stored, and stamped.
ReadUnchecked(j) ==
  /\ job[j].at = "read" /\ ~Gone(j)
  /\ Becomes(j, [job[j] EXCEPT !.at = "put", !.new = live[job[j].db]])
  /\ UNCHANGED <<linode, path, writable, runs, history, faults>>

\* The credentials are read again.  A pair from before the reset is told from a new
\* one by the stored password, which it cannot be if that was dead already.
Read(j) ==
  /\ job[j].at = "read" /\ ~Gone(j)
  /\ LET d == job[j].db IN
       \/ /\ live[d] # job[j].old
          /\ Becomes(j, [job[j] EXCEPT !.at = "put", !.new = live[d]])
          /\ excused' = IF d \in pending THEN excused \cup {d} ELSE excused
          /\ UNCHANGED <<reported, red>>
       \/ /\ live[d] = job[j].old
          /\ Ends(j) /\ reported' = reported \cup {d} /\ red' = red + 1
          /\ UNCHANGED excused
  /\ UNCHANGED <<linode, path, writable, runs, killed, faults>>

Store(j) ==
  path' = [path EXCEPT ![job[j].db] = [endpoint |-> job[j].endpoint, password |-> job[j].new, due |-> FALSE]]

Put(j) ==
  /\ job[j].at = "put"
  /\ writable
  /\ Store(j)
  /\ LET d == job[j].db IN
       /\ Becomes(j, [NoRun EXCEPT !.at = "next", !.queue = job[j].queue \ {d}, !.ids = job[j].ids])
       /\ reported' = reported \ {d} /\ killed' = killed \ {d}
       /\ excused' = IF job[j].new = live[d] /\ d \notin pending /\ Rivals(j, d) = {}
                     THEN excused \ {d} ELSE excused
  /\ UNCHANGED <<linode, writable, runs, red, faults>>

Finish(j) ==
  /\ job[j].at = "next" /\ job[j].queue = {}
  /\ Ends(j)
  /\ UNCHANGED <<linode, path, writable, runs, history, faults>>

-----------------------------------------------------------------------------
(* What goes wrong: the run ends, and does nothing more *)

\* The present cluster was reset for j, and its new password is not stored yet.
Past(j) == job[j].at \in {"wait", "read", "put"} /\ ~Gone(j)

\* A plausible bug: the error is noted, and the run goes on with the next database.
BreakAndGoOn(j) ==
  /\ IF job[j].at \in {"reset", "wait", "read", "put"}
     THEN Becomes(j, [NoRun EXCEPT !.at = "next", !.queue = job[j].queue \ {job[j].db}, !.ids = job[j].ids])
     ELSE Ends(j)
  /\ red' = IF job[j].queue \subseteq {job[j].db} THEN red + 1 ELSE red
  /\ reported' = IF Past(j) THEN reported \cup {job[j].db} ELSE reported

\* The program returns an error.  After the reset it is the one that says so: whatever
\* runs the program prints it.
Break(j) ==
  /\ Ends(j)
  /\ red' = red + 1
  /\ reported' = IF Past(j) THEN reported \cup {job[j].db} ELSE reported

\* A call fails.
Fails(j) ==
  /\ job[j].at # "idle"
  /\ Fault
  /\ Break(j)
  /\ UNCHANGED <<linode, path, writable, runs, killed, excused>>

\* The runner is lost, or the job cancelled or timed out: the program ends where it
\* is and returns nothing, so that nothing is printed.
Dies(j) ==
  /\ job[j].at # "idle"
  /\ Fault
  /\ Ends(j)
  /\ red' = red + 1
  /\ killed' = IF Past(j) THEN killed \cup {job[j].db} ELSE killed
  /\ UNCHANGED <<linode, path, writable, runs, reported, excused>>

\* Linode does not know the cluster any more.
ClusterGone(j) ==
  /\ job[j].at \in {"reset", "wait", "read"} /\ Gone(j)
  /\ Break(j)
  /\ UNCHANGED <<linode, path, writable, runs, killed, excused, faults>>

\* OpenBao refuses to write.
PutRefused(j) ==
  /\ ~writable
  /\ \/ job[j].at = "put"
     \/ job[j].at = "seed" /\ job[j].queue # {} /\ ~Ours(j, First(job[j].queue))
  /\ Break(j)
  /\ UNCHANGED <<linode, path, writable, runs, killed, excused, faults>>

\* The reset is accepted, its answer is lost, and the error says that "nothing has
\* changed yet".
ResetLost(j) ==
  /\ job[j].at = "reset" /\ ~Gone(j)
  /\ Fault
  /\ pending' = pending \cup {job[j].db}
  /\ excused' = excused \cup {job[j].db}
  /\ Break(j)
  /\ UNCHANGED <<cluster, live, state, provisioned, path, writable, runs, killed>>

\* The secret is stored, and the write's answer is lost.
PutLost(j) ==
  /\ job[j].at = "put" /\ writable
  /\ Fault
  /\ Store(j)
  /\ Break(j)
  /\ UNCHANGED <<linode, writable, runs, killed, excused>>

-----------------------------------------------------------------------------
(* Linode, OpenBao, Terraform and the operator *)

Apply(d) ==
  /\ d \in pending
  /\ pending' = pending \ {d}
  /\ live' = [live EXCEPT ![d] = @ + 1]
  /\ UNCHANGED <<cluster, state, provisioned, path, writable, job, runs, history, faults>>

Deny ==
  /\ writable /\ Fault
  /\ writable' = FALSE
  /\ UNCHANGED <<linode, path, job, runs, history>>

Allow ==
  /\ ~writable
  /\ writable' = TRUE
  /\ UNCHANGED <<linode, path, job, runs, history, faults>>

\* Eighty days, within which any run has been timed out.
Age(d) ==
  /\ ~path[d].due
  /\ \A j \in Job : job[j].at = "idle"
  /\ path' = [path EXCEPT ![d].due = TRUE]
  /\ UNCHANGED <<linode, writable, job, runs, history, faults>>

\* Terraform may run: only the dispatched rotation is in its concurrency group.
TerraformFree == \A j \in Job \ Bootstrap : job[j].at = "idle"

\* Any later plan or apply takes the password into the state.
Refresh(d) ==
  /\ TerraformFree
  /\ state' = [state EXCEPT ![d] = live[d]]
  /\ UNCHANGED <<cluster, live, pending, provisioned, path, writable, job, runs, history, faults>>

\* Terraform replaces the cluster: nothing that befell the last one matters any more.
Recreate(d) ==
  /\ TerraformFree
  /\ cluster[d] < MaxClusters
  /\ cluster' = [cluster EXCEPT ![d] = @ + 1]
  /\ live' = [live EXCEPT ![d] = @ + 1]
  /\ state' = [state EXCEPT ![d] = live'[d]]
  /\ provisioned' = [provisioned EXCEPT ![d] = live'[d]]
  /\ pending' = pending \ {d}
  /\ reported' = reported \ {d} /\ killed' = killed \ {d} /\ excused' = excused \ {d}
  /\ UNCHANGED <<path, writable, job, runs, red, faults>>

\* The operator does what the error says: the password is read at Linode, and
\* `llz openbao set` replaces the secret with three fields.
Recover(d) ==
  /\ d \in reported
  /\ writable
  /\ path' = [path EXCEPT ![d] = [endpoint |-> NoCluster, password |-> live[d], due |-> FALSE]]
  /\ reported' = reported \ {d} /\ killed' = killed \ {d}
  /\ UNCHANGED <<linode, writable, job, runs, excused, red, faults>>

-----------------------------------------------------------------------------

Step(j) ==
  \/ Start(j) \/ Seed(j) \/ RotateNow(j)
  \/ Carry(j) \/ Reset(j) \/ Wait(j) \/ Read(j) \/ Put(j) \/ Finish(j)

Failure(j) ==
  Fails(j) \/ Dies(j) \/ ClusterGone(j) \/ PutRefused(j) \/ ResetLost(j) \/ PutLost(j)

Next ==
  \/ \E j \in Job : Step(j) \/ Failure(j)
  \/ \E d \in Database : Apply(d) \/ Age(d) \/ Refresh(d) \/ Recreate(d) \/ Recover(d)
  \/ Deny \/ Allow

Spec == Init /\ [][Next]_vars

-----------------------------------------------------------------------------
(* Properties *)

\* Some run has reset d and may still store the password.
Working(d) == \E j \in Job : Past(j) /\ job[j].db = d

\* Consumers of d's present cluster hold a password that it does not take.
Dead(d) ==
  /\ path[d].endpoint = cluster[d]
  /\ path[d].password # live[d]

\* "The invariant flips ... to never LOSE the new credential ... a failed write is
\* a loud, specific error" (rotate_dbadmin.go:24-32): a stored password that is
\* dead for good has an error to its name that nobody has acted on, or the run that
\* reset it was cut off and could say nothing, or it came about in one of four
\* ways: two jobs rotated the same database at once, a seed took from Terraform's
\* outputs a password that was dead already, the reset was accepted and its answer
\* lost, or a pair from before the reset was read when the stored one was dead.
LossReported ==
  \A d \in Database : Dead(d) /\ ~Working(d) => d \in reported \cup killed \cup excused

\* "A loop that kept going would turn one lost credential into several"
\* (rotate_dbadmin.go:33-34): no run loses more than one, not even one that is cut off.
LossContained ==
  Cardinality({d \in Database : Dead(d) /\ ~Working(d)} \ excused) <= red

\* Rotate-on-create: when a bootstrap ends well, no cluster that it has read of takes
\* the password it was provisioned with, or will for long (rotate_dbadmin.go:38-46).
ProvisioningBurnt ==
  [][\A j \in Bootstrap : Finish(j) =>
       \A d \in Database : job[j].ids[d] = cluster[d] => provisioned[d] # live[d] \/ d \in pending]_vars

\* Seeding again "will never push state's dead credential back over the live one"
\* (llz-bootstrap-openbao.yml:545-546, seed_dbadmin.go:159-163), not even over one
\* that the operator has recovered as the error of a lost one says.
LiveNotOverwritten ==
  [][\A d \in Database :
       (\E j \in Bootstrap : Seed(j) /\ First(job[j].queue) = d /\ path[d].password = live[d])
       => path'[d].password = live[d]]_vars
=============================================================================
