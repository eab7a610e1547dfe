---------------------------- MODULE DBAdminProofs ----------------------------
(***************************************************************************)
(* What the rotation of admin credentials may lose, and how it says so.    *)
(***************************************************************************)
EXTENDS DBAdmin, FiniteSetTheorems, TLAPS

-----------------------------------------------------------------------------
(* What a step does to the runs *)

\* Only j's run changes.
Only(j) ==
  /\ job' \in [Job -> Run]
  /\ \A k \in Job \ {j} : job'[k] = job[k]

\* A new run takes the old one's place.
LEMMA BecomesOnly ==
  ASSUME job \in [Job -> Run], NEW j \in Job, NEW run \in Run, Becomes(j, run)
  PROVE  Only(j) /\ job'[j] = run
  BY DEF Becomes, Only

\* No run is a run, of a database there is.
LEMMA NoRunTyped ==
  /\ NoRun \in Run /\ NoRun.at = "idle" /\ NoRun.db \in Database
  /\ \A d \in Database : NoRun.ids[d] = 0 /\ NoRun.passwords[d] = 0
  BY DatabaseAssumption DEF NoRun, Run, NoCluster, NoPassword

\* What ends a run.
LEMMA EndsOnly ==
  ASSUME job \in [Job -> Run], NEW j \in Job, Ends(j)
  PROVE  Only(j) /\ job'[j] = NoRun /\ job'[j].at = "idle"
  BY NoRunTyped, BecomesOnly DEF Ends

\* The first of a queue is in it.
LEMMA FirstIn == ASSUME NEW s \in SUBSET Database, s # {} PROVE First(s) \in s
  BY DEF First

\* Terraform's outputs are numbers, and may be read.
LEMMA OutputsTyped ==
  ASSUME TypeOK PROVE cluster \in [Database -> Nat] /\ state \in [Database -> Nat]
  BY BoundAssumption DEF TypeOK

\* A run that begins, with Terraform's outputs.
LEMMA StartOnly ==
  ASSUME TypeOK, NEW j \in Job, Start(j)
  PROVE  /\ Only(j) /\ job'[j].at \in {"seed", "next"} /\ (job'[j].at = "seed" <=> j \in Bootstrap)
         /\ job'[j].ids = cluster /\ job'[j].passwords \in {state, NoRun.passwords}
  <1>1. job \in [Job -> Run] /\ NoRun \in Run
    BY NoRunTyped DEF TypeOK
  <1>2. CASE j \in Bootstrap
    <2> DEFINE run == [NoRun EXCEPT !.at = "seed", !.queue = Database, !.ids = cluster, !.passwords = state]
    <2>1. run \in Run /\ run.at = "seed" /\ run.ids = cluster /\ run.passwords = state
      BY <1>1, OutputsTyped DEF Run
    <2>2. Becomes(j, run)
      BY <1>2 DEF Start
    <2> HIDE DEF run
    <2>3. Only(j) /\ job'[j] = run
      BY <1>1, <2>1, <2>2, BecomesOnly
    <2>4. QED
      BY <1>2, <2>1, <2>3
  <1>3. CASE j \notin Bootstrap
    <2> DEFINE run == [NoRun EXCEPT !.at = "next", !.queue = {d \in Database : path[d].due}, !.ids = cluster]
    <2>1. run \in Run /\ run.at = "next" /\ run.ids = cluster /\ run.passwords = NoRun.passwords
      BY <1>1, OutputsTyped DEF Run
    <2>2. Becomes(j, run)
      BY <1>3 DEF Start
    <2> HIDE DEF run
    <2>3. Only(j) /\ job'[j] = run
      BY <1>1, <2>1, <2>2, BecomesOnly
    <2>4. QED
      BY <1>3, <2>1, <2>3
  <1>4. QED
    BY <1>2, <1>3

\* The outputs that a run has read stay as they are.
SameOutputs(j) == job'[j].ids = job[j].ids /\ job'[j].passwords = job[j].passwords

\* Seeding a name.
LEMMA SeedOnly ==
  ASSUME TypeOK, NEW j \in Job, Seed(j)
  PROVE  Only(j) /\ job[j].at = "seed" /\ job'[j].at = "seed" /\ SameOutputs(j)
  <1>1. job \in [Job -> Run] /\ job[j] \in Run
    BY DEF TypeOK
  <1> DEFINE next == [job[j] EXCEPT !.queue = @ \ {First(job[j].queue)}]
  <1>2. next \in Run /\ next.at = job[j].at /\ next.ids = job[j].ids /\ next.passwords = job[j].passwords
    BY <1>1 DEF Run
  <1>3. Becomes(j, next) /\ job[j].at = "seed"
    BY DEF Seed
  <1> HIDE DEF next
  <1>4. QED
    BY <1>1, <1>2, <1>3, BecomesOnly DEF SameOutputs

\* The step from the seed to the rotation of every database, with the outputs read again.
LEMMA RotateNowOnly ==
  ASSUME TypeOK, NEW j \in Job, RotateNow(j)
  PROVE  /\ Only(j) /\ job[j].at = "seed" /\ job'[j].at = "next" /\ job'[j].queue = Database
         /\ job'[j].ids = cluster /\ job'[j].passwords = NoRun.passwords
  <1>1. job \in [Job -> Run] /\ NoRun \in Run
    BY NoRunTyped DEF TypeOK
  <1> DEFINE run == [NoRun EXCEPT !.at = "next", !.queue = Database, !.ids = cluster]
  <1>2. /\ run \in Run /\ run.at = "next" /\ run.queue = Database
        /\ run.ids = cluster /\ run.passwords = NoRun.passwords
    BY <1>1, OutputsTyped DEF Run
  <1>3. Becomes(j, run) /\ job[j].at = "seed"
    BY DEF RotateNow
  <1> HIDE DEF run
  <1>4. QED
    BY <1>1, <1>2, <1>3, BecomesOnly

\* The rotation of the first database of the queue, or the end of the run.
LEMMA CarryOnly ==
  ASSUME TypeOK, NEW j \in Job, Carry(j), NEW d, d = First(job[j].queue)
  PROVE  /\ Only(j) /\ job[j].at = "next" /\ d \in job[j].queue /\ d \in Database
         /\ \/ /\ job'[j].at = "reset" /\ job'[j].db = d /\ job'[j].queue = job[j].queue
               /\ job'[j].endpoint = path[d].endpoint /\ path[d].endpoint # NoCluster
               /\ SameOutputs(j)
               /\ excused' = (IF Rivals(j, d) = {} THEN excused ELSE excused \cup {d})
               /\ red' = red
            \/ job'[j].at = "idle" /\ job'[j] = NoRun /\ red' = red + 1 /\ excused' = excused
  <1>1. job \in [Job -> Run] /\ job[j] \in Run /\ path \in [Database -> Secret]
    BY DEF TypeOK
  <1>2. job[j].queue \subseteq Database /\ job[j].queue # {} /\ job[j].at = "next"
    BY <1>1 DEF Carry, Run
  <1>3. d \in job[j].queue /\ d \in Database
    BY <1>2, FirstIn
  <1>4. path[d] \in Secret
    BY <1>1, <1>3
  <1> DEFINE next == [job[j] EXCEPT !.at = "reset", !.db = d,
                                    !.endpoint = path[d].endpoint, !.old = path[d].password]
  <1>5. /\ next \in Run /\ next.at = "reset" /\ next.db = d /\ next.queue = job[j].queue
        /\ next.endpoint = path[d].endpoint /\ next.ids = job[j].ids /\ next.passwords = job[j].passwords
    BY <1>1, <1>3, <1>4 DEF Run, Secret
  <1>6. \/ Becomes(j, next) /\ path[d].endpoint # NoCluster /\ red' = red
           /\ excused' = (IF Rivals(j, d) = {} THEN excused ELSE excused \cup {d})
        \/ Ends(j) /\ red' = red + 1 /\ excused' = excused
    BY DEF Carry
  <1> HIDE DEF next
  <1>7. QED
    BY <1>1, <1>2, <1>3, <1>5, <1>6, BecomesOnly, EndsOnly DEF SameOutputs

\* The same run goes on at another place.
GoesOn(j, place) ==
  /\ Only(j)
  /\ job'[j].at = place
  /\ job'[j].db = job[j].db /\ job'[j].queue = job[j].queue
  /\ job'[j].endpoint = job[j].endpoint
  /\ SameOutputs(j)

\* The reset is accepted.
LEMMA ResetOnly ==
  ASSUME TypeOK, NEW j \in Job, Reset(j) PROVE GoesOn(j, "wait") /\ job[j].at = "reset"
  <1>1. job \in [Job -> Run] /\ job[j] \in Run
    BY DEF TypeOK
  <1> DEFINE next == [job[j] EXCEPT !.at = "wait"]
  <1>2. /\ next \in Run /\ next.at = "wait" /\ next.db = job[j].db /\ next.queue = job[j].queue
        /\ next.endpoint = job[j].endpoint /\ next.ids = job[j].ids /\ next.passwords = job[j].passwords
    BY <1>1 DEF Run
  <1>3. Becomes(j, next) /\ job[j].at = "reset"
    BY DEF Reset
  <1> HIDE DEF next
  <1>4. QED
    BY <1>1, <1>2, <1>3, BecomesOnly DEF GoesOn, SameOutputs

\* The cluster is active again.
LEMMA WaitOnly ==
  ASSUME TypeOK, NEW j \in Job, Wait(j) PROVE GoesOn(j, "read") /\ job[j].at = "wait"
  <1>1. job \in [Job -> Run] /\ job[j] \in Run
    BY DEF TypeOK
  <1> DEFINE next == [job[j] EXCEPT !.at = "read"]
  <1>2. /\ next \in Run /\ next.at = "read" /\ next.db = job[j].db /\ next.queue = job[j].queue
        /\ next.endpoint = job[j].endpoint /\ next.ids = job[j].ids /\ next.passwords = job[j].passwords
    BY <1>1 DEF Run
  <1>3. Becomes(j, next) /\ job[j].at = "wait"
    BY DEF Wait
  <1> HIDE DEF next
  <1>4. QED
    BY <1>1, <1>2, <1>3, BecomesOnly DEF GoesOn, SameOutputs

\* The pair that was read is another one, or the run ends with the loss reported.
LEMMA ReadOnly ==
  ASSUME TypeOK, NEW j \in Job, Read(j), NEW d, d = job[j].db
  PROVE  /\ job[j].at = "read"
         /\ \/ /\ GoesOn(j, "put") /\ job'[j].new = live[d]
               /\ excused' = (IF d \in pending THEN excused \cup {d} ELSE excused)
               /\ UNCHANGED <<reported, red>>
            \/ /\ Only(j) /\ job'[j] = NoRun /\ job'[j].at = "idle"
               /\ reported' = reported \cup {d} /\ red' = red + 1 /\ excused' = excused
  <1>1. job \in [Job -> Run] /\ job[j] \in Run /\ live \in [Database -> Nat \ {0}] /\ d \in Database
    BY DEF TypeOK, Run
  <1>2. live[d] \in Nat
    BY <1>1
  <1> DEFINE next == [job[j] EXCEPT !.at = "put", !.new = live[d]]
  <1>3. /\ next \in Run /\ next.at = "put" /\ next.new = live[d] /\ next.db = job[j].db
        /\ next.queue = job[j].queue /\ next.endpoint = job[j].endpoint
        /\ next.ids = job[j].ids /\ next.passwords = job[j].passwords
    BY <1>1, <1>2 DEF Run
  <1>4. \/ /\ Becomes(j, next)
           /\ excused' = (IF d \in pending THEN excused \cup {d} ELSE excused)
           /\ UNCHANGED <<reported, red>>
        \/ Ends(j) /\ reported' = reported \cup {d} /\ red' = red + 1 /\ excused' = excused
    BY DEF Read
  <1>5. job[j].at = "read"
    BY DEF Read
  <1> HIDE DEF next
  <1>6. QED
    BY <1>1, <1>3, <1>4, <1>5, BecomesOnly, EndsOnly DEF GoesOn, SameOutputs

\* The secret has been stored: the database leaves the queue.
LEMMA PutOnly ==
  ASSUME TypeOK, NEW j \in Job, Put(j)
  PROVE  /\ Only(j) /\ job[j].at = "put" /\ job'[j].at = "next"
         /\ job'[j].queue = job[j].queue \ {job[j].db}
         /\ job'[j].ids = job[j].ids /\ job'[j].passwords = NoRun.passwords
  <1>1. job \in [Job -> Run] /\ job[j] \in Run /\ NoRun \in Run
    BY NoRunTyped DEF TypeOK
  <1> DEFINE next == [NoRun EXCEPT !.at = "next", !.queue = job[j].queue \ {job[j].db}, !.ids = job[j].ids]
  <1>2. /\ next \in Run /\ next.at = "next" /\ next.queue = job[j].queue \ {job[j].db}
        /\ next.ids = job[j].ids /\ next.passwords = NoRun.passwords
    BY <1>1 DEF Run
  <1>3. Becomes(j, next) /\ job[j].at = "put"
    BY DEF Put
  <1> HIDE DEF next
  <1>4. QED
    BY <1>1, <1>2, <1>3, BecomesOnly

\* What ends a run, well or not.
Stops(j) ==
  Finish(j) \/ Fails(j) \/ Dies(j) \/ ClusterGone(j) \/ PutRefused(j) \/ ResetLost(j) \/ PutLost(j)

\* A run that stops is no run.
LEMMA EndOnly ==
  ASSUME TypeOK, NEW j \in Job, Stops(j)
  PROVE  Only(j) /\ job'[j] = NoRun /\ job'[j].at = "idle"
  <1>1. job \in [Job -> Run] /\ Ends(j)
    BY DEF TypeOK, Stops, Finish, Fails, Dies, ClusterGone, PutRefused, ResetLost, PutLost, Break
  <1>2. QED
    BY <1>1, EndsOnly

-----------------------------------------------------------------------------
(* The inductive invariant *)

\* j has begun to rotate d's present cluster, and its secret is not stored yet.
Rotates(j, d) ==
  job[j].at \in {"reset", "wait", "read", "put"} /\ job[j].db = d /\ job[j].ids[d] = cluster[d]

\* The reset of d's present cluster was accepted for j.
HasReset(j, d) ==
  job[j].at \in {"wait", "read", "put"} /\ job[j].db = d /\ job[j].ids[d] = cluster[d]

\* The password that d's cluster was created with is dead, or about to be.
Burnt(d) == provisioned[d] # live[d] \/ d \in pending

\* No run holds a password that is still to be issued.
NewInv ==
  /\ \A j \in Job : job[j].at = "put" => job[j].new <= live[job[j].db]
  /\ \A j \in Job, d \in Database : job[j].passwords[d] <= live[d]

\* No run names a cluster that is still to come; what a run carries across is no
\* younger than the cluster that was reset for it.
EndpointInv ==
  /\ \A j \in Job, d \in Database : job[j].ids[d] <= cluster[d]
  /\ \A j \in Job : job[j].at \in {"reset", "wait", "read", "put"} => job[j].endpoint <= cluster[job[j].db]
  /\ \A j \in Job : job[j].at \in {"wait", "read", "put"} => job[j].endpoint <= job[j].ids[job[j].db]

\* Two jobs rotate the same cluster only with an excuse.
RivalInv ==
  \A j, k \in Job, d \in Database : j # k /\ Rotates(j, d) /\ Rotates(k, d) => d \in excused

\* The pair that is about to be stored is the live one.
PairInv ==
  \A j \in Job, d \in Database :
    job[j].at = "put" /\ Rotates(j, d) =>
      (job[j].new = live[d] /\ d \notin pending) \/ d \in excused

\* A stored password that is dead, or is about to be, with no run that may still
\* store another.
Lost(d) ==
  /\ path[d].endpoint = cluster[d]
  /\ path[d].password # live[d] \/ d \in pending
  /\ \A j \in Job : ~HasReset(j, d)

\* What is lost is reported, or its run was cut off, or it is excused.
LostInv == \A d \in Database : Lost(d) => d \in reported \cup killed \cup excused

\* The names that a run left with an error after the reset, or without a word.
Left == reported \cup killed

\* There are no more of them than runs that ended red.
CountInv == IsFiniteSet(Left) /\ Cardinality(Left) <= red

\* What a bootstrap has finished with is burnt, and so is what it has reset, unless
\* the cluster has been replaced since.
BurntInv ==
  \A j \in Bootstrap, d \in Database :
    \/ /\ job[j].at \in {"next", "reset", "wait", "read", "put"} /\ d \notin job[j].queue
       /\ job[j].ids[d] = cluster[d]
    \/ HasReset(j, d)
    => Burnt(d)

\* Together they are inductive.
IInv ==
  TypeOK /\ NewInv /\ EndpointInv /\ RivalInv /\ PairInv /\ LostInv /\ CountInv /\ BurntInv

-----------------------------------------------------------------------------
(* Types *)

\* A secret of a declared database replaces another: what OpenBao holds stays typed.
LEMMA PathTyped ==
  ASSUME TypeOK, NEW d \in Database, NEW secret \in Secret,
         secret.password <= live[d], secret.endpoint <= cluster[d],
         path' = [path EXCEPT ![d] = secret]
  PROVE  /\ path' \in [Database -> Secret]
         /\ \A e \in Database : path'[e].password <= live[e] /\ path'[e].endpoint <= cluster[e]
  BY DEF TypeOK

\* The part of the type invariant that speaks of where each run is.
RunsTyped ==
  /\ job \in [Job -> Run]
  /\ \A j \in Job : job[j].at \in {"reset", "wait", "read", "put"} =>
       job[j].db \in job[j].queue /\ job[j].endpoint # NoCluster

\* The part that speaks of the clusters.
CloudTyped ==
  /\ cluster \in [Database -> 1..MaxClusters]
  /\ {live, state, provisioned} \subseteq [Database -> Nat \ {0}]
  /\ pending \subseteq Database
  /\ \A d \in Database : state[d] <= live[d] /\ provisioned[d] <= live[d]

\* The part that speaks of OpenBao.
PathsTyped ==
  /\ path \in [Database -> Secret]
  /\ \A d \in Database : path[d].password <= live[d] /\ path[d].endpoint <= cluster[d]

\* The rest of it.
CountsTyped ==
  /\ writable \in BOOLEAN
  /\ runs \in 0..MaxRuns /\ red \in Nat /\ faults \in 0..MaxFaults
  /\ {reported, killed, excused} \subseteq SUBSET Database

\* The bounds are numbers.
LEMMA Bounds == MaxRuns \in Nat /\ MaxFaults \in Nat /\ MaxClusters \in Nat /\ MaxClusters >= 1
  BY BoundAssumption

\* A call that fails is counted, up to the bound.
LEMMA FaultTyped == ASSUME TypeOK, Fault PROVE faults' \in 0..MaxFaults
  BY Bounds DEF TypeOK, Fault

\* The parts are the whole.
LEMMA TypeParts == TypeOK <=> RunsTyped /\ CloudTyped /\ PathsTyped /\ CountsTyped
  BY DEF TypeOK, RunsTyped, CloudTyped, PathsTyped, CountsTyped

\* Steps of jobs keep the runs typed.
LEMMA RunsStep ==
  ASSUME TypeOK, NEW j \in Job, Step(j) \/ Failure(j)
  PROVE  RunsTyped'
  <1> USE DEF RunsTyped, Only, GoesOn
  <1>0. RunsTyped
    BY TypeParts
  <1>1. CASE Start(j)
    BY <1>0, <1>1, StartOnly
  <1>2. CASE Seed(j)
    BY <1>0, <1>2, SeedOnly
  <1>3. CASE RotateNow(j)
    BY <1>0, <1>3, RotateNowOnly
  <1>4. CASE Carry(j)
    BY <1>0, <1>4, CarryOnly
  <1>5. CASE Reset(j)
    BY <1>0, <1>5, ResetOnly
  <1>6. CASE Wait(j)
    BY <1>0, <1>6, WaitOnly
  <1>7. CASE Read(j)
    BY <1>0, <1>7, ReadOnly
  <1>8. CASE Put(j)
    BY <1>0, <1>8, PutOnly
  <1>9. CASE Stops(j)
    BY <1>0, <1>9, EndOnly
  <1>10. QED
    BY <1>1, <1>2, <1>3, <1>4, <1>5, <1>6, <1>7, <1>8, <1>9 DEF Step, Failure, Stops

\* A job's step leaves the other runs alone.
LEMMA JobOnly ==
  ASSUME TypeOK, NEW j \in Job, Step(j) \/ Failure(j)
  PROVE  Only(j)
  BY StartOnly, SeedOnly, RotateNowOnly, CarryOnly, ResetOnly, WaitOnly, ReadOnly, PutOnly, EndOnly
  DEF Step, Failure, GoesOn, Stops

\* A job's step leaves the clusters alone.
LEMMA JobLeavesClusters ==
  ASSUME NEW j \in Job, Step(j) \/ Failure(j)
  PROVE  UNCHANGED <<cluster, live, state, provisioned>> /\ pending \subseteq pending'
  BY DEF Step, Failure, Start, Seed, RotateNow, Carry, Reset, Wait, Read, Put, Finish, Fails,
         Dies, ClusterGone, PutRefused, ResetLost, PutLost, linode

\* The outputs a run holds are those it had read, those that Terraform has now, or none.
LEMMA JobOutputs ==
  ASSUME TypeOK, NEW j \in Job, Step(j) \/ Failure(j)
  PROVE  /\ job'[j].ids \in {job[j].ids, cluster, NoRun.ids}
         /\ job'[j].passwords \in {job[j].passwords, state, NoRun.passwords}
  BY StartOnly, SeedOnly, RotateNowOnly, CarryOnly, ResetOnly, WaitOnly, ReadOnly, PutOnly, EndOnly
  DEF Step, Failure, GoesOn, Stops, SameOutputs

\* A job's step shows which place its run comes from, and the password it read.
LEMMA NewStep ==
  ASSUME TypeOK, NewInv, NEW j \in Job, Step(j) \/ Failure(j)
  PROVE  NewInv'
  <1>1. /\ job \in [Job -> Run] /\ live \in [Database -> Nat \ {0}] /\ job[j].db \in Database
        /\ \A d \in Database : state[d] <= live[d]
    BY DEF TypeOK, Run
  <1>2. live' = live /\ Only(j)
    BY JobLeavesClusters, JobOnly
  <1>3. job'[j].at = "put" => job'[j].new <= live[job'[j].db]
    <2>1. CASE Read(j)
      <3>1. live[job[j].db] \in Nat
        BY <1>1
      <3>2. QED
        BY <2>1, <3>1, ReadOnly DEF GoesOn
    <2>2. CASE ~Read(j)
      BY <2>2, StartOnly, SeedOnly, RotateNowOnly, CarryOnly, ResetOnly, WaitOnly, PutOnly, EndOnly
      DEF Step, Failure, GoesOn, Stops
    <2>3. QED
      BY <2>1, <2>2
  <1>4. ASSUME NEW d \in Database PROVE job'[j].passwords[d] <= live[d]
    <2>1. live[d] \in Nat /\ job[j].passwords[d] <= live[d] /\ state[d] <= live[d] /\ 0 <= live[d]
      BY <1>1 DEF NewInv
    <2>2. NoRun.passwords[d] = 0
      BY NoRunTyped
    <2>3. QED
      BY <2>1, <2>2, JobOutputs
  <1>5. QED
    BY <1>2, <1>3, <1>4 DEF NewInv, Only

\* What a run may put into OpenBao is a secret: what it was told at the seed, and what
\* it has carried and read.
LEMMA RunSecrets ==
  ASSUME TypeOK, NewInv, EndpointInv, NEW j \in Job, NEW d \in Database
  PROVE  /\ [endpoint |-> job[j].ids[d], password |-> job[j].passwords[d], due |-> FALSE] \in Secret
         /\ job[j].ids[d] <= cluster[d] /\ job[j].passwords[d] <= live[d]
         /\ [endpoint |-> job[j].endpoint, password |-> job[j].new, due |-> FALSE] \in Secret
         /\ job[j].at = "put" /\ job[j].db = d => job[j].endpoint <= cluster[d] /\ job[j].new <= live[d]
  <1>1. job[j] \in Run
    BY DEF TypeOK
  <1>2. /\ job[j].ids[d] \in Nat /\ job[j].passwords[d] \in Nat
        /\ job[j].endpoint \in Nat /\ job[j].new \in Nat
    BY <1>1 DEF Run
  <1>3. QED
    BY <1>2 DEF Secret, NewInv, EndpointInv

\* Steps of jobs keep OpenBao typed.
LEMMA PathsStep ==
  ASSUME TypeOK, NewInv, EndpointInv, NEW j \in Job, Step(j) \/ Failure(j)
  PROVE  PathsTyped'
  <1>1. PathsTyped /\ live' = live /\ cluster' = cluster /\ job[j] \in Run
    BY JobLeavesClusters, TypeParts DEF TypeOK
  <1>2. CASE Seed(j) /\ path' # path
    <2> DEFINE d == First(job[j].queue)
               s == [endpoint |-> job[j].ids[d], password |-> job[j].passwords[d], due |-> FALSE]
    <2>1. d \in Database
      BY <1>1, <1>2, FirstIn DEF Seed, Run
    <2>2. s \in Secret /\ s.password <= live[d] /\ s.endpoint <= cluster[d]
      BY <2>1, RunSecrets
    <2>3. path' = [path EXCEPT ![d] = s]
      BY <1>2 DEF Seed
    <2> HIDE DEF s, d
    <2>4. QED
      BY <1>1, <2>1, <2>2, <2>3, PathTyped DEF PathsTyped
  <1>3. CASE Put(j) \/ PutLost(j)
    <2> DEFINE s == [endpoint |-> job[j].endpoint, password |-> job[j].new, due |-> FALSE]
    <2>1. job[j].at = "put" /\ job[j].db \in Database
      BY <1>1, <1>3 DEF Put, PutLost, Run
    <2>2. s \in Secret /\ s.password <= live[job[j].db] /\ s.endpoint <= cluster[job[j].db]
      BY <2>1, RunSecrets
    <2>3. path' = [path EXCEPT ![job[j].db] = s]
      BY <1>3 DEF Put, PutLost, Store
    <2> HIDE DEF s
    <2>4. QED
      BY <1>1, <2>1, <2>2, <2>3, PathTyped DEF PathsTyped
  <1>4. CASE path' = path
    BY <1>1, <1>4 DEF PathsTyped
  <1>5. Seed(j) \/ Put(j) \/ PutLost(j) \/ path' = path
    BY DEF Step, Failure, Start, RotateNow, Carry, Reset, Wait, Read, Finish, Fails,
           Dies, ClusterGone, PutRefused, ResetLost
  <1>6. QED
    BY <1>2, <1>3, <1>4, <1>5

\* Steps of jobs keep the clusters typed.
LEMMA CloudStep ==
  ASSUME TypeOK, NEW j \in Job, Step(j) \/ Failure(j)
  PROVE  CloudTyped'
  <1>1. CloudTyped /\ job[j].db \in Database
    BY TypeParts DEF TypeOK, Run
  <1>2. pending' \subseteq pending \cup {job[j].db}
    BY DEF Step, Failure, Start, Seed, RotateNow, Carry, Reset, Wait, Read, Put, Finish, Fails,
           Dies, ClusterGone, PutRefused, ResetLost, PutLost, linode
  <1>3. QED
    BY <1>1, <1>2, JobLeavesClusters DEF CloudTyped

\* Steps of jobs keep the rest typed.
LEMMA CountsStep ==
  ASSUME TypeOK, NEW j \in Job, Step(j) \/ Failure(j)
  PROVE  CountsTyped'
  <1>1. CountsTyped /\ job[j] \in Run /\ job[j].db \in Database
    BY TypeParts DEF TypeOK, Run
  <1>2. writable' = writable
    BY DEF Step, Failure, Start, Seed, RotateNow, Carry, Reset, Wait, Read, Put, Finish, Fails,
           Dies, ClusterGone, PutRefused, ResetLost, PutLost
  <1>3. runs' = runs \/ (runs < MaxRuns /\ runs' = runs + 1)
    BY DEF Step, Failure, Start, Seed, RotateNow, Carry, Reset, Wait, Read, Put, Finish, Fails,
           Dies, ClusterGone, PutRefused, ResetLost, PutLost
  <1>4. faults' = faults \/ Fault
    BY DEF Step, Failure, Start, Seed, RotateNow, Carry, Reset, Wait, Read, Put, Finish, Fails,
           Dies, ClusterGone, PutRefused, ResetLost, PutLost
  <1>5. red' \in {red, red + 1}
    BY DEF Step, Failure, Start, Seed, RotateNow, Carry, Reset, Wait, Read, Put, Finish, Fails,
           Dies, ClusterGone, PutRefused, ResetLost, PutLost, Break, history
  <1>6. /\ reported' \subseteq reported \cup {job[j].db}
        /\ killed' \subseteq killed \cup {job[j].db}
    BY DEF Step, Failure, Start, Seed, RotateNow, Carry, Reset, Wait, Read, Put, Finish, Fails,
           Dies, ClusterGone, PutRefused, ResetLost, PutLost, Break, history
  <1>7. excused' \subseteq Database
    <2>1. CASE Seed(j) \/ Carry(j)
      <3>1. First(job[j].queue) \in Database
        BY <1>1, <2>1, FirstIn DEF Seed, Carry, Run
      <3>2. excused' \subseteq excused \cup {First(job[j].queue)}
        BY <2>1 DEF Seed, Carry
      <3>3. QED
        BY <1>1, <3>1, <3>2 DEF CountsTyped
    <2>2. CASE ~Seed(j) /\ ~Carry(j)
      <3>1. excused' \subseteq excused \cup {job[j].db}
        BY <2>2 DEF Step, Failure, Start, RotateNow, Reset, Wait, Read, Put, Finish, Fails,
                    Dies, ClusterGone, PutRefused, ResetLost, PutLost, history
      <3>2. QED
        BY <1>1, <3>1 DEF CountsTyped
    <2>3. QED
      BY <2>1, <2>2
  <1>8. runs' \in 0..MaxRuns /\ faults' \in 0..MaxFaults /\ red' \in Nat
    BY <1>1, <1>3, <1>4, <1>5, Bounds, FaultTyped DEF CountsTyped
  <1>9. QED
    BY <1>1, <1>2, <1>6, <1>7, <1>8 DEF CountsTyped

\* The steps of Linode, OpenBao, Terraform and the operator.
World(d) == Apply(d) \/ Age(d) \/ Refresh(d) \/ Recreate(d) \/ Recover(d) \/ Deny \/ Allow

\* They leave the runs alone.
LEMMA WorldLeavesRuns == ASSUME NEW d, World(d) PROVE job' = job
  BY DEF World, Apply, Age, Refresh, Recreate, Recover, Deny, Allow

\* Clusters and passwords are numbered upwards, whoever acts.
LEMMA WorldGrows ==
  ASSUME TypeOK, NEW d \in Database, World(d), NEW e \in Database
  PROVE  /\ live[e] \in Nat /\ live'[e] \in Nat /\ live[e] <= live'[e]
         /\ cluster[e] \in Nat /\ cluster'[e] \in Nat /\ cluster[e] <= cluster'[e]
  <1>1. live \in [Database -> Nat \ {0}] /\ cluster \in [Database -> Nat]
    BY OutputsTyped DEF TypeOK
  <1>2. \/ live' = live
        \/ live' = [live EXCEPT ![d] = @ + 1]
    BY DEF World, Apply, Age, Refresh, Recreate, Recover, Deny, Allow, linode
  <1>3. \/ cluster' = cluster
        \/ cluster' = [cluster EXCEPT ![d] = @ + 1]
    BY DEF World, Apply, Age, Refresh, Recreate, Recover, Deny, Allow, linode
  <1>4. QED
    BY <1>1, <1>2, <1>3

\* They keep the clusters typed.
LEMMA WorldCloud ==
  ASSUME TypeOK, NEW d \in Database, World(d)
  PROVE  CloudTyped'
  <1>1. CloudTyped
    BY TypeParts
  <1>2. CASE Apply(d)
    BY <1>1, <1>2 DEF Apply, CloudTyped
  <1>3. CASE Recreate(d)
    BY <1>1, <1>3, Bounds DEF Recreate, CloudTyped
  <1>4. CASE Refresh(d)
    BY <1>1, <1>4 DEF Refresh, CloudTyped
  <1>5. CASE Age(d) \/ Recover(d) \/ Deny \/ Allow
    BY <1>1, <1>5 DEF Age, Recover, Deny, Allow, CloudTyped, linode
  <1>6. QED
    BY <1>2, <1>3, <1>4, <1>5 DEF World

\* They keep everything typed.
LEMMA WorldTyped ==
  ASSUME TypeOK, NewInv, NEW d \in Database, World(d)
  PROVE  TypeOK' /\ NewInv'
  <1>1. job' = job /\ RunsTyped /\ CloudTyped /\ PathsTyped /\ CountsTyped
    BY WorldLeavesRuns, TypeParts
  <1>2. RunsTyped' /\ CloudTyped'
    BY <1>1, WorldCloud DEF RunsTyped
  <1>3. CountsTyped'
    <2>1. /\ writable' \in BOOLEAN /\ runs' = runs /\ red' = red /\ faults' \in 0..MaxFaults
          /\ reported' \subseteq reported /\ killed' \subseteq killed /\ excused' \subseteq excused
      BY <1>1, FaultTyped
      DEF World, Apply, Age, Refresh, Recreate, Recover, Deny, Allow, CountsTyped, history
    <2>2. QED
      BY <1>1, <2>1 DEF CountsTyped
  <1>4. PathsTyped'
    <2>1. /\ path' \in [Database -> Secret]
          /\ \A e \in Database : path'[e].password <= live[e] /\ path'[e].endpoint <= cluster[e]
      <3>1. CASE Age(d)
        <4> DEFINE s == [path[d] EXCEPT !.due = TRUE]
        <4>1. path[d] \in Secret
          BY <1>1 DEF PathsTyped
        <4>2. s \in Secret /\ s.password <= live[d] /\ s.endpoint <= cluster[d]
          BY <1>1, <4>1 DEF Secret, PathsTyped
        <4>3. path' = [path EXCEPT ![d] = s]
          BY <3>1 DEF Age
        <4> HIDE DEF s
        <4>4. QED
          BY <4>2, <4>3, PathTyped
      <3>2. CASE Recover(d)
        <4> DEFINE s == [endpoint |-> NoCluster, password |-> live[d], due |-> FALSE]
        <4>1. s \in Secret /\ s.password <= live[d] /\ s.endpoint <= cluster[d]
          BY WorldGrows DEF Secret, NoCluster
        <4>2. path' = [path EXCEPT ![d] = s]
          BY <3>2 DEF Recover
        <4> HIDE DEF s
        <4>3. QED
          BY <4>1, <4>2, PathTyped
      <3>3. CASE path' = path
        BY <1>1, <3>3 DEF PathsTyped
      <3>4. QED
        BY <3>1, <3>2, <3>3 DEF World, Apply, Refresh, Recreate, Deny, Allow
    <2>2. ASSUME NEW e \in Database
          PROVE  path'[e].password <= live'[e] /\ path'[e].endpoint <= cluster'[e]
      <3>1. path'[e] \in Secret
        BY <2>1
      <3>2. path'[e].password \in Nat /\ path'[e].endpoint \in Nat
        BY <3>1 DEF Secret
      <3>3. QED
        BY <2>1, <3>2, WorldGrows
    <2>3. QED
      BY <2>1, <2>2 DEF PathsTyped
  <1>5. NewInv'
    <2>1. ASSUME NEW j \in Job PROVE job[j].db \in Database /\ job[j].new \in Nat
      BY DEF TypeOK, Run
    <2>2. ASSUME NEW j \in Job, job[j].at = "put" PROVE job[j].new <= live'[job[j].db]
      BY <2>1, <2>2, WorldGrows DEF NewInv
    <2>3. ASSUME NEW j \in Job, NEW e \in Database PROVE job[j].passwords[e] <= live'[e]
      <3>1. job[j].passwords[e] \in Nat
        BY DEF TypeOK, Run
      <3>2. QED
        BY <3>1, WorldGrows DEF NewInv
    <2>4. QED
      BY <1>1, <2>2, <2>3 DEF NewInv
  <1>6. TypeOK'
    BY <1>2, <1>3, <1>4 DEF TypeOK, RunsTyped, CloudTyped, PathsTyped, CountsTyped
  <1>7. QED
    BY <1>5, <1>6

-----------------------------------------------------------------------------
(* Each part of the invariant is kept *)

\* The clusters that a run after a step of its own has read of, with what it rotates,
\* were the same before, or it has just begun.
LEMMA RotatesOn ==
  ASSUME TypeOK, NEW j \in Job, Step(j) \/ Failure(j),
         job'[j].at \in {"reset", "wait", "read", "put"}
  PROVE  \/ /\ job'[j].db = job[j].db /\ job'[j].endpoint = job[j].endpoint
            /\ job'[j].ids = job[j].ids /\ job'[j].queue = job[j].queue
            /\ \/ Reset(j) /\ job[j].at = "reset" /\ job'[j].at = "wait"
               \/ Wait(j) /\ job[j].at = "wait" /\ job'[j].at = "read"
               \/ Read(j) /\ job[j].at = "read" /\ job'[j].at = "put"
         \/ /\ Carry(j) /\ job'[j].at = "reset" /\ job[j].at = "next"
            /\ job'[j].db = First(job[j].queue) /\ job'[j].db \in Database
            /\ job'[j].endpoint = path[job'[j].db].endpoint
            /\ job'[j].ids = job[j].ids /\ job'[j].queue = job[j].queue
            /\ excused' = (IF Rivals(j, job'[j].db) = {} THEN excused ELSE excused \cup {job'[j].db})
  <1>1. CASE Carry(j)
    <2> DEFINE e == First(job[j].queue)
    <2>1. /\ job[j].at = "next" /\ job'[j].at = "reset" /\ job'[j].db = e /\ e \in Database
          /\ job'[j].queue = job[j].queue /\ job'[j].endpoint = path[e].endpoint
          /\ job'[j].ids = job[j].ids
          /\ excused' = (IF Rivals(j, e) = {} THEN excused ELSE excused \cup {e})
      <3> HIDE DEF e
      <3>1. e = First(job[j].queue) /\ job'[j].at # "idle"
        BY DEF e
      <3>2. QED
        BY <1>1, <3>1, CarryOnly DEF SameOutputs
    <2>2. QED
      BY <1>1, <2>1
  <1>2. CASE Reset(j)
    BY <1>2, ResetOnly DEF GoesOn, SameOutputs
  <1>3. CASE Wait(j)
    BY <1>3, WaitOnly DEF GoesOn, SameOutputs
  <1>4. CASE Read(j)
    BY <1>4, ReadOnly DEF GoesOn, SameOutputs
  <1>5. CASE ~Carry(j) /\ ~Reset(j) /\ ~Wait(j) /\ ~Read(j)
    BY <1>5, StartOnly, SeedOnly, RotateNowOnly, PutOnly, EndOnly DEF Step, Failure, Stops
  <1>6. QED
    BY <1>1, <1>2, <1>3, <1>4, <1>5

\* What a job's step may do to a path: nothing, seed it, or store what it has read.
LEMMA JobPath ==
  ASSUME TypeOK, NEW j \in Job, Step(j) \/ Failure(j), NEW d \in Database, path'[d] # path[d]
  PROVE  \/ /\ Seed(j)
            /\ path'[d].endpoint = job[j].ids[d] /\ path'[d].password = job[j].passwords[d]
            /\ Stale(j, d) => d \in excused'
         \/ /\ Put(j) \/ PutLost(j)
            /\ job[j].at = "put" /\ job[j].db = d
            /\ path'[d].endpoint = job[j].endpoint /\ path'[d].password = job[j].new
  <1>1. path \in [Database -> Secret]
    BY DEF TypeOK
  <1>2. Seed(j) \/ Put(j) \/ PutLost(j)
    BY DEF Step, Failure, Start, RotateNow, Carry, Reset, Wait, Read, Finish, Fails, Dies,
           ClusterGone, PutRefused, ResetLost
  <1>3. CASE Seed(j)
    <2>1. First(job[j].queue) = d /\ ~Ours(j, d)
      BY <1>1, <1>3 DEF Seed
    <2>2. QED
      BY <1>1, <1>3, <2>1 DEF Seed
  <1>4. CASE Put(j) \/ PutLost(j)
    BY <1>1, <1>4 DEF Put, PutLost, Store
  <1>5. QED
    BY <1>2, <1>3, <1>4

\* A reset that is accepted.
LEMMA JobPending ==
  ASSUME NEW j \in Job, Step(j) \/ Failure(j), NEW d, d \in pending', d \notin pending
  PROVE  (Reset(j) \/ ResetLost(j)) /\ job[j].db = d /\ job[j].at = "reset" /\ ~Gone(j)
  BY DEF Step, Failure, Start, Seed, RotateNow, Carry, Reset, Wait, Read, Put, Finish,
         Fails, Dies, ClusterGone, PutRefused, ResetLost, PutLost, linode

\* Endpoints: job's steps.
LEMMA EndpointStep ==
  ASSUME TypeOK, EndpointInv, NEW j \in Job, Step(j) \/ Failure(j)
  PROVE  EndpointInv'
  <1>1. /\ cluster' = cluster /\ cluster \in [Database -> Nat] /\ Only(j) /\ job[j] \in Run
        /\ \A d \in Database : path[d].endpoint <= cluster[d]
    BY JobLeavesClusters, JobOnly, OutputsTyped DEF TypeOK
  <1>2. ASSUME NEW d \in Database PROVE job'[j].ids[d] <= cluster[d]
    <2>1. cluster[d] \in Nat /\ job[j].ids[d] <= cluster[d] /\ NoRun.ids[d] = 0
      BY <1>1, NoRunTyped DEF EndpointInv
    <2>2. QED
      BY <2>1, JobOutputs
  <1>3. ASSUME job'[j].at \in {"reset", "wait", "read", "put"}
        PROVE  /\ job'[j].endpoint <= cluster[job'[j].db]
               /\ job'[j].at \in {"wait", "read", "put"} => job'[j].endpoint <= job'[j].ids[job'[j].db]
    <2>1. CASE Carry(j)
      <3>1. job[j].at = "next"
        BY <2>1 DEF Carry
      <3>2. /\ job'[j].at = "reset" /\ job'[j].db \in Database
            /\ job'[j].endpoint = path[job'[j].db].endpoint
        BY <1>3, <3>1, RotatesOn
      <3>3. QED
        BY <1>1, <3>2
    <2>2. CASE Reset(j)
      <3>1. job[j].ids[job[j].db] = cluster[job[j].db]
        BY <2>2 DEF Reset, Gone
      <3>2. QED
        BY <1>1, <1>3, <2>2, <3>1, ResetOnly DEF GoesOn, SameOutputs, EndpointInv
    <2>3. CASE ~Carry(j) /\ ~Reset(j)
      BY <1>1, <1>3, <2>3, RotatesOn DEF EndpointInv
    <2>4. QED
      BY <2>1, <2>2, <2>3
  <1>4. QED
    BY <1>1, <1>2, <1>3 DEF EndpointInv, Only

\* An excuse is withdrawn by the job that stores the live password, alone.
LEMMA ExcuseStays ==
  ASSUME TypeOK, NEW j \in Job, Step(j) \/ Failure(j), NEW d \in excused, d \notin excused'
  PROVE  /\ Put(j) /\ d = job[j].db /\ Rivals(j, d) = {}
         /\ job[j].new = live[d] /\ d \notin pending
  BY DEF Step, Failure, Start, Seed, RotateNow, Carry, Reset, Wait, Read, Put, Finish, Fails,
         Dies, ClusterGone, PutRefused, ResetLost, PutLost, history

\* Rivals: job's steps.
LEMMA RivalStep ==
  ASSUME TypeOK, RivalInv, NEW j \in Job, Step(j) \/ Failure(j)
  PROVE  RivalInv'
  <1>1. Only(j) /\ cluster' = cluster
    BY JobOnly, JobLeavesClusters
  <1>2. ASSUME NEW k \in Job, NEW d \in Database, k # j, Rotates(j, d)', Rotates(k, d)'
        PROVE  d \in excused'
    <2>1. Rotates(k, d)
      BY <1>1, <1>2 DEF Only, Rotates
    <2>2. k \in Rivals(j, d)
      BY <1>2, <2>1 DEF Rivals, Rotates
    <2>3. CASE Carry(j)
      <3>1. job[j].at = "next" /\ job'[j].db = d
        BY <1>2, <2>3 DEF Carry, Rotates
      <3>2. excused' = (IF Rivals(j, d) = {} THEN excused ELSE excused \cup {d})
        BY <1>2, <3>1, RotatesOn DEF Rotates
      <3>3. QED
        BY <2>2, <3>2
    <2>4. CASE ~Carry(j)
      <3>1. Rotates(j, d)
        BY <1>1, <1>2, <2>4, RotatesOn DEF Rotates
      <3>2. QED
        BY <1>2, <2>1, <2>2, <3>1, ExcuseStays DEF RivalInv
    <2>5. QED
      BY <2>3, <2>4
  <1>3. ASSUME NEW k \in Job, NEW l \in Job, NEW d \in Database, k # l, k # j, l # j,
               Rotates(k, d)', Rotates(l, d)'
        PROVE  d \in excused'
    <2>1. Rotates(k, d) /\ Rotates(l, d)
      BY <1>1, <1>3 DEF Only, Rotates
    <2>2. d \in excused /\ k \in Rivals(j, d)
      BY <1>3, <2>1 DEF RivalInv, Rivals, Rotates
    <2>3. QED
      BY <2>2, ExcuseStays
  <1>4. QED
    BY <1>2, <1>3 DEF RivalInv

\* Pairs: job's steps.  The job that reads one finds it live; under any other step of
\* a rival's, a pair that is about to be stored has an excuse.
LEMMA PairStep ==
  ASSUME TypeOK, RivalInv, PairInv, NEW j \in Job, Step(j) \/ Failure(j)
  PROVE  PairInv'
  <1>1. Only(j) /\ live' = live /\ cluster' = cluster
    BY JobOnly, JobLeavesClusters
  <1>2. ASSUME NEW d \in Database, job'[j].at = "put", Rotates(j, d)'
        PROVE  (job'[j].new = live'[d] /\ d \notin pending') \/ d \in excused'
    <2>1. Read(j) /\ job'[j].db = d
      BY <1>2, RotatesOn DEF Rotates
    <2>2. /\ job[j].db = d /\ job'[j].new = live[d] /\ pending' = pending
          /\ excused' = (IF d \in pending THEN excused \cup {d} ELSE excused)
      BY <1>2, <2>1, ReadOnly DEF GoesOn, Read, linode
    <2>3. QED
      BY <1>1, <2>2
  <1>3. ASSUME NEW k \in Job, NEW d \in Database, k # j, job'[k].at = "put", Rotates(k, d)'
        PROVE  (job'[k].new = live'[d] /\ d \notin pending') \/ d \in excused'
    <2>1. job'[k] = job[k] /\ k \in Rivals(j, d) /\ Rotates(k, d)
      BY <1>1, <1>3 DEF Only, Rivals, Rotates
    <2>2. d \in excused => d \in excused'
      BY <2>1, ExcuseStays
    <2>3. CASE d \in pending' /\ d \notin pending
      <3>1. Rotates(j, d)
        BY <2>3, JobPending DEF Rotates, Gone
      <3>2. QED
        BY <1>3, <2>1, <2>2, <3>1 DEF RivalInv
    <2>4. CASE d \in pending' <=> d \in pending
      BY <1>1, <1>3, <2>1, <2>2, <2>4 DEF PairInv
    <2>5. QED
      BY <2>3, <2>4, JobLeavesClusters
  <1>4. QED
    BY <1>2, <1>3 DEF PairInv

\* What a job's step may withdraw: what it has just stored.
LEMMA LeftStays ==
  ASSUME TypeOK, NEW j \in Job, Step(j) \/ Failure(j), NEW d \in Left, d \notin Left'
  PROVE  Put(j) /\ d = job[j].db
  BY DEF Step, Failure, Start, Seed, RotateNow, Carry, Reset, Wait, Read, Put, Finish, Fails,
         Dies, ClusterGone, PutRefused, ResetLost, PutLost, Break, history, Left

\* A run that has reset a database leaves it with an error, without a word, or by a
\* stored secret.
LEMMA ResetEnds ==
  ASSUME TypeOK, NEW j \in Job, Step(j) \/ Failure(j), NEW d \in Database,
         HasReset(j, d), ~HasReset(j, d)'
  PROVE  d \in Left' \/ Put(j)
  <1>1. cluster' = cluster /\ Past(j) /\ job[j].db = d
    BY JobLeavesClusters DEF HasReset, Past, Gone
  <1>2. CASE Step(j) /\ ~Put(j)
    <2>1. Wait(j) \/ Read(j)
      BY <1>2 DEF Step, HasReset, Start, Seed, RotateNow, Carry, Reset, Finish
    <2>2. CASE Wait(j)
      BY <1>1, <2>2, WaitOnly DEF HasReset, GoesOn, SameOutputs
    <2>3. CASE Read(j)
      BY <1>1, <2>3, ReadOnly DEF HasReset, GoesOn, SameOutputs, Left
    <2>4. QED
      BY <2>1, <2>2, <2>3
  <1>3. CASE Failure(j)
    BY <1>1, <1>3 DEF Failure, Fails, Dies, ClusterGone, PutRefused, ResetLost, PutLost, Break, Past, Left
  <1>4. QED
    BY <1>2, <1>3

\* What a run stores for a cluster that has been replaced is for no present one.
LEMMA GonePut ==
  ASSUME TypeOK, EndpointInv, NEW j \in Job, NEW d \in Database,
         job[j].at = "put", job[j].db = d, job[j].endpoint = cluster[d]
  PROVE  Rotates(j, d) /\ HasReset(j, d)
  <1>1. job[j].ids[d] \in Nat /\ job[j].endpoint \in Nat /\ cluster[d] \in Nat
    BY OutputsTyped DEF TypeOK, Run
  <1>2. job[j].ids[d] <= cluster[d] /\ job[j].endpoint <= job[j].ids[d]
    BY DEF EndpointInv
  <1>3. QED
    BY <1>1, <1>2 DEF Rotates, HasReset

\* Losses: job's steps.
LEMMA LostStep ==
  ASSUME TypeOK, EndpointInv, RivalInv, PairInv, LostInv, NEW j \in Job, Step(j) \/ Failure(j)
  PROVE  LostInv'
  <1> SUFFICES ASSUME NEW d \in Database, Lost(d)' PROVE d \in Left' \cup excused'
    BY DEF LostInv, Left
  <1>1. Only(j) /\ live' = live /\ cluster' = cluster
    BY JobOnly, JobLeavesClusters
  <1>2. \A k \in Job \ {j} : ~HasReset(k, d)
    BY <1>1 DEF Lost, HasReset, Only
  <1>3. CASE Put(j) /\ job[j].db = d
    <2>1. /\ path'[d].password = job[j].new /\ path'[d].endpoint = job[j].endpoint
          /\ pending' = pending /\ job[j].at = "put"
      BY <1>3 DEF TypeOK, Put, Store, linode
    <2>2. Rotates(j, d)
      BY <1>1, <1>3, <2>1, GonePut DEF Lost
    <2>3. job[j].new # live[d] \/ d \in pending
      BY <1>1, <2>1 DEF Lost
    <2>4. d \in excused
      BY <2>1, <2>2, <2>3 DEF PairInv
    <2>5. QED
      BY <2>3, <2>4, ExcuseStays
  <1>4. CASE ~(Put(j) /\ job[j].db = d)
    <2>1. d \in Left \cup excused => d \in Left' \cup excused'
      BY <1>4, LeftStays, ExcuseStays
    <2>2. CASE HasReset(j, d)
      <3>1. ~HasReset(j, d)'
        BY DEF Lost
      <3>2. QED
        BY <1>4, <2>2, <3>1, ResetEnds DEF HasReset
    <2>3. CASE ~HasReset(j, d) /\ path'[d] # path[d]
      <3>1. CASE Seed(j) /\ path'[d].endpoint = job[j].ids[d] /\ path'[d].password = job[j].passwords[d]
        <4>1. pending' = pending
          BY <3>1 DEF Seed, linode
        <4>2. Stale(j, d)
          BY <1>1, <3>1, <4>1 DEF Lost, Stale
        <4>3. ~(Put(j) \/ PutLost(j))
          BY <3>1 DEF Seed, Put, PutLost
        <4>4. QED
          BY <2>3, <4>2, <4>3, JobPath
      <3>2. CASE job[j].at = "put" /\ job[j].db = d /\ path'[d].endpoint = job[j].endpoint
        BY <1>1, <2>3, <3>2, GonePut DEF Lost
      <3>3. QED
        BY <2>3, <3>1, <3>2, JobPath
    <2>4. CASE ~HasReset(j, d) /\ path'[d] = path[d] /\ d \in pending' /\ d \notin pending
      <3>1. (Reset(j) \/ ResetLost(j)) /\ job[j].db = d /\ job[j].ids[d] = cluster[d]
        BY <2>4, JobPending DEF Gone
      <3>2. CASE Reset(j)
        <4>1. HasReset(j, d)'
          BY <1>1, <3>1, <3>2, ResetOnly DEF GoesOn, HasReset, SameOutputs
        <4>2. QED
          BY <4>1 DEF Lost
      <3>3. CASE ResetLost(j)
        BY <3>1, <3>3 DEF ResetLost
      <3>4. QED
        BY <3>1, <3>2, <3>3
    <2>5. CASE ~HasReset(j, d) /\ path'[d] = path[d] /\ (d \in pending' => d \in pending)
      <3>1. Lost(d)
        BY <1>1, <1>2, <2>5 DEF Lost
      <3>2. QED
        BY <2>1, <3>1 DEF LostInv, Left
    <2>6. QED
      BY <2>2, <2>3, <2>4, <2>5
  <1>5. QED
    BY <1>3, <1>4

\* A name is left behind by a run that ends red.
LEMMA LeftCounted ==
  ASSUME TypeOK, NEW j \in Job, Step(j) \/ Failure(j)
  PROVE  \/ Left' \subseteq Left /\ red' \in {red, red + 1}
         \/ Left' = Left \cup {job[j].db} /\ red' = red + 1
  BY DEF Step, Failure, Start, Seed, RotateNow, Carry, Reset, Wait, Read, Put, Finish, Fails,
         Dies, ClusterGone, PutRefused, ResetLost, PutLost, Break, history, Left

\* Fewer names are no more than before.
LEMMA FewerLeft ==
  ASSUME TypeOK, CountInv, Left' \subseteq Left, red' \in {red, red + 1}
  PROVE  CountInv'
  <1>1. IsFiniteSet(Left') /\ Cardinality(Left') <= Cardinality(Left)
    BY FS_Subset DEF CountInv
  <1>2. Cardinality(Left') \in Nat /\ Cardinality(Left) \in Nat /\ red \in Nat
    BY <1>1, FS_CardinalityType DEF CountInv, TypeOK
  <1>3. QED
    BY <1>1, <1>2 DEF CountInv

\* Counts: job's steps.
LEMMA CountStep ==
  ASSUME TypeOK, CountInv, NEW j \in Job, Step(j) \/ Failure(j)
  PROVE  CountInv'
  <1>1. CASE Left' \subseteq Left /\ red' \in {red, red + 1}
    BY <1>1, FewerLeft
  <1>2. CASE Left' = Left \cup {job[j].db} /\ red' = red + 1
    <2>1. /\ IsFiniteSet(Left')
          /\ Cardinality(Left') = Cardinality(Left) \/ Cardinality(Left') = Cardinality(Left) + 1
      BY <1>2, FS_AddElement DEF CountInv
    <2>2. Cardinality(Left) \in Nat /\ red \in Nat
      BY FS_CardinalityType DEF CountInv, TypeOK
    <2>3. QED
      BY <1>2, <2>1, <2>2 DEF CountInv
  <1>3. QED
    BY <1>1, <1>2, LeftCounted

\* What is burnt stays so under a job's step.
LEMMA BurntStays ==
  ASSUME NEW j \in Job, Step(j) \/ Failure(j), NEW d \in Database, Burnt(d)
  PROVE  Burnt(d)'
  BY JobLeavesClusters DEF Burnt

\* What bootstrap j owes of d: that it has finished with it, or has reset it.
Owes(j, d) ==
  \/ /\ job[j].at \in {"next", "reset", "wait", "read", "put"} /\ d \notin job[j].queue
     /\ job[j].ids[d] = cluster[d]
  \/ HasReset(j, d)

\* Burnt databases: job's steps.
LEMMA BurntStep ==
  ASSUME TypeOK, BurntInv, NEW j \in Job, Step(j) \/ Failure(j)
  PROVE  BurntInv'
  <1>1. Only(j) /\ cluster' = cluster
    BY JobOnly, JobLeavesClusters
  <1>2. ASSUME NEW k \in Bootstrap, NEW d \in Database, Owes(k, d)'
        PROVE  Burnt(d)'
    <2>1. CASE Owes(k, d)
      <3>1. Burnt(d)
        BY <2>1 DEF BurntInv, Owes
      <3>2. QED
        BY <3>1, BurntStays
    <2>2. CASE ~Owes(k, d)
      <3>1. k = j
        BY <1>1, <1>2, <2>2, JobAssumption DEF Only, Owes, HasReset
      <3>2. CASE Reset(j)
        <4>1. d = job[j].db
          BY <1>1, <1>2, <2>2, <3>1, <3>2, ResetOnly DEF GoesOn, SameOutputs, Owes, HasReset
        <4>2. QED
          BY <3>2, <4>1 DEF Reset, Burnt
      <3>3. CASE Carry(j)
        BY <1>1, <1>2, <2>2, <3>1, <3>3, CarryOnly DEF SameOutputs, Owes, HasReset
      <3>4. CASE Wait(j)
        BY <1>1, <1>2, <2>2, <3>1, <3>4, WaitOnly DEF GoesOn, SameOutputs, Owes, HasReset
      <3>5. CASE Read(j)
        BY <1>1, <1>2, <2>2, <3>1, <3>5, ReadOnly DEF GoesOn, SameOutputs, Owes, HasReset
      <3>6. CASE Put(j)
        BY <1>1, <1>2, <2>2, <3>1, <3>6, PutOnly DEF Owes, HasReset
      <3>7. CASE RotateNow(j)
        BY <1>2, <3>1, <3>7, RotateNowOnly DEF Owes, HasReset
      <3>8. CASE Start(j) \/ Seed(j) \/ Stops(j)
        <4>1. job'[j].at \in {"idle", "seed"}
          BY <3>1, <3>8, StartOnly, SeedOnly, EndOnly
        <4>2. QED
          BY <1>2, <3>1, <4>1 DEF Owes, HasReset
      <3>9. QED
        BY <3>2, <3>3, <3>4, <3>5, <3>6, <3>7, <3>8 DEF Step, Failure, Stops
    <2>3. QED
      BY <2>1, <2>2
  <1>3. QED
    BY <1>2 DEF BurntInv, Owes

-----------------------------------------------------------------------------
(* The steps of the others *)

\* A cluster that is not Terraform's to replace just now stays.
LEMMA SameCluster ==
  ASSUME TypeOK, NEW d \in Database, World(d), NEW e \in Database
  PROVE  \/ cluster'[e] = cluster[e] /\ (e \in excused => e \in excused')
         \/ /\ Recreate(d) /\ e = d /\ cluster'[e] = cluster[e] + 1 /\ path' = path
            /\ cluster[e] \in Nat
  <1>1. cluster \in [Database -> Nat]
    BY OutputsTyped
  <1>2. CASE Recreate(d)
    BY <1>1, <1>2 DEF Recreate
  <1>3. CASE ~Recreate(d)
    BY <1>3 DEF World, Apply, Age, Refresh, Recover, Deny, Allow, linode, history
  <1>4. QED
    BY <1>2, <1>3

\* No run has read of a cluster that has just been created.
LEMMA Replaced ==
  ASSUME TypeOK, EndpointInv, NEW d \in Database, World(d), NEW e \in Database, NEW j \in Job,
         job[j].ids[e] = cluster'[e]
  PROVE  cluster'[e] = cluster[e] /\ (e \in excused => e \in excused')
  <1>1. job[j].ids[e] \in Nat /\ job[j].ids[e] <= cluster[e]
    BY DEF TypeOK, Run, EndpointInv
  <1>2. QED
    BY <1>1, SameCluster

\* A password that is live, on the same cluster, changes only by a reset that was pending.
LEMMA SamePassword ==
  ASSUME TypeOK, NEW d \in Database, World(d), NEW e \in Database, cluster'[e] = cluster[e]
  PROVE  /\ provisioned'[e] = provisioned[e]
         /\ \/ live'[e] = live[e] /\ (e \in pending' <=> e \in pending)
            \/ e \in pending /\ live'[e] = live[e] + 1
  <1>1. cluster \in [Database -> Nat] /\ CloudTyped
    BY OutputsTyped, TypeParts
  <1>2. CASE Recreate(d)
    <2>1. e # d
      BY <1>1, <1>2 DEF Recreate
    <2>2. QED
      BY <1>1, <1>2, <2>1 DEF Recreate, CloudTyped
  <1>3. CASE Apply(d)
    BY <1>1, <1>3 DEF Apply, CloudTyped
  <1>4. CASE ~Recreate(d) /\ ~Apply(d)
    BY <1>4 DEF World, Age, Refresh, Recover, Deny, Allow, linode
  <1>5. QED
    BY <1>2, <1>3, <1>4

\* They keep the rest of the invariant.
LEMMA WorldStep ==
  ASSUME IInv, NEW d \in Database, World(d)
  PROVE  EndpointInv' /\ RivalInv' /\ PairInv' /\ LostInv' /\ CountInv' /\ BurntInv'
  <1>0. /\ job' = job /\ TypeOK
        /\ EndpointInv /\ RivalInv /\ PairInv /\ LostInv /\ CountInv /\ BurntInv
    BY WorldLeavesRuns DEF IInv
  <1>1. EndpointInv'
    <2>1. ASSUME NEW j \in Job PROVE job[j] \in Run /\ job[j].db \in Database
      BY <1>0 DEF TypeOK, Run
    <2>2. ASSUME NEW j \in Job, NEW e \in Database PROVE job[j].ids[e] <= cluster'[e]
      <3>1. job[j].ids[e] \in Nat
        BY <2>1 DEF Run
      <3>2. QED
        BY <1>0, <3>1, WorldGrows DEF EndpointInv
    <2>3. ASSUME NEW j \in Job, job[j].at \in {"reset", "wait", "read", "put"}
          PROVE  job[j].endpoint <= cluster'[job[j].db]
      <3>1. job[j].endpoint \in Nat
        BY <2>1 DEF Run
      <3>2. QED
        BY <1>0, <2>1, <2>3, <3>1, WorldGrows DEF EndpointInv
    <2>4. QED
      BY <1>0, <2>2, <2>3 DEF EndpointInv
  <1>2. ASSUME NEW j \in Job, NEW e \in Database, Rotates(j, e)'
        PROVE  Rotates(j, e) /\ cluster'[e] = cluster[e] /\ (e \in excused => e \in excused')
    BY <1>0, <1>2, Replaced DEF Rotates
  <1>3. RivalInv'
    <2> SUFFICES ASSUME NEW j \in Job, NEW k \in Job, NEW e \in Database,
                        j # k, Rotates(j, e)', Rotates(k, e)'
                 PROVE  e \in excused'
      BY DEF RivalInv
    <2>1. QED
      BY <1>0, <1>2 DEF RivalInv
  <1>4. PairInv'
    <2> SUFFICES ASSUME NEW j \in Job, NEW e \in Database, job'[j].at = "put", Rotates(j, e)'
                 PROVE  (job'[j].new = live'[e] /\ e \notin pending') \/ e \in excused'
      BY DEF PairInv
    <2>1. Rotates(j, e) /\ cluster'[e] = cluster[e] /\ (e \in excused => e \in excused')
      BY <1>2
    <2>2. (job[j].new = live[e] /\ e \notin pending) \/ e \in excused
      BY <1>0, <2>1 DEF PairInv
    <2>3. QED
      BY <1>0, <2>1, <2>2, SamePassword
  <1>5. CountInv'
    <2>1. Left' \subseteq Left /\ red' = red
      BY DEF World, Apply, Age, Refresh, Recreate, Recover, Deny, Allow, history, Left
    <2>2. QED
      BY <1>0, <2>1, FewerLeft
  <1>6. BurntInv'
    <2> SUFFICES ASSUME NEW j \in Bootstrap, NEW e \in Database, Owes(j, e)' PROVE Burnt(e)'
      BY DEF BurntInv, Owes
    <2>1. j \in Job /\ job[j].ids[e] = cluster'[e]
      BY <1>0, JobAssumption DEF Owes, HasReset
    <2>2. cluster'[e] = cluster[e]
      BY <1>0, <2>1, Replaced
    <2>3. Burnt(e)
      BY <1>0, <2>2 DEF BurntInv, Owes, HasReset
    <2>4. live[e] \in Nat /\ provisioned[e] \in Nat /\ provisioned[e] <= live[e]
      BY <1>0 DEF TypeOK
    <2>5. QED
      BY <1>0, <2>2, <2>3, <2>4, SamePassword DEF Burnt
  <1>7. LostInv'
    <2> SUFFICES ASSUME NEW e \in Database, Lost(e)' PROVE e \in Left' \cup excused'
      BY DEF LostInv, Left
    <2>1. path[e].endpoint \in Nat /\ path[e].endpoint <= cluster[e]
          /\ path \in [Database -> Secret] /\ cluster[e] \in Nat \ {0}
      BY <1>0, Bounds DEF TypeOK, Secret
    <2>2. cluster'[e] = cluster[e] /\ (e \in excused => e \in excused')
      BY <1>0, <2>1, SameCluster DEF Lost
    <2>3. ~(Recover(d) /\ e = d)
      BY <2>1, <2>2 DEF Recover, Lost, NoCluster
    <2>4. path'[e].endpoint = path[e].endpoint /\ path'[e].password = path[e].password
      BY <2>1, <2>3 DEF World, Apply, Age, Refresh, Recreate, Recover, Deny, Allow, Secret
    <2>5. Lost(e)
      BY <1>0, <2>2, <2>4, SamePassword DEF Lost, HasReset
    <2>6. e \in Left => e \in Left'
      <3>1. ~(Recreate(d) /\ e = d)
        BY <1>0, <2>1, <2>2, OutputsTyped DEF Recreate
      <3>2. QED
        BY <2>3, <3>1 DEF World, Apply, Age, Refresh, Recreate, Recover, Deny, Allow, history, Left
    <2>7. QED
      BY <1>0, <2>2, <2>5, <2>6 DEF LostInv, Left
  <1>8. QED
    BY <1>1, <1>3, <1>4, <1>5, <1>6, <1>7

-----------------------------------------------------------------------------
(* Theorems *)

\* The invariant holds to begin with: nothing is stored, and nothing runs.
LEMMA InitIInv == Init => IInv
  <1> SUFFICES ASSUME Init PROVE IInv
    OBVIOUS
  <1>1. \A j \in Job : job[j] = NoRun
    BY DEF Init
  <1>2. RunsTyped
    BY <1>1, NoRunTyped DEF Init, RunsTyped
  <1>3. CloudTyped
    BY Bounds DEF Init, CloudTyped
  <1>4. PathsTyped
    <2>1. NoSecret \in Secret /\ NoSecret.password = 0 /\ NoSecret.endpoint = 0
      BY DEF NoSecret, Secret, NoPassword, NoCluster
    <2>2. QED
      BY <2>1 DEF Init, PathsTyped
  <1>5. TypeOK
    BY <1>2, <1>3, <1>4, TypeParts, Bounds DEF Init, CountsTyped
  <1>6. /\ RivalInv /\ PairInv /\ BurntInv
    BY <1>1, NoRunTyped, JobAssumption DEF RivalInv, PairInv, BurntInv, Rotates, HasReset
  <1>7. NewInv /\ EndpointInv
    BY <1>1, NoRunTyped DEF Init, NewInv, EndpointInv
  <1>8. LostInv
    BY DEF Init, NoSecret, NoCluster, LostInv, Lost
  <1>9. CountInv
    <2>1. Left = {} /\ red = 0
      BY DEF Init, Left
    <2>2. QED
      BY <2>1, FS_EmptySet DEF CountInv
  <1>10. QED
    BY <1>5, <1>6, <1>7, <1>8, <1>9 DEF IInv

\* Every step keeps it.
LEMMA NextIInv == IInv /\ [Next]_vars => IInv'
  <1> SUFFICES ASSUME IInv, [Next]_vars PROVE IInv'
    OBVIOUS
  <1>1. ASSUME NEW j \in Job, Step(j) \/ Failure(j) PROVE IInv'
    <2>1. TypeOK /\ NewInv /\ EndpointInv
      BY DEF IInv
    <2>2. RunsTyped' /\ CloudTyped' /\ PathsTyped' /\ CountsTyped' /\ NewInv'
      BY <1>1, <2>1, RunsStep, CloudStep, PathsStep, CountsStep, NewStep
    <2>3. TypeOK'
      BY <2>2 DEF TypeOK, RunsTyped, CloudTyped, PathsTyped, CountsTyped
    <2>4. EndpointInv' /\ RivalInv' /\ PairInv' /\ LostInv' /\ CountInv' /\ BurntInv'
      BY <1>1, EndpointStep, RivalStep, PairStep, LostStep, CountStep, BurntStep DEF IInv
    <2>5. QED
      BY <2>2, <2>3, <2>4 DEF IInv
  <1>2. ASSUME NEW d \in Database, World(d) PROVE IInv'
    <2>1. TypeOK' /\ NewInv'
      BY <1>2, WorldTyped DEF IInv
    <2>2. QED
      BY <1>2, <2>1, WorldStep DEF IInv
  <1>3. CASE UNCHANGED vars
    BY <1>3 DEF vars, linode, history, IInv, TypeOK, NewInv, EndpointInv, RivalInv, PairInv, LostInv,
                Lost, CountInv, Left, BurntInv, Burnt, Rotates, HasReset
  <1>4. CASE Next
    BY <1>1, <1>2, <1>4, DatabaseAssumption DEF Next, World
  <1>5. QED
    BY <1>3, <1>4

\* Whatever the databases and the jobs, a run is at a place of its own program, with a
\* database of its queue that has been seeded (rotateOneDBAdmin), and nothing stored is
\* still to be issued.
THEOREM TypeCorrect == Spec => []TypeOK
  <1>1. IInv => TypeOK
    BY DEF IInv
  <1>2. QED
    BY <1>1, InitIInv, NextIInv, PTL DEF Spec

\* A dead password that no run is about to replace is lost.
LEMMA LossIsLeft == IInv => LossReported
  BY DEF IInv, LostInv, Lost, HasReset, LossReported, Dead, Working, Past, Gone

\* Whatever the databases and the jobs, and wherever a run fails, is cut off or meets
\* Terraform, a stored password that is dead has an error to its name, or the run that
\* reset it was cut off and could return none, or it has one of the four excuses.
THEOREM ReportedSafe == Spec => []LossReported
  BY LossIsLeft, InitIInv, NextIInv, PTL DEF Spec

\* Whatever the databases and the jobs, no run that ends red, be it by an error or cut
\* off, loses more than one credential.
THEOREM ContainedSafe == Spec => []LossContained
  <1>1. ASSUME IInv PROVE LossContained
    <2> DEFINE lost == {d \in Database : Dead(d) /\ ~Working(d)} \ excused
    <2>1. lost \subseteq Left
      BY <1>1, LossIsLeft DEF LossReported, Left
    <2>2. IsFiniteSet(Left) /\ Cardinality(Left) <= red /\ red \in Nat
      BY <1>1 DEF IInv, CountInv, TypeOK
    <2>3. /\ IsFiniteSet(lost) /\ Cardinality(lost) <= Cardinality(Left)
          /\ Cardinality(lost) \in Nat /\ Cardinality(Left) \in Nat
      BY <2>1, <2>2, FS_Subset, FS_CardinalityType
    <2>4. QED
      BY <2>2, <2>3 DEF LossContained
  <1>2. QED
    BY <1>1, InitIInv, NextIInv, PTL DEF Spec

\* Whatever the databases and the jobs, and however Terraform runs beside them, a
\* bootstrap that ends well has burnt the provisioning password of every cluster that
\* it has read of and that is still there.
THEOREM BurntSafe == Spec => ProvisioningBurnt
  <1> DEFINE A == \A j \in Bootstrap : Finish(j) =>
                    \A d \in Database : job[j].ids[d] = cluster[d] => provisioned[d] # live[d] \/ d \in pending
  <1>1. IInv => A
    BY DEF IInv, BurntInv, Burnt, Finish
  <1>2. IInv => [A]_vars
    BY <1>1
  <1>3. QED
    BY <1>2, InitIInv, NextIInv, PTL DEF Spec, ProvisioningBurnt
=============================================================================
