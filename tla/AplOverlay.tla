------------------------------ MODULE AplOverlay ------------------------------
(***************************************************************************)
(* The apl-overlay lane (tools/internal/shared/apl/overlay/overlay.go) and *)
(* its commits through GitHub's git-data API                               *)
(* (tools/internal/shared/ghgitdata/gitdata.go).                           *)
(*                                                                         *)
(* A pass reads LLZ's overlay and, file by file, the machine branch, works *)
(* out the content of every file that differs, and commits them in one     *)
(* fast-forward.  apl-operator pushes to the same branch.  A push that     *)
(* comes between a file's read and the commit is not in what is committed. *)
(***************************************************************************)
EXTENDS Naturals

CONSTANTS
  Replica,      \* processes that run the lane; leaders may overlap
  Merged,       \* co-written files, in which LLZ owns some keys
  Team,         \* a team's file, which LLZ creates and then leaves alone
  MaxAttempts,  \* attempts of one commit
  MaxPushes,    \* bound: pushes of apl-operator and the Console
  MaxCreds,     \* bound: object-storage keys
  MaxFaults     \* bound: calls that fail

ASSUME FileAssumption == Team \notin Merged
ASSUME BoundAssumption ==
  MaxAttempts \in Nat \ {0} /\ MaxPushes \in Nat /\ MaxCreds \in Nat /\ MaxFaults \in Nat

VARIABLES
  exists,  \* apl-operator has made the branch
  theirs,  \* in each file, the latest push of the others: its number, or 0
  ours,    \* files that say what LLZ wants said
  obj,     \* access key id in obj.yaml, 0 for a file that is not LLZ's
  cred,    \* access key id in OpenBao, 0 before it is seeded
  pass,    \* each replica's pass
  pushes, faults

branch == <<exists, theirs, ours, obj>>
vars == <<branch, cred, pass, pushes, faults>>

File == Merged \cup {Team}

\* write are the files to commit, base what was read in them, id the key to
\* write to obj.yaml.  moved: the head read last is no longer the head.
\* History: began counts the pushes before the pass, crossed says that another
\* replica has committed since.
Pass == [at : {"idle", "read", "head", "update"}, todo : SUBSET File, cred : BOOLEAN,
         write : SUBSET File, base : [File -> 0..MaxPushes], id : 0..MaxCreds,
         attempt : 0..MaxAttempts - 1, moved : BOOLEAN,
         began : 0..MaxPushes, crossed : BOOLEAN]

TypeOK ==
  /\ exists \in BOOLEAN
  /\ theirs \in [File -> 0..MaxPushes]
  /\ ours \subseteq File
  /\ \A f \in Merged : theirs[f] = 0 => f \notin ours
  /\ theirs[Team] # 0 => Team \notin ours
  /\ obj \in 0..MaxCreds
  /\ cred \in 0..MaxCreds
  /\ pass \in [Replica -> Pass]
  /\ \A f \in File : theirs[f] <= pushes
  /\ pushes \in 0..MaxPushes
  /\ faults \in 0..MaxFaults

Idle == [at |-> "idle", todo |-> {}, cred |-> FALSE, write |-> {}, base |-> [f \in File |-> 0],
         id |-> 0, attempt |-> 0, moved |-> FALSE, began |-> 0, crossed |-> FALSE]

\* First boot, where neither the branch nor the key is there, or a branch that
\* apl-operator has filled.
Init ==
  /\ exists = FALSE
  /\ theirs = [f \in File |-> 0]
  /\ ours = {} /\ obj = 0 /\ cred = 0
  /\ pass = [r \in Replica |-> Idle]
  /\ pushes = 0 /\ faults = 0

Become(r, p) == pass' = [pass EXCEPT ![r] = p]

-----------------------------------------------------------------------------
(* Working out the files: Reconcile *)

Begin(r) ==
  /\ pass[r].at = "idle"
  /\ Become(r, [Idle EXCEPT !.at = "read", !.todo = File, !.cred = TRUE, !.began = pushes])
  /\ UNCHANGED <<branch, cred, pushes, faults>>

\* A plausible bug: obj.yaml, too, is only created.
ReadCredUnlessPresent(r) ==
  /\ pass[r].at = "read" /\ pass[r].cred
  /\ Become(r, [pass[r] EXCEPT !.cred = FALSE, !.id = IF obj = 0 THEN cred ELSE 0])
  /\ UNCHANGED <<branch, cred, pushes, faults>>

\* Without a key in OpenBao, obj.yaml is left out.
ReadCred(r) ==
  /\ pass[r].at = "read" /\ pass[r].cred
  /\ Become(r, [pass[r] EXCEPT !.cred = FALSE, !.id = cred])
  /\ UNCHANGED <<branch, cred, pushes, faults>>

\* A plausible bug: a file that apl-operator has not made yet is made.
WantedAnyway(f) == f \notin ours /\ (f = Team => theirs[f] = 0)

\* A co-written file is merged into when it is there and LLZ's keys differ, a
\* team's is created when it is not there.
Wanted(f) == f \notin ours /\ (theirs[f] = 0 <=> f = Team)

Read(r) ==
  /\ pass[r].at = "read" /\ ~pass[r].cred
  /\ \E f \in pass[r].todo :
       Become(r, IF Wanted(f)
                 THEN [pass[r] EXCEPT !.todo = @ \ {f}, !.write = @ \cup {f}, !.base[f] = theirs[f]]
                 ELSE [pass[r] EXCEPT !.todo = @ \ {f}])
  /\ UNCHANGED <<branch, cred, pushes, faults>>

-----------------------------------------------------------------------------
(* Committing them: OverlayCommit *)

Prepared(r) ==
  \/ pass[r].at = "head"
  \/ pass[r].at = "read" /\ pass[r].todo = {} /\ ~pass[r].cred

InPlace(p) ==
  /\ p.id \in {0, obj}
  /\ p.write \subseteq ours /\ \A f \in p.write : theirs[f] = p.base[f]

\* A plausible bug: the tree is not compared with the head's.
HeadUncompared(r) ==
  /\ Prepared(r)
  /\ Become(r, IF ~exists THEN Idle ELSE [pass[r] EXCEPT !.at = "update", !.moved = FALSE])
  /\ UNCHANGED <<branch, cred, pushes, faults>>

\* Read the head and build tree and commit upon it.  Nothing to write is as good
\* as written.
Head(r) ==
  /\ Prepared(r)
  /\ Become(r, IF ~exists \/ InPlace(pass[r]) THEN Idle
               ELSE [pass[r] EXCEPT !.at = "update", !.moved = FALSE])
  /\ UNCHANGED <<branch, cred, pushes, faults>>

\* The head has moved for every other pass that has read it.
Unsettled(r) ==
  [q \in Replica |-> IF q = r \/ pass[q].at = "idle" THEN pass[q]
                     ELSE [pass[q] EXCEPT !.moved = (pass[q].at = "update"), !.crossed = TRUE]]

\* A plausible bug: the tree is made without base_tree.
CommitReplacing(r) ==
  /\ pass[r].at = "update" /\ ~pass[r].moved
  /\ theirs' = [f \in File |-> IF f \in pass[r].write THEN pass[r].base[f] ELSE 0]
  /\ ours' = pass[r].write
  /\ obj' = pass[r].id
  /\ pass' = [Unsettled(r) EXCEPT ![r] = Idle]
  /\ UNCHANGED <<exists, cred, pushes, faults>>

\* The fast-forward succeeds: what the pass read is written back with LLZ's keys,
\* and every other file is the head's.
Land(r) ==
  /\ pass[r].at = "update" /\ ~pass[r].moved
  /\ theirs' = [f \in File |-> IF f \in pass[r].write THEN pass[r].base[f] ELSE theirs[f]]
  /\ ours' = ours \cup pass[r].write
  /\ obj' = (IF pass[r].id = 0 THEN obj ELSE pass[r].id)
  /\ pass' = [Unsettled(r) EXCEPT ![r] = Idle]
  /\ UNCHANGED <<exists, cred, pushes>>

Commit(r) == Land(r) /\ UNCHANGED faults

\* It succeeds, and its answer is lost: for the lane, the pass has failed.
CommitLost(r) ==
  /\ faults < MaxFaults /\ faults' = faults + 1
  /\ Land(r)

\* It is refused: the head is read again, the files are not.
Refused(r) ==
  /\ pass[r].at = "update" /\ pass[r].moved
  /\ Become(r, IF pass[r].attempt + 1 >= MaxAttempts THEN Idle
               ELSE [pass[r] EXCEPT !.at = "head", !.attempt = @ + 1, !.moved = FALSE])
  /\ UNCHANGED <<branch, cred, pushes, faults>>

\* A call fails and ends the pass.
Fail(r) ==
  /\ pass[r].at # "idle"
  /\ faults < MaxFaults /\ faults' = faults + 1
  /\ Become(r, Idle)
  /\ UNCHANGED <<branch, cred, pushes>>

-----------------------------------------------------------------------------
(* The others *)

\* The head has moved for every pass that has read it.
Moved == [q \in Replica |-> [pass[q] EXCEPT !.moved = (pass[q].at = "update")]]

Push == pushes < MaxPushes /\ pushes' = pushes + 1 /\ pass' = Moved

\* apl-operator makes the branch, with the files it has by then.
MakeBranch ==
  /\ ~exists /\ exists' = TRUE
  /\ Push
  /\ \E fs \in SUBSET Merged : theirs' = [f \in File |-> IF f \in fs THEN pushes + 1 ELSE 0]
  /\ UNCHANGED <<ours, obj, cred, faults>>

\* It writes a file of its own: LLZ's keys stay or are lost.
PushFile ==
  /\ exists /\ Push
  /\ \E f \in File :
       /\ theirs' = [theirs EXCEPT ![f] = pushes + 1]
       /\ ours' \in IF f = Team THEN {ours \ {f}} ELSE {ours, ours \ {f}}
  /\ UNCHANGED <<exists, obj, cred, faults>>

\* It repopulates obj.yaml.
PushObj ==
  /\ exists /\ Push
  /\ obj' = 0
  /\ UNCHANGED <<exists, theirs, ours, cred, faults>>

\* The key is seeded, or rotated.
NewCred ==
  /\ cred < MaxCreds /\ cred' = cred + 1
  /\ UNCHANGED <<branch, pass, pushes, faults>>

-----------------------------------------------------------------------------

Step(r) ==
  Begin(r) \/ ReadCred(r) \/ Read(r) \/ Head(r) \/ Commit(r) \/ Refused(r)

Next ==
  \/ \E r \in Replica : Step(r) \/ CommitLost(r) \/ Fail(r)
  \/ MakeBranch \/ PushFile \/ PushObj \/ NewCred

Spec == Init /\ [][Next]_vars

\* The lane has a resync ticker and a pass goes on; nobody has to push.
FairSpec == Spec /\ \A r \in Replica : WF_vars(Step(r))

-----------------------------------------------------------------------------
(* Properties *)

Commits(r) == pass[r].at = "update" /\ pass'[r] = Idle

\* "Letting this reconciler and apl-operator share the branch without clobbering
\* each other" (overlay.go:5-8) has an exact limit: a push is undone only in a
\* file that the pass itself writes, and only if it came after that pass began,
\* or another replica's commit did.
LossIsRecent ==
  [][\A f \in File :
       theirs'[f] < theirs[f] =>
         \E r \in Replica :
           /\ Commits(r) /\ f \in pass[r].write
           /\ theirs[f] > pass[r].began \/ pass[r].crossed]_vars

\* Whatever was refused, undone or repopulated on the way: in the end the branch
\* has the current key, LLZ's keys in every co-written file, and the team.
Delivered ==
  <>[](exists => /\ cred # 0 => obj = cred
                 /\ \A f \in File : ~Wanted(f))

\* "The reconciler never churns against apl-operator" (overlay.go:320-323): once
\* nobody else pushes, neither does the lane.
QuietWhenSynced == <>[](\A r \in Replica : pass[r].at # "update")
=============================================================================
