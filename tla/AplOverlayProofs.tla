--------------------------- MODULE AplOverlayProofs ---------------------------
(***************************************************************************)
(* What the apl-overlay lane can undo of the others' pushes.               *)
(*                                                                         *)
(* A pass commits what it has read, so a push is undone only if it came in *)
(* between.  BaseInv says this file by file: as long as no other replica   *)
(* has committed, what a pass read in a file is its latest push from       *)
(* before the pass, or there has been one since the pass began.            *)
(*                                                                         *)
(* The last part says when it commits nothing at all.                      *)
(***************************************************************************)
EXTENDS AplOverlay, TLAPS

\* A pass writes a co-written file that was there, and a team's that was not.
WriteInv ==
  \A r \in Replica :
    /\ pass[r].at = "idle" => pass[r].write = {}
    /\ \A f \in pass[r].write :
         pass[r].base[f] <= pushes /\ (pass[r].base[f] = 0 <=> f = Team)

\* Nothing is on a branch that does not exist, and nothing is committed to it.
BranchInv ==
  ~exists => /\ \A f \in File : theirs[f] = 0
             /\ \A r \in Replica : pass[r].at # "update"

BaseInv ==
  \A r \in Replica :
    /\ pass[r].began <= pushes
    /\ \A f \in pass[r].write :
         ~pass[r].crossed /\ theirs[f] <= pass[r].began => pass[r].base[f] = theirs[f]

Inv == TypeOK /\ WriteInv /\ BranchInv /\ BaseInv

-----------------------------------------------------------------------------
(* Types *)

\* An idle pass is a pass.
LEMMA IdleTyped == Idle \in Pass
  BY BoundAssumption DEF Idle, Pass

\* Passes stay passes when one of them becomes another.
LEMMA BecomeTyped ==
  ASSUME pass \in [Replica -> Pass], NEW r \in Replica, NEW p \in Pass, Become(r, p)
  PROVE  pass' \in [Replica -> Pass]
  BY DEF Become

\* What a commit and a push do to the other passes leaves them passes.
LEMMA UnsettledTyped ==
  ASSUME pass \in [Replica -> Pass], NEW r \in Replica
  PROVE  Unsettled(r) \in [Replica -> Pass] /\ Moved \in [Replica -> Pass]
  <1>1. ASSUME NEW p \in Pass, NEW b \in BOOLEAN, NEW c \in BOOLEAN
        PROVE  [p EXCEPT !.moved = b, !.crossed = c] \in Pass /\ [p EXCEPT !.moved = b] \in Pass
    BY DEF Pass
  <1>2. ASSUME NEW q \in Replica
        PROVE  Unsettled(r)[q] \in Pass /\ Moved[q] \in Pass
    <2>1. pass[q] \in Pass /\ (pass[q].at = "update") \in BOOLEAN
      OBVIOUS
    <2>2. Moved[q] \in Pass
      BY <1>1, <2>1 DEF Moved
    <2>3. Unsettled(r)[q] \in Pass
      BY <1>1, <2>1 DEF Unsettled
    <2>4. QED
      BY <2>2, <2>3
  <1>3. QED
    BY <1>2 DEF Unsettled, Moved

\* The steps of a pass before its commit.
LEMMA StepTyped ==
  ASSUME TypeOK, NEW r \in Replica,
         Begin(r) \/ ReadCred(r) \/ Read(r) \/ Head(r) \/ Refused(r) \/ Fail(r)
  PROVE  pass' \in [Replica -> Pass]
  <1>1. pass \in [Replica -> Pass] /\ pass[r] \in Pass
    BY DEF TypeOK
  <1>2. CASE Begin(r)
    <2>1. pushes \in 0..MaxPushes
      BY DEF TypeOK
    <2>2. [Idle EXCEPT !.at = "read", !.todo = File, !.cred = TRUE, !.began = pushes] \in Pass
      BY <2>1, IdleTyped DEF Pass
    <2>3. QED
      BY <1>1, <1>2, <2>2, BecomeTyped DEF Begin
  <1>3. CASE ReadCred(r)
    <2>1. [pass[r] EXCEPT !.cred = FALSE, !.id = cred] \in Pass
      BY <1>1 DEF Pass, TypeOK
    <2>2. QED
      BY <1>1, <1>3, <2>1, BecomeTyped DEF ReadCred
  <1>4. CASE Read(r)
    <2>1. PICK f \in pass[r].todo :
            Become(r, IF Wanted(f)
                      THEN [pass[r] EXCEPT !.todo = @ \ {f}, !.write = @ \cup {f},
                                           !.base[f] = theirs[f]]
                      ELSE [pass[r] EXCEPT !.todo = @ \ {f}])
      BY <1>4 DEF Read
    <2>2. f \in File /\ theirs[f] \in 0..MaxPushes
      BY <1>1 DEF Pass, TypeOK
    <2>3. pass[r].base \in [File -> 0..MaxPushes]
      BY <1>1 DEF Pass
    <2>4. [pass[r].base EXCEPT ![f] = theirs[f]] \in [File -> 0..MaxPushes]
      BY <2>2, <2>3
    <2>5. [pass[r] EXCEPT !.todo = @ \ {f}, !.write = @ \cup {f}, !.base[f] = theirs[f]] \in Pass
      BY <1>1, <2>2, <2>4 DEF Pass
    <2>6. [pass[r] EXCEPT !.todo = @ \ {f}] \in Pass
      BY <1>1 DEF Pass
    <2>7. QED
      BY <1>1, <2>1, <2>5, <2>6, BecomeTyped
  <1>5. CASE Head(r)
    <2>1. [pass[r] EXCEPT !.at = "update", !.moved = FALSE] \in Pass
      BY <1>1 DEF Pass
    <2>2. QED
      BY <1>1, <1>5, <2>1, IdleTyped, BecomeTyped DEF Head
  <1>6. CASE Refused(r)
    <2>1. ASSUME pass[r].attempt + 1 < MaxAttempts
          PROVE  [pass[r] EXCEPT !.at = "head", !.attempt = @ + 1, !.moved = FALSE] \in Pass
      <3>1. pass[r].attempt \in 0..MaxAttempts - 1
        BY <1>1 DEF Pass
      <3>2. pass[r].attempt + 1 \in 0..MaxAttempts - 1
        BY <2>1, <3>1, BoundAssumption
      <3>3. QED
        BY <1>1, <3>2 DEF Pass
    <2>2. pass[r].attempt \in Nat /\ MaxAttempts \in Nat
      BY <1>1, BoundAssumption DEF Pass
    <2>3. QED
      BY <1>1, <1>6, <2>1, <2>2, IdleTyped, BecomeTyped DEF Refused
  <1>7. CASE Fail(r)
    BY <1>1, <1>7, IdleTyped, BecomeTyped DEF Fail
  <1>8. QED
    BY <1>2, <1>3, <1>4, <1>5, <1>6, <1>7

\* The branch keeps its types: the conjuncts of TypeOK that are not about passes.
BranchOK ==
  /\ exists \in BOOLEAN
  /\ theirs \in [File -> 0..MaxPushes]
  /\ ours \subseteq File
  /\ \A f \in Merged : theirs[f] = 0 => f \notin ours
  /\ theirs[Team] # 0 => Team \notin ours
  /\ obj \in 0..MaxCreds
  /\ cred \in 0..MaxCreds
  /\ \A f \in File : theirs[f] <= pushes
  /\ pushes \in 0..MaxPushes
  /\ faults \in 0..MaxFaults

LEMMA TypeParts == TypeOK <=> BranchOK /\ pass \in [Replica -> Pass]
  BY DEF TypeOK, BranchOK

\* A commit writes what was read, and that was there or, in the team's case, not.
LEMMA CommitBranchOK ==
  ASSUME BranchOK, pass \in [Replica -> Pass], WriteInv, NEW r \in Replica,
         Commit(r) \/ CommitLost(r)
  PROVE  BranchOK'
  <1> DEFINE w == pass[r].write
             b == pass[r].base
  <1>1. /\ w \subseteq File /\ b \in [File -> 0..MaxPushes] /\ pass[r].id \in 0..MaxCreds
    BY DEF Pass
  <1>2. /\ theirs' = [f \in File |-> IF f \in w THEN b[f] ELSE theirs[f]]
        /\ ours' = ours \cup w
        /\ obj' = IF pass[r].id = 0 THEN obj ELSE pass[r].id
        /\ UNCHANGED <<exists, cred, pushes>>
    BY DEF Commit, CommitLost, Land
  <1>3. \A f \in w : b[f] = 0 <=> f = Team
    BY DEF WriteInv
  <1>4. theirs' \in [File -> 0..MaxPushes] /\ ours' \subseteq File
    BY <1>1, <1>2 DEF BranchOK
  <1>5. \A f \in File : theirs'[f] <= pushes'
    <2>1. \A f \in w : b[f] <= pushes
      BY DEF WriteInv
    <2>2. QED
      BY <1>2, <2>1 DEF BranchOK
  <1>6. \A f \in Merged : theirs'[f] = 0 => f \notin ours'
    <2>1. \A f \in Merged : f \in File /\ f # Team
      BY FileAssumption DEF File
    <2>2. QED
      BY <1>2, <1>3, <2>1 DEF BranchOK
  <1>7. theirs'[Team] # 0 => Team \notin ours'
    <2>1. Team \in File
      BY DEF File
    <2>2. QED
      BY <1>2, <1>3, <2>1 DEF BranchOK
  <1>8. obj' \in 0..MaxCreds
    BY <1>1, <1>2 DEF BranchOK
  <1>9. faults' \in 0..MaxFaults
    <2>1. faults' = faults \/ (faults < MaxFaults /\ faults' = faults + 1)
      BY DEF Commit, CommitLost
    <2>2. QED
      BY <2>1, BoundAssumption DEF BranchOK
  <1>10. QED
    BY <1>2, <1>4, <1>5, <1>6, <1>7, <1>8, <1>9 DEF BranchOK

\* A push to a file, or the first one to all.
LEMMA PushBranchOK ==
  ASSUME BranchOK, BranchInv, MakeBranch \/ PushFile \/ PushObj
  PROVE  BranchOK'
  <1> USE BoundAssumption, FileAssumption
  <1>1. pushes' = pushes + 1 /\ pushes' \in 0..MaxPushes /\ pushes \in Nat
    BY DEF MakeBranch, PushFile, PushObj, Push, BranchOK
  <1>2. \A f \in File : theirs[f] \in Nat /\ theirs[f] <= pushes
    BY DEF BranchOK
  <1>3. CASE MakeBranch
    <2>1. PICK fs \in SUBSET Merged : theirs' = [f \in File |-> IF f \in fs THEN pushes + 1 ELSE 0]
      BY <1>3 DEF MakeBranch
    <2>2. theirs' \in [File -> 0..MaxPushes] /\ \A f \in File : theirs'[f] <= pushes'
      BY <1>1, <2>1
    <2>3. exists' = TRUE /\ UNCHANGED <<ours, obj, cred, faults>>
      BY <1>3 DEF MakeBranch
    <2>4. \A f \in Merged : theirs'[f] = 0 => f \notin ours'
      <3>1. \A f \in Merged : f \in File /\ theirs[f] = 0
        BY <1>3 DEF MakeBranch, BranchInv, File
      <3>2. QED
        BY <2>3, <3>1 DEF BranchOK
    <2>5. theirs'[Team] = 0
      BY <2>1, FileAssumption DEF File
    <2>6. QED
      BY <1>1, <2>2, <2>3, <2>4, <2>5 DEF BranchOK
  <1>4. CASE PushFile
    <2>1. PICK g \in File :
            /\ theirs' = [theirs EXCEPT ![g] = pushes + 1]
            /\ ours' \in IF g = Team THEN {ours \ {g}} ELSE {ours, ours \ {g}}
      BY <1>4 DEF PushFile
    <2>2. UNCHANGED <<exists, obj, cred, faults>>
      BY <1>4 DEF PushFile
    <2>3. theirs' \in [File -> 0..MaxPushes] /\ \A f \in File : theirs'[f] <= pushes'
      BY <1>1, <1>2, <2>1 DEF BranchOK
    <2>4. Team \in File /\ \A f \in Merged : f \in File
      BY DEF File
    <2>5. /\ \A f \in Merged : theirs'[f] = 0 => f \notin ours'
          /\ theirs'[Team] # 0 => Team \notin ours'
      BY <1>1, <2>1, <2>4 DEF BranchOK
    <2>6. QED
      BY <1>1, <2>1, <2>2, <2>3, <2>5 DEF BranchOK
  <1>5. CASE PushObj
    BY <1>1, <1>2, <1>5 DEF PushObj, BranchOK
  <1>6. QED
    BY <1>3, <1>4, <1>5

\* The initial state is typed.
LEMMA InitInv == Init => Inv
  <1> SUFFICES ASSUME Init PROVE Inv
    OBVIOUS
  <1>1. pass \in [Replica -> Pass] /\ \A r \in Replica : pass[r] = Idle
    BY IdleTyped DEF Init
  <1>2. BranchOK
    <2>1. theirs \in [File -> 0..MaxPushes] /\ \A f \in File : theirs[f] = 0
      BY BoundAssumption DEF Init
    <2>2. /\ exists \in BOOLEAN /\ ours = {} /\ obj = 0 /\ cred = 0
          /\ pushes = 0 /\ faults = 0
      BY DEF Init
    <2>3. Team \in File
      BY DEF File
    <2>4. QED
      BY <2>1, <2>2, <2>3, BoundAssumption DEF BranchOK
  <1>3. WriteInv /\ BaseInv
    BY <1>1, BoundAssumption DEF WriteInv, BaseInv, Idle, Init
  <1>4. BranchInv
    BY <1>1 DEF BranchInv, Idle, Init
  <1>5. QED
    BY <1>1, <1>2, <1>3, <1>4, TypeParts DEF Inv

\* Every step keeps the types.
LEMMA NextTypeOK == Inv /\ [Next]_vars => TypeOK'
  <1> SUFFICES ASSUME Inv, [Next]_vars PROVE BranchOK' /\ pass' \in [Replica -> Pass]
    BY TypeParts DEF TypeOK, BranchOK
  <1>0. BranchOK /\ pass \in [Replica -> Pass] /\ WriteInv /\ BranchInv /\ TypeOK
    BY TypeParts DEF Inv
  <1>1. ASSUME NEW r \in Replica,
               Begin(r) \/ ReadCred(r) \/ Read(r) \/ Head(r) \/ Refused(r) \/ Fail(r)
        PROVE  BranchOK' /\ pass' \in [Replica -> Pass]
    <2>1. UNCHANGED <<exists, theirs, ours, obj, cred, pushes>>
      BY <1>1 DEF Begin, ReadCred, Read, Head, Refused, Fail, branch
    <2>2. faults' \in 0..MaxFaults
      <3>1. faults' = faults \/ (faults < MaxFaults /\ faults' = faults + 1)
        BY <1>1 DEF Begin, ReadCred, Read, Head, Refused, Fail
      <3>2. faults \in 0..MaxFaults
        BY <1>0 DEF BranchOK
      <3>3. QED
        BY <3>1, <3>2, BoundAssumption
    <2>3. QED
      BY <1>0, <1>1, <2>1, <2>2, StepTyped DEF BranchOK
  <1>2. ASSUME NEW r \in Replica, Commit(r) \/ CommitLost(r) PROVE BranchOK' /\ pass' \in [Replica -> Pass]
    <2>1. pass' = [Unsettled(r) EXCEPT ![r] = Idle]
      BY <1>2 DEF Commit, CommitLost, Land
    <2>2. QED
      BY <1>0, <1>2, <2>1, CommitBranchOK, UnsettledTyped, IdleTyped
  <1>3. CASE MakeBranch \/ PushFile \/ PushObj
    <2>1. pass' = Moved
      BY <1>3 DEF MakeBranch, PushFile, PushObj, Push
    <2>2. pass' \in [Replica -> Pass]
      <3>1. ASSUME NEW r \in Replica PROVE Moved \in [Replica -> Pass]
        BY <1>0, UnsettledTyped
      <3>2. Replica = {} => Moved \in [Replica -> Pass]
        BY DEF Moved
      <3>3. QED
        BY <2>1, <3>1, <3>2
    <2>3. QED
      BY <1>0, <1>3, <2>2, PushBranchOK
  <1>4. CASE NewCred
    BY <1>0, <1>4, BoundAssumption DEF NewCred, BranchOK, branch
  <1>5. CASE UNCHANGED vars
    BY <1>0, <1>5 DEF vars, branch, BranchOK
  <1>6. QED
    BY <1>1, <1>2, <1>3, <1>4, <1>5 DEF Next, Step

-----------------------------------------------------------------------------
(* What a pass has read *)

\* What a step leaves of a pass's account of the files it writes: all, or nothing.
Keeps(p, q) ==
  \/ q.write = {} /\ q.began <= pushes
  \/ q.at # "idle" /\ q.write = p.write /\ q.base = p.base /\ q.began = p.began
     /\ (p.crossed => q.crossed)

LEMMA StepKeeps ==
  ASSUME Inv, NEW r \in Replica,
         Begin(r) \/ ReadCred(r) \/ Head(r) \/ Refused(r) \/ Fail(r)
  PROVE  /\ UNCHANGED <<exists, theirs, pushes>>
         /\ \A q \in Replica : q # r => pass'[q] = pass[q]
         /\ Keeps(pass[r], pass'[r])
         /\ pass'[r].at = "update" => exists
  <1>1. pass \in [Replica -> Pass] /\ pass[r] \in Pass /\ pushes \in Nat
    BY DEF Inv, TypeOK
  <1>2. UNCHANGED <<exists, theirs, pushes>>
    BY DEF Begin, ReadCred, Head, Refused, Fail, branch
  <1>3. PICK p : Become(r, p) /\ Keeps(pass[r], p) /\ (p.at = "update" => exists)
    <2>1. Keeps(pass[r], Idle) /\ Idle.at # "update"
      BY <1>1 DEF Idle, Keeps
    <2>2. CASE Begin(r)
      <3> DEFINE p == [Idle EXCEPT !.at = "read", !.todo = File, !.cred = TRUE, !.began = pushes]
      <3>1. Become(r, p)
        BY <2>2 DEF Begin
      <3>2. p.write = {} /\ p.began = pushes /\ p.at = "read"
        BY DEF Idle
      <3>3. Keeps(pass[r], p)
        BY <1>1, <3>2 DEF Keeps
      <3>4. QED
        BY <3>1, <3>2, <3>3
    <2>3. CASE ReadCred(r)
      <3> DEFINE p == [pass[r] EXCEPT !.cred = FALSE, !.id = cred]
      <3>1. Become(r, p) /\ pass[r].at = "read"
        BY <2>3 DEF ReadCred
      <3>2. p.at = "read" /\ Keeps(pass[r], p)
        BY <1>1, <3>1 DEF Pass, Keeps
      <3>3. QED
        BY <3>1, <3>2
    <2>4. CASE Head(r)
      <3> DEFINE p == [pass[r] EXCEPT !.at = "update", !.moved = FALSE]
      <3>1. Become(r, Idle) \/ (Become(r, p) /\ exists)
        BY <2>4 DEF Head
      <3>2. Keeps(pass[r], p)
        BY <1>1 DEF Pass, Keeps
      <3>3. QED
        BY <2>1, <3>1, <3>2
    <2>5. CASE Refused(r)
      <3> DEFINE p == [pass[r] EXCEPT !.at = "head", !.attempt = @ + 1, !.moved = FALSE]
      <3>1. Become(r, Idle) \/ Become(r, p)
        BY <2>5 DEF Refused
      <3>2. p.at = "head" /\ Keeps(pass[r], p)
        BY <1>1 DEF Pass, Keeps
      <3>3. QED
        BY <2>1, <3>1, <3>2
    <2>6. CASE Fail(r)
      BY <2>1, <2>6 DEF Fail
    <2>7. QED
      BY <2>2, <2>3, <2>4, <2>5, <2>6
  <1>4. QED
    BY <1>1, <1>2, <1>3 DEF Become

\* Every step keeps what is known of passes and branch.
LEMMA NextInv == Inv /\ [Next]_vars => Inv'
  <1> SUFFICES ASSUME Inv, [Next]_vars PROVE WriteInv' /\ BranchInv' /\ BaseInv'
    BY NextTypeOK DEF Inv
  <1>0. /\ TypeOK /\ WriteInv /\ BranchInv /\ BaseInv
        /\ pass \in [Replica -> Pass] /\ pushes \in Nat
        /\ \A f \in File : theirs[f] \in Nat /\ theirs[f] <= pushes
    BY DEF Inv, TypeOK
  <1>1. ASSUME NEW r \in Replica, Begin(r) \/ ReadCred(r) \/ Head(r) \/ Refused(r) \/ Fail(r)
        PROVE  WriteInv' /\ BranchInv' /\ BaseInv'
    BY <1>0, <1>1, StepKeeps DEF WriteInv, BranchInv, BaseInv, Keeps
  <1>2. ASSUME NEW r \in Replica, Read(r) PROVE WriteInv' /\ BranchInv' /\ BaseInv'
    <2>1. PICK f \in pass[r].todo :
            Become(r, IF Wanted(f)
                      THEN [pass[r] EXCEPT !.todo = @ \ {f}, !.write = @ \cup {f},
                                           !.base[f] = theirs[f]]
                      ELSE [pass[r] EXCEPT !.todo = @ \ {f}])
      BY <1>2 DEF Read
    <2>2. UNCHANGED <<exists, theirs, pushes>> /\ pass[r] \in Pass /\ f \in File
          /\ pass[r].at = "read"
      BY <1>0, <1>2 DEF Read, branch, Pass
    <2>3. \A q \in Replica : q # r => pass'[q] = pass[q]
      BY <1>0, <2>1 DEF Become
    <2>4. /\ pass'[r].at = "read" /\ pass'[r].began = pass[r].began
          /\ pass'[r].crossed = pass[r].crossed
          /\ \/ pass'[r].write = pass[r].write /\ pass'[r].base = pass[r].base
             \/ /\ Wanted(f)
                /\ pass'[r].write = pass[r].write \cup {f}
                /\ pass'[r].base = [pass[r].base EXCEPT ![f] = theirs[f]]
      BY <1>0, <2>1, <2>2 DEF Become, Pass
    <2>5. pass[r].base \in [File -> 0..MaxPushes] /\ pass[r].write \subseteq File
      BY <2>2 DEF Pass
    <2>6. \A g \in pass'[r].write :
            \/ g \in pass[r].write /\ pass'[r].base[g] = pass[r].base[g]
            \/ pass'[r].base[g] = theirs[g] /\ (theirs[g] = 0 <=> g = Team) /\ g \in File
      BY <2>2, <2>4, <2>5 DEF Wanted
    <2>7. QED
      BY <1>0, <2>2, <2>3, <2>4, <2>6 DEF WriteInv, BranchInv, BaseInv
  <1>3. ASSUME NEW r \in Replica, Commit(r) \/ CommitLost(r) PROVE WriteInv' /\ BranchInv' /\ BaseInv'
    <2>1. UNCHANGED <<exists, pushes>> /\ exists
      BY <1>0, <1>3 DEF Commit, CommitLost, Land, BranchInv
    <2>2. pass'[r] = Idle
      BY <1>0, <1>3, UnsettledTyped DEF Commit, CommitLost, Land
    <2>3. \A q \in Replica : q # r =>
            /\ pass'[q].at = pass[q].at /\ pass'[q].write = pass[q].write
            /\ pass'[q].base = pass[q].base /\ pass'[q].began = pass[q].began
            /\ pass[q].at = "idle" \/ pass'[q].crossed
      BY <1>0, <1>3 DEF Commit, CommitLost, Land, Unsettled, Pass
    <2>4. QED
      BY <1>0, <2>1, <2>2, <2>3 DEF WriteInv, BranchInv, BaseInv, Idle
  <1>4. CASE MakeBranch \/ PushFile \/ PushObj
    <2>1. pushes' = pushes + 1 /\ exists'
      BY <1>4 DEF MakeBranch, PushFile, PushObj, Push
    <2>2. \A q \in Replica :
            /\ pass'[q].at = pass[q].at /\ pass'[q].write = pass[q].write
            /\ pass'[q].base = pass[q].base /\ pass'[q].began = pass[q].began
            /\ pass'[q].crossed = pass[q].crossed
      BY <1>0, <1>4 DEF MakeBranch, PushFile, PushObj, Push, Moved, Pass
    <2>3. \A f \in File : theirs'[f] = theirs[f] \/ theirs'[f] = pushes + 1
      BY <1>0, <1>4 DEF MakeBranch, PushFile, PushObj, BranchInv, TypeOK
    <2>4. \A q \in Replica : /\ pass[q].write \subseteq File
                             /\ pass[q].base \in [File -> 0..MaxPushes]
                             /\ pass[q].began \in Nat
      BY <1>0 DEF Pass
    <2>5. QED
      BY <1>0, <2>1, <2>2, <2>3, <2>4 DEF WriteInv, BranchInv, BaseInv
  <1>5. CASE NewCred \/ UNCHANGED vars
    BY <1>0, <1>5 DEF NewCred, vars, branch, WriteInv, BranchInv, BaseInv
  <1>6. QED
    BY <1>1, <1>2, <1>3, <1>4, <1>5 DEF Next, Step

\* Every state of lane and branch is typed, and LLZ never says what it wants in a
\* file that apl-operator has not made, nor in a team's file that somebody wrote.
THEOREM TypeCorrect == Spec => []TypeOK
  <1>1. Inv => TypeOK
    BY DEF Inv
  <1>2. QED
    BY InitInv, NextInv, <1>1, PTL DEF Spec

-----------------------------------------------------------------------------
(* The loss *)

\* Only a commit takes a push out of a file.
LEMMA StepLoss ==
  ASSUME Inv, [Next]_vars, NEW f \in File, theirs'[f] < theirs[f]
  PROVE  \E r \in Replica :
           /\ Commits(r) /\ f \in pass[r].write
           /\ theirs[f] > pass[r].began \/ pass[r].crossed
  <1>0. /\ pass \in [Replica -> Pass] /\ pushes \in Nat
        /\ theirs \in [File -> 0..MaxPushes] /\ theirs[f] \in Nat /\ theirs[f] <= pushes
    BY DEF Inv, TypeOK
  <1>1. PICK r \in Replica : Commit(r) \/ CommitLost(r)
    <2>1. ~(theirs' = theirs)
      BY <1>0
    <2>2. ~(MakeBranch \/ PushFile \/ PushObj)
      <3>1. ASSUME MakeBranch \/ PushFile \/ PushObj PROVE theirs'[f] >= theirs[f]
        BY <1>0, <3>1 DEF MakeBranch, PushFile, PushObj, Inv, BranchInv
      <3>2. theirs'[f] \in Nat
        BY NextTypeOK DEF TypeOK
      <3>3. QED
        BY <1>0, <3>1, <3>2
    <2>3. QED
      BY <2>1, <2>2 DEF Next, Step, Begin, ReadCred, Read, Head, Refused, Fail, NewCred,
                        branch, vars
  <1>2. Commits(r)
    BY <1>0, <1>1, UnsettledTyped DEF Commit, CommitLost, Land, Commits
  <1>3. f \in pass[r].write /\ theirs'[f] = pass[r].base[f]
    BY <1>0, <1>1 DEF Commit, CommitLost, Land
  <1>4. pass[r].began \in Nat
    BY <1>0 DEF Pass
  <1>5. theirs[f] > pass[r].began \/ pass[r].crossed
    BY <1>0, <1>3, <1>4 DEF Inv, BaseInv
  <1>6. QED
    BY <1>2, <1>3, <1>5

\* For any number of replicas, teams' pushes and refused attempts, a push can only
\* be lost in a file the pass writes, and if it came in after the pass began.
THEOREM LossBounded == Spec => LossIsRecent
  <1>1. Inv /\ [Next]_vars =>
          [\A f \in File :
             theirs'[f] < theirs[f] =>
               \E r \in Replica :
                 /\ Commits(r) /\ f \in pass[r].write
                 /\ theirs[f] > pass[r].began \/ pass[r].crossed]_vars
    BY StepLoss
  <1>2. QED
    BY InitInv, NextInv, <1>1, PTL DEF Spec, LossIsRecent

-----------------------------------------------------------------------------
(* No churn *)

\* The branch says what LLZ wants said, and no pass carries anything older.
InSync ==
  /\ exists /\ (cred # 0 => obj = cred) /\ \A f \in File : ~Wanted(f)
  /\ \A r \in Replica : pass[r].write = {} /\ pass[r].id \in {0, obj} /\ pass[r].at # "update"

\* "The reconciler never churns against apl-operator" (overlay.go:320-323): on a
\* branch in sync, passes come and go without a commit and leave it in sync, for
\* as long as nobody else pushes and the key is the same.
NoChurn ==
  [][InSync /\ UNCHANGED <<pushes, cred>> => UNCHANGED branch /\ InSync']_vars

\* A pass over a branch in sync reads nothing to write, and ends at the head.
LEMMA PassFindsNothing ==
  ASSUME TypeOK, InSync, NEW r \in Replica, Step(r) \/ CommitLost(r) \/ Fail(r)
  PROVE  UNCHANGED <<branch, cred>> /\ InSync'
  <1>0. /\ pass \in [Replica -> Pass] /\ pass[r].write = {} /\ pass[r].id \in {0, obj}
        /\ pass[r].at # "update" /\ exists
    BY DEF TypeOK, InSync
  <1>1. ASSUME NEW p, Become(r, p), p.write = {}, p.id \in {0, obj}, p.at # "update",
               UNCHANGED <<branch, cred>>
        PROVE  InSync'
    BY <1>0, <1>1 DEF InSync, Become, branch, Wanted
  <1>2. CASE Begin(r) \/ Fail(r)
    <2>1. Idle.write = {} /\ Idle.id = 0 /\ Idle.at # "update"
      BY DEF Idle
    <2>2. CASE Fail(r)
      BY <1>1, <2>1, <2>2 DEF Fail
    <2>3. CASE Begin(r)
      <3> DEFINE p == [Idle EXCEPT !.at = "read", !.todo = File, !.cred = TRUE, !.began = pushes]
      <3>1. p.write = {} /\ p.id = 0 /\ p.at # "update"
        BY DEF Idle
      <3>2. Become(r, p) /\ UNCHANGED <<branch, cred>>
        BY <2>3 DEF Begin
      <3> HIDE DEF p
      <3>3. QED
        BY <1>1, <3>1, <3>2
    <2>4. QED
      BY <1>2, <2>2, <2>3, <1>1 DEF Begin, Fail
  <1>3. CASE ReadCred(r)
    <2> DEFINE p == [pass[r] EXCEPT !.cred = FALSE, !.id = cred]
    <2>1. p.write = {} /\ p.id = cred /\ p.at # "update"
      BY <1>0 DEF Pass
    <2>2. cred \in {0, obj}
      BY DEF InSync
    <2>3. Become(r, p) /\ UNCHANGED <<branch, cred>>
      BY <1>3 DEF ReadCred
    <2> HIDE DEF p
    <2>4. QED
      BY <1>1, <2>1, <2>2, <2>3
  <1>4. CASE Read(r)
    <2>1. PICK f \in File : Become(r, [pass[r] EXCEPT !.todo = @ \ {f}])
      BY <1>0, <1>4 DEF Read, InSync, Pass
    <2> DEFINE p == [pass[r] EXCEPT !.todo = @ \ {f}]
    <2>2. p.write = {} /\ p.id = pass[r].id /\ p.at # "update"
      BY <1>0 DEF Pass
    <2>3. Become(r, p) /\ UNCHANGED <<branch, cred>>
      BY <1>4, <2>1 DEF Read
    <2> HIDE DEF p
    <2>4. QED
      BY <1>0, <1>1, <2>2, <2>3
  <1>5. CASE Head(r)
    <2>1. InPlace(pass[r])
      BY <1>0 DEF InPlace
    <2>2. Become(r, Idle) /\ UNCHANGED <<branch, cred>>
      BY <1>5, <2>1 DEF Head
    <2>3. QED
      BY <1>1, <2>2 DEF Idle
  <1>6. CASE Commit(r) \/ CommitLost(r) \/ Refused(r)
    BY <1>0, <1>6 DEF Commit, CommitLost, Land, Refused
  <1>7. QED
    BY <1>2, <1>3, <1>4, <1>5, <1>6 DEF Step, Begin, ReadCred, Read, Head, Fail

\* For any number of replicas and files, a branch in sync is left alone.
THEOREM ChurnSafe == Spec => NoChurn
  <1>1. TypeOK /\ [Next]_vars /\ InSync /\ UNCHANGED <<pushes, cred>> => UNCHANGED branch /\ InSync'
    <2> SUFFICES ASSUME TypeOK, [Next]_vars, InSync, UNCHANGED <<pushes, cred>>
                 PROVE  UNCHANGED branch /\ InSync'
      OBVIOUS
    <2>1. pushes \in Nat /\ cred \in Nat
      BY DEF TypeOK
    <2>2. ~(MakeBranch \/ PushFile \/ PushObj \/ NewCred)
      BY <2>1 DEF MakeBranch, PushFile, PushObj, NewCred, Push
    <2>3. CASE \E r \in Replica : Step(r) \/ CommitLost(r) \/ Fail(r)
      BY <2>3, PassFindsNothing
    <2>4. CASE UNCHANGED vars
      BY <2>4 DEF vars, branch, InSync, Wanted
    <2>5. QED
      BY <2>2, <2>3, <2>4 DEF Next
  <1>2. QED
    BY TypeCorrect, <1>1, PTL DEF Spec, NoChurn
=============================================================================
