------------------------- MODULE ObjKeyRotationProofs -------------------------
(***************************************************************************)
(* Which keys a drain may revoke, whatever fails and whatever happens to   *)
(* the recorded key from outside.                                          *)
(*                                                                         *)
(* RecordedSafe needs one writer only: between its mint and the end of its *)
(* drain the newest key is its own, and RecordedInv says that the newest   *)
(* key is never on a list of keys to revoke.                               *)
(*                                                                         *)
(* HeldSafe is about distance.  A revoked key has KeepNewest newer ones    *)
(* (DrainKeeps); LagInv bounds how many keys the consumers' key is behind, *)
(* one per mishap so far and one for the rotation under way, and says by   *)
(* how much less while nothing is minted yet, so that the next mint stays  *)
(* within the bound.                                                       *)
(***************************************************************************)
EXTENDS ObjKeyRotation, FiniteSetTheorems, TLAPS

\* A drain keeps the highest id, and a key it revokes has KeepNewest newer ones.
LEMMA DrainKeeps ==
  ASSUME NEW top \in Nat, NEW ids \in SUBSET (1..top), NEW k \in Nat,
         NEW i \in IDsToDrain(ids, k)
  PROVE  i \in ids /\ i + k <= top /\ i < top
  <1> DEFINE n == Cardinality(Newer(ids, i))
  <1>1. i \in ids /\ n >= IF k < 1 THEN 1 ELSE k
    BY Zenon DEF IDsToDrain
  <1>2. i \in Nat /\ i <= top
    BY <1>1
  <1>3. Newer(ids, i) \in SUBSET ((i + 1)..top)
    <2>1. ASSUME NEW j \in ids, j > i PROVE j \in (i + 1)..top
      BY <1>2, <2>1
    <2>2. QED
      BY <2>1 DEF Newer
  <1>4. IsFiniteSet((i + 1)..top) /\ Cardinality((i + 1)..top) = top - i
    <2>1. i + 1 \in Int /\ top \in Int
      BY <1>2
    <2>2. /\ IsFiniteSet((i + 1)..top)
          /\ Cardinality((i + 1)..top) = IF i + 1 > top THEN 0 ELSE top - (i + 1) + 1
      BY <2>1, FS_Interval, Zenon
    <2>3. QED
      BY <2>2, <1>2
  <1>5. IsFiniteSet(Newer(ids, i)) /\ n <= top - i
    <2>1. IsFiniteSet(Newer(ids, i)) /\ n <= Cardinality((i + 1)..top)
      BY <1>3, <1>4, FS_Subset, Zenon
    <2>2. QED
      BY <2>1, <1>4
  <1>6. n \in Nat
    BY <1>5, FS_CardinalityType
  <1> HIDE DEF n
  <1>7. QED
    BY <1>1, <1>2, <1>5, <1>6

\* Runs stay typed when one of them changes and keys are minted.
LEMMA BecomeTyped ==
  ASSUME TypeOK, NEW p \in Process, NEW r \in Run, Become(p, r),
         minted' \in Nat, minted' >= minted, Coherent(r, minted')
  PROVE  run' \in [Process -> Run] /\ \A q \in Process : Coherent(run'[q], minted')
  <1>1. run' = [run EXCEPT ![p] = r] /\ run \in [Process -> Run] /\ minted \in Nat
    BY DEF Become, TypeOK
  <1>2. run' \in [Process -> Run]
    BY <1>1
  <1>3. ASSUME NEW q \in Process PROVE Coherent(run'[q], minted')
    <2>1. CASE q = p
      BY <1>1, <2>1
    <2>2. CASE q # p
      <3>1. run'[q] = run[q] /\ Coherent(run[q], minted)
        BY <1>1, <2>2 DEF TypeOK
      <3>2. QED
        BY <3>1, <1>1 DEF Coherent
    <2>3. QED
      BY <2>1, <2>2
  <1>4. QED
    BY <1>2, <1>3

\* What a run may become is typed.
LEMMA DoingTyped ==
  ASSUME NEW n \in Nat, NEW place \in Place, NEW key \in 0..n, NEW ids \in SUBSET (1..n),
         place \in {"write", "survey", "revoke"} => key # 0,
         place = "revoke" <=> ids # {}
  PROVE  Doing(place, key, ids) \in Run /\ Coherent(Doing(place, key, ids), n)
  BY DEF Doing, Run, Coherent

\* A run that ends is typed, however many keys there are.
LEMMA IdleTyped == \A n \in Nat : Idle \in Run /\ Coherent(Idle, n)
  BY DEF Idle, Doing, Run, Place, Coherent

\* A drain goes on with keys of the account, or ends.
LEMMA DrainTyped ==
  ASSUME TypeOK, NEW p \in Process, NEW ids \in SUBSET (1..minted),
         run[p].at \in {"survey", "revoke"}, Drain(p, ids), minted' = minted
  PROVE  run' \in [Process -> Run] /\ \A q \in Process : Coherent(run'[q], minted')
  <1>1. run[p] \in Run /\ run[p].key \in 0..minted /\ run[p].key # 0 /\ minted \in Nat
    BY DEF TypeOK, Coherent
  <1>2. CASE ids = {}
    <2>1. Become(p, Idle)
      BY <1>2 DEF Drain
    <2>2. QED
      BY <1>1, <2>1, IdleTyped, BecomeTyped
  <1>3. CASE ids # {}
    <2>1. Become(p, Doing("revoke", run[p].key, ids))
      BY <1>3 DEF Drain
    <2>2. /\ Doing("revoke", run[p].key, ids) \in Run
          /\ Coherent(Doing("revoke", run[p].key, ids), minted)
      BY <1>1, <1>3, DoingTyped DEF Place
    <2>3. QED
      BY <1>1, <2>1, <2>2, BecomeTyped
  <1>4. QED
    BY <1>2, <1>3

\* The account, the path and the runs start typed.
LEMMA InitTypeOK == Init => TypeOK
  <1> SUFFICES ASSUME Init PROVE TypeOK
    OBVIOUS
  <1>1. minted \in Nat /\ Idle \in Run /\ Coherent(Idle, minted)
    BY IdleTyped DEF Init
  <1>2. run \in [Process -> Run] /\ \A p \in Process : Coherent(run[p], minted)
    BY <1>1 DEF Init
  <1>3. /\ live = 1..minted /\ granting = live /\ drained = {}
        /\ recorded = minted /\ held = minted /\ aged \in BOOLEAN
    BY DEF Init
  <1>4. faults \in 0..MaxFaults /\ upsets \in 0..MaxUpsets /\ ages \in 0..MaxAges
    BY BudgetAssumption DEF Init
  <1>5. minted \in 0..minted
    BY <1>1
  <1>6. QED
    BY <1>1, <1>2, <1>3, <1>4, <1>5, Zenon DEF TypeOK

\* Every step keeps TypeOK.
LEMMA NextTypeOK == TypeOK /\ [Next]_vars => TypeOK'
  <1> SUFFICES ASSUME TypeOK, [Next]_vars PROVE TypeOK'
    OBVIOUS
  <1> DEFINE RunsTyped == /\ run' \in [Process -> Run]
                          /\ \A q \in Process : Coherent(run'[q], minted')
  <1>0. /\ minted \in Nat /\ recorded \in 0..minted
        /\ \A p \in Process : run[p] \in Run /\ Coherent(run[p], minted)
    BY DEF TypeOK
  <1>1. ASSUME NEW p \in Process, Start(p) PROVE TypeOK'
    <2>1. RunsTyped
      BY <1>0, <1>1, DoingTyped, BecomeTyped DEF Start, Place, account
    <2>2. QED
      BY <1>1, <2>1 DEF TypeOK, Start, account, path, budget
  <1>2. ASSUME NEW p \in Process, ReadAccess(p) PROVE TypeOK'
    <2>1. RunsTyped
      BY <1>0, <1>2, DoingTyped, IdleTyped, BecomeTyped DEF ReadAccess, Place, account
    <2>2. QED
      BY <1>2, <2>1 DEF TypeOK, ReadAccess, account, path, budget
  <1>3. ASSUME NEW p \in Process, Probe(p) PROVE TypeOK'
    <2>1. RunsTyped
      BY <1>0, <1>3, DoingTyped, IdleTyped, BecomeTyped DEF Probe, Place, account
    <2>2. QED
      BY <1>3, <2>1 DEF TypeOK, Probe, account, path, budget
  <1>4. ASSUME NEW p \in Process, Mint(p) PROVE TypeOK'
    <2>1. RunsTyped
      BY <1>0, <1>4, DoingTyped, BecomeTyped DEF Mint, Issue, Place
    <2>2. QED
      BY <1>4, <2>1 DEF TypeOK, Mint, Issue, path, budget
  <1>5. ASSUME NEW p \in Process, Write(p) PROVE TypeOK'
    <2>1. RunsTyped /\ run[p].key \in 0..minted
      BY <1>0, <1>5, DoingTyped, BecomeTyped DEF Write, Place, account, Coherent
    <2>2. QED
      BY <1>5, <2>1 DEF TypeOK, Write, Record, account, budget
  <1>6. ASSUME NEW p \in Process, Survey(p) PROVE TypeOK'
    <2>1. \A k, own : IDsToDrain(live, k) \ own \in SUBSET (1..minted)
      BY DEF TypeOK, IDsToDrain
    <2>2. RunsTyped
      BY <1>6, <2>1, DrainTyped DEF Survey, account
    <2>3. QED
      BY <1>6, <2>2 DEF TypeOK, Survey, account, path, budget
  <1>7. ASSUME NEW p \in Process, Revoke(p) PROVE TypeOK'
    <2>1. PICK i \in run[p].doomed :
            /\ live' = live \ {i}
            /\ granting' = granting \ {i}
            /\ drained' = drained \cup ({i} \cap live)
            /\ Drain(p, run[p].doomed \ {i})
      BY <1>7 DEF Revoke
    <2>2. run[p].doomed \ {i} \in SUBSET (1..minted)
      BY <1>0 DEF Coherent
    <2>3. RunsTyped
      BY <1>7, <2>1, <2>2, DrainTyped DEF Revoke
    <2>4. QED
      BY <1>7, <2>1, <2>3 DEF TypeOK, Revoke, path, budget
  <1>8. ASSUME NEW p \in Process, Failure(p) PROVE TypeOK'
    <2>1. faults' \in 0..MaxFaults /\ UNCHANGED <<upsets, ages>>
      BY <1>8, BudgetAssumption
      DEF TypeOK, Failure, Abort, MintLost, WriteLost, RevokeFails, Fault
    <2>2. CASE Abort(p)
      <3>1. RunsTyped
        BY <1>0, <2>2, IdleTyped, BecomeTyped DEF Abort, account
      <3>2. QED
        BY <2>1, <2>2, <3>1 DEF TypeOK, Abort, account, path
    <2>3. CASE MintLost(p)
      <3>1. RunsTyped
        BY <1>0, <2>3, IdleTyped, BecomeTyped DEF MintLost, Issue
      <3>2. QED
        BY <2>1, <2>3, <3>1 DEF TypeOK, MintLost, Issue, path
    <2>4. CASE WriteLost(p)
      <3>1. RunsTyped /\ run[p].key \in 0..minted
        BY <1>0, <2>4, IdleTyped, BecomeTyped DEF WriteLost, account, Coherent
      <3>2. QED
        BY <2>1, <2>4, <3>1 DEF TypeOK, WriteLost, Record, account
    <2>5. CASE RevokeFails(p)
      <3>1. PICK i \in run[p].doomed : Drain(p, run[p].doomed \ {i})
        BY <2>5 DEF RevokeFails
      <3>2. run[p].doomed \ {i} \in SUBSET (1..minted)
        BY <1>0 DEF Coherent
      <3>3. RunsTyped
        BY <2>5, <3>1, <3>2, DrainTyped DEF RevokeFails, account
      <3>4. QED
        BY <2>1, <2>5, <3>3 DEF TypeOK, RevokeFails, account, path
    <2>6. QED
      BY <1>8, <2>2, <2>3, <2>4, <2>5 DEF Failure
  <1>9. CASE Sync \/ Age \/ Break \/ Wipe
    <2>1. RunsTyped
      BY <1>0, <1>9 DEF TypeOK, Sync, Age, Break, Wipe, account
    <2>2. /\ upsets' \in 0..MaxUpsets /\ ages' \in 0..MaxAges /\ faults' = faults
      BY <1>9, BudgetAssumption DEF TypeOK, Sync, Age, Break, Wipe, Upset, budget
    <2>3. CASE Sync \/ Age \/ Wipe
      <3>1. /\ UNCHANGED <<minted, live, granting, drained>>
            /\ recorded' \in 0..minted /\ held' \in 0..minted /\ aged' \in BOOLEAN
        <4>1. recorded \in 0..minted /\ held \in 0..minted /\ 0 \in 0..minted /\ aged \in BOOLEAN
          BY <1>0 DEF TypeOK
        <4>2. CASE Sync
          BY <4>1, <4>2 DEF Sync, account, path
        <4>3. CASE Age
          BY <4>1, <4>3 DEF Age, account
        <4>4. CASE Wipe
          BY <4>1, <4>4 DEF Wipe, account
        <4>5. QED
          BY <2>3, <4>2, <4>3, <4>4
      <3>2. QED
        BY <2>1, <2>2, <3>1 DEF TypeOK
    <2>4. CASE Break
      <3>1. /\ granting' = granting \ {recorded} /\ live' \in {live, live \ {recorded}}
            /\ UNCHANGED <<minted, drained, recorded, aged, held, run>>
        BY <2>4 DEF Break, path
      <3>2. granting' \subseteq live' /\ live' \subseteq live
        BY <3>1 DEF TypeOK
      <3>3. QED
        BY <2>1, <2>2, <3>1, <3>2 DEF TypeOK
    <2>5. QED
      BY <1>9, <2>3, <2>4
  <1>10. CASE UNCHANGED vars
    BY <1>10 DEF TypeOK, vars, account, path, budget
  <1>11. QED
    BY <1>1, <1>2, <1>3, <1>4, <1>5, <1>6, <1>7, <1>8, <1>9, <1>10 DEF Next, Step

\* The account, the path and every run keep their types.
THEOREM TypeCorrect == Spec => []TypeOK
  BY InitTypeOK, NextTypeOK, PTL DEF Spec

-----------------------------------------------------------------------------
(* The recorded key *)

\* The account has one writer: the lease, or nobody else, sees to that.
OneProcess == \A p, q \in Process : p = q

RecordedInv ==
  /\ minted \notin drained /\ recorded \notin drained
  /\ \A p \in Process :
       /\ run[p].at \in {"write", "survey", "revoke"} => run[p].key = minted
       /\ run[p].at \in {"survey", "revoke"} => recorded \in {0, minted}
       /\ minted \notin run[p].doomed

\* With one process, a step that changes its run changes the only one.
LEMMA SoleRun ==
  ASSUME OneProcess, TypeOK, NEW p \in Process, NEW r, Become(p, r)
  PROVE  \A q \in Process : q = p /\ run'[q] = r
  BY DEF OneProcess, TypeOK, Become

\* The same for a step of a drain.
LEMMA SoleDrain ==
  ASSUME OneProcess, TypeOK, NEW p \in Process, NEW ids, Drain(p, ids)
  PROVE  \A q \in Process :
           /\ q = p /\ run'[q].doomed = ids /\ run'[q].at \in {"idle", "revoke"}
           /\ run'[q].at = "revoke" => run'[q].key = run[p].key
  <1>1. CASE ids = {}
    BY <1>1, SoleRun DEF Drain, Idle, Doing
  <1>2. CASE ids # {}
    BY <1>2, SoleRun DEF Drain, Doing
  <1>3. QED
    BY <1>1, <1>2

\* Nothing is revoked or doomed at first.
LEMMA InitRecordedInv == Init => RecordedInv
  BY DEF Init, RecordedInv, Idle, Doing

\* Every step of a single writer keeps RecordedInv.
LEMMA NextRecordedInv ==
  ASSUME OneProcess, TypeOK, RecordedInv, [Next]_vars
  PROVE  RecordedInv'
  <1>1. ASSUME NEW p \in Process, Start(p) \/ ReadAccess(p) \/ Probe(p) \/ Abort(p)
        PROVE  RecordedInv'
    <2>1. PICK r : /\ Become(p, r) /\ r.doomed = {}
                   /\ r.at \in {"idle", "access", "probe", "mint"}
      BY <1>1 DEF Start, ReadAccess, Probe, Abort, Idle, Doing
    <2>2. UNCHANGED <<minted, drained, recorded>>
      BY <1>1 DEF Start, ReadAccess, Probe, Abort, account, path
    <2>3. QED
      BY <2>1, <2>2, SoleRun DEF RecordedInv
  <1>2. ASSUME NEW p \in Process, Mint(p) PROVE RecordedInv'
    BY <1>2, SoleRun DEF RecordedInv, TypeOK, Mint, Issue, Doing, path
  <1>3. ASSUME NEW p \in Process, Write(p) PROVE RecordedInv'
    BY <1>3, SoleRun DEF RecordedInv, Write, Record, Doing, account
  <1>4. ASSUME NEW p \in Process, Survey(p) PROVE RecordedInv'
    <2>1. PICK own : Drain(p, IDsToDrain(live, Keep(p)) \ own)
      BY <1>4 DEF Survey
    <2>2. minted \in Nat /\ live \in SUBSET (1..minted) /\ Keep(p) \in Nat
      BY KeepAssumption DEF TypeOK, Keep
    <2>3. minted \notin IDsToDrain(live, Keep(p))
      BY <2>2, DrainKeeps
    <2>4. QED
      BY <1>4, <2>1, <2>3, SoleDrain DEF RecordedInv, Survey, account, path
  <1>5. ASSUME NEW p \in Process, Revoke(p) \/ RevokeFails(p) PROVE RecordedInv'
    <2>1. PICK i \in run[p].doomed : Drain(p, run[p].doomed \ {i})
                                    /\ drained' \subseteq drained \cup {i}
      BY <1>5 DEF Revoke, RevokeFails, account
    <2>2. UNCHANGED <<minted, recorded>> /\ run[p].at = "revoke"
      BY <1>5 DEF Revoke, RevokeFails, account, path
    <2>3. recorded \in {0, minted} /\ i # minted /\ i # 0
      BY <2>1, <2>2 DEF RecordedInv, TypeOK, Coherent
    <2>4. minted' \notin drained' /\ recorded' \notin drained'
      BY <2>1, <2>2, <2>3 DEF RecordedInv, TypeOK
    <2>5. QED
      BY <2>1, <2>2, <2>4, SoleDrain DEF RecordedInv
  <1>6. ASSUME NEW p \in Process, MintLost(p) PROVE RecordedInv'
    BY <1>6, SoleRun DEF RecordedInv, TypeOK, MintLost, Issue, Idle, Doing, path
  <1>7. ASSUME NEW p \in Process, WriteLost(p) PROVE RecordedInv'
    BY <1>7, SoleRun DEF RecordedInv, WriteLost, Record, Idle, Doing, account
  <1>8. CASE Sync \/ Age \/ Break \/ Wipe \/ UNCHANGED vars
    BY <1>8 DEF RecordedInv, TypeOK, Sync, Age, Break, Wipe, vars, account, path
  <1>9. QED
    BY <1>1, <1>2, <1>3, <1>4, <1>5, <1>6, <1>7, <1>8 DEF Next, Step, Failure

\* The key that OpenBao names is never one that a drain has revoked.
THEOREM RecordedSafe == ASSUME OneProcess PROVE Spec => []RecordedNotDrained
  <1>1. Init => TypeOK /\ RecordedInv
    BY InitTypeOK, InitRecordedInv
  <1>2. TypeOK /\ RecordedInv /\ [Next]_vars => (TypeOK /\ RecordedInv)'
    BY NextTypeOK, NextRecordedInv
  <1>3. TypeOK /\ RecordedInv => RecordedNotDrained
    BY DEF RecordedInv, RecordedNotDrained
  <1>4. QED
    BY <1>1, <1>2, <1>3, PTL DEF Spec

-----------------------------------------------------------------------------
(* The key the consumers hold *)

\* The margin: every failure and every upset may put one key more between the
\* consumers' key and the newest, beside the rotation under way.
Margin == Bootstrap = {} /\ KeepNewest >= 2 + MaxFaults + MaxUpsets

\* Nothing calls for a rotation.
Healthy == recorded # 0 /\ recorded = minted /\ minted \in granting /\ ~aged

\* The consumers' key is at most one per mishap behind, one more once a new key
\* is minted: what calls for a second one is a further mishap, or comes after
\* a sync.  And a revoked key has KeepNewest newer ones.
LagInv ==
  /\ recorded = 0 \/ held <= recorded
  /\ minted - held <= 1 + faults + upsets
  /\ \A i \in drained : i + KeepNewest <= minted
  /\ \A p \in Process :
       /\ run[p].at = "mint" => minted - held <= faults + upsets
       /\ run[p].at = "write" => minted \in granting /\ recorded < minted
       /\ run[p].at \notin {"mint", "write"} =>
            Healthy \/ minted - held <= faults + upsets
       /\ run[p].at = "probe" => recorded \in {0, run[p].key}
       /\ \A i \in run[p].doomed : i + KeepNewest <= minted

\* The consumers start with the newest key, if there is one.
LEMMA InitLagInv == Init => LagInv
  BY DEF Init, LagInv, Idle, Doing

\* Every step of a single writer with the margin keeps LagInv.
LEMMA NextLagInv ==
  ASSUME OneProcess, Margin, TypeOK, RecordedInv, LagInv, [Next]_vars
  PROVE  LagInv'
  <1> USE KeepAssumption, BudgetAssumption
  <1>0. /\ minted \in Nat /\ held \in 0..minted /\ recorded \in 0..minted
        /\ faults \in Nat /\ upsets \in Nat /\ granting \subseteq 1..minted
        /\ \A p \in Process : Coherent(run[p], minted)
        /\ \A i \in drained : i \in Nat
    BY DEF TypeOK
  <1>1. ASSUME NEW p \in Process, Start(p) \/ ReadAccess(p) \/ Probe(p)
        PROVE  LagInv'
    <2>1. PICK r : /\ Become(p, r) /\ r.doomed = {}
                   /\ r.at \in {"idle", "access", "probe", "mint"}
                   /\ r.at = "probe" => r.key = recorded
                   /\ r.at = "mint" => ~Healthy
      BY <1>0, <1>1 DEF Start, ReadAccess, Probe, Idle, Doing, IsDue, Healthy, LagInv
    <2>2. UNCHANGED <<account, path, held, budget>> /\ run[p].at \notin {"mint", "write"}
      BY <1>1 DEF Start, ReadAccess, Probe
    <2>3. QED
      BY <1>0, <2>1, <2>2, SoleRun DEF LagInv, Healthy, account, path, budget
  <1>2. ASSUME NEW p \in Process, Mint(p) PROVE LagInv'
    BY <1>0, <1>2, SoleRun DEF LagInv, Mint, Issue, Doing, path, budget
  <1>3. ASSUME NEW p \in Process, Write(p) PROVE LagInv'
    BY <1>0, <1>3, SoleRun DEF LagInv, RecordedInv, Healthy, Write, Record, Doing,
                               Coherent, account, budget
  <1>4. ASSUME NEW p \in Process, Survey(p) PROVE LagInv'
    <2>1. PICK own : Drain(p, IDsToDrain(live, Keep(p)) \ own)
      BY <1>4 DEF Survey
    <2>2. live \in SUBSET (1..minted) /\ Keep(p) = KeepNewest
      BY DEF TypeOK, Keep, Process, Margin
    <2>3. \A i \in IDsToDrain(live, Keep(p)) : i + KeepNewest <= minted
      BY <1>0, <2>2, DrainKeeps
    <2>4. QED
      BY <1>0, <1>4, <2>1, <2>3, SoleDrain
      DEF LagInv, Healthy, Survey, account, path, budget
  <1>5. ASSUME NEW p \in Process, Revoke(p) \/ RevokeFails(p) PROVE LagInv'
    <2>1. PICK i \in run[p].doomed :
            /\ Drain(p, run[p].doomed \ {i})
            /\ drained' \subseteq drained \cup {i}
            /\ granting \ {i} \subseteq granting'
      BY <1>5 DEF Revoke, RevokeFails, account
    <2>2. /\ UNCHANGED <<minted, path, held, upsets>> /\ run[p].at = "revoke"
          /\ faults' \in Nat /\ faults' >= faults
      BY <1>0, <1>5 DEF Revoke, RevokeFails, Fault, account, budget
    <2>3. i # minted
      BY <2>1 DEF RecordedInv
    <2>4. Healthy => Healthy'
      BY <2>1, <2>2, <2>3 DEF Healthy, path
    <2>5. QED
      BY <1>0, <2>1, <2>2, <2>4, SoleDrain DEF LagInv, path
  <1>6. ASSUME NEW p \in Process, Abort(p) PROVE LagInv'
    BY <1>0, <1>6, SoleRun DEF LagInv, Healthy, Abort, Fault, Idle, Doing, account, path
  <1>7. ASSUME NEW p \in Process, MintLost(p) PROVE LagInv'
    BY <1>0, <1>7, SoleRun DEF LagInv, MintLost, Issue, Fault, Idle, Doing, path
  <1>8. ASSUME NEW p \in Process, WriteLost(p) PROVE LagInv'
    BY <1>0, <1>8, SoleRun DEF LagInv, RecordedInv, Healthy, WriteLost, Record, Fault,
                               Idle, Doing, Coherent, account
  <1>9. CASE Sync
    BY <1>0, <1>9 DEF LagInv, Healthy, Sync, account, path, budget
  <1>10. CASE Age
    BY <1>0, <1>10 DEF LagInv, Healthy, Age, account
  <1>11. CASE Break
    BY <1>0, <1>11 DEF LagInv, Healthy, Break, Upset, path
  <1>12. CASE Wipe
    BY <1>0, <1>12 DEF LagInv, Healthy, Wipe, Upset, account
  <1>13. CASE UNCHANGED vars
    BY <1>13 DEF LagInv, Healthy, vars, account, path, budget
  <1>14. QED
    BY <1>1, <1>2, <1>3, <1>4, <1>5, <1>6, <1>7, <1>8, <1>9, <1>10, <1>11, <1>12, <1>13
    DEF Next, Step, Failure

\* What LagInv and the margin say of the key the consumers hold.
LEMMA HeldIsRecent ==
  ASSUME NEW m \in Nat, NEW h \in 0..m, NEW f \in 0..MaxFaults, NEW u \in 0..MaxUpsets,
         NEW S, m - h <= 1 + f + u, \A i \in S : i + KeepNewest <= m, Margin
  PROVE  h \notin S
  BY KeepAssumption, BudgetAssumption DEF Margin

\* With enough generations kept, no drain revokes the key the consumers hold.
THEOREM HeldSafe == ASSUME OneProcess, Margin PROVE Spec => []HeldNotDrained
  <1> DEFINE I == TypeOK /\ RecordedInv /\ LagInv
  <1>1. Init => I
    BY InitTypeOK, InitRecordedInv, InitLagInv
  <1>2. I /\ [Next]_vars => I'
    BY NextTypeOK, NextRecordedInv, NextLagInv
  <1>3. I => HeldNotDrained
    BY KeepAssumption, BudgetAssumption DEF TypeOK, LagInv, Margin, HeldNotDrained
  <1>4. QED
    BY <1>1, <1>2, <1>3, PTL DEF Spec

-----------------------------------------------------------------------------
(* Refinement of Credential *)

\* A key about to be published is newer than the one in use.
ForwardInv == \A p \in Process : run[p].at = "write" => held < minted

Inv == TypeOK /\ RecordedInv /\ LagInv /\ ForwardInv

\* Nothing is about to be published at first.
LEMMA InitInv == Init => Inv
  BY InitTypeOK, InitRecordedInv, InitLagInv DEF Inv, Init, ForwardInv, Idle, Doing

\* Every step of a single writer with the margin keeps the conjunction.
LEMMA NextInv ==
  ASSUME OneProcess, Margin, Inv, [Next]_vars
  PROVE  Inv'
  <1>1. TypeOK /\ RecordedInv /\ LagInv /\ ForwardInv
    BY DEF Inv
  <1>2. TypeOK' /\ RecordedInv' /\ LagInv'
    BY <1>1, NextTypeOK, NextRecordedInv, NextLagInv
  <1>3. ASSUME NEW p \in Process, Step(p) \/ Failure(p) PROVE ForwardInv'
    <2>1. minted \in Nat /\ held \in 0..minted /\ held' = held /\ run \in [Process -> Run]
      BY <1>1, <1>3 DEF TypeOK, Step, Failure, Start, ReadAccess, Probe, Mint, Write, Survey,
                        Revoke, Abort, MintLost, WriteLost, RevokeFails
    <2>2. \A q \in Process : q = p
      BY DEF OneProcess
    <2>3. CASE Mint(p)
      BY <2>1, <2>3 DEF Mint, Issue, ForwardInv
    <2>4. CASE ~Mint(p)
      <3>1. run'[p].at # "write"
        <4>1. ASSUME NEW ids, Drain(p, ids) PROVE run'[p].at # "write"
          BY <2>1, <4>1 DEF Drain, Become, Idle, Doing
        <4>2. CASE Survey(p) \/ Revoke(p) \/ RevokeFails(p)
          BY <4>1, <4>2 DEF Survey, Revoke, RevokeFails
        <4>3. CASE Start(p) \/ ReadAccess(p) \/ Probe(p) \/ Write(p)
          BY <2>1, <4>3 DEF Start, ReadAccess, Probe, Write, Become, Idle, Doing
        <4>4. CASE Abort(p) \/ MintLost(p) \/ WriteLost(p)
          BY <2>1, <4>4 DEF Abort, MintLost, WriteLost, Become, Idle, Doing
        <4>5. QED
          BY <1>3, <2>4, <4>2, <4>3, <4>4 DEF Step, Failure
      <3>2. QED
        BY <2>2, <3>1 DEF ForwardInv
    <2>5. QED
      BY <2>3, <2>4
  <1>4. ASSUME Sync PROVE ForwardInv'
    BY <1>1, <1>4 DEF ForwardInv, LagInv, Sync, account
  <1>5. ASSUME Age \/ Break \/ Wipe \/ UNCHANGED vars PROVE ForwardInv'
    BY <1>1, <1>5 DEF ForwardInv, Age, Break, Wipe, vars, account
  <1>6. QED
    BY <1>2, <1>3, <1>4, <1>5 DEF Next, Inv

\* Every step is one of Credential's or leaves its variables alone.
LEMMA StepPromised ==
  ASSUME OneProcess, Margin, Inv, Inv', [Next]_vars
  PROVE  [Promise!Next]_(Promise!vars)
  <1>1. TypeOK /\ RecordedInv /\ LagInv /\ ForwardInv
    BY DEF Inv
  <1>2. RecordedNotDrained' /\ HeldNotDrained'
    <2>1. TypeOK' /\ RecordedInv' /\ LagInv'
      BY DEF Inv
    <2>2. HeldNotDrained'
      <3>1. /\ minted' \in Nat /\ held' \in 0..minted'
            /\ faults' \in 0..MaxFaults /\ upsets' \in 0..MaxUpsets
        BY <2>1 DEF TypeOK
      <3>2. /\ minted' - held' <= 1 + faults' + upsets'
            /\ \A i \in drained' : i + KeepNewest <= minted'
        BY <2>1 DEF LagInv
      <3>3. QED
        BY <3>1, <3>2, HeldIsRecent DEF HeldNotDrained
    <2>3. QED
      BY <2>1, <2>2 DEF RecordedInv, RecordedNotDrained
  <1>3. ASSUME NEW p \in Process, Write(p) \/ WriteLost(p) PROVE Promise!Publish
    <2>1. recorded' = run[p].key /\ UNCHANGED <<held, drained>> /\ run[p].at = "write"
      BY <1>3 DEF Write, WriteLost, Record, account
    <2>2. run[p].key = minted /\ minted \in Nat /\ minted \notin drained
      BY <1>1, <2>1 DEF TypeOK, RecordedInv
    <2>3. recorded < minted /\ held < minted
      BY <1>1, <2>1 DEF LagInv, ForwardInv
    <2>4. QED
      BY <2>1, <2>2, <2>3 DEF Promise!Publish
  <1>4. ASSUME NEW p \in Process, Revoke(p) PROVE Promise!Retire
    <2>1. drained \subseteq drained' /\ UNCHANGED <<recorded, held>>
      BY <1>4 DEF Revoke, path
    <2>2. QED
      BY <1>2, <2>1 DEF Promise!Retire, RecordedNotDrained, HeldNotDrained
  <1>5. ASSUME NEW p \in Process, (Step(p) \/ Failure(p)) /\ ~(Write(p) \/ WriteLost(p) \/ Revoke(p))
        PROVE  UNCHANGED <<recorded, held, drained>>
    BY <1>5 DEF Step, Failure, Start, ReadAccess, Probe, Mint, Issue, Survey, Abort, MintLost,
                RevokeFails, account, path
  <1>6. ASSUME Sync PROVE Promise!Adopt
    BY <1>6 DEF Sync, account, path, Promise!Adopt
  <1>7. ASSUME Wipe PROVE Promise!Withdraw
    BY <1>7 DEF Wipe, account, Promise!Withdraw
  <1>8. ASSUME Age \/ Break \/ UNCHANGED vars PROVE UNCHANGED <<recorded, held, drained>>
    BY <1>8 DEF Age, Break, vars, account, path
  <1>9. QED
    BY <1>3, <1>4, <1>5, <1>6, <1>7, <1>8 DEF Next, Promise!Next, Promise!vars

\* With one writer and enough generations kept, the rotation keeps the promise of
\* Credential: between any two calls, whatever failed before, neither the
\* published key nor the one in use is revoked, and publication only goes forward.
THEOREM Implements == ASSUME OneProcess, Margin PROVE Spec => ImplementsCredential
  <1>1. Init => Inv /\ Promise!Init
    BY InitInv DEF Init, Promise!Init
  <1>2. Inv /\ [Next]_vars => Inv' /\ [Promise!Next]_(Promise!vars)
    BY NextInv, StepPromised
  <1>3. QED
    BY <1>1, <1>2, PTL DEF Spec, ImplementsCredential, Promise!Spec
=============================================================================
