------------------------ MODULE ESStoreRecoveryProofs ------------------------
(***************************************************************************)
(* The es-store-recovery lane never regards a recovery as dealt with       *)
(* before it has delivered it.                                             *)
(*                                                                         *)
(* What a process remembers, what its pass is at and what it knows of the  *)
(* latest outage fit together (RecoveryInv): one that saw the outage       *)
(* remembers it until a fan-out has covered every object still ill, and an *)
(* object that is neither stamped nor still to be patched can only belong  *)
(* to a fan-out that has failed.  The last part is about the write loop:   *)
(* what makes it end.                                                      *)
(***************************************************************************)
EXTENDS ESStoreRecovery, TLAPS

\* Of these objects, none is left out by what r has concluded or is doing.
Covers(r, objects) ==
  /\ up /\ lastReady[r] = "true" => objects \subseteq due
  /\ up /\ pass[r].at = "fanout" /\ ~pass[r].failed => objects \subseteq due \cup pass[r].todo

SeenInv(r) ==
  /\ lastReady[r] # "unknown" /\ pass[r].at # "probe"
  /\ ~up => lastReady[r] = "false" /\ pass[r].at = "idle"
  /\ Covers(r, ill)

FreshInv(r) ==
  /\ lastReady[r] # "false"
  /\ ~up => lastReady[r] = "unknown" /\ pass[r].at = "idle"
  /\ Covers(r, ill \cap ExternalSecret)

RecoveryInv ==
  \A r \in Replica :
    /\ pass[r].at # "idle" => lastReady[r] # "true"
    /\ witness[r] = "seen" => SeenInv(r)
    /\ witness[r] = "fresh" => FreshInv(r)

-----------------------------------------------------------------------------
(* Types *)

\* The three shapes of a pass are passes.
LEMMA PassShapes ==
  /\ Idle \in Pass /\ Probing \in Pass
  /\ \A todo \in SUBSET Object, failed \in BOOLEAN : FanOut(todo, failed) \in Pass
  BY DEF Idle, Probing, FanOut, Pass

\* Each way to change one process's variables keeps their types.
LEMMA BecomeTyped ==
  ASSUME TypeOK, NEW r \in Replica, NEW p \in Pass, Become(r, p)
  PROVE  pass' \in [Replica -> Pass]
  BY DEF TypeOK, Become

LEMMA RememberTyped ==
  ASSUME TypeOK, NEW r \in Replica, NEW ready \in {"unknown", "true", "false"}, Remember(r, ready)
  PROVE  lastReady' \in [Replica -> {"unknown", "true", "false"}]
  BY DEF TypeOK, Remember

LEMMA KnowTyped ==
  ASSUME TypeOK, NEW r \in Replica, NEW w \in Witness, Know(r, w)
  PROVE  witness' \in [Replica -> Witness]
  BY DEF TypeOK, Know

\* The initial states are typed.
LEMMA InitTypeOK == Init => TypeOK
  <1> SUFFICES ASSUME Init PROVE TypeOK
    OBVIOUS
  <1>1. /\ up \in BOOLEAN /\ ill \subseteq Object /\ due \subseteq Object
        /\ lead \in Replica \cup {Nobody}
    BY DEF Init
  <1>2. pass \in [Replica -> Pass]
    BY PassShapes DEF Init
  <1>3. /\ lastReady \in [Replica -> {"unknown", "true", "false"}]
        /\ witness \in [Replica -> Witness]
    BY DEF Init, Witness
  <1>4. fanoutErr \in [Replica -> 0..Budget - 1] /\ upsets \in 0..MaxUpsets
    BY BudgetAssumption DEF Init
  <1>5. QED
    BY <1>1, <1>2, <1>3, <1>4 DEF TypeOK

\* Every step keeps the types.
LEMMA NextTypeOK == TypeOK /\ [Next]_vars => TypeOK'
  <1> SUFFICES ASSUME TypeOK, [Next]_vars PROVE TypeOK'
    OBVIOUS
  <1> DEFINE World == /\ up' \in BOOLEAN /\ ill' \subseteq Object /\ due' \subseteq Object
                      /\ lead' \in Replica \cup {Nobody} /\ upsets' \in 0..MaxUpsets
             Minds == /\ lastReady' \in [Replica -> {"unknown", "true", "false"}]
                      /\ fanoutErr' \in [Replica -> 0..Budget - 1]
                      /\ witness' \in [Replica -> Witness]
             Passes == pass' \in [Replica -> Pass]
  <1>0. /\ UNCHANGED <<up, ill, due, lead, upsets>> => World
        /\ UNCHANGED <<lastReady, fanoutErr, witness>> => Minds
        /\ UNCHANGED pass => Passes
    BY DEF TypeOK
  <1>1. ASSUME NEW r \in Replica, Observe(r) PROVE World /\ Minds /\ Passes
    <2>1. World /\ UNCHANGED fanoutErr
      BY <1>0, <1>1 DEF Observe, world
    <2>2. Passes
      BY <1>0, <1>1, PassShapes, BecomeTyped DEF Observe
    <2>3. /\ Remember(r, "false") \/ UNCHANGED lastReady
          /\ Know(r, "seen") \/ UNCHANGED witness
      BY <1>1 DEF Observe
    <2>4. QED
      BY <2>1, <2>2, <2>3, RememberTyped, KnowTyped DEF TypeOK, Witness
  <1>2. ASSUME NEW r \in Replica, Probe(r) PROVE World /\ Minds /\ Passes
    <2>1. World /\ UNCHANGED <<fanoutErr, witness>>
      BY <1>0, <1>2 DEF Probe, world
    <2>2. Passes
      BY <1>0, <1>2, PassShapes, BecomeTyped DEF Probe
    <2>3. Remember(r, "true") \/ UNCHANGED lastReady
      BY <1>2 DEF Probe
    <2>4. QED
      BY <2>1, <2>2, <2>3, RememberTyped DEF TypeOK
  <1>3. ASSUME NEW r \in Replica, Patch(r) PROVE World /\ Minds /\ Passes
    <2>1. pass[r] \in Pass /\ due \subseteq Object
      BY DEF TypeOK
    <2>2. pass[r].todo \subseteq Object /\ pass[r].failed \in BOOLEAN
      BY <2>1 DEF Pass
    <2>3. Front(pass[r].todo) \subseteq Object
      BY <2>2 DEF Front
    <2>4. PICK o \in Front(pass[r].todo) :
            \/ due' = due \cup {o} /\ Become(r, FanOut(pass[r].todo \ {o}, pass[r].failed))
            \/ due' = due /\ Become(r, FanOut(pass[r].todo \ {o}, TRUE))
      BY <1>3 DEF Patch
    <2>5. Passes
      BY <2>2, <2>4, PassShapes, BecomeTyped
    <2>6. due' \subseteq Object
      BY <2>1, <2>3, <2>4
    <2>7. QED
      BY <1>0, <1>3, <2>5, <2>6 DEF Patch, memory, TypeOK
  <1>4. ASSUME NEW r \in Replica, ListFails(r) PROVE World /\ Minds /\ Passes
    <2>1. pass[r] \in Pass
      BY DEF TypeOK
    <2>2. pass[r].todo \ Front(pass[r].todo) \in SUBSET Object
      BY <2>1 DEF Pass
    <2>3. Passes
      BY <1>4, <2>2, PassShapes, BecomeTyped DEF ListFails
    <2>4. QED
      BY <1>0, <1>4, <2>3 DEF ListFails, world, memory
  <1>5. ASSUME NEW r \in Replica, Conclude(r) PROVE World /\ Minds /\ Passes
    <2>1. World
      BY <1>0, <1>5 DEF Conclude, world
    <2>2. Passes
      BY <1>5, PassShapes, BecomeTyped DEF Conclude
    <2>3. /\ Remember(r, "true") \/ UNCHANGED lastReady
          /\ Know(r, "none") \/ UNCHANGED witness
      BY <1>5 DEF Conclude
    <2>4. fanoutErr' \in [Replica -> 0..Budget - 1]
      <3>1. fanoutErr \in [Replica -> 0..Budget - 1] /\ Budget \in Nat \ {0}
        BY BudgetAssumption DEF TypeOK
      <3>2. \E n \in 0..Budget - 1 : fanoutErr' = [fanoutErr EXCEPT ![r] = n]
        BY <1>5, <3>1 DEF Conclude
      <3>3. QED
        BY <3>1, <3>2
    <2>5. QED
      BY <2>1, <2>2, <2>3, <2>4, RememberTyped, KnowTyped DEF TypeOK, Witness
  <1>6. ASSUME NEW r \in Replica, Restart(r) PROVE World /\ Minds /\ Passes
    <2>1. upsets' \in 0..MaxUpsets
      BY <1>6, BudgetAssumption DEF Restart, Upset, TypeOK
    <2>2. World
      BY <1>6, <2>1 DEF Restart, world, TypeOK
    <2>3. fanoutErr' \in [Replica -> 0..Budget - 1]
      BY <1>6, BudgetAssumption DEF Restart, TypeOK
    <2>4. QED
      BY <1>6, <2>2, <2>3, PassShapes, BecomeTyped, RememberTyped, KnowTyped
      DEF Restart, Witness
  <1>7. ASSUME NEW o \in Object, Sync(o) PROVE World /\ Minds /\ Passes
    <2>1. ill' \subseteq Object /\ due' \subseteq Object
      BY <1>7 DEF Sync, TypeOK
    <2>2. QED
      BY <1>7, <2>1 DEF Sync, memory, TypeOK
  <1>8. CASE StoreRises
    BY <1>8 DEF StoreRises, memory, TypeOK
  <1>9. CASE StoreFalls
    <2>1. upsets' \in 0..MaxUpsets
      BY <1>9, BudgetAssumption DEF StoreFalls, Upset, TypeOK
    <2>2. witness' \in [Replica -> Witness]
      BY <1>9 DEF StoreFalls, Witness
    <2>3. QED
      BY <1>9, <2>1, <2>2 DEF StoreFalls, memory, TypeOK
  <1>10. CASE Elect
    <2>1. upsets' \in 0..MaxUpsets
      BY <1>10, BudgetAssumption DEF Elect, Upset, TypeOK
    <2>2. QED
      BY <1>10, <2>1 DEF Elect, world, memory, TypeOK
  <1>11. CASE UNCHANGED vars
    BY <1>0, <1>11 DEF vars, world, memory, TypeOK
  <1>12. QED
    <2>1. ASSUME World, Minds, Passes PROVE TypeOK'
      BY <2>1 DEF TypeOK
    <2>2. QED
      BY <1>1, <1>2, <1>3, <1>4, <1>5, <1>6, <1>7, <1>8, <1>9, <1>10, <1>11, <2>1 DEF Next, Step

\* Every state of the lane is typed.
THEOREM TypeCorrect == Spec => []TypeOK
  BY InitTypeOK, NextTypeOK, PTL DEF Spec

-----------------------------------------------------------------------------
(* The transition is not consumed before it is delivered *)

\* No process has looked yet.
LEMMA InitRecoveryInv == Init => RecoveryInv
  <1> SUFFICES ASSUME Init, NEW r \in Replica
               PROVE  /\ pass[r].at # "idle" => lastReady[r] # "true"
                      /\ witness[r] = "seen" => SeenInv(r)
                      /\ witness[r] = "fresh" => FreshInv(r)
    BY DEF RecoveryInv
  <1>1. lastReady[r] = "unknown" /\ pass[r].at = "idle" /\ witness[r] = "fresh"
    BY DEF Init, Idle
  <1>2. QED
    BY <1>1 DEF FreshInv, Covers

\* A process whose memory, pass and witness stay keeps its part of RecoveryInv
\* while more objects are stamped and none falls ill.
LEMMA OtherProcess ==
  ASSUME NEW q \in Replica, RecoveryInv,
         lastReady'[q] = lastReady[q], pass'[q] = pass[q], witness'[q] = witness[q],
         up' = up, ill' = ill, due \subseteq due'
  PROVE  /\ pass'[q].at # "idle" => lastReady'[q] # "true"
         /\ witness'[q] = "seen" => SeenInv(q)'
         /\ witness'[q] = "fresh" => FreshInv(q)'
  BY DEF RecoveryInv, SeenInv, FreshInv, Covers

\* Every step keeps RecoveryInv.
LEMMA NextRecoveryInv == TypeOK /\ RecoveryInv /\ [Next]_vars => RecoveryInv'
  <1> SUFFICES ASSUME TypeOK, RecoveryInv, [Next]_vars, NEW q \in Replica
               PROVE  /\ pass'[q].at # "idle" => lastReady'[q] # "true"
                      /\ witness'[q] = "seen" => SeenInv(q)'
                      /\ witness'[q] = "fresh" => FreshInv(q)'
    BY DEF RecoveryInv
  <1> DEFINE Kept == /\ pass'[q].at # "idle" => lastReady'[q] # "true"
                     /\ witness'[q] = "seen" => SeenInv(q)'
                     /\ witness'[q] = "fresh" => FreshInv(q)'
  <1>0. /\ pass[q].at # "idle" => lastReady[q] # "true"
        /\ witness[q] = "seen" => SeenInv(q)
        /\ witness[q] = "fresh" => FreshInv(q)
        /\ ill \subseteq Object /\ q \in DOMAIN pass /\ q \in DOMAIN lastReady
        /\ q \in DOMAIN witness /\ pass[q] \in Pass /\ up \in BOOLEAN
    BY DEF RecoveryInv, TypeOK
  <1>1. ASSUME NEW r \in Replica, Step(r) \/ Restart(r), r # q PROVE Kept
    <2>1. /\ lastReady'[q] = lastReady[q] /\ pass'[q] = pass[q] /\ witness'[q] = witness[q]
          /\ up' = up /\ ill' = ill /\ due \subseteq due'
      BY <1>1 DEF TypeOK, Step, Restart, Observe, Probe, Patch, ListFails, Conclude,
                  Become, Remember, Know, world, memory
    <2>2. QED
      BY <2>1, OtherProcess
  <1>2. ASSUME Observe(q) PROVE Kept
    BY <1>0, <1>2 DEF Observe, Become, Remember, Know, world, Idle, Probing, FanOut,
                      SeenInv, FreshInv, Covers
  <1>3. ASSUME Probe(q) PROVE Kept
    BY <1>0, <1>3 DEF Probe, Become, Remember, world, Idle, FanOut, SeenInv, FreshInv, Covers
  <1>4. ASSUME Patch(q) PROVE Kept
    <2>1. PICK o \in Front(pass[q].todo) :
            \/ due' = due \cup {o} /\ Become(q, FanOut(pass[q].todo \ {o}, pass[q].failed))
            \/ due' = due /\ Become(q, FanOut(pass[q].todo \ {o}, TRUE))
      BY <1>4 DEF Patch
    <2>2. /\ UNCHANGED <<up, ill, lastReady, witness>> /\ pass[q].at = "fanout"
          /\ pass'[q].at = "fanout" /\ pass'[q].todo = pass[q].todo \ {o}
          /\ pass'[q].failed \/ (due' = due \cup {o} /\ pass'[q].failed = pass[q].failed)
          /\ due \subseteq due'
      BY <1>0, <1>4, <2>1 DEF Patch, memory, Become, FanOut
    <2>3. QED
      BY <1>0, <2>2 DEF SeenInv, FreshInv, Covers
  <1>5. ASSUME ListFails(q) PROVE Kept
    BY <1>0, <1>5 DEF ListFails, Become, FanOut, world, memory, SeenInv, FreshInv, Covers
  <1>6. ASSUME Conclude(q) PROVE Kept
    BY <1>0, <1>6 DEF Conclude, Become, Remember, Know, Idle, world, SeenInv, FreshInv, Covers
  <1>7. ASSUME Restart(q) PROVE Kept
    BY <1>0, <1>7 DEF Restart, Become, Remember, Know, Idle, world, FreshInv, Covers
  <1>8. ASSUME NEW o \in Object, Sync(o) PROVE Kept
    <2>1. UNCHANGED <<up, lastReady, pass, witness>> /\ due' = due \ {o}
      BY <1>8 DEF Sync, memory
    <2>2. CASE up
      BY <1>0, <1>8, <2>1, <2>2 DEF Sync, SeenInv, FreshInv, Covers
    <2>3. CASE ~up
      BY <1>0, <2>1, <2>3 DEF SeenInv, FreshInv, Covers
    <2>4. QED
      BY <2>2, <2>3
  <1>9. CASE StoreRises
    BY <1>0, <1>9 DEF StoreRises, memory, SeenInv, FreshInv, Covers
  <1>10. CASE StoreFalls
    BY <1>0, <1>10 DEF StoreFalls, memory
  <1>11. CASE Elect \/ UNCHANGED vars
    BY <1>0, <1>11 DEF Elect, vars, world, memory, SeenInv, FreshInv, Covers
  <1>12. QED
    BY <1>1, <1>2, <1>3, <1>4, <1>5, <1>6, <1>7, <1>8, <1>9, <1>10, <1>11 DEF Next, Step

\* However fan-outs fail and leaders change, the lane holds a recovery for dealt
\* with only when every object the outage left behind is stamped.
THEOREM DeliveredSafe == Spec => []TransitionDelivered
  <1>1. Init => TypeOK /\ RecoveryInv
    BY InitTypeOK, InitRecoveryInv
  <1>2. TypeOK /\ RecoveryInv /\ [Next]_vars => (TypeOK /\ RecoveryInv)'
    BY NextTypeOK, NextRecoveryInv
  <1>3. RecoveryInv => TransitionDelivered
    BY DEF RecoveryInv, SeenInv, FreshInv, Covers, TransitionDelivered
  <1>4. QED
    BY <1>1, <1>2, <1>3, PTL DEF Spec

-----------------------------------------------------------------------------
(* The write loop *)

\* Fan-outs r has left for the recovery at hand.
RetriesLeft(r) == IF lastReady[r] = "true" THEN 0 ELSE Budget - fanoutErr[r]

\* What ends the write loop of es_store_recovery.go:56-58: as long as nothing else
\* happens, every fan-out that ends takes one from what is left, and while the store
\* is up nothing adds to it.  So it is fanned out at most Budget times.
FanoutsSpend ==
  [][\A r \in Replica :
       upsets' = upsets =>
         /\ up => RetriesLeft(r)' <= RetriesLeft(r)
         /\ pass[r].at = "fanout" /\ pass'[r].at # "fanout"
              => RetriesLeft(r)' < RetriesLeft(r)]_vars

\* Each step of one process, or of the world, spends or leaves what is left.
LEMMA StepSpends ==
  ASSUME TypeOK, RecoveryInv, [Next]_vars, upsets' = upsets, NEW q \in Replica
  PROVE  /\ up => RetriesLeft(q)' <= RetriesLeft(q)
         /\ pass[q].at = "fanout" /\ pass'[q].at # "fanout" => RetriesLeft(q)' < RetriesLeft(q)
  <1> DEFINE Spent == /\ up => RetriesLeft(q)' <= RetriesLeft(q)
                      /\ pass[q].at = "fanout" /\ pass'[q].at # "fanout"
                           => RetriesLeft(q)' < RetriesLeft(q)
  <1>0. /\ fanoutErr[q] \in Nat /\ fanoutErr[q] < Budget /\ Budget \in Nat
        /\ lastReady \in [Replica -> {"unknown", "true", "false"}]
        /\ fanoutErr \in [Replica -> 0..Budget - 1] /\ pass \in [Replica -> Pass]
        /\ pass[q].at # "idle" => lastReady[q] # "true"
        /\ upsets \in Nat
    BY BudgetAssumption DEF TypeOK, RecoveryInv
  <1>1. ~Upset
    BY <1>0 DEF Upset
  <1>2. ASSUME lastReady'[q] = lastReady[q], fanoutErr'[q] = fanoutErr[q],
               pass[q].at = "fanout" => pass'[q].at = "fanout"
        PROVE  Spent
    BY <1>0, <1>2 DEF RetriesLeft
  <1>3. ASSUME NEW r \in Replica, Step(r), r # q PROVE Spent
    <2>1. lastReady'[q] = lastReady[q] /\ fanoutErr'[q] = fanoutErr[q] /\ pass'[q] = pass[q]
      BY <1>0, <1>3 DEF Step, Observe, Probe, Patch, ListFails, Conclude, Become, Remember, memory
    <2>2. QED
      BY <1>2, <2>1
  <1>4. CASE Observe(q)
    <2>1. pass[q].at = "idle" /\ fanoutErr'[q] = fanoutErr[q]
      BY <1>4 DEF Observe, Idle
    <2>2. ~up \/ lastReady' = lastReady
      BY <1>4 DEF Observe
    <2>3. QED
      BY <1>0, <2>1, <2>2 DEF RetriesLeft
  <1>5. CASE Probe(q)
    <2>1. /\ pass[q].at = "probe" /\ fanoutErr'[q] = fanoutErr[q]
          /\ lastReady'[q] \in {lastReady[q], "true"}
      BY <1>0, <1>5 DEF Probe, Remember
    <2>2. QED
      BY <1>0, <2>1 DEF RetriesLeft
  <1>6. CASE Patch(q) \/ ListFails(q)
    <2>1. pass'[q].at = "fanout" /\ UNCHANGED memory
      BY <1>0, <1>6 DEF Patch, ListFails, Become, FanOut
    <2>2. QED
      BY <1>2, <2>1 DEF memory
  <1>7. CASE Conclude(q)
    <2>1. lastReady[q] # "true"
      BY <1>0, <1>7 DEF Conclude
    <2>2. \/ lastReady'[q] = lastReady[q] /\ fanoutErr'[q] = fanoutErr[q] + 1
          \/ lastReady'[q] = "true"
      BY <1>0, <1>7 DEF Conclude, Remember
    <2>3. QED
      BY <1>0, <2>1, <2>2 DEF RetriesLeft
  <1>8. CASE (\E o \in Object : Sync(o)) \/ StoreRises \/ UNCHANGED vars
    BY <1>2, <1>8 DEF Sync, StoreRises, vars, memory
  <1>9. CASE StoreFalls \/ Elect \/ \E r \in Replica : Restart(r)
    BY <1>1, <1>9 DEF StoreFalls, Elect, Restart
  <1>10. QED
    BY <1>3, <1>4, <1>5, <1>6, <1>7, <1>8, <1>9 DEF Next, Step

\* Between two outages, elections or restarts a process fans a recovery out at most
\* Budget times, whatever fails.
THEOREM BudgetSafe == Spec => FanoutsSpend
  <1>1. Init => TypeOK /\ RecoveryInv
    BY InitTypeOK, InitRecoveryInv
  <1>2. TypeOK /\ RecoveryInv /\ [Next]_vars => (TypeOK /\ RecoveryInv)'
    BY NextTypeOK, NextRecoveryInv
  <1>3. TypeOK /\ RecoveryInv /\ [Next]_vars =>
          \A r \in Replica :
            upsets' = upsets =>
              /\ up => RetriesLeft(r)' <= RetriesLeft(r)
              /\ pass[r].at = "fanout" /\ pass'[r].at # "fanout"
                   => RetriesLeft(r)' < RetriesLeft(r)
    BY StepSpends
  <1>4. QED
    BY <1>1, <1>2, <1>3, PTL DEF Spec, FanoutsSpend
=============================================================================
