-------------------------- MODULE PATRotationProofs --------------------------
(***************************************************************************)
(* No rotation revokes, or leaves to expire, a token that someone holds.   *)
(* The last part is about what a fresh stamp is worth.                     *)
(***************************************************************************)
EXTENDS PATRotation, TLAPS

-----------------------------------------------------------------------------
(* The inductive invariant *)

\* The rotator's run.
Rotator == run["rotator"]

\* Each program is where its owner's code takes it, and the rotator's run is this week's.
PlaceInv ==
  /\ run["reaper"].at \in {"idle", "survey", "revoke"}
  /\ owner = "cluster" => run["reaper"].at = "idle"
  /\ owner = "ci" => Rotator.at \in {"idle", "mint", "publish"}
  /\ "rotator" \notin ran => Rotator.at = "idle"

\* A publication is of a live token of this week, and the environments that are
\* through have it; so have all of them, and OpenBao, when the CronJob drains.
PublicationInv ==
  /\ Rotator.at \in {"publish", "write"} =>
       /\ Rotator.token \in Token
       /\ state[Rotator.token] = "live" /\ age[Rotator.token] = 0
       /\ \A d \in Deployment \ Rotator.todo : copy[d] = Rotator.token
  /\ Rotator.at \in {"survey", "revoke"} => age[bao] = 0 /\ \A d \in Deployment : age[copy[d]] = 0

\* A token that is neither an orphan nor being published was published everywhere, and
\* only younger ones since.
OrderInv ==
  \A t \in Token :
    state[t] = "live" /\ t \notin orphans /\ ~(Rotator.at = "publish" /\ Rotator.token = t) =>
      \A d \in Deployment : age[copy[d]] <= age[t]

\* The same of a job's token and those of the weeks before.
FlightInv ==
  inflight # None =>
    \A t \in Token : state[t] = "live" /\ t \notin orphans /\ age[t] > 0 => age[inflight] <= age[t]

\* Someone uses t.
Held(t) == t = inflight \/ \E d \in Deployment : copy[d] = t

\* A drain takes from nobody but for a token that was minted in vain.
DoomedInv ==
  \A p \in Program : \A t \in run[p].doomed :
    /\ state[t] # "free" /\ age[t] > 0
    /\ Held(t) => MintedInVain(t)

\* What is held has been issued, and is revoked only for a token minted in vain.
HeldInv ==
  /\ \A d \in Deployment :
       /\ state[copy[d]] # "free"
       /\ state[copy[d]] = "revoked" => owner = "ci" /\ MintedInVain(copy[d])
  /\ inflight # None =>
       state[inflight] # "free" /\ (state[inflight] = "revoked" => MintedInVain(inflight))

\* Between the day a rotation is due and the expiry there is a week for each failure.
InTime == 0 < RotateAfter /\ RotateAfter + MaxFaults < Validity

\* The CronJob's stamp is never ahead of a copy, and each week that it is late has failed.
ClusterInv ==
  owner = "cluster" =>
    /\ bao \in Token /\ state[bao] = "live" /\ age[bao] <= stamp
    /\ \A d \in Deployment : age[copy[d]] <= stamp
    /\ InTime =>
         /\ stamp <= RotateAfter + faults
         /\ "rotator" \in ran /\ Rotator.at \in {"idle", "survey", "revoke"} =>
              stamp < RotateAfter + faults

\* Together they are inductive.
IInv ==
  /\ TypeOK /\ PlaceInv /\ PublicationInv /\ OrderInv /\ FlightInv
  /\ DoomedInv /\ HeldInv /\ ClusterInv

-----------------------------------------------------------------------------
(* Types *)

\* The assumptions, one number at a time.
LEMMA Numbers ==
  /\ RotateAfter \in Nat /\ Month \in Nat /\ Grace \in Nat /\ Validity \in Nat /\ MaxFaults \in Nat
  /\ 0 < Grace /\ RotateAfter < Validity /\ Month < Validity
  BY TimeAssumption

\* The type invariant without the runs.
DataTyped ==
  /\ owner \in {"cluster", "ci"}
  /\ state \in [Token -> {"free", "live", "revoked"}]
  /\ age \in [Token -> 0..Validity]
  /\ copy \in [Deployment -> Token]
  /\ bao \in Token \cup {None}
  /\ stamp \in 0..Validity
  /\ ran \subseteq Program
  /\ inflight \in Token \cup {None}
  /\ orphans \subseteq Token
  /\ faults \in 0..MaxFaults

\* A run that publishes has something to publish, one that revokes something to revoke.
RunTyped(r) ==
  /\ r \in Run
  /\ r.at = "publish" <=> r.todo # {}
  /\ r.at = "revoke" <=> r.doomed # {}

\* The runs' part of it.
RunsTyped == run \in [Program -> Run] /\ \A p \in Program : RunTyped(run[p])

\* The two parts are the whole.
LEMMA TypeParts == TypeOK <=> DataTyped /\ RunsTyped
  BY DEF TypeOK, DataTyped, RunsTyped, RunTyped

\* A new run takes the old one's place, and the other program's stays.
LEMMA Becomes ==
  ASSUME RunsTyped, NEW p \in Program, NEW r, RunTyped(r), Become(p, r)
  PROVE  RunsTyped' /\ run'[p] = r /\ \A q \in Program \ {p} : run'[q] = run[q]
  BY DEF RunsTyped, RunTyped, Become

\* An idle run is a run.
LEMMA IdleTyped ==
  RunTyped(Idle) /\ Idle.at = "idle" /\ Idle.doomed = {} /\ Idle.todo = {}
  BY DEF RunTyped, Idle, Run

\* A run that begins, or that surveys.
LEMMA AtTyped ==
  ASSUME NEW at \in {"mint", "survey", "write"}, NEW r, r = [Idle EXCEPT !.at = at]
  PROVE  RunTyped(r) /\ r.at = at /\ r.doomed = {}
  BY DEF RunTyped, Idle, Run

\* What is left to revoke.
LEMMA GoesOn ==
  ASSUME RunsTyped, NEW p \in Program, NEW ids \in SUBSET Token, GoOn(p, ids)
  PROVE  /\ RunsTyped' /\ \A q \in Program \ {p} : run'[q] = run[q]
         /\ run'[p].doomed = ids
         /\ run'[p].at = IF ids = {} THEN "idle" ELSE "revoke"
  <1> DEFINE r == [Idle EXCEPT !.at = "revoke", !.doomed = ids]
  <1>1. r.doomed = ids /\ r.at = "revoke" /\ (ids # {} => RunTyped(r))
    BY DEF RunTyped, Idle, Run
  <1>2. Become(p, IF ids = {} THEN Idle ELSE r)
    BY DEF GoOn
  <1> HIDE DEF r
  <1>3. QED
    BY <1>1, <1>2, Becomes, IdleTyped

\* Linode issues a token that was free.
LEMMA Creates ==
  ASSUME DataTyped, Create
  PROVE  /\ Fresh \in Token /\ state[Fresh] = "free"
         /\ state' \in [Token -> {"free", "live", "revoked"}] /\ age' \in [Token -> 0..Validity]
         /\ state'[Fresh] = "live" /\ age'[Fresh] = 0
         /\ \A t \in Token \ {Fresh} : state'[t] = state[t] /\ age'[t] = age[t]
  <1>1. Fresh \in Token /\ state[Fresh] = "free"
    BY DEF Create, Fresh
  <1>2. QED
    BY <1>1, Numbers DEF DataTyped, Create

\* A publication of the token just issued.
LEMMA PublicationTyped ==
  ASSUME Fresh \in Token
  PROVE  RunTyped(Publication) /\ Publication.at = "publish" /\ Publication.token = Fresh
         /\ Publication.todo = Deployment /\ Publication.doomed = {}
  BY CopyAssumption DEF Publication, RunTyped, Run

\* A call that fails is counted, up to the bound.
LEMMA FaultTyped ==
  ASSUME DataTyped, Fault PROVE faults' \in 0..MaxFaults /\ faults' = faults + 1
  BY Numbers DEF DataTyped, Fault


-----------------------------------------------------------------------------
(* Steps that leave the tokens and the copies alone *)

\* A token minted in vain remains one while orphans are kept and nothing grows older.
LEMMA VainStays ==
  ASSUME DataTyped, NEW t \in Token, MintedInVain(t), orphans \subseteq orphans',
         age'[t] = age[t], \A u \in Token : age'[u] = age[u] \/ age'[u] = 0
  PROVE  MintedInVain(t)'
  <1>1. PICK u \in orphans \ {t} : age[u] <= age[t]
    BY DEF MintedInVain
  <1>2. u \in Token /\ age[t] \in 0..Validity /\ Validity \in Nat
    BY <1>1, Numbers DEF DataTyped
  <1>3. u \in orphans' \ {t} /\ age'[u] <= age'[t]
    BY <1>1, <1>2
  <1>4. QED
    BY <1>3 DEF MintedInVain

\* Nothing that is held changes hands.
Calm ==
  /\ UNCHANGED <<owner, state, age, copy>>
  /\ orphans \subseteq orphans' /\ inflight' \in {inflight, None}

\* The parts about holders are kept.
LEMMA CalmHeld ==
  ASSUME IInv, Calm
  PROVE  HeldInv' /\ FlightInv' /\ \A t \in Token : MintedInVain(t) => MintedInVain(t)'
  <1>1. \A t \in Token : MintedInVain(t) => MintedInVain(t)'
    BY DEF Calm, MintedInVain
  <1>2. DataTyped
    BY TypeParts DEF IInv
  <1>3. \A d \in Deployment : copy[d] \in Token
    BY <1>2 DEF DataTyped
  <1>4. HeldInv'
    BY <1>1, <1>2, <1>3 DEF IInv, HeldInv, Calm, DataTyped
  <1>5. FlightInv'
    BY DEF IInv, FlightInv, Calm
  <1>6. QED
    BY <1>1, <1>4, <1>5

\* The part about drains is kept where no program dooms more.
LEMMA CalmDoomed ==
  ASSUME IInv, Calm, \A p \in Program : run'[p].doomed \subseteq run[p].doomed
  PROVE  DoomedInv'
  <1>1. \A p \in Program : run[p].doomed \subseteq Token
    BY DEF IInv, TypeOK, Run
  <1>2. ASSUME NEW t \in Token, Held(t)' PROVE Held(t)
    BY <1>2, CopyAssumption DEF Held, Calm
  <1>3. QED
    BY <1>1, <1>2, CalmHeld DEF IInv, DoomedInv, Calm

\* The order is kept where the rotator's publication goes on, or leaves an orphan.
LEMMA CalmOrder ==
  ASSUME IInv, Calm,
         Rotator.at = "publish" =>
           \/ Rotator'.at = "publish" /\ Rotator'.token = Rotator.token
           \/ Rotator.token \in orphans'
  PROVE  OrderInv'
  BY DEF IInv, OrderInv, Calm

\* The rotator begins, or finds that it is not due.
LEMMA BeginStep ==
  ASSUME IInv, Begin
  PROVE  IInv'
  <1>1. DataTyped /\ RunsTyped /\ Rotator.at = "idle" /\ PlaceInv
    BY TypeParts DEF IInv, PlaceInv, Begin
  <1>2. "rotator" \in Program
    BY DEF Program
  <1> DEFINE r == [Idle EXCEPT !.at = "mint"]
  <1>3. RunTyped(r) /\ r.at = "mint" /\ r.doomed = {}
    BY AtTyped
  <1>4. \/ Become("rotator", r) /\ (owner = "ci" \/ UNCHANGED stamp) /\ stamp' \in {0, stamp}
        \/ UNCHANGED <<run, stamp>> /\ (owner = "cluster" => stamp < RotateAfter)
    BY DEF Begin
  <1>5. UNCHANGED <<owner, state, age, copy, bao, inflight, orphans, faults>> /\ ran' = ran \cup {"rotator"}
    BY DEF Begin, linode
  <1> HIDE DEF r
  <1>6. /\ RunsTyped' /\ run'["reaper"] = run["reaper"]
        /\ \/ Rotator'.at = "mint" /\ Rotator'.doomed = {} /\ (owner = "ci" \/ UNCHANGED stamp)
           \/ run' = run /\ (owner = "cluster" => stamp < RotateAfter) /\ UNCHANGED stamp
    <2>1. CASE Become("rotator", r) /\ (owner = "ci" \/ UNCHANGED stamp)
      BY <1>1, <1>2, <1>3, <2>1, Becomes DEF Program, Rotator
    <2>2. CASE UNCHANGED <<run, stamp>> /\ (owner = "cluster" => stamp < RotateAfter)
      BY <1>1, <2>2 DEF RunsTyped
    <2>3. QED
      BY <1>4, <2>1, <2>2
  <1>7. DataTyped'
    BY <1>1, <1>2, <1>4, <1>5, Numbers DEF DataTyped
  <1>8. Calm
    BY <1>5 DEF Calm
  <1>9. PlaceInv'
    BY <1>1, <1>5, <1>6 DEF PlaceInv, Rotator
  <1>10. PublicationInv'
    BY <1>1, <1>6 DEF PublicationInv, Rotator
  <1>11. OrderInv' /\ FlightInv' /\ HeldInv'
    BY <1>1, <1>8, CalmOrder, CalmHeld
  <1>12. DoomedInv'
    <2>1. \A p \in Program : run'[p].doomed \subseteq run[p].doomed
      BY <1>6 DEF Program, Rotator
    <2>2. QED
      BY <1>8, <2>1, CalmDoomed
  <1>13. ClusterInv'
    <2>1. owner = "cluster" => stamp' = stamp
      BY <1>6, <1>1 DEF DataTyped
    <2>2. owner = "cluster" => (Rotator'.at = "mint" \/ stamp < RotateAfter)
      BY <1>6
    <2>3. faults \in Nat /\ stamp \in Nat /\ RotateAfter \in Nat
      BY <1>1, Numbers DEF DataTyped
    <2>4. QED
      BY <1>5, <2>1, <2>2, <2>3 DEF IInv, ClusterInv
  <1>14. QED
    BY <1>6, <1>7, <1>9, <1>10, <1>11, <1>12, <1>13, TypeParts DEF IInv, TypeOK, DataTyped, RunsTyped, RunTyped

\* The CronJob's part is kept where only its run changes, and a failure is counted.
LEMMA CalmCluster ==
  ASSUME IInv, Calm, UNCHANGED <<bao, stamp>>, ran \subseteq ran', faults' \in {faults, faults + 1},
         owner = "cluster" => ran' = ran,
         owner = "cluster" /\ Rotator'.at \in {"idle", "survey", "revoke"} =>
           Rotator.at \in {"idle", "survey", "revoke"} \/ faults' = faults + 1
  PROVE  ClusterInv'
  <1>1. DataTyped
    BY TypeParts DEF IInv
  <1>2. faults \in Nat /\ stamp \in Nat /\ RotateAfter \in Nat
    BY <1>1, Numbers DEF DataTyped
  <1>3. SUFFICES ASSUME owner' = "cluster" PROVE ClusterInv'
    BY DEF ClusterInv
  <1>4. owner = "cluster" /\ UNCHANGED <<state, age, copy, bao, stamp, ran>>
    BY <1>3 DEF Calm
  <1>5. InTime =>
          /\ stamp <= RotateAfter + faults'
          /\ "rotator" \in ran /\ Rotator'.at \in {"idle", "survey", "revoke"} =>
               stamp < RotateAfter + faults'
    <2>1. InTime => stamp <= RotateAfter + faults
      BY <1>4 DEF IInv, ClusterInv
    <2>2. CASE faults' = faults + 1
      BY <1>2, <2>1, <2>2
    <2>3. CASE faults' = faults
      BY <1>2, <1>4, <2>1, <2>3 DEF IInv, ClusterInv
    <2>4. QED
      BY <2>2, <2>3
  <1>6. QED
    BY <1>4, <1>5 DEF IInv, ClusterInv, InTime

\* CI's reaper begins.
LEMMA BeginReapStep ==
  ASSUME IInv, BeginReap
  PROVE  IInv'
  <1>1. DataTyped /\ RunsTyped /\ PlaceInv /\ owner = "ci" /\ "reaper" \in Program
    BY TypeParts DEF IInv, BeginReap, Program
  <1> DEFINE r == [Idle EXCEPT !.at = "survey"]
  <1>2. RunTyped(r) /\ r.at = "survey" /\ r.doomed = {}
    BY AtTyped
  <1>3. Become("reaper", r)
    BY DEF BeginReap
  <1> HIDE DEF r
  <1>4. RunsTyped' /\ run'["reaper"].at = "survey" /\ run'["reaper"].doomed = {} /\ Rotator' = Rotator
    BY <1>1, <1>2, <1>3, Becomes DEF Program, Rotator
  <1>5. /\ UNCHANGED <<owner, state, age, copy, bao, stamp, inflight, orphans, faults>>
        /\ ran' = ran \cup {"reaper"}
    BY DEF BeginReap, linode, published
  <1>6. DataTyped' /\ Calm
    BY <1>1, <1>5 DEF DataTyped, Calm
  <1>7. PlaceInv' /\ PublicationInv'
    BY <1>1, <1>4, <1>5 DEF IInv, PlaceInv, PublicationInv
  <1>8. OrderInv' /\ FlightInv' /\ HeldInv'
    BY <1>4, <1>6, CalmOrder, CalmHeld
  <1>9. DoomedInv'
    <2>1. \A p \in Program : run'[p].doomed \subseteq run[p].doomed
      BY <1>4 DEF Program, Rotator
    <2>2. QED
      BY <1>6, <2>1, CalmDoomed
  <1>10. ClusterInv'
    BY <1>1, <1>4, <1>5 DEF ClusterInv
  <1>11. QED
    BY <1>4, <1>6, <1>7, <1>8, <1>9, <1>10 DEF IInv, TypeOK, DataTyped, RunsTyped, RunTyped

\* A week's token is not drained, nor are those that are held unless one was minted in
\* vain after them.
LEMMA DrainSpares ==
  ASSUME IInv, NEW t \in Drain(Listed)
  PROVE  state[t] # "free" /\ age[t] > 0 /\ (Held(t) => MintedInVain(t))
  <1>1. DataTyped
    BY TypeParts DEF IInv
  <1>2. t \in Token /\ state[t] = "live" /\ age[t] \in Nat
    BY <1>1 DEF Drain, Listed, Valid, DataTyped
  <1>3. PICK u \in Listed : age[u] < age[t] /\ age[u] >= Grace
    BY DEF Drain
  <1>4. u \in Token /\ state[u] = "live" /\ age[u] \in Nat /\ age[u] > 0 /\ u # t
    BY <1>1, <1>3, Numbers DEF Listed, Valid, DataTyped
  <1>5. ASSUME Held(t), u \notin orphans PROVE FALSE
    <2>1. ~(Rotator.at = "publish" /\ Rotator.token = u)
      BY <1>4 DEF IInv, PublicationInv
    <2>2. \A d \in Deployment : age[copy[d]] <= age[u]
      BY <1>4, <1>5, <2>1 DEF IInv, OrderInv
    <2>3. inflight = t => age[t] <= age[u]
      BY <1>2, <1>4, <1>5, CopyAssumption DEF IInv, FlightInv
    <2>4. QED
      BY <1>2, <1>3, <1>4, <1>5, <2>2, <2>3 DEF Held
  <1>6. u \in orphans \ {t} => MintedInVain(t)
    BY <1>2, <1>3, <1>4 DEF MintedInVain
  <1>7. QED
    BY <1>2, <1>3, <1>4, <1>5, <1>6

\* A program lists the tokens, and dooms the superseded ones.
LEMMA SurveyStep ==
  ASSUME IInv, NEW p \in Program, Survey(p)
  PROVE  IInv'
  <1>1. DataTyped /\ RunsTyped /\ PlaceInv /\ run[p].at = "survey"
    BY TypeParts DEF IInv, Survey
  <1>2. PICK ids : ids \in {{}, Drain(Listed)} /\ GoOn(p, ids)
    BY DEF Survey
  <1>3. ids \subseteq Token
    BY <1>2 DEF Drain, Listed
  <1>4. /\ RunsTyped' /\ \A q \in Program \ {p} : run'[q] = run[q]
        /\ run'[p].doomed = ids /\ run'[p].at \in {"idle", "revoke"}
    BY <1>1, <1>2, <1>3, GoesOn
  <1>5. UNCHANGED <<owner, state, age, copy, bao, stamp, ran, inflight, orphans, faults>>
    BY DEF Survey, linode, published
  <1>6. DataTyped' /\ Calm
    BY <1>1, <1>5 DEF DataTyped, Calm
  <1>7. \/ p = "rotator" /\ Rotator.at = "survey" /\ Rotator'.at \in {"idle", "revoke"}
        \/ p = "reaper" /\ Rotator' = Rotator
    BY <1>1, <1>4 DEF Program, Rotator
  <1>8. PlaceInv' /\ PublicationInv'
    BY <1>1, <1>4, <1>5, <1>7 DEF IInv, PlaceInv, PublicationInv, Program
  <1>9. OrderInv' /\ FlightInv' /\ HeldInv'
    BY <1>6, <1>7, CalmOrder, CalmHeld
  <1>10. DoomedInv'
    <2>1. \A t \in ids : state[t] # "free" /\ age[t] > 0 /\ (Held(t) => MintedInVain(t))
      BY <1>2, DrainSpares
    <2>2. \A t \in Token : (Held(t)' => Held(t)) /\ (MintedInVain(t) => MintedInVain(t)')
      BY <1>5 DEF Held, MintedInVain
    <2>3. \A q \in Program : run[q].doomed \subseteq Token
      BY <1>1 DEF RunsTyped, Run
    <2>4. QED
      BY <1>3, <1>4, <1>5, <2>1, <2>2, <2>3 DEF IInv, DoomedInv
  <1>11. ClusterInv'
    BY <1>5, <1>6, <1>7, CalmCluster
  <1>12. QED
    BY <1>4, <1>6, <1>8, <1>9, <1>10, <1>11 DEF IInv, TypeOK, DataTyped, RunsTyped, RunTyped

\* A job ends.
LEMMA JobEndsStep ==
  ASSUME IInv, JobEnds
  PROVE  IInv'
  <1>1. DataTyped /\ RunsTyped
    BY TypeParts DEF IInv
  <1>2. UNCHANGED <<owner, state, age, copy, bao, stamp, run, ran, orphans, faults>> /\ inflight' = None
    BY DEF JobEnds, linode, published
  <1>3. DataTyped' /\ RunsTyped' /\ Calm
    BY <1>1, <1>2 DEF DataTyped, RunsTyped, RunTyped, Calm
  <1>4. PlaceInv' /\ PublicationInv' /\ ClusterInv'
    BY <1>2 DEF IInv, PlaceInv, PublicationInv, ClusterInv, Rotator, InTime
  <1>5. OrderInv' /\ FlightInv' /\ HeldInv' /\ DoomedInv'
    BY <1>2, <1>3, CalmOrder, CalmHeld, CalmDoomed DEF Rotator
  <1>6. QED
    BY <1>3, <1>4, <1>5 DEF IInv, TypeOK, DataTyped, RunsTyped, RunTyped

\* A call fails with nothing done.
LEMMA AbortStep ==
  ASSUME IInv, NEW p \in Program, Abort(p)
  PROVE  IInv'
  <1>1. DataTyped /\ RunsTyped /\ PlaceInv
    BY TypeParts DEF IInv
  <1>2. RunsTyped' /\ run'[p] = Idle /\ \A q \in Program \ {p} : run'[q] = run[q]
    BY <1>1, IdleTyped, Becomes DEF Abort
  <1>3. UNCHANGED <<owner, state, age, copy, bao, stamp, ran, inflight>> /\ Fault
    BY DEF Abort, linode, published
  <1>4. /\ orphans' = IF run[p].at = "publish" THEN orphans \cup {run[p].token} ELSE orphans
        /\ run[p].at # "idle"
    BY DEF Abort
  <1>5. run[p].at = "publish" => run[p].token \in Token
    BY <1>1, <1>4 DEF IInv, PublicationInv, PlaceInv, Program, Rotator
  <1>6. faults' \in 0..MaxFaults /\ faults' = faults + 1
    BY <1>1, <1>3, FaultTyped
  <1>7. DataTyped' /\ Calm
    BY <1>1, <1>3, <1>4, <1>5, <1>6 DEF DataTyped, Calm
  <1>8. (p = "rotator" /\ Rotator = run[p] /\ Rotator' = Idle) \/ (p = "reaper" /\ Rotator' = Rotator)
    BY <1>2 DEF Program, Rotator
  <1>9. PlaceInv' /\ PublicationInv'
    BY <1>1, <1>2, <1>3, <1>8, IdleTyped DEF IInv, PlaceInv, PublicationInv, Program
  <1>10. OrderInv' /\ FlightInv' /\ HeldInv'
    BY <1>4, <1>7, <1>8, CalmOrder, CalmHeld
  <1>11. DoomedInv'
    <2>1. \A q \in Program : run'[q].doomed \subseteq run[q].doomed
      BY <1>2, IdleTyped
    <2>2. QED
      BY <1>7, <2>1, CalmDoomed
  <1>12. ClusterInv'
    BY <1>3, <1>6, <1>7, CalmCluster
  <1>13. QED
    BY <1>2, <1>7, <1>9, <1>10, <1>11, <1>12 DEF IInv, TypeOK, DataTyped, RunsTyped, RunTyped

\* A revocation fails.
LEMMA RevokeFailsStep ==
  ASSUME IInv, NEW p \in Program, RevokeFails(p)
  PROVE  IInv'
  <1>1. DataTyped /\ RunsTyped /\ PlaceInv /\ run[p].at = "revoke"
    BY TypeParts DEF IInv, RevokeFails
  <1>2. PICK ids : ids \subseteq run[p].doomed /\ GoOn(p, ids)
    BY DEF RevokeFails
  <1>3. ids \subseteq Token
    BY <1>1, <1>2 DEF RunsTyped, Run
  <1>4. /\ RunsTyped' /\ \A q \in Program \ {p} : run'[q] = run[q]
        /\ run'[p].doomed = ids /\ run'[p].at \in {"idle", "revoke"}
    BY <1>1, <1>2, <1>3, GoesOn
  <1>5. UNCHANGED <<owner, state, age, copy, bao, stamp, ran, inflight, orphans>> /\ Fault
    BY DEF RevokeFails, linode, published
  <1>6. faults' \in 0..MaxFaults /\ faults' = faults + 1
    BY <1>1, <1>5, FaultTyped
  <1>7. DataTyped' /\ Calm
    BY <1>1, <1>5, <1>6 DEF DataTyped, Calm
  <1>8. \/ p = "rotator" /\ Rotator.at = "revoke" /\ Rotator'.at \in {"idle", "revoke"}
        \/ p = "reaper" /\ Rotator' = Rotator
    BY <1>1, <1>4 DEF Program, Rotator
  <1>9. PlaceInv' /\ PublicationInv'
    BY <1>1, <1>4, <1>5, <1>8 DEF IInv, PlaceInv, PublicationInv, Program
  <1>10. OrderInv' /\ FlightInv' /\ HeldInv'
    BY <1>7, <1>8, CalmOrder, CalmHeld
  <1>11. DoomedInv'
    <2>1. \A q \in Program : run'[q].doomed \subseteq run[q].doomed
      BY <1>2, <1>4
    <2>2. QED
      BY <1>7, <2>1, CalmDoomed
  <1>12. ClusterInv'
    BY <1>5, <1>6, <1>7, CalmCluster
  <1>13. QED
    BY <1>4, <1>7, <1>9, <1>10, <1>11, <1>12 DEF IInv, TypeOK, DataTyped, RunsTyped, RunTyped

-----------------------------------------------------------------------------
(* Steps that change the tokens or the copies *)

\* A token that is issued is held by nobody and doomed by nobody.
LEMMA CreateKeeps ==
  ASSUME IInv, Create, UNCHANGED <<owner, copy, bao, stamp, inflight>>, orphans \subseteq orphans',
         \A p \in Program : run'[p].doomed \subseteq run[p].doomed
  PROVE  /\ HeldInv' /\ FlightInv' /\ DoomedInv'
         /\ \A d \in Deployment : age'[copy[d]] = age[copy[d]]
         /\ owner = "cluster" => state'[bao] = "live" /\ age'[bao] = age[bao]
  <1>1. DataTyped /\ HeldInv /\ FlightInv /\ DoomedInv /\ ClusterInv
    BY TypeParts DEF IInv
  <1>2. /\ Fresh \in Token /\ state[Fresh] = "free"
        /\ state'[Fresh] = "live" /\ age'[Fresh] = 0
        /\ \A t \in Token \ {Fresh} : state'[t] = state[t] /\ age'[t] = age[t]
    BY <1>1, Creates
  <1>3. ASSUME NEW t \in Token, state[t] # "free"
        PROVE  state'[t] = state[t] /\ age'[t] = age[t] /\ (MintedInVain(t) => MintedInVain(t)')
    <2>1. state'[t] = state[t] /\ age'[t] = age[t]
      BY <1>2, <1>3
    <2>2. \A u \in Token : age'[u] = age[u] \/ age'[u] = 0
      BY <1>2
    <2>3. QED
      BY <1>1, <2>1, <2>2, VainStays
  <1>4. \A d \in Deployment : copy[d] \in Token /\ state[copy[d]] # "free"
    BY <1>1 DEF DataTyped, HeldInv
  <1>5. inflight # None => inflight \in Token /\ state[inflight] # "free"
    BY <1>1 DEF DataTyped, HeldInv
  <1>6. HeldInv'
    BY <1>1, <1>3, <1>4, <1>5 DEF HeldInv
  <1>7. FlightInv'
    <2> SUFFICES ASSUME inflight # None, NEW t \in Token, state'[t] = "live", t \notin orphans', age'[t] > 0
                 PROVE  age'[inflight] <= age'[t]
      BY DEF FlightInv
    <2>1. t # Fresh
      BY <1>2
    <2>2. QED
      BY <1>1, <1>2, <1>3, <1>5, <2>1 DEF FlightInv
  <1>8. DoomedInv'
    <2>1. \A p \in Program : run[p].doomed \subseteq Token
      BY DEF IInv, TypeOK, Run
    <2>2. \A t \in Token : Held(t)' => Held(t)
      BY DEF Held
    <2>3. QED
      BY <1>1, <1>3, <2>1, <2>2 DEF DoomedInv
  <1>9. QED
    BY <1>1, <1>3, <1>4, <1>6, <1>7, <1>8 DEF ClusterInv

\* A token is issued, or the caller's own is not accepted.
LEMMA MintStep ==
  ASSUME IInv, Mint
  PROVE  IInv'
  <1>1. DataTyped /\ RunsTyped /\ PlaceInv /\ Rotator.at = "mint" /\ "rotator" \in Program
    BY TypeParts DEF IInv, Mint, Rotator, Program
  <1>2. UNCHANGED <<owner, copy, bao, stamp, ran, inflight, orphans, faults>>
    BY DEF Mint, published
  <1>3. CASE Create /\ Become("rotator", Publication)
    <2>1. /\ Fresh \in Token /\ state[Fresh] = "free"
          /\ state' \in [Token -> {"free", "live", "revoked"}] /\ age' \in [Token -> 0..Validity]
          /\ state'[Fresh] = "live" /\ age'[Fresh] = 0
          /\ \A t \in Token \ {Fresh} : state'[t] = state[t] /\ age'[t] = age[t]
      BY <1>1, <1>3, Creates
    <2>2. /\ RunsTyped' /\ Rotator' = Publication /\ run'["reaper"] = run["reaper"]
          /\ Publication.at = "publish" /\ Publication.token = Fresh
          /\ Publication.todo = Deployment /\ Publication.doomed = {}
      BY <1>1, <1>3, <2>1, PublicationTyped, Becomes DEF Program, Rotator
    <2>3. DataTyped'
      BY <1>1, <1>2, <2>1 DEF DataTyped
    <2>4. PlaceInv' /\ PublicationInv'
      BY <1>1, <1>2, <2>1, <2>2 DEF PlaceInv, PublicationInv
    <2>5. \A p \in Program : run'[p].doomed \subseteq run[p].doomed
      BY <2>2 DEF Program, Rotator
    <2>6. /\ HeldInv' /\ FlightInv' /\ DoomedInv'
          /\ \A d \in Deployment : age'[copy[d]] = age[copy[d]]
          /\ owner = "cluster" => state'[bao] = "live" /\ age'[bao] = age[bao]
      BY <1>2, <1>3, <2>5, CreateKeeps
    <2>7. OrderInv'
      BY <1>1, <1>2, <2>1, <2>2, <2>6 DEF IInv, OrderInv
    <2>8. ClusterInv'
      BY <1>2, <2>2, <2>6 DEF IInv, ClusterInv, InTime
    <2>9. QED
      BY <2>2, <2>3, <2>4, <2>6, <2>7, <2>8 DEF IInv, TypeOK, DataTyped, RunsTyped, RunTyped
  <1>4. CASE ~Valid(Caller) /\ Become("rotator", Idle) /\ UNCHANGED linode
    <2>1. RunsTyped' /\ Rotator' = Idle /\ run'["reaper"] = run["reaper"]
      BY <1>1, <1>4, IdleTyped, Becomes DEF Program, Rotator
    <2>2. DataTyped' /\ Calm
      BY <1>1, <1>2, <1>4 DEF DataTyped, Calm, linode
    <2>3. PlaceInv' /\ PublicationInv'
      BY <1>1, <1>2, <1>4, <2>1, IdleTyped DEF PlaceInv, PublicationInv
    <2>4. OrderInv' /\ FlightInv' /\ HeldInv'
      BY <1>1, <2>2, CalmOrder, CalmHeld
    <2>5. DoomedInv'
      <3>1. \A p \in Program : run'[p].doomed \subseteq run[p].doomed
        BY <2>1, IdleTyped DEF Program, Rotator
      <3>2. QED
        BY <2>2, <3>1, CalmDoomed
    <2>6. ClusterInv'
      <3>1. owner = "cluster" /\ InTime => FALSE
        <4>1. SUFFICES ASSUME owner = "cluster", InTime PROVE FALSE
          OBVIOUS
        <4>2. /\ bao \in Token /\ state[bao] = "live" /\ age[bao] <= stamp
              /\ stamp <= RotateAfter + faults
          BY <4>1 DEF IInv, ClusterInv
        <4>3. age[bao] \in Nat /\ stamp \in Nat /\ faults \in Nat /\ faults <= MaxFaults
          BY <1>1, <4>2, Numbers DEF DataTyped
        <4>4. age[bao] < Validity
          BY <4>1, <4>2, <4>3, Numbers DEF InTime
        <4>5. Valid(Caller)
          BY <4>1, <4>2, <4>4, CopyAssumption DEF Valid, Caller
        <4>6. QED
          BY <1>4, <4>5
      <3>2. UNCHANGED <<owner, state, age, copy, bao, stamp>>
        BY <1>2, <2>2 DEF Calm
      <3>3. QED
        BY <3>1, <3>2 DEF IInv, ClusterInv, InTime
    <2>7. QED
      BY <2>1, <2>2, <2>3, <2>4, <2>5, <2>6 DEF IInv, TypeOK, DataTyped, RunsTyped, RunTyped
  <1>5. QED
    BY <1>3, <1>4 DEF Mint

\* A token is issued, and nobody learns of it.
LEMMA MintLostStep ==
  ASSUME IInv, MintLost
  PROVE  IInv'
  <1>1. /\ DataTyped /\ RunsTyped /\ PlaceInv /\ Rotator.at = "mint" /\ "rotator" \in Program
        /\ Create /\ Fault /\ Become("rotator", Idle)
    BY TypeParts DEF IInv, MintLost, Rotator, Program
  <1>2. UNCHANGED <<owner, copy, bao, stamp, ran, inflight>> /\ orphans' = orphans \cup {Fresh}
    BY DEF MintLost, published
  <1>3. /\ Fresh \in Token /\ state[Fresh] = "free"
        /\ state' \in [Token -> {"free", "live", "revoked"}] /\ age' \in [Token -> 0..Validity]
        /\ state'[Fresh] = "live" /\ age'[Fresh] = 0
        /\ \A t \in Token \ {Fresh} : state'[t] = state[t] /\ age'[t] = age[t]
    BY <1>1, Creates
  <1>4. RunsTyped' /\ Rotator' = Idle /\ run'["reaper"] = run["reaper"]
    BY <1>1, IdleTyped, Becomes DEF Program, Rotator
  <1>5. faults' \in 0..MaxFaults /\ faults' = faults + 1 /\ faults \in Nat
    BY <1>1, FaultTyped, Numbers DEF DataTyped
  <1>6. DataTyped'
    BY <1>1, <1>2, <1>3, <1>5 DEF DataTyped
  <1>7. PlaceInv' /\ PublicationInv'
    BY <1>1, <1>2, <1>4, IdleTyped DEF PlaceInv, PublicationInv
  <1>8. \A p \in Program : run'[p].doomed \subseteq run[p].doomed
    BY <1>4, IdleTyped DEF Program, Rotator
  <1>9. /\ HeldInv' /\ FlightInv' /\ DoomedInv'
        /\ \A d \in Deployment : age'[copy[d]] = age[copy[d]]
        /\ owner = "cluster" => state'[bao] = "live" /\ age'[bao] = age[bao]
    BY <1>1, <1>2, <1>8, CreateKeeps
  <1>10. OrderInv'
    BY <1>1, <1>2, <1>3, <1>9 DEF IInv, OrderInv
  <1>11. ClusterInv'
    <2>1. owner = "cluster" /\ InTime => stamp <= RotateAfter + faults
      BY DEF IInv, ClusterInv
    <2>2. owner = "cluster" /\ InTime => stamp < RotateAfter + faults'
      BY <1>1, <1>5, <2>1, Numbers DEF DataTyped
    <2>3. stamp \in Nat /\ RotateAfter + faults' \in Nat
      BY <1>1, <1>5, Numbers DEF DataTyped
    <2>4. QED
      BY <1>2, <1>9, <2>2, <2>3 DEF IInv, ClusterInv, InTime
  <1>12. QED
    BY <1>4, <1>6, <1>7, <1>9, <1>10, <1>11 DEF IInv, TypeOK, DataTyped, RunsTyped, RunTyped

\* An environment gets the token of this week.
LEMMA PublishStep ==
  ASSUME IInv, Publish
  PROVE  IInv'
  <1>1. DataTyped /\ RunsTyped /\ PlaceInv /\ Rotator.at = "publish" /\ "rotator" \in Program
    BY TypeParts DEF IInv, Publish, Rotator, Program
  <1> DEFINE new == Rotator.token
  <1>2. /\ new \in Token /\ state[new] = "live" /\ age[new] = 0
        /\ \A d \in Deployment \ Rotator.todo : copy[d] = new
    BY <1>1 DEF IInv, PublicationInv
  <1>3. PICK e \in Rotator.todo :
          /\ copy' = [copy EXCEPT ![e] = new]
          /\ Become("rotator",
               IF Rotator.todo # {e} THEN [Rotator EXCEPT !.todo = @ \ {e}]
               ELSE IF owner = "cluster" THEN [Rotator EXCEPT !.todo = {}, !.at = "write"]
               ELSE Idle)
          /\ faults' = IF owner = "ci" /\ Rotator.todo = {e} THEN 0 ELSE faults
    BY DEF Publish, Rotator
  <1>4. UNCHANGED <<owner, state, age, bao, stamp, ran, inflight, orphans>>
    BY DEF Publish, linode
  <1>5. /\ e \in Deployment /\ Rotator \in Run /\ Rotator.todo \subseteq Deployment
        /\ Rotator.doomed = {}
    BY <1>1, <1>3 DEF RunsTyped, RunTyped, Run, Rotator
  <1>6. /\ \A d \in Deployment : copy'[d] = IF d = e THEN new ELSE copy[d]
        /\ copy' \in [Deployment -> Token]
    BY <1>1, <1>2, <1>3, <1>5 DEF DataTyped
  <1>7. /\ RunsTyped' /\ run'["reaper"] = run["reaper"] /\ Rotator'.doomed = {}
        /\ \/ Rotator'.at = "publish" /\ Rotator'.token = new /\ Rotator'.todo = Rotator.todo \ {e}
           \/ /\ Rotator.todo = {e} /\ Rotator'.at = "write" /\ Rotator'.token = new
              /\ Rotator'.todo = {} /\ owner = "cluster"
           \/ Rotator.todo = {e} /\ Rotator'.at = "idle" /\ owner # "cluster"
    <2>1. CASE Rotator.todo # {e}
      <3> DEFINE r == [Rotator EXCEPT !.todo = Rotator.todo \ {e}]
      <3>1. RunTyped(r) /\ r.at = "publish" /\ r.token = new /\ r.todo = Rotator.todo \ {e} /\ r.doomed = {}
        BY <1>1, <1>3, <1>5, <2>1 DEF RunTyped, Run
      <3>2. Become("rotator", r)
        BY <1>3, <2>1
      <3> HIDE DEF r
      <3>3. QED
        BY <1>1, <3>1, <3>2, Becomes DEF Rotator, Program
    <2>2. CASE Rotator.todo = {e} /\ owner = "cluster"
      <3> DEFINE r == [Rotator EXCEPT !.todo = {}, !.at = "write"]
      <3>1. RunTyped(r) /\ r.at = "write" /\ r.token = new /\ r.todo = {} /\ r.doomed = {}
        BY <1>5 DEF RunTyped, Run
      <3>2. Become("rotator", r)
        BY <1>3, <2>2
      <3> HIDE DEF r
      <3>3. QED
        BY <1>1, <2>2, <3>1, <3>2, Becomes DEF Rotator, Program
    <2>3. CASE Rotator.todo = {e} /\ owner # "cluster"
      <3>1. Become("rotator", Idle)
        BY <1>3, <2>3
      <3>2. QED
        BY <1>1, <2>3, <3>1, IdleTyped, Becomes DEF Rotator, Program
    <2>4. QED
      BY <2>1, <2>2, <2>3
  <1>8. DataTyped'
    <2>1. faults' \in 0..MaxFaults
      BY <1>1, <1>3, Numbers DEF DataTyped
    <2>2. QED
      BY <1>1, <1>4, <1>6, <2>1 DEF DataTyped
  <1>9. PlaceInv'
    BY <1>1, <1>4, <1>7 DEF PlaceInv, DataTyped
  <1>10. PublicationInv'
    BY <1>2, <1>4, <1>6, <1>7 DEF PublicationInv
  <1>11. \A d \in Deployment : age[copy[d]] \in Nat /\ age'[copy'[d]] \in {0, age[copy[d]]}
    BY <1>1, <1>2, <1>4, <1>6, Numbers DEF DataTyped
  <1>12. OrderInv'
    <2> SUFFICES ASSUME NEW t \in Token, state[t] = "live", t \notin orphans,
                        ~(Rotator'.at = "publish" /\ Rotator'.token = t), NEW d \in Deployment
                 PROVE  age[copy'[d]] <= age[t]
      BY <1>4 DEF OrderInv
    <2>1. age[t] \in Nat
      BY <1>1, Numbers DEF DataTyped
    <2>2. CASE t = new
      <3>1. Rotator.todo = {e}
        BY <1>7, <2>2
      <3>2. copy'[d] = new
        BY <1>2, <1>6, <3>1
      <3>3. QED
        BY <1>2, <2>2, <3>2
    <2>3. CASE t # new
      <3>1. age[copy[d]] <= age[t]
        BY <2>3 DEF IInv, OrderInv
      <3>2. age[copy'[d]] = 0 \/ age[copy'[d]] = age[copy[d]]
        BY <1>4, <1>11
      <3>3. QED
        BY <1>11, <2>1, <3>1, <3>2
    <2>4. QED
      BY <2>2, <2>3
  <1>13. FlightInv'
    BY <1>4 DEF IInv, FlightInv
  <1>14. \A t \in Token : MintedInVain(t) => MintedInVain(t)'
    BY <1>4 DEF MintedInVain
  <1>15. HeldInv'
    BY <1>1, <1>2, <1>4, <1>6, <1>14 DEF IInv, HeldInv, DataTyped
  <1>16. DoomedInv'
    <2>1. \A p \in Program : run'[p].doomed \subseteq run[p].doomed /\ run[p].doomed \subseteq Token
      BY <1>1, <1>7 DEF Program, Rotator, RunsTyped, Run
    <2>2. \A t \in Token : Held(t)' => Held(t) \/ t = new
      BY <1>4, <1>6 DEF Held
    <2>3. QED
      BY <1>2, <1>4, <1>14, <2>1, <2>2 DEF IInv, DoomedInv
  <1>17. ClusterInv'
    <2>1. owner = "cluster" => faults' = faults
      BY <1>3
    <2>2. stamp \in Nat
      BY <1>1, Numbers DEF DataTyped
    <2>3. owner = "cluster" => \A d \in Deployment : age'[copy'[d]] <= stamp
      BY <1>11, <2>2 DEF IInv, ClusterInv
    <2>4. QED
      BY <1>4, <1>7, <2>1, <2>3 DEF IInv, ClusterInv, InTime
  <1>18. QED
    BY <1>7, <1>8, <1>9, <1>10, <1>12, <1>13, <1>15, <1>16, <1>17
    DEF IInv, TypeOK, DataTyped, RunsTyped, RunTyped

\* OpenBao gets it, with the date.
LEMMA WriteStep ==
  ASSUME IInv, Write
  PROVE  IInv'
  <1>1. DataTyped /\ RunsTyped /\ PlaceInv /\ Rotator.at = "write" /\ "rotator" \in Program
    BY TypeParts DEF IInv, Write, Rotator, Program
  <1> DEFINE r == [Idle EXCEPT !.at = "survey"]
  <1>2. RunTyped(r) /\ r.at = "survey" /\ r.doomed = {}
    BY AtTyped
  <1>3. Become("rotator", r) /\ bao' = Rotator.token /\ stamp' = 0 /\ faults' = 0
    BY DEF Write, Rotator
  <1> HIDE DEF r
  <1>4. RunsTyped' /\ Rotator'.at = "survey" /\ Rotator'.doomed = {} /\ run'["reaper"] = run["reaper"]
    BY <1>1, <1>2, <1>3, Becomes DEF Program, Rotator
  <1>5. UNCHANGED <<owner, state, age, copy, ran, inflight, orphans>>
    BY DEF Write, linode
  <1>6. Rotator.todo = {}
    BY <1>1 DEF RunsTyped, RunTyped, Rotator
  <1>7. /\ Rotator.token \in Token /\ state[Rotator.token] = "live" /\ age[Rotator.token] = 0
        /\ \A d \in Deployment : copy[d] = Rotator.token
    BY <1>1, <1>6 DEF IInv, PublicationInv
  <1>8. DataTyped' /\ Calm
    BY <1>1, <1>3, <1>5, <1>7, Numbers DEF DataTyped, Calm
  <1>9. PlaceInv' /\ PublicationInv'
    BY <1>1, <1>3, <1>4, <1>5, <1>7 DEF PlaceInv, PublicationInv
  <1>10. OrderInv' /\ FlightInv' /\ HeldInv'
    BY <1>1, <1>8, CalmOrder, CalmHeld
  <1>11. DoomedInv'
    <2>1. \A p \in Program : run'[p].doomed \subseteq run[p].doomed
      BY <1>4 DEF Program, Rotator
    <2>2. QED
      BY <1>8, <2>1, CalmDoomed
  <1>12. ClusterInv'
    BY <1>3, <1>5, <1>7, Numbers DEF ClusterInv, InTime
  <1>13. QED
    BY <1>4, <1>8, <1>9, <1>10, <1>11, <1>12 DEF IInv, TypeOK, DataTyped, RunsTyped, RunTyped

\* A doomed token is revoked.
LEMMA RevokeStep ==
  ASSUME IInv, NEW p \in Program, Revoke(p)
  PROVE  IInv'
  <1>1. DataTyped /\ RunsTyped /\ PlaceInv /\ run[p].at = "revoke"
    BY TypeParts DEF IInv, Revoke
  <1>2. PICK x \in run[p].doomed : state' = [state EXCEPT ![x] = "revoked"] /\ GoOn(p, run[p].doomed \ {x})
    BY DEF Revoke
  <1>3. run[p].doomed \subseteq Token /\ x \in Token
    BY <1>1, <1>2 DEF RunsTyped, Run
  <1>4. /\ RunsTyped' /\ \A q \in Program \ {p} : run'[q] = run[q]
        /\ run'[p].doomed = run[p].doomed \ {x} /\ run'[p].at \in {"idle", "revoke"}
    BY <1>1, <1>2, <1>3, GoesOn
  <1>5. UNCHANGED <<owner, age, copy, bao, stamp, ran, inflight, orphans, faults>>
    BY DEF Revoke, published
  <1>6. /\ state' \in [Token -> {"free", "live", "revoked"}] /\ state'[x] = "revoked"
        /\ \A t \in Token \ {x} : state'[t] = state[t]
    BY <1>1, <1>2, <1>3 DEF DataTyped
  <1>7. DataTyped'
    BY <1>1, <1>5, <1>6 DEF DataTyped
  <1>8. age[x] > 0 /\ (Held(x) => MintedInVain(x))
    BY <1>2 DEF IInv, DoomedInv
  <1>9. \/ p = "rotator" /\ Rotator.at = "revoke" /\ Rotator'.at \in {"idle", "revoke"}
        \/ p = "reaper" /\ Rotator' = Rotator
    BY <1>1, <1>4 DEF Program, Rotator
  <1>10. owner = "cluster" => age[bao] = 0 /\ \A d \in Deployment : age[copy[d]] = 0
    BY <1>1, <1>9 DEF IInv, PlaceInv, PublicationInv
  <1>11. PlaceInv'
    BY <1>1, <1>4, <1>5, <1>9 DEF PlaceInv, Program
  <1>12. PublicationInv'
    BY <1>5, <1>6, <1>8, <1>9 DEF IInv, PublicationInv
  <1>13. OrderInv'
    BY <1>5, <1>6, <1>9 DEF IInv, OrderInv
  <1>14. FlightInv'
    BY <1>5, <1>6 DEF IInv, FlightInv
  <1>15. \A t \in Token : (Held(t)' => Held(t)) /\ (MintedInVain(t) => MintedInVain(t)')
    BY <1>5 DEF Held, MintedInVain
  <1>16. HeldInv'
    <2>1. ASSUME NEW d \in Deployment
          PROVE  /\ state'[copy[d]] # "free"
                 /\ state'[copy[d]] = "revoked" => owner = "ci" /\ MintedInVain(copy[d])
      <3>1. copy[d] \in Token /\ owner \in {"cluster", "ci"}
        BY <1>1 DEF DataTyped
      <3>2. CASE copy[d] = x
        BY <1>6, <1>8, <1>10, <3>1, <3>2 DEF Held
      <3>3. CASE copy[d] # x
        BY <1>6, <3>1, <3>3 DEF IInv, HeldInv
      <3>4. QED
        BY <3>2, <3>3
    <2>2. ASSUME inflight # None
          PROVE  /\ state'[inflight] # "free"
                 /\ state'[inflight] = "revoked" => MintedInVain(inflight)
      <3>1. inflight \in Token
        BY <1>1, <2>2 DEF DataTyped
      <3>2. CASE inflight = x
        BY <1>6, <1>8, <3>2 DEF Held
      <3>3. CASE inflight # x
        BY <1>6, <2>2, <3>1, <3>3 DEF IInv, HeldInv
      <3>4. QED
        BY <3>2, <3>3
    <2>3. QED
      BY <1>1, <1>5, <1>15, <2>1, <2>2 DEF HeldInv, DataTyped
  <1>17. DoomedInv'
    <2>1. \A q \in Program : run'[q].doomed \subseteq run[q].doomed /\ run[q].doomed \subseteq Token
      BY <1>1, <1>4 DEF RunsTyped, Run
    <2>2. QED
      BY <1>5, <1>6, <1>15, <2>1 DEF IInv, DoomedInv
  <1>18. ClusterInv'
    <2>1. owner = "cluster" => bao # x
      BY <1>8, <1>10
    <2>2. QED
      BY <1>5, <1>6, <1>9, <2>1 DEF IInv, ClusterInv, InTime
  <1>19. QED
    BY <1>4, <1>7, <1>11, <1>12, <1>13, <1>14, <1>16, <1>17, <1>18
    DEF IInv, TypeOK, DataTyped, RunsTyped, RunTyped

\* A job resolves the token of one environment.
LEMMA JobStartsStep ==
  ASSUME IInv, JobStarts
  PROVE  IInv'
  <1>1. DataTyped /\ RunsTyped
    BY TypeParts DEF IInv
  <1>2. UNCHANGED <<owner, state, age, copy, bao, stamp, run, ran, orphans, faults>>
    BY DEF JobStarts, linode, published
  <1>3. PICK d \in Deployment : inflight' = copy[d]
    BY DEF JobStarts
  <1>4. DataTyped' /\ RunsTyped'
    BY <1>1, <1>2, <1>3 DEF DataTyped, RunsTyped, RunTyped
  <1>5. PlaceInv' /\ PublicationInv' /\ OrderInv' /\ ClusterInv'
    BY <1>2 DEF IInv, PlaceInv, PublicationInv, OrderInv, ClusterInv, Rotator, InTime
  <1>6. FlightInv'
    BY <1>2, <1>3 DEF IInv, OrderInv, PublicationInv, FlightInv
  <1>7. \A t \in Token : (Held(t)' => Held(t)) /\ (MintedInVain(t) => MintedInVain(t)')
    BY <1>1, <1>2, <1>3, CopyAssumption DEF Held, MintedInVain
  <1>8. HeldInv'
    BY <1>1, <1>2, <1>3, <1>7 DEF IInv, HeldInv, DataTyped
  <1>9. DoomedInv'
    <2>1. \A q \in Program : run[q].doomed \subseteq Token
      BY <1>1 DEF RunsTyped, Run
    <2>2. QED
      BY <1>2, <1>7, <2>1 DEF IInv, DoomedInv
  <1>10. QED
    BY <1>4, <1>5, <1>6, <1>8, <1>9 DEF IInv, TypeOK, DataTyped, RunsTyped, RunTyped

\* A week passes: everything grows older by as much, and what is held stays what it is.
LEMMA WeekStep ==
  ASSUME IInv, Week
  PROVE  IInv'
  <1>1. DataTyped /\ RunsTyped /\ PlaceInv
    BY TypeParts DEF IInv
  <1>2. /\ \A p \in Program : run[p].at = "idle"
        /\ inflight = None /\ "rotator" \in ran /\ ran' = {} /\ orphans' = orphans \ Forgotten
        /\ UNCHANGED <<owner, copy, bao, run, inflight, faults>>
        /\ stamp' = IF stamp < Validity THEN stamp + 1 ELSE stamp
    BY DEF Week, Program
  <1>3. /\ Rotator.at = "idle" /\ Rotator' = Rotator
        /\ \A p \in Program : run[p].doomed = {}
    BY <1>1, <1>2 DEF RunsTyped, RunTyped, Rotator, Program
  <1>4. /\ state' \in [Token -> {"free", "live", "revoked"}]
        /\ \A t \in Token : state'[t] = IF t \in Forgotten THEN "free" ELSE state[t]
    BY <1>1 DEF Week, DataTyped
  <1>5. /\ age' \in [Token -> 0..Validity]
        /\ \A t \in Token : age'[t] = IF state'[t] = "free" THEN 0
                                      ELSE IF age[t] < Validity THEN age[t] + 1 ELSE age[t]
    BY <1>1, Numbers DEF Week, DataTyped
  <1>6. \A t \in Token : age[t] \in Nat /\ age[t] <= Validity
    BY <1>1, Numbers DEF DataTyped
  <1>7. stamp \in Nat /\ stamp <= Validity /\ faults \in Nat
    BY <1>1, Numbers DEF DataTyped
  <1>8. DataTyped'
    BY <1>1, <1>2, <1>4, <1>5, <1>7, Numbers DEF DataTyped
  <1>9. RunsTyped' /\ PlaceInv' /\ PublicationInv' /\ FlightInv' /\ DoomedInv'
    BY <1>1, <1>2, <1>3 DEF RunsTyped, RunTyped, PlaceInv, PublicationInv, FlightInv, DoomedInv
  <1>10. ASSUME NEW d \in Deployment
         PROVE  /\ copy[d] \in Token /\ state'[copy[d]] = state[copy[d]] /\ state[copy[d]] # "free"
                /\ age'[copy[d]] = IF age[copy[d]] < Validity THEN age[copy[d]] + 1 ELSE age[copy[d]]
    <2>1. copy[d] \in Token /\ copy[d] \notin Forgotten
      BY <1>1, <1>10 DEF DataTyped, Forgotten
    <2>2. state[copy[d]] # "free"
      BY DEF IInv, HeldInv
    <2>3. QED
      BY <1>4, <1>5, <2>1, <2>2
  <1>11. OrderInv'
    <2> SUFFICES ASSUME NEW t \in Token, state'[t] = "live", t \notin orphans', NEW d \in Deployment
                 PROVE  age'[copy[d]] <= age'[t]
      BY <1>2 DEF OrderInv
    <2>1. t \notin Forgotten /\ state[t] = "live" /\ t \notin orphans
      BY <1>2, <1>4
    <2>2. age[copy[d]] <= age[t]
      BY <1>3, <2>1 DEF IInv, OrderInv
    <2>3. age'[t] = IF age[t] < Validity THEN age[t] + 1 ELSE age[t]
      BY <1>5
    <2>4. QED
      BY <1>6, <1>10, <2>2, <2>3, Numbers
  <1>12. HeldInv'
    <2>1. ASSUME NEW d \in Deployment, state'[copy[d]] = "revoked"
          PROVE  owner = "ci" /\ MintedInVain(copy[d])'
      <3>1. state[copy[d]] = "revoked"
        BY <1>10, <2>1
      <3>2. owner = "ci" /\ MintedInVain(copy[d])
        BY <3>1 DEF IInv, HeldInv
      <3>3. PICK u \in orphans \ {copy[d]} : age[u] <= age[copy[d]]
        BY <3>2 DEF MintedInVain
      <3>4. u \in Token /\ u \notin Forgotten
        BY <1>1, <3>1, <3>3 DEF DataTyped, Forgotten
      <3>5. u \in orphans' \ {copy[d]}
        BY <1>2, <3>3, <3>4
      <3>6. age'[u] <= age'[copy[d]]
        <4>1. age'[u] = 0 \/ age'[u] = IF age[u] < Validity THEN age[u] + 1 ELSE age[u]
          BY <1>5, <3>4
        <4>2. age[u] \in Nat /\ age[copy[d]] \in Nat /\ age[copy[d]] <= Validity
          BY <1>6, <1>10, <3>4
        <4>3. QED
          BY <1>10, <3>3, <4>1, <4>2, Numbers
      <3>7. QED
        BY <1>2, <3>2, <3>5, <3>6 DEF MintedInVain
    <2>2. QED
      BY <1>2, <1>10, <2>1 DEF HeldInv
  <1>13. ClusterInv'
    <2> SUFFICES ASSUME owner = "cluster" PROVE ClusterInv'
      BY <1>2 DEF ClusterInv
    <2>1. /\ bao \in Token /\ state[bao] = "live" /\ age[bao] <= stamp
          /\ \A d \in Deployment : age[copy[d]] <= stamp
          /\ InTime => stamp < RotateAfter + faults
      BY <1>2, <1>3 DEF IInv, ClusterInv
    <2>2. bao \notin Forgotten
      BY DEF Forgotten
    <2>3. state'[bao] = "live" /\ age'[bao] = IF age[bao] < Validity THEN age[bao] + 1 ELSE age[bao]
      BY <1>4, <1>5, <2>1, <2>2
    <2>4. age'[bao] <= stamp'
      BY <1>2, <1>6, <1>7, <2>1, <2>3, Numbers
    <2>5. \A d \in Deployment : age'[copy[d]] <= stamp'
      BY <1>2, <1>6, <1>7, <1>10, <2>1, Numbers
    <2>6. InTime => stamp' <= RotateAfter + faults
      BY <1>2, <1>7, <2>1, Numbers
    <2>7. QED
      BY <1>2, <2>1, <2>3, <2>4, <2>5, <2>6 DEF ClusterInv, InTime
  <1>14. QED
    BY <1>8, <1>9, <1>11, <1>12, <1>13 DEF IInv, TypeOK, DataTyped, RunsTyped, RunTyped

-----------------------------------------------------------------------------
(* Theorems *)

\* The invariant holds of a token just published everywhere.
LEMMA InitIInv == Init => IInv
  <1> SUFFICES ASSUME Init PROVE IInv
    OBVIOUS
  <1> DEFINE t0 == CHOOSE t \in Token : TRUE
  <1>1. t0 \in Token
    BY CopyAssumption
  <1>2. /\ owner \in {"cluster", "ci"}
        /\ state = [u \in Token |-> IF u = t0 THEN "live" ELSE "free"]
        /\ copy = [d \in Deployment |-> t0]
        /\ bao = (IF owner = "cluster" THEN t0 ELSE None)
        /\ age = [t \in Token |-> 0] /\ stamp = 0
        /\ run = [p \in Program |-> Idle]
        /\ ran = {} /\ inflight = None /\ orphans = {} /\ faults = 0
    BY DEF Init
  <1> HIDE DEF t0
  <1>3. DataTyped
    BY <1>1, <1>2, Numbers DEF DataTyped
  <1>4. \A p \in Program : run[p] = Idle
    BY <1>2
  <1>5. RunsTyped
    BY <1>2, <1>4, IdleTyped DEF RunsTyped, RunTyped
  <1>6. PlaceInv /\ PublicationInv /\ DoomedInv
    BY <1>2, <1>4, IdleTyped DEF PlaceInv, PublicationInv, DoomedInv, Rotator, Program
  <1>7. OrderInv /\ FlightInv /\ HeldInv
    BY <1>1, <1>2 DEF OrderInv, FlightInv, HeldInv
  <1>8. ClusterInv
    BY <1>1, <1>2, Numbers DEF ClusterInv, InTime
  <1>9. QED
    BY <1>3, <1>5, <1>6, <1>7, <1>8, TypeParts DEF IInv

\* Every step keeps it.
LEMMA NextIInv == IInv /\ [Next]_vars => IInv'
  <1> SUFFICES ASSUME IInv, [Next]_vars PROVE IInv'
    OBVIOUS
  <1>1. CASE Step
    BY <1>1, BeginStep, MintStep, PublishStep, WriteStep, SurveyStep, RevokeStep DEF Step
  <1>2. CASE Failure
    BY <1>2, MintLostStep, AbortStep, RevokeFailsStep DEF Failure
  <1>3. CASE BeginReap \/ JobStarts \/ JobEnds \/ Week
    BY <1>3, BeginReapStep, JobStartsStep, JobEndsStep, WeekStep
  <1>4. CASE UNCHANGED vars
    BY <1>4 DEF vars, linode, published, IInv, TypeOK, PlaceInv, PublicationInv, OrderInv, FlightInv,
                DoomedInv, HeldInv, ClusterInv, Rotator, Held, MintedInVain, InTime
  <1>5. QED
    BY <1>1, <1>2, <1>3, <1>4 DEF Next

\* Whatever the environments, the tokens and the periods, a run that publishes has an
\* environment to write and one that revokes a token to revoke.
THEOREM TypeCorrect == Spec => []TypeOK
  <1>1. IInv => TypeOK
    BY DEF IInv
  <1>2. QED
    BY <1>1, InitIInv, NextIInv, PTL DEF Spec

\* Whatever the environments, the periods and the failures, no environment holds a
\* revoked token but under CI after a create that was not published everywhere.
THEOREM CopiesSafe == Spec => []CopiesNotRevoked
  <1>1. IInv => CopiesNotRevoked
    BY DEF IInv, HeldInv, CopiesNotRevoked
  <1>2. QED
    BY <1>1, InitIInv, NextIInv, PTL DEF Spec

\* For the same instances, a job's token is revoked under it only after such a create.
THEOREM FlightSafe == Spec => []InFlightSpared
  <1>1. IInv => InFlightSpared
    BY DEF IInv, HeldInv, InFlightSpared
  <1>2. QED
    BY <1>1, InitIInv, NextIInv, PTL DEF Spec

\* For the same instances, the CronJob's date is never younger than a copy.
THEOREM StampSafe == Spec => []StampTruthful
  <1>1. IInv => StampTruthful
    BY DEF IInv, ClusterInv, StampTruthful
  <1>2. QED
    BY <1>1, InitIInv, NextIInv, PTL DEF Spec

\* If as many weeks may fail as the model allows failures, and rotation begins that much
\* before the expiry, no environment ever holds an expired token.
THEOREM UnexpiredSafe == ASSUME InTime PROVE Spec => []CopiesUnexpired
  <1>1. ASSUME IInv PROVE CopiesUnexpired
    <2> SUFFICES ASSUME owner = "cluster", NEW d \in Deployment PROVE age[copy[d]] < Validity
      BY DEF CopiesUnexpired
    <2>1. DataTyped
      BY <1>1, TypeParts DEF IInv
    <2>2. age[copy[d]] <= stamp /\ stamp <= RotateAfter + faults
      BY <1>1, InTime DEF IInv, ClusterInv
    <2>3. age[copy[d]] \in Nat /\ stamp \in Nat /\ faults \in Nat /\ faults <= MaxFaults
      BY <2>1, Numbers DEF DataTyped
    <2>4. QED
      BY <2>2, <2>3, InTime, Numbers DEF InTime
  <1>2. QED
    BY <1>1, InitIInv, NextIInv, PTL DEF Spec


-----------------------------------------------------------------------------
(* One token everywhere *)

\* While the stamp is fresh no rotation is under way, and nothing was published since
\* the token that OpenBao has.
StampInv ==
  owner = "cluster" /\ stamp < RotateAfter =>
    /\ Rotator.at \in {"idle", "survey", "revoke"}
    /\ \A d \in Deployment : copy[d] = bao

\* What RotationConverges comes back to holds whenever the stamp is fresh: OpenBao has
\* a token that can mint its successor, and every environment has that very token.
FreshStampRotated ==
  owner = "cluster" /\ stamp < RotateAfter =>
    Valid(bao) /\ \A d \in Deployment : copy[d] = bao

\* Only the write that ends a publication makes the stamp fresh; until it is due again
\* the CronJob publishes nothing.
LEMMA NextStampInv == IInv /\ StampInv /\ [Next]_vars => StampInv'
  <1> SUFFICES ASSUME IInv, StampInv, [Next]_vars, owner' = "cluster", stamp' < RotateAfter
               PROVE  Rotator'.at \in {"idle", "survey", "revoke"} /\ \A d \in Deployment : copy'[d] = bao'
    BY DEF StampInv
  <1> DEFINE Kept == Rotator'.at \in {"idle", "survey", "revoke"} /\ \A d \in Deployment : copy'[d] = bao'
  <1>1. /\ DataTyped /\ RunsTyped /\ PlaceInv /\ "rotator" \in Program /\ Rotator = run["rotator"]
        /\ stamp \in Nat
    BY TypeParts, Numbers DEF IInv, Program, Rotator, DataTyped
  <1>2. ASSUME owner = "cluster", stamp < RotateAfter, UNCHANGED <<copy, bao>>,
               Rotator'.at \in {"idle", "survey", "revoke"}
        PROVE  Kept
    BY <1>2 DEF StampInv
  <1>3. CASE Write
    <2> DEFINE r == [Idle EXCEPT !.at = "survey"]
    <2>1. RunTyped(r) /\ r.at = "survey" /\ Become("rotator", r) /\ Rotator.at = "write"
      BY <1>3, AtTyped DEF Write, Rotator
    <2> HIDE DEF r
    <2>2. Rotator'.at = "survey"
      BY <1>1, <2>1, Becomes DEF Rotator
    <2>3. Rotator.todo = {} /\ \A d \in Deployment \ Rotator.todo : copy[d] = Rotator.token
      BY <1>1, <2>1 DEF IInv, PublicationInv, RunsTyped, RunTyped
    <2>4. bao' = Rotator.token /\ copy' = copy
      BY <1>3 DEF Write, Rotator
    <2>5. QED
      BY <2>2, <2>3, <2>4
  <1>4. CASE Begin
    <2>1. owner = "cluster" /\ UNCHANGED <<copy, bao, stamp>> /\ run' = run
      BY <1>1, <1>4, Numbers DEF Begin
    <2>2. QED
      BY <1>2, <2>1 DEF StampInv, Rotator
  <1>5. CASE Mint \/ Publish \/ MintLost
    BY <1>5 DEF Mint, Publish, MintLost, StampInv, Rotator, published
  <1>6. ASSUME NEW p \in Program, Survey(p) \/ Revoke(p) \/ RevokeFails(p) PROVE Kept
    <2>1. owner = "cluster" /\ stamp < RotateAfter /\ UNCHANGED <<copy, bao>>
      BY <1>6 DEF Survey, Revoke, RevokeFails, published
    <2>2. PICK ids \in SUBSET Token : GoOn(p, ids)
      <3>1. run[p].doomed \in SUBSET Token /\ Drain(Listed) \in SUBSET Token
        BY <1>1 DEF RunsTyped, Run, Drain, Listed
      <3>2. QED
        BY <1>6, <3>1 DEF Survey, Revoke, RevokeFails
    <2>3. \/ Rotator'.at \in {"idle", "revoke"}
          \/ Rotator' = Rotator
      BY <1>1, <2>2, GoesOn DEF Rotator
    <2>4. QED
      BY <1>2, <2>1, <2>3 DEF StampInv
  <1>7. ASSUME NEW p \in Program, Abort(p) PROVE Kept
    <2>1. owner = "cluster" /\ stamp < RotateAfter /\ UNCHANGED <<copy, bao>> /\ Become(p, Idle)
      BY <1>7 DEF Abort, published
    <2>2. Rotator'.at = "idle" \/ Rotator' = Rotator
      BY <1>1, <2>1, Becomes, IdleTyped DEF Rotator
    <2>3. QED
      BY <1>2, <2>1, <2>2 DEF StampInv
  <1>8. CASE BeginReap
    BY <1>8 DEF BeginReap
  <1>9. CASE JobStarts \/ JobEnds \/ UNCHANGED vars
    BY <1>2, <1>9 DEF JobStarts, JobEnds, vars, published, StampInv, Rotator
  <1>10. CASE Week
    <2>1. owner = "cluster" /\ UNCHANGED <<copy, bao, run>> /\ stamp' \in {stamp, stamp + 1}
      BY <1>10 DEF Week
    <2>2. stamp < RotateAfter
      BY <1>1, <2>1, Numbers
    <2>3. QED
      BY <1>2, <2>1, <2>2 DEF StampInv, Rotator
  <1>11. QED
    BY <1>3, <1>4, <1>5, <1>6, <1>7, <1>8, <1>9, <1>10 DEF Next, Step, Failure

\* For any environments, periods and failures, a fresh stamp means one valid token
\* everywhere.
THEOREM RotatedSafe == Spec => []FreshStampRotated
  <1>1. Init => StampInv
    <2>1. "rotator" \in Program /\ Idle.at = "idle"
      BY IdleTyped DEF Program
    <2>2. QED
      BY <2>1 DEF Init, StampInv, Rotator
  <1>2. IInv /\ StampInv => FreshStampRotated
    <2> SUFFICES ASSUME IInv, StampInv, owner = "cluster", stamp < RotateAfter
                 PROVE  Valid(bao) /\ \A d \in Deployment : copy[d] = bao
      BY DEF FreshStampRotated
    <2>1. bao \in Token /\ state[bao] = "live" /\ age[bao] <= stamp
      BY DEF IInv, ClusterInv
    <2>2. age[bao] \in Nat /\ stamp \in Nat
      BY <2>1, Numbers, TypeParts DEF IInv, DataTyped
    <2>3. QED
      BY <2>1, <2>2, Numbers, CopyAssumption DEF Valid, StampInv
  <1>3. QED
    BY <1>1, <1>2, InitIInv, NextIInv, NextStampInv, PTL DEF Spec
=============================================================================
