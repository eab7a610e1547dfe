----------------------------- MODULE PATRotation -----------------------------
(***************************************************************************)
(* Rotation of the account's broad Linode token                            *)
(* (tools/internal/extensions/lifecycle/credrotate/broadpat.go, pat.go,    *)
(* graceperiod.go, rotate.go).                                             *)
(*                                                                         *)
(* Tokens of one label are minted, published to a GitHub environment per   *)
(* deployment, and revoked some days after a younger one replaced them.    *)
(* The token has one of two owners: the cluster's weekly CronJob, which    *)
(* also keeps a copy and the date in OpenBao and drains at the end of a    *)
(* rotation, or CI, which creates once a month and drains on its own every *)
(* day.  Either may fail between any two calls.                            *)
(*                                                                         *)
(* Time passes in weeks; a week's runs, and the jobs that use the token,   *)
(* fall inside the week.                                                   *)
(***************************************************************************)
EXTENDS Naturals, FiniteSets

CONSTANTS
  Deployment,   \* infra-<deployment> environments with a copy of the token
  First,        \* the first of them, whose copy CI mints and drains with
  Token,        \* enough tokens for those in use at one time
  None,
  RotateAfter,  \* ROTATE_AFTER_DAYS, in weeks
  Month,        \* weeks between two create jobs of CI
  Grace,        \* GRACE_DAYS, in weeks
  Validity,     \* days a token is valid, in weeks
  MaxFaults     \* bound: failures between two complete publications

\* There is an environment, and a token in it, to begin with.
ASSUME CopyAssumption == First \in Deployment /\ Token # {} /\ None \notin Token
ASSUME TimeAssumption ==
  /\ {RotateAfter, Month, Grace, Validity, MaxFaults} \subseteq Nat
  /\ 0 < Grace /\ RotateAfter < Validity /\ Month < Validity

VARIABLES
  owner,     \* which of the two rotators owns the token
  state,     \* each token at Linode
  age,       \* weeks since it was created, up to its validity
  copy,      \* LINODE_API_TOKEN of each environment
  bao,       \* token in OpenBao, which the CronJob mints with
  stamp,     \* weeks since rotated_at, or since CI's latest create
  run,       \* each program's run
  ran,       \* programs whose run of this week has begun
  inflight,  \* token that a CI job resolved when it started
  orphans,   \* history: tokens whose publication failed before it was complete
  faults

linode == <<state, age>>
published == <<copy, bao, stamp>>
vars == <<owner, linode, published, run, ran, inflight, orphans, faults>>

\* The rotator mints and publishes; the reaper is CI's separate drain.
Program == {"rotator", "reaper"}

Run == [at : {"idle", "mint", "publish", "write", "survey", "revoke"},
        token : Token \cup {None}, todo : SUBSET Deployment, doomed : SUBSET Token]

TypeOK ==
  /\ owner \in {"cluster", "ci"}
  /\ state \in [Token -> {"free", "live", "revoked"}]
  /\ age \in [Token -> 0..Validity]
  /\ copy \in [Deployment -> Token]
  /\ bao \in Token \cup {None}
  /\ stamp \in 0..Validity
  /\ run \in [Program -> Run]
  /\ \A p \in Program : run[p].at = "publish" <=> run[p].todo # {}
  /\ \A p \in Program : run[p].at = "revoke" <=> run[p].doomed # {}
  /\ ran \subseteq Program
  /\ inflight \in Token \cup {None}
  /\ orphans \subseteq Token
  /\ faults \in 0..MaxFaults

Idle == [at |-> "idle", token |-> None, todo |-> {}, doomed |-> {}]

\* A token just published everywhere.
Init ==
  /\ owner \in {"cluster", "ci"}
  /\ LET t == CHOOSE t \in Token : TRUE IN
       /\ state = [u \in Token |-> IF u = t THEN "live" ELSE "free"]
       /\ copy = [d \in Deployment |-> t]
       /\ bao = (IF owner = "cluster" THEN t ELSE None)
  /\ age = [t \in Token |-> 0]
  /\ stamp = 0
  /\ run = [p \in Program |-> Idle]
  /\ ran = {} /\ inflight = None /\ orphans = {} /\ faults = 0

Become(p, r) == run' = [run EXCEPT ![p] = r]

Valid(t) == t # None /\ state[t] = "live" /\ age[t] < Validity

\* The token a program's calls to Linode are made with.
Caller == IF owner = "cluster" THEN bao ELSE copy[First]

-----------------------------------------------------------------------------
(* Minting and publishing *)

\* The CronJob asks the stamp; CI's schedule is the calendar, whatever became of
\* the create before.
Begin ==
  /\ "rotator" \notin ran
  /\ ran' = ran \cup {"rotator"}
  /\ \/ /\ owner = "cluster" /\ stamp >= RotateAfter
        /\ Become("rotator", [Idle EXCEPT !.at = "mint"]) /\ UNCHANGED stamp
     \/ /\ owner = "ci" /\ stamp >= Month
        /\ Become("rotator", [Idle EXCEPT !.at = "mint"]) /\ stamp' = 0
     \/ /\ stamp < IF owner = "cluster" THEN RotateAfter ELSE Month
        /\ UNCHANGED <<run, stamp>>
  /\ UNCHANGED <<owner, linode, copy, bao, inflight, orphans, faults>>

\* Linode issues a token; one free name is as good as another.
Fresh == CHOOSE t \in Token : state[t] = "free"

Create ==
  /\ \E t \in Token : state[t] = "free"
  /\ state' = [state EXCEPT ![Fresh] = "live"]
  /\ age' = [age EXCEPT ![Fresh] = 0]

Publication == [at |-> "publish", token |-> Fresh, todo |-> Deployment, doomed |-> {}]

\* A plausible bug, and the one the code's comment tells of: the stamp is
\* written before the token is published.
MintAndStamp ==
  /\ run["rotator"].at = "mint" /\ Valid(Caller)
  /\ Create /\ Become("rotator", Publication)
  /\ bao' = IF owner = "cluster" THEN Fresh ELSE bao
  /\ stamp' = 0
  /\ UNCHANGED <<owner, copy, ran, inflight, orphans, faults>>

\* A token that Linode no longer accepts cannot mint its successor.
Mint ==
  /\ run["rotator"].at = "mint"
  /\ \/ Valid(Caller) /\ Create /\ Become("rotator", Publication)
     \/ ~Valid(Caller) /\ Become("rotator", Idle) /\ UNCHANGED linode
  /\ UNCHANGED <<owner, published, ran, inflight, orphans, faults>>

\* One environment after the other, the first one first.
Publish ==
  /\ run["rotator"].at = "publish"
  /\ \E d \in run["rotator"].todo :
       /\ First \in run["rotator"].todo => d = First
       /\ copy' = [copy EXCEPT ![d] = run["rotator"].token]
       /\ Become("rotator",
            IF run["rotator"].todo # {d} THEN [run["rotator"] EXCEPT !.todo = @ \ {d}]
            ELSE IF owner = "cluster" THEN [run["rotator"] EXCEPT !.todo = {}, !.at = "write"]
            ELSE Idle)
       /\ faults' = IF owner = "ci" /\ run["rotator"].todo = {d} THEN 0 ELSE faults
  /\ UNCHANGED <<owner, linode, bao, stamp, ran, inflight, orphans>>

\* A plausible bug: the date is written, and the token that mints the next is not.
WriteStampOnly ==
  /\ run["rotator"].at = "write"
  /\ stamp' = 0
  /\ Become("rotator", [Idle EXCEPT !.at = "survey"])
  /\ faults' = 0
  /\ UNCHANGED <<owner, linode, copy, bao, ran, inflight, orphans>>

\* The cluster's copy and rotated_at, in one write.
Write ==
  /\ run["rotator"].at = "write"
  /\ bao' = run["rotator"].token
  /\ stamp' = 0
  /\ Become("rotator", [Idle EXCEPT !.at = "survey"])
  /\ faults' = 0
  /\ UNCHANGED <<owner, linode, copy, ran, inflight, orphans>>

-----------------------------------------------------------------------------
(* Revoking what was superseded *)

Listed == {t \in Token : Valid(t)}

\* A plausible bug, and the one graceperiod.go is about: the window is measured
\* from the token's own age.
DrainByAge(ids) ==
  {t \in ids : age[t] >= Grace /\ \E u \in ids : age[u] < age[t]}

\* A plausible bug: everything but the newest, at once.
DrainAtOnce(ids) == {t \in ids : \E u \in ids : age[u] < age[t]}

\* A token is superseded when the next younger one is created, and drained when
\* that is Grace ago; the youngest is never drained.
Drain(ids) ==
  {t \in ids : \E u \in ids : age[u] < age[t] /\ age[u] >= Grace}

\* CI's reaper, every day: a stateless job of its own.
BeginReap ==
  /\ owner = "ci" /\ run["reaper"].at = "idle"
  /\ ran' = ran \cup {"reaper"}
  /\ Become("reaper", [Idle EXCEPT !.at = "survey"])
  /\ UNCHANGED <<owner, linode, published, inflight, orphans, faults>>

\* A plausible bug: a run with nothing to revoke never ends.
GoOnRegardless(p, ids) == Become(p, [Idle EXCEPT !.at = "revoke", !.doomed = ids])

GoOn(p, ids) == Become(p, IF ids = {} THEN Idle ELSE [Idle EXCEPT !.at = "revoke", !.doomed = ids])

Survey(p) ==
  /\ run[p].at = "survey"
  /\ GoOn(p, IF Valid(Caller) THEN Drain(Listed) ELSE {})
  /\ UNCHANGED <<owner, linode, published, ran, inflight, orphans, faults>>

Revoke(p) ==
  /\ run[p].at = "revoke"
  /\ \E t \in run[p].doomed :
       /\ state' = [state EXCEPT ![t] = "revoked"]
       /\ GoOn(p, run[p].doomed \ {t})
  /\ UNCHANGED <<owner, age, published, ran, inflight, orphans, faults>>

-----------------------------------------------------------------------------
(* Failures *)

Fault == faults < MaxFaults /\ faults' = faults + 1

\* A call fails with nothing done, or the job dies.
Abort(p) ==
  /\ run[p].at # "idle"
  /\ Fault
  /\ Become(p, Idle)
  /\ orphans' = IF run[p].at = "publish" THEN orphans \cup {run[p].token} ELSE orphans
  /\ UNCHANGED <<owner, linode, published, ran, inflight>>

\* Linode created the token, but its answer was lost or the new token did not
\* verify.
MintLost ==
  /\ run["rotator"].at = "mint" /\ Valid(Caller)
  /\ Fault
  /\ Create /\ orphans' = orphans \cup {Fresh}
  /\ Become("rotator", Idle)
  /\ UNCHANGED <<owner, published, ran, inflight>>

\* One revocation fails: the CronJob goes on to the next, CI's job ends.
RevokeFails(p) ==
  /\ run[p].at = "revoke"
  /\ Fault
  /\ \E t \in run[p].doomed : GoOn(p, IF owner = "ci" THEN {} ELSE run[p].doomed \ {t})
  /\ UNCHANGED <<owner, linode, published, ran, inflight, orphans>>

-----------------------------------------------------------------------------
(* Jobs and time *)

JobStarts ==
  /\ inflight = None
  /\ \E d \in Deployment : inflight' = copy[d]
  /\ UNCHANGED <<owner, linode, published, run, ran, orphans, faults>>

JobEnds ==
  /\ inflight # None
  /\ inflight' = None
  /\ UNCHANGED <<owner, linode, published, run, ran, orphans, faults>>

\* Tokens that are of no use and no copy may stand for new ones; orphans are kept
\* while there is still an environment they have harmed.
Forgotten ==
  {t \in Token :
     /\ state[t] # "free" /\ ~Valid(t)
     /\ t # bao /\ \A d \in Deployment : copy[d] # t
     /\ t \in orphans => \A d \in Deployment : state[copy[d]] = "live"}

\* A week ends when its runs have.
Week ==
  /\ \A p \in Program : run[p].at = "idle"
  /\ ran = IF owner = "ci" THEN Program ELSE {"rotator"}
  /\ inflight = None
  /\ ran' = {}
  /\ state' = [t \in Token |-> IF t \in Forgotten THEN "free" ELSE state[t]]
  /\ orphans' = orphans \ Forgotten
  /\ age' = [t \in Token |-> IF state'[t] = "free" THEN 0
                             ELSE IF age[t] < Validity THEN age[t] + 1 ELSE age[t]]
  /\ stamp' = IF stamp < Validity THEN stamp + 1 ELSE stamp
  /\ UNCHANGED <<owner, copy, bao, run, inflight, faults>>

-----------------------------------------------------------------------------

Step ==
  \/ Begin \/ Mint \/ Publish \/ Write
  \/ \E p \in Program : Survey(p) \/ Revoke(p)

Failure == MintLost \/ \E p \in Program : Abort(p) \/ RevokeFails(p)

Next == Step \/ BeginReap \/ Failure \/ JobStarts \/ JobEnds \/ Week

Spec == Init /\ [][Next]_vars

\* Schedules fire, runs and jobs end, and however many jobs a week has, it passes.
Fairness ==
  /\ WF_vars(Step)
  /\ WF_vars("reaper" \notin ran /\ BeginReap)
  /\ WF_vars(JobEnds)
  /\ SF_vars(Week)

FairSpec == Spec /\ Fairness

-----------------------------------------------------------------------------
(* Properties *)

\* A token that was minted after t and never published everywhere.
MintedInVain(t) == \E u \in orphans \ {t} : age[u] <= age[t]

\* "The token CI is actively using is never pulled out from under it"
\* (broadpat.go:39-40): no environment holds a revoked token, whatever fails and
\* whoever drains.  The one exception is CI's reaper after a create that was not
\* published everywhere: it drains by creation order, up to the very token the
\* environments still hold.
CopiesNotRevoked ==
  \A d \in Deployment :
    state[copy[d]] = "revoked" => owner = "ci" /\ MintedInVain(copy[d])

\* A job keeps the token it resolved for as long as the grace window says, unless
\* a token that was never published everywhere was taken for its successor
\* (the gap graceperiod.go:34-51 names).
InFlightSpared ==
  inflight # None /\ state[inflight] = "revoked" => MintedInVain(inflight)

\* "The OpenBao write is what stamps rotated_at" (broadpat.go:24-38), so a fresh
\* stamp is evidence that every environment has a token at least as young.
StampTruthful ==
  owner = "cluster" /\ stamp < RotateAfter =>
    \A d \in Deployment : age[copy[d]] <= stamp

\* Rotation begins early enough for as many failed weeks as fit before a token
\* expires: no environment ever holds an expired one.
CopiesUnexpired ==
  owner = "cluster" => \A d \in Deployment : age[copy[d]] < Validity

\* However the failures fall, the CronJob comes again and again to one fresh token
\* in every environment and in OpenBao.
RotationConverges ==
  []<>(owner = "cluster" =>
         /\ stamp < RotateAfter /\ Valid(bao)
         /\ \A d \in Deployment : copy[d] = bao)
=============================================================================
