------------------------ MODULE StatePassphraseProofs ------------------------
(***************************************************************************)
(* No state becomes unreadable, and no licence is wrong.                   *)
(*                                                                         *)
(* A state is current if it is written with the configured passphrase, or  *)
(* with one that a second push displaced, or if a job from before the      *)
(* window wrote it.  Once current it stays so until the next window.  A    *)
(* rollover that has not failed has made current every root it is done     *)
(* with (JobInv), hence what it licenses is current (LicenceTrue), hence   *)
(* what is forsaken when the old passphrase is deleted is what no licence  *)
(* in force covers (StatesReadable).                                       *)
(***************************************************************************)
EXTENDS StatePassphrase, TLAPS

Current(f) == key[f] \in {secret} \cup displaced \/ f \in stray

\* A wizard about to push has something to push, and was told last that there is
\* no passphrase, unless another push came before its own.
WizardInv ==
  \A o \in Laptop :
    /\ laptop[o].at # "idle" => laptop[o].cache # NoKey
    /\ laptop[o].at = "push" => secret = NoKey
    /\ laptop[o].at = "beaten" => secret # NoKey

\* Windows, rollovers and licences are of a repository that has a passphrase.
WindowInv ==
  /\ old # NoKey \/ job.at # "idle" \/ licensed # {} => secret # NoKey
  /\ job.at # "idle" => job.new \in {secret} \cup displaced

JobInv ==
  job.at # "idle" /\ ~job.failed =>
    \A r \in rendered \ job.todo : Current(FileOf[<<job.dep, r>>])

Inv == TypeOK /\ WizardInv /\ WindowInv /\ JobInv /\ LicenceTrue /\ StatesReadable

-----------------------------------------------------------------------------
(* Types *)

Wizard == [at : {"idle", "planned", "push", "beaten"}, cache : Key \cup {NoKey}]

\* TypeOK by the actor whose variables it is about.
ConfiguredOK == {secret, old} \subseteq Key \cup {NoKey} /\ minted \in 0..MaxKeys
StatesOK == /\ key \in [StateFile -> Key \cup {NoKey}]
            /\ stray \subseteq StateFile /\ forsaken \subseteq StateFile
            /\ displaced \subseteq Key
JobOK == job \in Rollover /\ (job.at \in {"push", "verify"} => job.root \in job.todo)
LicencesOK == licensed \subseteq Deployment /\ (licensed # {} => rendered = Root)
OthersOK == /\ rendered \subseteq Root
            /\ apply \in [file : StateFile, new : Key \cup {NoKey}]
            /\ faults \in 0..MaxFaults
WizardsOK == laptop \in [Laptop -> Wizard]

LEMMA TypeParts ==
  TypeOK <=> ConfiguredOK /\ StatesOK /\ JobOK /\ LicencesOK /\ OthersOK /\ WizardsOK
  BY DEF TypeOK, ConfiguredOK, StatesOK, JobOK, LicencesOK, OthersOK, WizardsOK, Wizard

\* There is a deployment, a root and a state to begin with.
LEMMA Someone ==
  /\ \A s : s # {} => First(s) \in s
  /\ (CHOOSE d \in Deployment : TRUE) \in Deployment
  /\ (CHOOSE r \in Root : TRUE) \in Root
  /\ (CHOOSE f \in StateFile : TRUE) \in StateFile
  <1>1. \A s : s # {} => (CHOOSE x \in s : TRUE) \in s
    OBVIOUS
  <1>2. StateFile # {}
    <2>1. PICK d \in Deployment, r \in Root : TRUE
      BY InstanceAssumption
    <2>2. FileOf[<<d, r>>] \in StateFile
      BY FileAssumption
    <2>3. QED
      BY <2>2
  <1>3. QED
    BY <1>1, <1>2, InstanceAssumption DEF First

LEMMA NoJobTyped == NoJob \in Rollover /\ NoJob.at = "idle" /\ NoJob.todo = {}
  BY Someone DEF NoJob, Rollover

LEMMA NoApplyTyped == NoApply \in [file : StateFile, new : Key \cup {NoKey}]
  BY Someone DEF NoApply

\* The state of a root of a job's deployment is a state.
LEMMA FileTyped == \A d \in Deployment, r \in Root : FileOf[<<d, r>>] \in StateFile
  BY FileAssumption

\* The initial states are typed.
LEMMA InitTypeOK == Init => TypeOK
  <1> SUFFICES ASSUME Init PROVE TypeOK
    OBVIOUS
  <1>1. minted = 1 /\ 1 \in Key /\ secret \in {NoKey, 1} /\ old = NoKey
    BY BoundAssumption DEF Init, Key
  <1>2. ConfiguredOK
    BY <1>1, BoundAssumption DEF ConfiguredOK
  <1>3. StatesOK
    BY <1>1 DEF Init, StatesOK
  <1>4. JobOK /\ LicencesOK
    BY NoJobTyped DEF Init, JobOK, LicencesOK
  <1>5. OthersOK
    BY NoApplyTyped, CheckoutAssumption, BoundAssumption DEF Init, OthersOK
  <1>6. WizardsOK
    BY <1>1 DEF Init, WizardsOK, Wizard
  <1>7. QED
    BY <1>2, <1>3, <1>4, <1>5, <1>6, TypeParts

\* A state is written with a passphrase.
LEMMA WriteTyped ==
  ASSUME StatesOK, NEW f \in StateFile, NEW k \in Key \cup {NoKey}, WriteState(f, k)
  PROVE  StatesOK'
  BY DEF StatesOK, WriteState

\* A wizard changes place and cache.
LEMMA SitsTyped ==
  ASSUME WizardsOK, NEW o \in Laptop, NEW at \in {"idle", "planned", "push", "beaten"},
         NEW k \in Key \cup {NoKey}, Sits(o, at, k)
  PROVE  WizardsOK'
  BY DEF WizardsOK, Wizard, Sits

\* The job that a root leaves.
LEMMA SettledTyped ==
  ASSUME JobOK, NEW failed \in BOOLEAN
  PROVE  /\ Settled(failed) \in Rollover /\ Settled(failed).at = "next"
         /\ Settled(failed).todo = job.todo \ {job.root}
         /\ Settled(failed).failed = (job.failed \/ failed)
         /\ Settled(failed).dep = job.dep /\ Settled(failed).new = job.new
  BY DEF JobOK, Settled, Rollover

\* The steps of a rollover keep the types.
LEMMA RollTyped ==
  ASSUME TypeOK, Roll \/ RollFails
  PROVE  StatesOK' /\ JobOK' /\ LicencesOK' /\ faults' \in 0..MaxFaults
  <1>0. /\ ConfiguredOK /\ StatesOK /\ JobOK /\ LicencesOK /\ OthersOK
        /\ job \in Rollover /\ rendered \subseteq Root /\ faults \in 0..MaxFaults
    BY TypeParts DEF OthersOK, JobOK
  <1> USE DEF history
  <1>1. CASE Dispatch
    BY <1>0, <1>1, NoJobTyped DEF Dispatch, NoJob, Rollover, StatesOK, JobOK, LicencesOK
  <1>2. CASE Start
    <2>1. First(job.queue) \in Deployment
      BY <1>0, <1>2, Someone DEF Start, Rollover
    <2>2. job' \in Rollover /\ job'.at \in {"idle", "next"}
      BY <1>0, <1>2, <2>1, NoJobTyped DEF Start, NoJob, Rollover, ConfiguredOK
    <2>3. QED
      BY <1>0, <1>2, <2>2 DEF Start, StatesOK, JobOK, LicencesOK
  <1>3. CASE Pull
    <2>1. First(job.todo) \in job.todo
      BY <1>3, Someone DEF Pull
    <2>2. job' \in Rollover /\ (job'.at \in {"push", "verify"} => job'.root \in job'.todo)
      BY <1>0, <1>3, <2>1 DEF Pull, Rollover
    <2>3. QED
      BY <1>0, <1>3, <2>2 DEF Pull, StatesOK, JobOK, LicencesOK
  <1>4. CASE Push
    <2>1. JobFile \in StateFile /\ job.new \in Key \cup {NoKey}
      BY <1>0, FileTyped DEF JobFile, Rollover
    <2>2. StatesOK'
      BY <1>0, <1>4, <2>1, WriteTyped DEF Push, StatesOK
    <2>3. JobOK'
      BY <1>0, <1>4, SettledTyped DEF Push, JobOK, Rollover
    <2>4. QED
      BY <1>0, <1>4, <2>2, <2>3 DEF Push, LicencesOK
  <1>5. CASE Verify
    <2>1. (key[JobFile] # job.new) \in BOOLEAN
      OBVIOUS
    <2>2. JobOK'
      BY <1>0, <1>5, <2>1, SettledTyped DEF Verify, JobOK
    <2>3. QED
      BY <1>0, <1>5, <2>2 DEF Verify, StatesOK, LicencesOK
  <1>6. CASE Report
    BY <1>0, <1>6, NoJobTyped DEF Report, NoJob, Rollover, StatesOK, JobOK, LicencesOK
  <1>7. CASE RollFails
    <2>1. JobOK'
      BY <1>0, <1>7, SettledTyped DEF RollFails, JobOK, Rollover
    <2>2. faults' \in 0..MaxFaults
      BY <1>0, <1>7, BoundAssumption DEF RollFails, Fault
    <2>3. QED
      BY <1>0, <1>7, <2>1, <2>2 DEF RollFails, StatesOK, LicencesOK
  <1>8. CASE ~RollFails
    BY <1>0, <1>1, <1>2, <1>3, <1>4, <1>5, <1>6, <1>8
    DEF Roll, Dispatch, Start, Pull, Push, Verify, Report
  <1>9. QED
    BY <1>7, <1>8

\* Every step keeps the types.
LEMMA NextTypeOK == TypeOK /\ WizardInv /\ [Next]_vars => TypeOK'
  <1> SUFFICES ASSUME TypeOK, WizardInv, [Next]_vars
               PROVE  /\ ConfiguredOK' /\ StatesOK' /\ JobOK' /\ LicencesOK' /\ OthersOK'
                      /\ WizardsOK'
    BY DEF TypeOK, ConfiguredOK, StatesOK, JobOK, LicencesOK, OthersOK, WizardsOK, Wizard
  <1> USE DEF configured, history
  <1>0. ConfiguredOK /\ StatesOK /\ JobOK /\ LicencesOK /\ OthersOK /\ WizardsOK
    BY TypeParts
  <1>1. CASE Roll \/ RollFails
    <2>1. UNCHANGED <<configured, rendered, apply, laptop>>
      BY <1>1 DEF Roll, RollFails, Dispatch, Start, Pull, Push, Verify, Report
    <2>2. QED
      BY <1>0, <1>1, <2>1, RollTyped DEF ConfiguredOK, OthersOK, WizardsOK
  <1>2. CASE OpenWindow
    <2>1. minted + 1 \in Key /\ minted + 1 \in 0..MaxKeys
      BY <1>0, <1>2, BoundAssumption DEF OpenWindow, ConfiguredOK, Key
    <2>2. QED
      BY <1>0, <1>2, <2>1
      DEF OpenWindow, ConfiguredOK, StatesOK, JobOK, LicencesOK, OthersOK, WizardsOK
  <1>3. CASE DeleteOld
    <2>1. StatesOK' /\ ConfiguredOK' /\ LicencesOK'
      BY <1>0, <1>3 DEF DeleteOld, ConfiguredOK, StatesOK, LicencesOK
    <2>2. QED
      BY <1>0, <1>3, <2>1 DEF DeleteOld, JobOK, OthersOK, WizardsOK
  <1>4. ASSUME NEW f \in StateFile, ApplyReads(f)
        PROVE  /\ ConfiguredOK' /\ StatesOK' /\ JobOK' /\ LicencesOK' /\ OthersOK'
               /\ WizardsOK'
    BY <1>0, <1>4
    DEF ApplyReads, ConfiguredOK, StatesOK, JobOK, LicencesOK, OthersOK, WizardsOK
  <1>5. CASE ApplyEnds
    <2>1. OthersOK'
      BY <1>0, <1>5, NoApplyTyped DEF ApplyEnds, OthersOK
    <2>2. StatesOK'
      <3>1. apply.file \in StateFile /\ apply.new \in Key \cup {NoKey}
        BY <1>0 DEF OthersOK
      <3>2. QED
        BY <1>0, <1>5, <3>1, WriteTyped DEF ApplyEnds, StatesOK
    <2>3. JobOK'
      BY <1>0, <1>5 DEF ApplyEnds, JobOK, Rollover
    <2>4. QED
      BY <1>0, <1>5, <2>1, <2>2, <2>3 DEF ApplyEnds, ConfiguredOK, LicencesOK, WizardsOK
  <1>6. ASSUME NEW o \in Laptop, Plan(o) \/ Drop(o) \/ Set(o) \/ Abandon(o)
        PROVE  /\ ConfiguredOK' /\ StatesOK' /\ JobOK' /\ LicencesOK' /\ OthersOK'
               /\ WizardsOK'
    <2>1. /\ laptop[o].cache \in Key \cup {NoKey}
          /\ minted < MaxKeys => minted + 1 \in Key /\ minted + 1 \in 0..MaxKeys
      BY <1>0, BoundAssumption DEF WizardsOK, Wizard, ConfiguredOK, Key
    <2>2. WizardsOK'
      <3>1. CASE Plan(o) \/ Drop(o) \/ Abandon(o)
        BY <1>0, <2>1, <3>1, SitsTyped DEF Plan, Drop, Abandon
      <3>2. CASE Set(o)
        BY <1>0, <3>2 DEF Set, WizardsOK, Wizard
      <3>3. QED
        BY <1>6, <3>1, <3>2
    <2>3. UNCHANGED <<old, key, stray, forsaken, rendered, job, licensed, apply, faults>>
      BY <1>6 DEF Plan, Drop, Set, Abandon
    <2>4. ConfiguredOK'
      BY <1>0, <1>6, <2>1, <2>3 DEF Plan, Drop, Set, Abandon, ConfiguredOK
    <2>5. displaced' \subseteq Key
      <3>1. CASE Set(o)
        BY <1>0, <3>1 DEF Set, StatesOK, ConfiguredOK, WizardInv
      <3>2. CASE ~Set(o)
        BY <1>0, <1>6, <3>2 DEF Plan, Drop, Abandon, StatesOK
      <3>3. QED
        BY <3>1, <3>2
    <2>6. QED
      BY <1>0, <2>2, <2>3, <2>4, <2>5 DEF StatesOK, JobOK, LicencesOK, OthersOK
  <1>7. CASE UNCHANGED vars
    BY <1>0, <1>7 DEF vars, ConfiguredOK, StatesOK, JobOK, LicencesOK, OthersOK, WizardsOK
  <1>8. QED
    BY <1>1, <1>2, <1>3, <1>4, <1>5, <1>6, <1>7 DEF Next

-----------------------------------------------------------------------------
(* The invariant *)

LEMMA InitInv == Init => Inv
  <1> SUFFICES ASSUME Init PROVE WizardInv /\ WindowInv /\ JobInv /\ LicenceTrue /\ StatesReadable
    BY InitTypeOK DEF Inv
  <1>1. WizardInv /\ WindowInv /\ JobInv
    BY NoJobTyped DEF Init, WizardInv, WindowInv, JobInv
  <1>2. LicenceTrue /\ StatesReadable
    BY DEF Init, LicenceTrue, StatesReadable
  <1>3. QED
    BY <1>1, <1>2

\* What is left alone by those who are not wizards, operators or writers.
LEMMA RollFrame ==
  ASSUME Roll \/ RollFails
  PROVE  UNCHANGED <<secret, old, rendered, laptop, forsaken, displaced>>
  BY DEF Roll, RollFails, Dispatch, Start, Pull, Push, Verify, Report, configured, history,
         WriteState

\* A wizard does nothing to states, jobs, windows and licences.
LEMMA WizardFrame ==
  ASSUME NEW o \in Laptop, Plan(o) \/ Drop(o) \/ Set(o) \/ Abandon(o)
  PROVE  UNCHANGED <<old, key, rendered, job, licensed, stray, forsaken>>
  BY DEF Plan, Drop, Set, Abandon, configured, history

\* Nor does Terraform, but for the state it writes and the job whose push it spoils.
LEMMA ApplyFrame ==
  ASSUME (\E f \in StateFile : ApplyReads(f)) \/ ApplyEnds
  PROVE  UNCHANGED <<secret, old, rendered, licensed, laptop, forsaken, displaced>>
  BY DEF ApplyReads, ApplyEnds, configured, history, WriteState

\* Only a push and the start of a window change the passphrase.
LEMMA SecretChanges ==
  ASSUME [Next]_vars, ~OpenWindow, \A o \in Laptop : ~Set(o)
  PROVE  UNCHANGED <<secret, displaced>>
  <1>1. CASE Roll \/ RollFails
    BY <1>1, RollFrame
  <1>2. CASE (\E f \in StateFile : ApplyReads(f)) \/ ApplyEnds
    BY <1>2, ApplyFrame
  <1>3. CASE DeleteOld \/ UNCHANGED vars
    BY <1>3 DEF DeleteOld, vars, configured, history
  <1>4. CASE \E o \in Laptop : Plan(o) \/ Drop(o) \/ Abandon(o)
    BY <1>4 DEF Plan, Drop, Abandon, configured, history
  <1>5. QED
    BY <1>1, <1>2, <1>3, <1>4 DEF Next

LEMMA NextWizardInv == Inv /\ [Next]_vars => WizardInv'
  <1> SUFFICES ASSUME Inv, [Next]_vars PROVE WizardInv'
    OBVIOUS
  <1>0. TypeOK /\ WizardInv /\ WizardsOK /\ ConfiguredOK
    BY TypeParts DEF Inv
  <1>1. CASE Roll \/ RollFails
    BY <1>0, <1>1, RollFrame DEF WizardInv
  <1>2. CASE (\E f \in StateFile : ApplyReads(f)) \/ ApplyEnds
    BY <1>0, <1>2, ApplyFrame DEF WizardInv
  <1>3. CASE DeleteOld \/ UNCHANGED vars
    BY <1>0, <1>3 DEF DeleteOld, vars, configured, WizardInv
  <1>4. CASE OpenWindow
    <2>1. secret # NoKey /\ secret' # NoKey /\ laptop' = laptop
      BY <1>0, <1>4 DEF OpenWindow, ConfiguredOK, NoKey
    <2>2. QED
      BY <1>0, <2>1 DEF WizardInv
  <1>5. ASSUME NEW o \in Laptop, Plan(o)
        PROVE  WizardInv'
    <2>1. minted + 1 # NoKey
      BY <1>0 DEF ConfiguredOK, NoKey
    <2>2. QED
      BY <1>0, <1>5, <2>1 DEF Plan, Sits, WizardInv, WizardsOK, Wizard
  <1>6. ASSUME NEW o \in Laptop, Drop(o) \/ Abandon(o)
        PROVE  WizardInv'
    BY <1>0, <1>6 DEF Drop, Abandon, Sits, configured, WizardInv, WizardsOK, Wizard
  <1>7. ASSUME NEW o \in Laptop, Set(o)
        PROVE  WizardInv'
    <2>1. secret' # NoKey
      BY <1>0, <1>7 DEF Set, WizardInv
    <2>2. \A q \in Laptop : /\ laptop'[q].cache = laptop[q].cache
                            /\ laptop'[q].at # "push"
                            /\ laptop'[q].at # "idle" => laptop[q].at # "idle"
      BY <1>0, <1>7 DEF Set, WizardsOK, Wizard
    <2>3. QED
      BY <1>0, <2>1, <2>2 DEF WizardInv
  <1>8. QED
    BY <1>1, <1>2, <1>3, <1>4, <1>5, <1>6, <1>7 DEF Next

\* A push: the first one finds no passphrase, and a second one displaces it.
LEMMA Pushes ==
  ASSUME Inv, NEW o \in Laptop, Set(o)
  PROVE  /\ secret' # NoKey
         /\ secret # NoKey => displaced' = displaced \cup {secret}
         /\ secret = NoKey => displaced' = displaced /\ job.at = "idle" /\ licensed = {} /\ old = NoKey
  BY DEF Inv, Set, WizardInv, WindowInv

LEMMA NextWindowInv == Inv /\ [Next]_vars => WindowInv'
  <1> SUFFICES ASSUME Inv, [Next]_vars PROVE WindowInv'
    OBVIOUS
  <1>0. WindowInv /\ JobOK /\ ConfiguredOK
    BY TypeParts DEF Inv
  <1>1. CASE Roll \/ RollFails
    <2>1. UNCHANGED <<secret, old, displaced>>
      BY <1>1, RollFrame
    <2>2. CASE Dispatch \/ Report
      BY <1>0, <2>1, <2>2, NoJobTyped DEF Dispatch, Report, WindowInv, NoJob
    <2>3. CASE Start
      BY <1>0, <2>1, <2>3 DEF Start, WindowInv, NoJob
    <2>4. CASE Pull \/ Push \/ Verify \/ RollFails
      <3>1. job.at # "idle" /\ job'.new = job.new /\ licensed' = licensed
        BY <1>0, <2>4 DEF Pull, Push, Verify, RollFails, Settled, JobOK, Rollover
      <3>2. QED
        BY <1>0, <2>1, <3>1 DEF WindowInv
    <2>5. QED
      BY <1>1, <2>2, <2>3, <2>4 DEF Roll
  <1>2. CASE (\E f \in StateFile : ApplyReads(f)) \/ ApplyEnds
    <2>1. job'.at = job.at /\ job'.new = job.new
      BY <1>0, <1>2 DEF ApplyReads, ApplyEnds, JobOK, Rollover
    <2>2. QED
      BY <1>0, <1>2, <2>1, ApplyFrame DEF WindowInv
  <1>3. CASE DeleteOld \/ UNCHANGED vars
    BY <1>0, <1>3 DEF DeleteOld, vars, configured, history, WindowInv
  <1>4. CASE OpenWindow
    BY <1>0, <1>4 DEF OpenWindow, WindowInv, ConfiguredOK, NoKey
  <1>5. ASSUME NEW o \in Laptop, Set(o)
        PROVE  WindowInv'
    BY <1>0, <1>5, Pushes, WizardFrame DEF WindowInv
  <1>6. ASSUME NEW o \in Laptop, Plan(o) \/ Drop(o) \/ Abandon(o)
        PROVE  WindowInv'
    BY <1>0, <1>6 DEF Plan, Drop, Abandon, configured, history, WindowInv
  <1>7. QED
    BY <1>1, <1>2, <1>3, <1>4, <1>5, <1>6 DEF Next

\* With a passphrase, a current state stays current until the next window.
LEMMA CurrentStays ==
  ASSUME Inv, [Next]_vars, ~OpenWindow, secret # NoKey, NEW f \in StateFile, Current(f)
  PROVE  Current(f)'
  <1>0. key \in [StateFile -> Key \cup {NoKey}]
    BY TypeParts DEF Inv, StatesOK
  <1>1. ASSUME NEW o \in Laptop, Set(o)
        PROVE  Current(f)'
    BY <1>1, Pushes, WizardFrame DEF Current
  <1>2. CASE \A o \in Laptop : ~Set(o)
    <2>1. UNCHANGED <<secret, displaced>>
      BY <1>2, SecretChanges
    <2>2. ASSUME NEW g \in StateFile, NEW k, WriteState(g, k)
          PROVE  Current(f)'
      BY <1>0, <2>1, <2>2 DEF WriteState, Current
    <2>3. CASE Push \/ ApplyEnds
      <3>1. JobFile \in StateFile \/ ~Push
        BY FileTyped, TypeParts DEF Inv, JobOK, Rollover, JobFile, Push
      <3>2. apply.file \in StateFile
        BY TypeParts DEF Inv, OthersOK
      <3>3. CASE UNCHANGED <<key, history>>
        BY <2>1, <3>3 DEF Current, history
      <3>4. QED
        BY <2>2, <2>3, <3>1, <3>2, <3>3 DEF Push, ApplyEnds
    <2>4. CASE ~Push /\ ~ApplyEnds
      <3>1. UNCHANGED <<key, stray>>
        BY <2>4, <1>2
        DEF Next, Roll, Dispatch, Start, Pull, Verify, Report, RollFails, OpenWindow, DeleteOld,
            ApplyReads, Plan, Drop, Abandon, history, vars
      <3>2. QED
        BY <2>1, <3>1 DEF Current
    <2>5. QED
      BY <2>3, <2>4
  <1>3. QED
    BY <1>1, <1>2

\* A rollover makes current what it is done with.
LEMMA NextJobInv == Inv /\ [Next]_vars => JobInv'
  <1> SUFFICES ASSUME Inv, [Next]_vars, (job.at # "idle" /\ ~job.failed)',
                      NEW r \in (rendered \ job.todo)'
               PROVE  Current(FileOf[<<job.dep, r>>])'
    BY DEF JobInv
  <1>0. JobInv /\ JobOK /\ WindowInv /\ rendered \subseteq Root /\ job.dep \in Deployment
    BY TypeParts DEF Inv, OthersOK, JobOK, Rollover
  <1>1. ASSUME job.at # "idle", ~job.failed, job'.dep = job.dep, r \in rendered \ job.todo
        PROVE  Current(FileOf[<<job.dep, r>>])'
    <2>1. FileOf[<<job.dep, r>>] \in StateFile
      BY <1>0, <1>1, FileTyped
    <2>2. ~OpenWindow
      BY <1>1 DEF OpenWindow
    <2>3. Current(FileOf[<<job.dep, r>>]) /\ secret # NoKey
      BY <1>0, <1>1 DEF JobInv, WindowInv
    <2>4. QED
      BY <1>1, <2>1, <2>2, <2>3, CurrentStays DEF Current
  <1>2. CASE Roll \/ RollFails
    <2>1. rendered' = rendered
      BY <1>2, RollFrame
    <2>2. CASE Dispatch \/ Start \/ Report
      BY <2>1, <2>2, NoJobTyped DEF Dispatch, Start, Report, NoJob
    <2>3. CASE Pull \/ Push
      <3>1. job.at # "idle" /\ job'.dep = job.dep /\ ~job.failed /\ job'.todo = job.todo
        BY <1>0, <2>3, SettledTyped DEF Pull, Push, JobOK, Rollover
      <3>2. QED
        BY <1>1, <2>1, <3>1
    <2>4. CASE Verify
      <3>1. (key[JobFile] # job.new) \in BOOLEAN /\ job' = Settled(key[JobFile] # job.new)
        BY <2>4 DEF Verify
      <3>2. /\ ~job.failed /\ key[JobFile] = job.new
            /\ job'.dep = job.dep /\ job'.todo = job.todo \ {job.root} /\ job.at # "idle"
        BY <1>0, <2>4, <3>1, SettledTyped DEF Verify
      <3>3. CASE r = job.root
        <4>1. job.new \in {secret} \cup displaced
          BY <1>0, <3>2 DEF WindowInv
        <4>2. UNCHANGED <<secret, displaced, key, stray>>
          BY <2>4 DEF Verify, configured, history
        <4>3. QED
          BY <3>2, <3>3, <4>1, <4>2 DEF Current, JobFile
      <3>4. CASE r # job.root
        BY <1>1, <2>1, <3>2, <3>4
      <3>5. QED
        BY <3>3, <3>4
    <2>5. CASE RollFails
      <3>1. job'.failed
        BY <1>0, <2>5, SettledTyped DEF RollFails, JobOK, Rollover
      <3>2. QED
        BY <3>1
    <2>6. QED
      BY <1>2, <2>2, <2>3, <2>4, <2>5 DEF Roll
  <1>3. CASE ApplyEnds
    <2>1. /\ job'.at = job.at /\ job'.dep = job.dep /\ job'.failed = job.failed
          /\ job'.todo = job.todo /\ rendered' = rendered
      BY <1>0, <1>3 DEF ApplyEnds, JobOK, Rollover
    <2>2. QED
      BY <1>1, <2>1
  <1>4. CASE ~(Roll \/ RollFails) /\ ~ApplyEnds
    <2>1. UNCHANGED <<job, rendered>>
      BY <1>4, WizardFrame DEF Next, OpenWindow, DeleteOld, ApplyReads, vars
    <2>2. QED
      BY <1>1, <2>1
  <1>5. QED
    BY <1>2, <1>3, <1>4

\* What a licence covers was current when it was given, and stays so.
LEMMA NextLicenceTrue == Inv /\ [Next]_vars => LicenceTrue'
  <1> SUFFICES ASSUME Inv, [Next]_vars, NEW d \in licensed', NEW r \in Root
               PROVE  Current(FileOf[<<d, r>>])'
    BY DEF LicenceTrue, Current
  <1>0. LicenceTrue /\ JobInv /\ WindowInv /\ JobOK /\ LicencesOK
    BY TypeParts DEF Inv
  <1>1. ~OpenWindow /\ ~DeleteOld
    BY DEF OpenWindow, DeleteOld
  <1>2. ASSUME d \in Deployment, secret # NoKey, Current(FileOf[<<d, r>>])
        PROVE  Current(FileOf[<<d, r>>])'
    BY <1>1, <1>2, FileTyped, CurrentStays
  <1>3. CASE d \in licensed
    <2>1. d \in Deployment /\ secret # NoKey /\ Current(FileOf[<<d, r>>])
      BY <1>0, <1>3 DEF LicencesOK, WindowInv, LicenceTrue, Current
    <2>2. QED
      BY <1>2, <2>1
  <1>4. CASE d \notin licensed
    <2>1. Report
      BY <1>1, <1>4, WizardFrame, ApplyFrame
      DEF Next, Roll, Dispatch, Start, Pull, Push, Verify, RollFails, vars
    <2>2. d = job.dep /\ job.at # "idle" /\ ~job.failed /\ rendered = Root /\ job.todo = {}
      BY <1>4, <2>1 DEF Report
    <2>3. d \in Deployment /\ secret # NoKey /\ Current(FileOf[<<d, r>>])
      BY <1>0, <2>2 DEF JobInv, WindowInv, JobOK, Rollover
    <2>4. QED
      BY <1>2, <2>3
  <1>5. QED
    BY <1>3, <1>4

\* No step loses a state but in the three ways.
LEMMA NextStatesReadable == Inv /\ [Next]_vars => StatesReadable'
  <1> SUFFICES ASSUME Inv, [Next]_vars, NEW f \in StateFile
               PROVE  (\/ key[f] \in {NoKey, secret, old} \cup displaced
                       \/ f \in stray \cup forsaken)'
    BY DEF StatesReadable
  <1>0. /\ \/ key[f] \in {NoKey, secret, old} \cup displaced
           \/ f \in stray \cup forsaken
        /\ StatesOK /\ JobOK /\ OthersOK /\ LicenceTrue
    BY TypeParts DEF Inv, StatesReadable
  <1>1. ASSUME NEW g \in StateFile, NEW k, WriteState(g, k), UNCHANGED <<secret, old, displaced>>
        PROVE  (\/ key[f] \in {NoKey, secret, old} \cup displaced
                \/ f \in stray \cup forsaken)'
    BY <1>0, <1>1 DEF WriteState, StatesOK
  <1>2. CASE Push \/ ApplyEnds
    <2>1. JobFile \in StateFile \/ ~Push
      BY <1>0, FileTyped DEF JobOK, Rollover, JobFile, Push
    <2>2. apply.file \in StateFile
      BY <1>0 DEF OthersOK
    <2>3. UNCHANGED <<secret, old, displaced>>
      BY <1>2, RollFrame, ApplyFrame DEF Roll
    <2>4. CASE UNCHANGED <<key, history>>
      BY <1>0, <2>3, <2>4 DEF history
    <2>5. QED
      BY <1>1, <1>2, <2>1, <2>2, <2>3, <2>4 DEF Push, ApplyEnds
  <1>3. CASE OpenWindow
    BY <1>0, <1>3 DEF OpenWindow, history
  <1>4. CASE DeleteOld
    <2>1. UNCHANGED <<key, secret, stray, displaced>> /\ forsaken \subseteq forsaken'
      BY <1>4 DEF DeleteOld
    <2>2. CASE key[f] # old
      BY <1>0, <2>1, <2>2
    <2>3. CASE key[f] = old /\ \A d \in licensed, r \in Root : FileOf[<<d, r>>] # f
      BY <1>4, <2>3 DEF DeleteOld
    <2>4. CASE \E d \in licensed, r \in Root : FileOf[<<d, r>>] = f
      <3>1. key[f] \in {secret} \cup displaced \/ f \in stray
        BY <1>0, <2>4 DEF LicenceTrue
      <3>2. QED
        BY <2>1, <3>1
    <2>5. QED
      BY <2>2, <2>3, <2>4
  <1>5. ASSUME NEW o \in Laptop, Set(o)
        PROVE  (\/ key[f] \in {NoKey, secret, old} \cup displaced
                \/ f \in stray \cup forsaken)'
    BY <1>0, <1>5, Pushes, WizardFrame
  <1>6. CASE ~Push /\ ~ApplyEnds /\ ~OpenWindow /\ ~DeleteOld /\ \A o \in Laptop : ~Set(o)
    <2>1. UNCHANGED <<key, secret, old, stray, forsaken, displaced>>
      BY <1>6 DEF Next, Roll, Dispatch, Start, Pull, Verify, Report, RollFails, ApplyReads,
                  Plan, Drop, Abandon, configured, history, vars
    <2>2. QED
      BY <1>0, <2>1
  <1>7. QED
    BY <1>2, <1>3, <1>4, <1>5, <1>6

LEMMA NextInv == Inv /\ [Next]_vars => Inv'
  BY NextTypeOK, NextWizardInv, NextWindowInv, NextJobInv, NextLicenceTrue, NextStatesReadable
  DEF Inv

LEMMA Invariant == Spec => []Inv
  BY InitInv, NextInv, PTL DEF Spec

-----------------------------------------------------------------------------

\* The types, for any deployments, roots and laptops.
THEOREM TypeCorrect == Spec => []TypeOK
  <1>1. Inv => TypeOK
    BY DEF Inv
  <1>2. QED
    BY <1>1, Invariant, PTL

\* The summary's "can now be deleted" (reportRollover) is right of every root of
\* its deployment, whichever were skipped, failed or raced.
THEOREM LicenceSafe == Spec => []LicenceTrue
  <1>1. Inv => LicenceTrue
    BY DEF Inv
  <1>2. QED
    BY <1>1, Invariant, PTL

\* RunRotate, the wizard's DropStatePassphraseIfLive and Terraform's jobs together
\* lose no state but in the three ways StatesReadable names.
THEOREM ReadableSafe == Spec => []StatesReadable
  <1>1. Inv => StatesReadable
    BY DEF Inv
  <1>2. QED
    BY <1>1, Invariant, PTL
=============================================================================
