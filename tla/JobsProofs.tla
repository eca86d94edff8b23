----------------------------- MODULE JobsProofs -----------------------------
(***************************************************************************)
(* Safety of the job runner for any sets of games, workers and faults: the *)
(* invariant of module JobsInv is inductive, and the properties below      *)
(* follow from it.                                                         *)
(***************************************************************************)
EXTENDS JobsInv, Naturals, TLAPS

USE DEF JobSet, NoJob, Steps, StartSteps, StopSteps, Outcomes, FaultKinds, ContainerStates, Copies,
        vars, cloudVars, workerVars, InLock,
        Goto, Report, Meets, Raise, Handled, Unhandled, Call, Query

----------------------------------------------------------------------------
(* The actions of Next, grouped by the part of the state they change.      *)

Lifecycle(w) ==
    \/ \E op \in {"start", "stop"}, g \in Games : Take(w, op, g)
    \/ Acquire(w) \/ Release(w) \/ LockWaitTimesOut(w)
    \/ AcquireFails(w) \/ AcquireRetried(w) \/ ReleaseFails(w) \/ Crash(w)

Control(w) ==
    \/ /\ \/ DeployGuard(w) \/ EnsureSshKey(w) \/ RenderUserData(w) \/ LookUp(w) \/ AwaitServer(w)
          \/ FindServer(w) \/ WaitUntilOff(w)
       /\ UNCHANGED lock
    \/ CheckDns(w) \/ Announce(w)
    \/ GetProvisioner(w, "start_prov", "guard") \/ GetProvisioner(w, "stop_prov", "find")

Records(w) == Publish(w) \/ ClearDns(w)

Creating(w) ==
    ResolveVolume(w) \/ DeleteStaleFirewall(w) \/ CreateNewFirewall(w) \/ RequestServer(w)

Rollback(w) == RollbackServer(w) \/ RollbackFirewall(w)

Saving(w) == StopGame(w) \/ BackUp(w) \/ PullGamedata(w)

TearDown(w) == RequestShutdown(w) \/ Detach(w) \/ DeleteGameServer(w) \/ ReapFirewall(w)

(* Every step is in one of the groups.                                     *)
LEMMA NextCases ==
    ASSUME [Next]_vars
    PROVE  \/ UNCHANGED vars
           \/ \E w \in Workers :
                 \/ Lifecycle(w) \/ Control(w) \/ Records(w)
                 \/ (Creating(w) \/ Rollback(w) \/ Saving(w) \/ TearDown(w)) /\ UNCHANGED lock
           \/ \E g \in Games :
                 \/ ForgetOrphanedLock(g)
                 \/ Environment(g) /\ UNCHANGED <<workerVars, lock>>
BY DEF Next, Run, JobStep, Deploy, Destroy, Lifecycle, Control, Records, Creating,
   Rollback, Saving, TearDown

----------------------------------------------------------------------------
(* Types                                                                   *)

(* What any call does to the cloud keeps its types.                        *)
LEMMA EffectsTyped ==
    ASSUME CloudTypeOK, NEW g, NEW r \in {"none", "current"}, NEW c,
           \/ UNCHANGED cloudVars
           \/ CreateServer(g) \/ DeleteServer(g) \/ Shutdown(g)
           \/ CreateFirewall(g) \/ DeleteFirewall(g) \/ CreateVolume(g) \/ DetachVolume(g)
           \/ StopContainer(g) \/ SaveCopy(g, c) \/ WriteDns(g, r)
           \/ Environment(g)
    PROVE  CloudTypeOK'
<1> USE DEF CloudTypeOK
<1>1. CASE UNCHANGED cloudVars BY <1>1
<1>2. CASE CreateServer(g) BY <1>2 DEF CreateServer
<1>3. CASE DeleteServer(g) BY <1>3 DEF DeleteServer
<1>4. CASE Shutdown(g) BY <1>4 DEF Shutdown
<1>5. CASE CreateFirewall(g) \/ DeleteFirewall(g) BY <1>5 DEF CreateFirewall, DeleteFirewall
<1>6. CASE CreateVolume(g) \/ DetachVolume(g) BY <1>6 DEF CreateVolume, DetachVolume
<1>7. CASE StopContainer(g) BY <1>7 DEF StopContainer
<1>8. CASE SaveCopy(g, c) BY <1>8 DEF SaveCopy
<1>9. CASE WriteDns(g, r) BY <1>9 DEF WriteDns
<1>10. CASE Environment(g) BY <1>10 DEF Environment, Boot, Play, GameExit, PowerOff
<1>11. QED BY <1>1, <1>2, <1>3, <1>4, <1>5, <1>6, <1>7, <1>8, <1>9, <1>10

(* A step of one worker keeps the types of the cloud ...                   *)
LEMMA CloudTyped ==
    ASSUME CloudTypeOK, [Next]_vars
    PROVE  CloudTypeOK'
<1>1. CASE UNCHANGED vars BY <1>1 DEF CloudTypeOK
<1>2. ASSUME NEW w \in Workers, Lifecycle(w) \/ Control(w) PROVE CloudTypeOK'
  <2>1. UNCHANGED cloudVars
    BY <1>2 DEF Lifecycle, Take, Acquire, Release, LockWaitTimesOut,
       AcquireFails, AcquireRetried, ReleaseFails, Crash, EndJob,
       Control, DeployGuard, EnsureSshKey, RenderUserData, LookUp, AwaitServer, FindServer,
       WaitUntilOff, CheckDns, GetProvisioner, Announce, Escapes
  <2>2. QED BY <2>1 DEF CloudTypeOK
<1>3. ASSUME NEW w \in Workers, Records(w) PROVE CloudTypeOK'
  BY <1>3, EffectsTyped DEF Records, Publish, ClearDns
<1>4. ASSUME NEW w \in Workers, Creating(w) PROVE CloudTypeOK'
  BY <1>4, EffectsTyped DEF Creating, ResolveVolume, DeleteStaleFirewall, CreateNewFirewall,
     RequestServer
<1>5. ASSUME NEW w \in Workers, Rollback(w) PROVE CloudTypeOK'
  BY <1>5, EffectsTyped DEF Rollback, RollbackStep, RollbackServer, RollbackFirewall
<1>6. ASSUME NEW w \in Workers, Saving(w) PROVE CloudTypeOK'
  BY <1>6, EffectsTyped DEF Saving, StopGame, BackUp, PullGamedata
<1>7. ASSUME NEW w \in Workers, TearDown(w) PROVE CloudTypeOK'
  BY <1>7, EffectsTyped DEF TearDown, RequestShutdown, Detach, DeleteGameServer, ReapFirewall
<1>8. ASSUME NEW g \in Games, ForgetOrphanedLock(g) \/ Environment(g) PROVE CloudTypeOK'
  BY <1>8, EffectsTyped DEF ForgetOrphanedLock
<1>9. QED BY <1>1, <1>2, <1>3, <1>4, <1>5, <1>6, <1>7, <1>8, NextCases

(* ... of the workers and of the keys.                                     *)
LEMMA WorkersTyped ==
    ASSUME WorkerTypeOK, lock \in [Games -> BOOLEAN], [Next]_vars
    PROVE  WorkerTypeOK' /\ lock' \in [Games -> BOOLEAN]
<1> USE DEF WorkerTypeOK
<1>1. CASE UNCHANGED vars BY <1>1
<1>2. ASSUME NEW w \in Workers, Lifecycle(w)
      PROVE  WorkerTypeOK' /\ lock' \in [Games -> BOOLEAN]
  <2>1. ASSUME NEW op \in {"start", "stop"}, NEW g \in Games, Take(w, op, g)
        PROVE  WorkerTypeOK' /\ lock' \in [Games -> BOOLEAN]
    BY <2>1 DEF Take
  <2>2. CASE Acquire(w) BY <2>2 DEF Acquire
  <2>3. CASE Release(w) \/ LockWaitTimesOut(w) \/ AcquireFails(w) \/ ReleaseFails(w) \/ Crash(w)
    BY <2>3 DEF Release, LockWaitTimesOut, AcquireFails, ReleaseFails, Crash, EndJob
  <2>4. CASE AcquireRetried(w) BY <2>4 DEF AcquireRetried
  <2>5. QED BY <1>2, <2>1, <2>2, <2>3, <2>4 DEF Lifecycle
<1>3. ASSUME NEW w \in Workers, Control(w)
      PROVE  WorkerTypeOK' /\ lock' \in [Games -> BOOLEAN]
  BY <1>3 DEF Control, DeployGuard, EnsureSshKey, RenderUserData, LookUp, AwaitServer, FindServer,
     WaitUntilOff, CheckDns, GetProvisioner, Announce, Escapes
<1>4. ASSUME NEW w \in Workers, Records(w)
      PROVE  WorkerTypeOK' /\ lock' \in [Games -> BOOLEAN]
  BY <1>4 DEF Records, Publish, ClearDns
<1>5. ASSUME NEW w \in Workers, Creating(w), UNCHANGED lock
      PROVE  WorkerTypeOK' /\ lock' \in [Games -> BOOLEAN]
  BY <1>5 DEF Creating, ResolveVolume, DeleteStaleFirewall, CreateNewFirewall, RequestServer
<1>6. ASSUME NEW w \in Workers, Rollback(w), UNCHANGED lock
      PROVE  WorkerTypeOK' /\ lock' \in [Games -> BOOLEAN]
  BY <1>6 DEF Rollback, RollbackStep, RollbackServer, RollbackFirewall
<1>7. ASSUME NEW w \in Workers, Saving(w), UNCHANGED lock
      PROVE  WorkerTypeOK' /\ lock' \in [Games -> BOOLEAN]
  BY <1>7 DEF Saving, StopGame, BackUp, PullGamedata
<1>8. ASSUME NEW w \in Workers, TearDown(w), UNCHANGED lock
      PROVE  WorkerTypeOK' /\ lock' \in [Games -> BOOLEAN]
  BY <1>8 DEF TearDown, RequestShutdown, Detach, DeleteGameServer, ReapFirewall
<1>9. ASSUME NEW g \in Games, \/ ForgetOrphanedLock(g)
                              \/ Environment(g) /\ UNCHANGED <<workerVars, lock>>
      PROVE  WorkerTypeOK' /\ lock' \in [Games -> BOOLEAN]
  BY <1>9 DEF ForgetOrphanedLock
<1>10. QED BY <1>1, <1>2, <1>3, <1>4, <1>5, <1>6, <1>7, <1>8, <1>9, NextCases

(* Every variable keeps its type.                                          *)
THEOREM TypeCorrect == Spec => []TypeOK
<1>1. Init => TypeOK
  BY DEF Init, CloudInit, WorkerInit, TypeOK, CloudTypeOK, WorkerTypeOK
<1>2. TypeOK /\ [Next]_vars => TypeOK'
  BY CloudTyped, WorkersTyped DEF TypeOK
<1>3. QED BY <1>1, <1>2, PTL DEF Spec

----------------------------------------------------------------------------
(* The inductive invariant                                                 *)

(* Taking and ending a job, with and without the lock.                     *)
LEMMA LifecyclePreserves ==
    ASSUME IInv, TypeOK', NEW w \in Workers, Lifecycle(w)
    PROVE  IInv'
<1> USE DEF TypeOK, CloudTypeOK, WorkerTypeOK, Lifecycle, Take, Acquire, Release,
            LockWaitTimesOut, AcquireFails, AcquireRetried, ReleaseFails, Crash, EndJob
<1>1. StepsMatchJob' BY DEF IInv, StepsMatchJob
<1>2. HoldersHaveKeys' BY DEF IInv, StepsMatchJob, HoldersHaveKeys, MutualExclusion
<1>3. MutualExclusion' BY DEF IInv, StepsMatchJob, HoldersHaveKeys, MutualExclusion
<1>4. CloudConsistent' BY DEF IInv, StepsMatchJob, CloudConsistent
<1>5. ServerIsFirewalled' BY DEF IInv, StepsMatchJob, ServerIsFirewalled, FirewallFirst
<1>6. FirewallFirst' BY SMTT(30) DEF IInv, StepsMatchJob, MutualExclusion, FirewallFirst
<1>7. OwnersDeploy' BY DEF IInv, StepsMatchJob, OwnersDeploy
<1>8. SavedStaysSaved' BY SMTT(30) DEF IInv, StepsMatchJob, MutualExclusion, SavedStaysSaved
<1>9. OffBeforeDetach'
  BY SMTT(30) DEF IInv, StepsMatchJob, MutualExclusion, CloudConsistent, OffBeforeDetach
<1>10. QED BY <1>1, <1>2, <1>3, <1>4, <1>5, <1>6, <1>7, <1>8, <1>9 DEF IInv

(* Deleting a key that was left behind.                                    *)
LEMMA ForgetPreserves ==
    ASSUME IInv, TypeOK', NEW h \in Games, ForgetOrphanedLock(h)
    PROVE  IInv'
<1> USE DEF TypeOK, CloudTypeOK, WorkerTypeOK, ForgetOrphanedLock
<1>1. StepsMatchJob' BY DEF IInv, StepsMatchJob
<1>2. HoldersHaveKeys' BY DEF IInv, StepsMatchJob, HoldersHaveKeys, MutualExclusion
<1>3. MutualExclusion' BY DEF IInv, StepsMatchJob, HoldersHaveKeys, MutualExclusion
<1>4. CloudConsistent' BY DEF IInv, StepsMatchJob, CloudConsistent
<1>5. ServerIsFirewalled' BY DEF IInv, StepsMatchJob, ServerIsFirewalled, FirewallFirst
<1>6. FirewallFirst' BY SMTT(30) DEF IInv, StepsMatchJob, MutualExclusion, FirewallFirst
<1>7. OwnersDeploy' BY DEF IInv, StepsMatchJob, OwnersDeploy
<1>8. SavedStaysSaved' BY SMTT(30) DEF IInv, StepsMatchJob, MutualExclusion, SavedStaysSaved
<1>9. OffBeforeDetach'
  BY SMTT(30) DEF IInv, StepsMatchJob, MutualExclusion, CloudConsistent, OffBeforeDetach
<1>10. QED BY <1>1, <1>2, <1>3, <1>4, <1>5, <1>6, <1>7, <1>8, <1>9 DEF IInv

(* Guests, games and players.                                              *)
LEMMA WorldPreserves ==
    ASSUME IInv, TypeOK', NEW h \in Games, Environment(h), UNCHANGED <<workerVars, lock>>
    PROVE  IInv'
<1> USE DEF TypeOK, CloudTypeOK, WorkerTypeOK, Environment, Boot, Play, GameExit, PowerOff
<1>1. StepsMatchJob' BY DEF IInv, StepsMatchJob
<1>2. HoldersHaveKeys' BY DEF IInv, StepsMatchJob, HoldersHaveKeys, MutualExclusion
<1>3. MutualExclusion' BY DEF IInv, StepsMatchJob, HoldersHaveKeys, MutualExclusion
<1>4. CloudConsistent' BY DEF IInv, StepsMatchJob, CloudConsistent
<1>5. ServerIsFirewalled' BY DEF IInv, StepsMatchJob, ServerIsFirewalled, FirewallFirst
<1>6. FirewallFirst' BY SMTT(30) DEF IInv, StepsMatchJob, MutualExclusion, FirewallFirst
<1>7. OwnersDeploy' BY DEF IInv, StepsMatchJob, OwnersDeploy
<1>8. SavedStaysSaved'
  <2>1. CASE Boot(h) BY <2>1 DEF IInv, StepsMatchJob, MutualExclusion, SavedStaysSaved
  <2>2. CASE Play(h) BY <2>2 DEF IInv, StepsMatchJob, MutualExclusion, SavedStaysSaved
  <2>3. CASE GameExit(h) BY <2>3 DEF IInv, StepsMatchJob, MutualExclusion, SavedStaysSaved
  <2>4. CASE PowerOff(h) BY <2>4 DEF IInv, StepsMatchJob, MutualExclusion, SavedStaysSaved
  <2>5. QED BY <2>1, <2>2, <2>3, <2>4
<1>9. OffBeforeDetach'
  BY SMTT(30) DEF IInv, StepsMatchJob, MutualExclusion, CloudConsistent, OffBeforeDetach
<1>10. QED BY <1>1, <1>2, <1>3, <1>4, <1>5, <1>6, <1>7, <1>8, <1>9 DEF IInv

(* Steps that leave the cloud alone.                                       *)
LEMMA ControlPreserves ==
    ASSUME IInv, TypeOK', NEW w \in Workers, Control(w)
    PROVE  IInv'
<1> USE DEF TypeOK, CloudTypeOK, WorkerTypeOK, Control, DeployGuard, EnsureSshKey,
            RenderUserData, LookUp, AwaitServer, FindServer, WaitUntilOff, CheckDns,
            GetProvisioner, Announce, Escapes
<1>1. StepsMatchJob' BY DEF IInv, StepsMatchJob
<1>2. HoldersHaveKeys' BY DEF IInv, StepsMatchJob, HoldersHaveKeys, MutualExclusion
<1>3. MutualExclusion' BY DEF IInv, StepsMatchJob, HoldersHaveKeys, MutualExclusion
<1>4. CloudConsistent' BY DEF IInv, StepsMatchJob, CloudConsistent
<1>5. ServerIsFirewalled' BY DEF IInv, StepsMatchJob, ServerIsFirewalled, FirewallFirst
<1>6. FirewallFirst' BY SMTT(30) DEF IInv, StepsMatchJob, MutualExclusion, FirewallFirst
<1>7. OwnersDeploy' BY DEF IInv, StepsMatchJob, OwnersDeploy
<1>8. SavedStaysSaved' BY SMTT(30) DEF IInv, StepsMatchJob, MutualExclusion, SavedStaysSaved
<1>9. OffBeforeDetach'
  BY SMTT(30) DEF IInv, StepsMatchJob, MutualExclusion, CloudConsistent, OffBeforeDetach
<1>10. QED BY <1>1, <1>2, <1>3, <1>4, <1>5, <1>6, <1>7, <1>8, <1>9 DEF IInv

(* Steps that write the game's DNS records.                                *)
LEMMA RecordsPreserve ==
    ASSUME IInv, TypeOK', NEW w \in Workers, Records(w)
    PROVE  IInv'
<1> USE DEF TypeOK, CloudTypeOK, WorkerTypeOK, Records, Publish, ClearDns, WriteDns
<1>1. StepsMatchJob' BY DEF IInv, StepsMatchJob
<1>2. HoldersHaveKeys' BY DEF IInv, StepsMatchJob, HoldersHaveKeys, MutualExclusion
<1>3. MutualExclusion' BY DEF IInv, StepsMatchJob, HoldersHaveKeys, MutualExclusion
<1>4. CloudConsistent' BY DEF IInv, StepsMatchJob, CloudConsistent
<1>5. ServerIsFirewalled' BY DEF IInv, StepsMatchJob, ServerIsFirewalled, FirewallFirst
<1>6. FirewallFirst' BY SMTT(30) DEF IInv, StepsMatchJob, MutualExclusion, FirewallFirst
<1>7. OwnersDeploy' BY DEF IInv, StepsMatchJob, OwnersDeploy
<1>8. SavedStaysSaved' BY SMTT(30) DEF IInv, StepsMatchJob, MutualExclusion, SavedStaysSaved
<1>9. OffBeforeDetach'
  BY SMTT(30) DEF IInv, StepsMatchJob, MutualExclusion, CloudConsistent, OffBeforeDetach
<1>10. QED BY <1>1, <1>2, <1>3, <1>4, <1>5, <1>6, <1>7, <1>8, <1>9 DEF IInv

(* The steps of deploy that create resources.                              *)
LEMMA DeployPreserves ==
    ASSUME IInv, TypeOK', NEW w \in Workers, Creating(w), UNCHANGED lock
    PROVE  IInv'
<1> USE DEF TypeOK, CloudTypeOK, WorkerTypeOK, Creating, ResolveVolume, DeleteStaleFirewall,
            CreateNewFirewall, RequestServer, CreateVolume, DeleteFirewall, CreateFirewall,
            CreateServer, CanDeleteFirewall, CanCreateFirewall, CanCreateServer
<1>1. StepsMatchJob' BY DEF IInv, StepsMatchJob
<1>2. HoldersHaveKeys' BY DEF IInv, StepsMatchJob, HoldersHaveKeys, MutualExclusion
<1>3. MutualExclusion' BY DEF IInv, StepsMatchJob, HoldersHaveKeys, MutualExclusion
<1>4. CloudConsistent' BY DEF IInv, StepsMatchJob, CloudConsistent
<1>5. ServerIsFirewalled' BY DEF IInv, StepsMatchJob, ServerIsFirewalled, FirewallFirst
<1>6. FirewallFirst' BY SMTT(30) DEF IInv, StepsMatchJob, MutualExclusion, FirewallFirst
<1>7. OwnersDeploy' BY DEF IInv, StepsMatchJob, OwnersDeploy
<1>8. SavedStaysSaved' BY SMTT(30) DEF IInv, StepsMatchJob, MutualExclusion, SavedStaysSaved
<1>9. OffBeforeDetach'
  BY SMTT(30) DEF IInv, StepsMatchJob, MutualExclusion, CloudConsistent, OffBeforeDetach
<1>10. QED BY <1>1, <1>2, <1>3, <1>4, <1>5, <1>6, <1>7, <1>8, <1>9 DEF IInv

(* _rollback.                                                              *)
LEMMA RollbackPreserves ==
    ASSUME IInv, TypeOK', NEW w \in Workers, Rollback(w), UNCHANGED lock
    PROVE  IInv'
<1> USE DEF TypeOK, CloudTypeOK, WorkerTypeOK, Rollback, RollbackStep, RollbackServer,
            RollbackFirewall, DeleteServer, DeleteFirewall, CanDeleteFirewall, CanDeleteServer
<1>1. StepsMatchJob' BY DEF IInv, StepsMatchJob
<1>2. HoldersHaveKeys' BY DEF IInv, StepsMatchJob, HoldersHaveKeys, MutualExclusion
<1>3. MutualExclusion' BY DEF IInv, StepsMatchJob, HoldersHaveKeys, MutualExclusion
<1>4. CloudConsistent' BY DEF IInv, StepsMatchJob, CloudConsistent
<1>5. ServerIsFirewalled' BY DEF IInv, StepsMatchJob, ServerIsFirewalled, FirewallFirst
<1>6. FirewallFirst' BY SMTT(30) DEF IInv, StepsMatchJob, MutualExclusion, FirewallFirst
<1>7. OwnersDeploy' BY DEF IInv, StepsMatchJob, OwnersDeploy
<1>8. SavedStaysSaved' BY SMTT(30) DEF IInv, StepsMatchJob, MutualExclusion, SavedStaysSaved
<1>9. OffBeforeDetach'
  BY SMTT(30) DEF IInv, StepsMatchJob, MutualExclusion, CloudConsistent, OffBeforeDetach
<1>10. QED BY <1>1, <1>2, <1>3, <1>4, <1>5, <1>6, <1>7, <1>8, <1>9 DEF IInv

(* stop_and_backup.                                                        *)
LEMMA SavingPreserves ==
    ASSUME IInv, TypeOK', NEW w \in Workers, Saving(w), UNCHANGED lock
    PROVE  IInv'
<1> USE DEF TypeOK, CloudTypeOK, WorkerTypeOK, Saving, StopGame, BackUp, PullGamedata,
            StopContainer, SaveCopy, CanStopContainer, Reachable
<1>1. StepsMatchJob' BY DEF IInv, StepsMatchJob
<1>2. HoldersHaveKeys' BY DEF IInv, StepsMatchJob, HoldersHaveKeys, MutualExclusion
<1>3. MutualExclusion' BY DEF IInv, StepsMatchJob, HoldersHaveKeys, MutualExclusion
<1>4. CloudConsistent' BY DEF IInv, StepsMatchJob, CloudConsistent
<1>5. ServerIsFirewalled' BY DEF IInv, StepsMatchJob, ServerIsFirewalled, FirewallFirst
<1>6. FirewallFirst' BY SMTT(30) DEF IInv, StepsMatchJob, MutualExclusion, FirewallFirst
<1>7. OwnersDeploy' BY DEF IInv, StepsMatchJob, OwnersDeploy
<1>8. SavedStaysSaved' BY SMTT(30) DEF IInv, StepsMatchJob, MutualExclusion, SavedStaysSaved
<1>9. OffBeforeDetach'
  BY SMTT(30) DEF IInv, StepsMatchJob, MutualExclusion, CloudConsistent, OffBeforeDetach
<1>10. QED BY <1>1, <1>2, <1>3, <1>4, <1>5, <1>6, <1>7, <1>8, <1>9 DEF IInv

(* The rest of destroy.                                                    *)
LEMMA TearDownPreserves ==
    ASSUME IInv, TypeOK', NEW w \in Workers, TearDown(w), UNCHANGED lock
    PROVE  IInv'
<1> USE DEF TypeOK, CloudTypeOK, WorkerTypeOK, TearDown, RequestShutdown, Detach,
            DeleteGameServer, ReapFirewall, Shutdown, CanShutdown, DetachVolume, DeleteServer,
            CanDeleteServer, DeleteFirewall, CanDeleteFirewall
<1>1. StepsMatchJob' BY DEF IInv, StepsMatchJob
<1>2. HoldersHaveKeys' BY DEF IInv, StepsMatchJob, HoldersHaveKeys, MutualExclusion
<1>3. MutualExclusion' BY DEF IInv, StepsMatchJob, HoldersHaveKeys, MutualExclusion
<1>4. CloudConsistent' BY DEF IInv, StepsMatchJob, CloudConsistent
<1>5. ServerIsFirewalled' BY DEF IInv, StepsMatchJob, ServerIsFirewalled, FirewallFirst
<1>6. FirewallFirst'
  <2>1. CASE RequestShutdown(w) \/ Detach(w) BY <2>1 DEF IInv, StepsMatchJob, FirewallFirst
  <2>2. CASE DeleteGameServer(w) BY <2>2 DEF IInv, StepsMatchJob, FirewallFirst
  <2>3. CASE ReapFirewall(w) BY <2>3 DEF IInv, StepsMatchJob, MutualExclusion, FirewallFirst
  <2>4. QED BY <2>1, <2>2, <2>3
<1>7. OwnersDeploy' BY DEF IInv, StepsMatchJob, OwnersDeploy
<1>8. SavedStaysSaved' BY SMTT(30) DEF IInv, StepsMatchJob, MutualExclusion, SavedStaysSaved
<1>9. OffBeforeDetach'
  BY SMTT(30) DEF IInv, StepsMatchJob, MutualExclusion, CloudConsistent, OffBeforeDetach
<1>10. QED BY <1>1, <1>2, <1>3, <1>4, <1>5, <1>6, <1>7, <1>8, <1>9 DEF IInv

(* What a worker relies on at each step holds at each step ...             *)
LEMMA IInvStep ==
    ASSUME IInv, [Next]_vars
    PROVE  IInv'
<1>1. TypeOK'
  BY CloudTyped, WorkersTyped DEF TypeOK, IInv
<1>2. CASE UNCHANGED vars
  BY <1>1, <1>2 DEF IInv, StepsMatchJob, HoldersHaveKeys, MutualExclusion, CloudConsistent,
     ServerIsFirewalled, FirewallFirst, OwnersDeploy, SavedStaysSaved, OffBeforeDetach
<1>3. QED
  BY <1>1, <1>2, NextCases, LifecyclePreserves, ForgetPreserves, WorldPreserves, ControlPreserves,
     RecordsPreserve, DeployPreserves, RollbackPreserves, SavingPreserves, TearDownPreserves

(* ... and at the first.                                                   *)
LEMMA IInvInit == Init => IInv
BY DEF Init, CloudInit, WorkerInit, TypeOK, CloudTypeOK, WorkerTypeOK, IInv,
   StepsMatchJob, HoldersHaveKeys, MutualExclusion,
   CloudConsistent, ServerIsFirewalled, FirewallFirst, OwnersDeploy, SavedStaysSaved,
   OffBeforeDetach

(* So it always holds.                                                     *)
THEOREM IInvInductive == Spec => []IInv
<1>1. IInv /\ [Next]_vars => IInv'
  BY IInvStep
<1>2. QED BY <1>1, IInvInit, PTL DEF Spec

(* One job of a game works at a time, for any number of workers, crashes   *)
(* and cleaned-up keys.                                                    *)
THEOREM MutuallyExclusive == Spec => []MutualExclusion
<1>1. IInv => MutualExclusion BY DEF IInv
<1>2. QED BY <1>1, IInvInductive, PTL

(* A server never exists without its firewall.                             *)
THEOREM AlwaysFirewalled == Spec => []ServerIsFirewalled
<1>1. IInv => ServerIsFirewalled BY DEF IInv
<1>2. QED BY <1>1, IInvInductive, PTL

----------------------------------------------------------------------------
(* Which steps remove a server or take a volume from it                    *)

(* Only `delete` and the rollback of a job's own server remove one.        *)
LEMMA WhoRemoves ==
    ASSUME IInv, [Next]_vars, NEW g \in Games, server[g] # "absent", server'[g] = "absent"
    PROVE  \E w \in Workers :
              \/ pc[w] = "delete" /\ job[w].game = g
              \/ TakesBack(w, g)
<1> USE DEF TypeOK, CloudTypeOK, WorkerTypeOK
<1>1. CASE UNCHANGED vars BY <1>1
<1>2. ASSUME NEW w \in Workers, Lifecycle(w) PROVE FALSE
  BY <1>2 DEF Lifecycle, Take, Acquire, Release, LockWaitTimesOut,
     AcquireFails, AcquireRetried, ReleaseFails, Crash, EndJob
<1>3. ASSUME NEW w \in Workers, Control(w) PROVE FALSE
  BY <1>3 DEF Control, DeployGuard, EnsureSshKey, RenderUserData, LookUp, AwaitServer, FindServer,
     WaitUntilOff, CheckDns, GetProvisioner, Announce, Escapes
<1>4. ASSUME NEW w \in Workers, Records(w) PROVE FALSE
  BY <1>4 DEF Records, Publish, ClearDns, WriteDns
<1>5. ASSUME NEW w \in Workers, Creating(w) PROVE FALSE
  BY <1>5 DEF Creating, ResolveVolume, DeleteStaleFirewall, CreateNewFirewall, RequestServer,
     CreateVolume, DeleteFirewall, CreateFirewall, CreateServer, IInv
<1>6. ASSUME NEW w \in Workers, Rollback(w) PROVE TakesBack(w, g)
  BY <1>6 DEF Rollback, RollbackStep, RollbackServer, RollbackFirewall, DeleteServer,
     DeleteFirewall, TakesBack, IInv
<1>7. ASSUME NEW w \in Workers, Saving(w) PROVE FALSE
  BY <1>7 DEF Saving, StopGame, BackUp, PullGamedata, StopContainer, SaveCopy
<1>8. ASSUME NEW w \in Workers, TearDown(w) PROVE pc[w] = "delete" /\ job[w].game = g
  BY <1>8 DEF TearDown, RequestShutdown, Detach, DeleteGameServer, ReapFirewall, Shutdown,
     DetachVolume, DeleteServer, DeleteFirewall, IInv
<1>9. ASSUME NEW h \in Games, ForgetOrphanedLock(h) \/ Environment(h) PROVE FALSE
  BY <1>9 DEF ForgetOrphanedLock, Environment, Boot, Play, GameExit, PowerOff, IInv
<1>10. QED BY <1>1, <1>2, <1>3, <1>4, <1>5, <1>6, <1>7, <1>8, <1>9, NextCases

(* A volume leaves its server in `detach`, or with the server.             *)
LEMMA WhoDetaches ==
    ASSUME IInv, [Next]_vars, NEW g \in Games, volume[g] = "attached", volume'[g] # "attached"
    PROVE  \E w \in Workers :
              \/ pc[w] \in {"detach", "delete"} /\ job[w].game = g
              \/ TakesBack(w, g)
<1> USE DEF TypeOK, CloudTypeOK, WorkerTypeOK
<1>1. CASE UNCHANGED vars BY <1>1
<1>2. ASSUME NEW w \in Workers, Lifecycle(w) PROVE FALSE
  BY <1>2 DEF Lifecycle, Take, Acquire, Release, LockWaitTimesOut,
     AcquireFails, AcquireRetried, ReleaseFails, Crash, EndJob
<1>3. ASSUME NEW w \in Workers, Control(w) PROVE FALSE
  BY <1>3 DEF Control, DeployGuard, EnsureSshKey, RenderUserData, LookUp, AwaitServer, FindServer,
     WaitUntilOff, CheckDns, GetProvisioner, Announce, Escapes
<1>4. ASSUME NEW w \in Workers, Records(w) PROVE FALSE
  BY <1>4 DEF Records, Publish, ClearDns, WriteDns
<1>5. ASSUME NEW w \in Workers, Creating(w) PROVE FALSE
  BY <1>5 DEF Creating, ResolveVolume, DeleteStaleFirewall, CreateNewFirewall, RequestServer,
     CreateVolume, DeleteFirewall, CreateFirewall, CreateServer, IInv
<1>6. ASSUME NEW w \in Workers, Rollback(w) PROVE TakesBack(w, g)
  BY <1>6 DEF Rollback, RollbackStep, RollbackServer, RollbackFirewall, DeleteServer,
     DeleteFirewall, TakesBack, IInv
<1>7. ASSUME NEW w \in Workers, Saving(w) PROVE FALSE
  BY <1>7 DEF Saving, StopGame, BackUp, PullGamedata, StopContainer, SaveCopy
<1>8. ASSUME NEW w \in Workers, TearDown(w)
      PROVE  pc[w] \in {"detach", "delete"} /\ job[w].game = g
  BY <1>8 DEF TearDown, RequestShutdown, Detach, DeleteGameServer, ReapFirewall, Shutdown,
     DetachVolume, DeleteServer, DeleteFirewall, IInv
<1>9. ASSUME NEW h \in Games, ForgetOrphanedLock(h) \/ Environment(h) PROVE FALSE
  BY <1>9 DEF ForgetOrphanedLock, Environment, Boot, Play, GameExit, PowerOff, IInv
<1>10. QED BY <1>1, <1>2, <1>3, <1>4, <1>5, <1>6, <1>7, <1>8, <1>9, NextCases

(* No server goes away with a world that is not in both copies, except     *)
(* with the deploy that made it.                                           *)
THEOREM UnsavedIsKept == Spec => NeverDeletesUnsaved
<1> DEFINE Kept == \A g \in Games :
              server[g] # "absent" /\ server'[g] = "absent" =>
                  behind[g] = {} \/ \E w \in Workers : TakesBack(w, g)
<1>1. IInv /\ [Next]_vars => Kept
  <2> SUFFICES ASSUME IInv, [Next]_vars, NEW g \in Games, server[g] # "absent",
                        server'[g] = "absent"
               PROVE  behind[g] = {} \/ \E w \in Workers : TakesBack(w, g)
    OBVIOUS
  <2>1. PICK w \in Workers : (pc[w] = "delete" /\ job[w].game = g) \/ TakesBack(w, g)
    BY WhoRemoves
  <2>2. CASE pc[w] = "delete" /\ job[w].game = g
    BY <2>2 DEF IInv, SavedStaysSaved
  <2>3. QED BY <2>1, <2>2
<1>2. IInv /\ [Next]_vars => [Kept]_vars
  BY <1>1
<1>3. QED
  BY <1>2, IInvInductive, PTL DEF Spec, NeverDeletesUnsaved

(* No volume leaves a guest that still runs, except with the deploy that   *)
(* made the server.                                                        *)
THEOREM VolumesAreSafe == Spec => DetachesOnlyWhenOff
<1> DEFINE Kept == \A g \in Games :
              volume[g] = "attached" /\ volume'[g] # "attached" =>
                  server[g] = "off" \/ \E w \in Workers : TakesBack(w, g)
<1>1. IInv /\ [Next]_vars => Kept
  <2> SUFFICES ASSUME IInv, [Next]_vars, NEW g \in Games, volume[g] = "attached",
                        volume'[g] # "attached"
               PROVE  server[g] = "off" \/ \E w \in Workers : TakesBack(w, g)
    OBVIOUS
  <2>1. PICK w \in Workers : (pc[w] \in {"detach", "delete"} /\ job[w].game = g) \/ TakesBack(w, g)
    BY WhoDetaches
  <2>2. CASE pc[w] \in {"detach", "delete"} /\ job[w].game = g
    BY <2>2 DEF IInv, OffBeforeDetach
  <2>3. QED BY <2>1, <2>2
<1>2. IInv /\ [Next]_vars => [Kept]_vars
  BY <1>1
<1>3. QED
  BY <1>2, IInvInductive, PTL DEF Spec, DetachesOnlyWhenOff

----------------------------------------------------------------------------
(* The second invariant                                                    *)

(* What the second invariant says of a game is left as it is.              *)
Untouched(g) ==
    /\ server'[g] = "absent" <=> server[g] = "absent"
    /\ firewall'[g] = firewall[g] /\ volume'[g] = volume[g] /\ dns'[g] = dns[g]

Aside(v) ==
    /\ pc'[v] = pc[v] /\ job'[v] = job[v] /\ own'[v] = own[v]
    /\ outcome'[v] = outcome[v] /\ failedIn'[v] = failedIn[v]

WorkerStep(w) ==
    \/ Lifecycle(w) \/ Control(w) \/ Records(w) \/ Creating(w) \/ Rollback(w) \/ Saving(w)
    \/ TearDown(w)

(* A worker's step leaves the other workers, and the other games, alone.   *)
LEMMA WorkersApart ==
    ASSUME TypeOK, NEW w \in Workers, WorkerStep(w)
    PROVE  /\ \A v \in Workers \ {w} : Aside(v)
           /\ \A g \in Games : g # job[w].game => Untouched(g)
<1> USE DEF TypeOK, CloudTypeOK, WorkerTypeOK, Aside, Untouched
<1>1. CASE Lifecycle(w)
  BY <1>1 DEF Lifecycle, Take, Acquire, Release, LockWaitTimesOut,
     AcquireFails, AcquireRetried, ReleaseFails, Crash, EndJob
<1>2. CASE Control(w)
  BY <1>2 DEF Control, DeployGuard, EnsureSshKey, RenderUserData, LookUp, AwaitServer, FindServer,
     WaitUntilOff, CheckDns, GetProvisioner, Announce, Escapes
<1>3. CASE Records(w) BY <1>3 DEF Records, Publish, ClearDns, WriteDns
<1>4. CASE Creating(w)
  BY <1>4 DEF Creating, ResolveVolume, DeleteStaleFirewall, CreateNewFirewall, RequestServer,
     CreateVolume, DeleteFirewall, CreateFirewall, CreateServer
<1>5. CASE Rollback(w)
  BY <1>5 DEF Rollback, RollbackStep, RollbackServer, RollbackFirewall, DeleteServer,
     DeleteFirewall
<1>6. CASE Saving(w)
  BY <1>6 DEF Saving, StopGame, BackUp, PullGamedata, StopContainer, SaveCopy
<1>7. CASE TearDown(w)
  BY <1>7 DEF TearDown, RequestShutdown, Detach, DeleteGameServer, ReapFirewall, Shutdown,
     DetachVolume, DeleteServer, DeleteFirewall
<1>8. QED BY <1>1, <1>2, <1>3, <1>4, <1>5, <1>6, <1>7 DEF WorkerStep

(* What a worker knows stays true while it and its game are left alone.    *)
LEMMA KnowledgeLasts ==
    ASSUME IInv, NEW v \in Workers, Knows(v), Aside(v), InLock(v) => Untouched(job[v].game)
    PROVE  Knows(v)'
<1> USE DEF Aside, Untouched
<1>1. DeployKnows(v)' BY DEF Knows, DeployKnows
<1>2. DestroyKnows(v)' BY DEF Knows, DestroyKnows
<1>3. ReportsLast(v)' BY DEF Knows, ReportsLast
<1>4. RollbackKnows(v)' BY DEF Knows, RollbackKnows
<1>5. ReportHolds(v)' BY DEF Knows, ReportHolds
<1>6. QED BY <1>1, <1>2, <1>3, <1>4, <1>5 DEF Knows

(* Taking and ending a job.                                                *)
LEMMA LifecycleInforms ==
    ASSUME IInv, TypeOK', VolumesOutlive, NEW w \in Workers, Knows(w), Lifecycle(w)
    PROVE  VolumesOutlive' /\ Knows(w)'
<1> USE DEF TypeOK, CloudTypeOK, WorkerTypeOK, Lifecycle, Take, Acquire, Release,
            LockWaitTimesOut, AcquireFails, AcquireRetried, ReleaseFails, Crash, EndJob
<1>1. VolumesOutlive' BY DEF IInv, StepsMatchJob, VolumesOutlive, Knows, DeployKnows
<1>2. DeployKnows(w)'
  BY SMTT(30) DEF IInv, StepsMatchJob, OwnersDeploy, CloudConsistent, ServerIsFirewalled,
     VolumesOutlive, Knows, DeployKnows
<1>3. DestroyKnows(w)'
  BY SMTT(30) DEF IInv, StepsMatchJob, OwnersDeploy, CloudConsistent, ServerIsFirewalled, Knows,
     DestroyKnows
<1>4. ReportsLast(w)' BY SMTT(30) DEF IInv, StepsMatchJob, OwnersDeploy, Knows, ReportsLast
<1>5. RollbackKnows(w)'
  BY SMTT(30) DEF IInv, StepsMatchJob, OwnersDeploy, Knows, RollbackKnows, ReportsLast
<1>6. ReportHolds(w)'
  BY SMTT(30) DEF IInv, StepsMatchJob, OwnersDeploy, CloudConsistent, ServerIsFirewalled, Knows,
     DeployKnows, DestroyKnows, ReportsLast, RollbackKnows, ReportHolds
<1>7. QED BY <1>1, <1>2, <1>3, <1>4, <1>5, <1>6 DEF Knows

(* A step of a job either goes on, or ends the job or starts the rollback  *)
(* because of a fault.                                                     *)
Proceeds(w) ==
    pc'[w] \notin {"idle", "release", "rb_server", "rb_firewall"} /\ outcome'[w] = outcome[w]

Fails(w) ==
    /\ failedIn'[w] # {}
    /\ \/ pc'[w] = "release" /\ outcome'[w] \in {"unexpected", "dns_invalid"}
       \/ pc'[w] = "release" /\ failedIn'[w] \cap {"dns", "config"} # {} /\ outcome'[w] = "none"
       \/ pc'[w] = "release" /\ outcome'[w] = "failed" /\ job'[w].op # "start"
       \/ pc'[w] = "rb_server" /\ outcome'[w] = "failed"

LEMMA NothingReported ==
    ASSUME IInv, NEW w \in Workers, ReportsLast(w), Proceeds(w) \/ Fails(w),
           pc[w] \notin {"release", "rb_server", "rb_firewall"}
    PROVE  ReportsLast(w)' /\ ReportHolds(w)'
<1>1. outcome[w] = "none" BY DEF ReportsLast
<1>2. ReportsLast(w)' BY <1>1 DEF ReportsLast, Proceeds, Fails
<1>3. ReportHolds(w)' BY <1>1 DEF ReportHolds, Proceeds, Fails
<1>4. QED BY <1>2, <1>3

LEMMA FaultsLeaveATrace ==
    ASSUME WorkerTypeOK, NEW w \in Workers, NEW fault, Meets(w, fault)
    PROVE  fault \in failedIn'[w] /\ failedIn'[w] # {}
<1>1. failedIn'[w] = failedIn[w] \cup {fault} BY DEF WorkerTypeOK
<1>2. QED BY <1>1

LEMMA RaisesFail ==
    ASSUME WorkerTypeOK, NEW w \in Workers, NEW kind \in Handled, Raise(w, kind),
           failedIn'[w] # {}, UNCHANGED job
    PROVE  Fails(w)
<1>1. outcome'[w] = kind BY DEF WorkerTypeOK
<1>2. pc'[w] = IF kind = "failed" /\ job[w].op = "start" THEN "rb_server" ELSE "release"
  BY DEF WorkerTypeOK
<1>3. CASE kind = "unexpected" BY <1>1, <1>2, <1>3 DEF Fails
<1>4. CASE kind = "failed" /\ job[w].op = "start" BY <1>1, <1>2, <1>4 DEF Fails
<1>5. CASE kind = "failed" /\ job[w].op # "start" BY <1>1, <1>2, <1>5 DEF Fails
<1>6. QED BY <1>3, <1>4, <1>5

(* A call that reads.                                                      *)
LEMMA QueriesEnd ==
    ASSUME WorkerTypeOK, NEW w \in Workers, NEW at, NEW kinds \in SUBSET Handled,
           NEW next \in Steps \ {"idle", "release", "rb_server", "rb_firewall"},
           Query(w, at, next, kinds)
    PROVE  Proceeds(w) \/ Fails(w)
<1> HIDE DEF Meets, Raise
<1>1. CASE Goto(w, next) /\ UNCHANGED outcome BY <1>1 DEF Proceeds, WorkerTypeOK
<1>2. CASE (\E kind \in kinds : Raise(w, kind)) /\ Meets(w, "cloud") /\ UNCHANGED job
  BY <1>2, RaisesFail, FaultsLeaveATrace
<1>3. QED BY <1>1, <1>2

(* Steps that only find something out.                                     *)
LEMMA ControlInforms ==
    ASSUME IInv, TypeOK', VolumesOutlive, NEW w \in Workers, Knows(w), Control(w)
    PROVE  VolumesOutlive' /\ Knows(w)'
<1> USE DEF TypeOK, CloudTypeOK, WorkerTypeOK, Control, DeployGuard, EnsureSshKey,
            RenderUserData, LookUp, AwaitServer, FindServer, WaitUntilOff, CheckDns,
            GetProvisioner, Announce, Escapes
<1>1. VolumesOutlive' BY DEF IInv, StepsMatchJob, VolumesOutlive, Knows, DeployKnows
<1>2. DeployKnows(w)'
  BY SMTT(30) DEF IInv, StepsMatchJob, OwnersDeploy, CloudConsistent, ServerIsFirewalled,
     VolumesOutlive, Knows, DeployKnows
<1>3. DestroyKnows(w)'
  BY SMTT(30) DEF IInv, StepsMatchJob, OwnersDeploy, CloudConsistent, ServerIsFirewalled, Knows,
     DestroyKnows
<1>4. RollbackKnows(w)'
  BY SMTT(30) DEF IInv, StepsMatchJob, OwnersDeploy, Knows, RollbackKnows, ReportsLast
<1>5. CASE DeployGuard(w) /\ server[job[w].game] # "absent"
  <2>1. ReportsLast(w)' BY <1>5 DEF IInv, StepsMatchJob, Knows, ReportsLast
  <2>2. ReportHolds(w)' BY <1>5 DEF IInv, StepsMatchJob, Knows, ReportsLast, ReportHolds
  <2>3. QED BY <1>1, <1>2, <1>3, <1>4, <2>1, <2>2 DEF Knows
<1>6. ASSUME ~(DeployGuard(w) /\ server[job[w].game] # "absent") PROVE Proceeds(w) \/ Fails(w)
  <2> HIDE DEF Query, Meets, Raise
  <2>1. CASE DeployGuard(w) BY <1>6, <2>1, QueriesEnd DEF IInv
  <2>2. CASE EnsureSshKey(w) \/ RenderUserData(w) \/ LookUp(w) \/ AwaitServer(w) \/ FindServer(w)
    BY <2>2, QueriesEnd DEF IInv
  <2>3. CASE WaitUntilOff(w)
    <3>1. CASE Query(w, "wait_off", "detach", Handled) BY <3>1, QueriesEnd DEF IInv
    <3>2. CASE (\E kind \in Handled : Raise(w, kind)) /\ Meets(w, "cloud") /\ UNCHANGED job
      BY <3>2, RaisesFail, FaultsLeaveATrace DEF IInv
    <3>3. QED BY <2>3, <3>1, <3>2
  <2>4. CASE CheckDns(w)
    <3>1. outcome[w] = "none" BY <2>4 DEF Knows, ReportsLast
    <3>2. QED BY <2>4, <3>1, FaultsLeaveATrace DEF IInv, Proceeds, Fails
  <2>5. CASE Announce(w) BY <2>5 DEF IInv, Proceeds
  <2>6. CASE GetProvisioner(w, "start_prov", "guard") \/ GetProvisioner(w, "stop_prov", "find")
    <3>1. outcome[w] = "none" BY <2>6 DEF Knows, ReportsLast
    <3>2. QED BY <2>6, <3>1, FaultsLeaveATrace DEF IInv, Proceeds, Fails
  <2>7. QED BY <2>1, <2>2, <2>3, <2>4, <2>5, <2>6
<1>7. CASE Proceeds(w) \/ Fails(w)
  <2>1. pc[w] \notin {"release", "rb_server", "rb_firewall"} OBVIOUS
  <2>2. ReportsLast(w)' /\ ReportHolds(w)' BY <1>7, <2>1, NothingReported DEF Knows
  <2>3. QED BY <1>1, <1>2, <1>3, <1>4, <2>2 DEF Knows
<1>8. QED BY <1>5, <1>6, <1>7

(* Writing the records, and what is reported with it.                      *)
LEMMA RecordsInform ==
    ASSUME IInv, TypeOK', VolumesOutlive, NEW w \in Workers, Knows(w), Records(w)
    PROVE  VolumesOutlive' /\ Knows(w)'
<1> USE DEF TypeOK, CloudTypeOK, WorkerTypeOK, Records, Publish, ClearDns, WriteDns
<1>1. VolumesOutlive' BY DEF IInv, StepsMatchJob, VolumesOutlive, Knows, DeployKnows
<1>2. DeployKnows(w)'
  BY SMTT(30) DEF IInv, StepsMatchJob, OwnersDeploy, CloudConsistent, ServerIsFirewalled,
     VolumesOutlive, Knows, DeployKnows
<1>3. DestroyKnows(w)'
  BY SMTT(30) DEF IInv, StepsMatchJob, OwnersDeploy, CloudConsistent, ServerIsFirewalled, Knows,
     DestroyKnows
<1>4. ReportsLast(w)' BY SMTT(30) DEF IInv, StepsMatchJob, OwnersDeploy, Knows, ReportsLast
<1>5. RollbackKnows(w)'
  BY SMTT(30) DEF IInv, StepsMatchJob, OwnersDeploy, Knows, RollbackKnows, ReportsLast
<1>6. ReportHolds(w)'
  <2>1. CASE Publish(w)
    <3>1. /\ outcome[w] = "none" /\ server[job[w].game] # "absent" /\ UNCHANGED <<server, job>>
          /\ pc'[w] = "release" /\ job[w].op = "start"
      BY <2>1 DEF IInv, StepsMatchJob, Knows, DeployKnows, ReportsLast
    <3>2. \/ outcome'[w] = "started" /\ dns'[job[w].game] = "current"
          \/ outcome'[w] \in {"none", "started"} /\ "dns" \in failedIn'[w]
      BY <2>1, <3>1 DEF IInv
    <3>3. QED BY <3>1, <3>2 DEF ReportHolds
  <2>2. CASE ClearDns(w)
    <3>1. /\ outcome[w] = "none" /\ UNCHANGED <<server, firewall, job>>
          /\ server[job[w].game] = "absent" /\ firewall[job[w].game] = "absent"
          /\ pc'[w] = "release" /\ job[w].op = "stop"
      BY <2>2 DEF IInv, StepsMatchJob, Knows, DestroyKnows, ReportsLast
    <3>2. \/ outcome'[w] = "finished" /\ dns'[job[w].game] = "none"
          \/ outcome'[w] \in {"none", "finished"} /\ "dns" \in failedIn'[w]
      BY <2>2, <3>1 DEF IInv
    <3>3. QED BY <3>1, <3>2 DEF ReportHolds
  <2>3. QED BY <2>1, <2>2
<1>7. QED BY <1>1, <1>2, <1>3, <1>4, <1>5, <1>6 DEF Knows

(* Creating resources.                                                     *)
LEMMA CreatingInforms ==
    ASSUME IInv, TypeOK', VolumesOutlive, NEW w \in Workers, Knows(w), Creating(w)
    PROVE  VolumesOutlive' /\ Knows(w)'
<1> USE DEF TypeOK, CloudTypeOK, WorkerTypeOK, Creating, ResolveVolume, DeleteStaleFirewall,
            CreateNewFirewall, RequestServer, CreateVolume, DeleteFirewall, CreateFirewall,
            CreateServer, CanDeleteFirewall, CanCreateFirewall, CanCreateServer
<1>1. VolumesOutlive' BY DEF IInv, StepsMatchJob, VolumesOutlive, Knows, DeployKnows
<1>2. DeployKnows(w)'
  BY SMTT(30) DEF IInv, StepsMatchJob, OwnersDeploy, CloudConsistent, ServerIsFirewalled,
     VolumesOutlive, Knows, DeployKnows
<1>3. DestroyKnows(w)'
  BY SMTT(30) DEF IInv, StepsMatchJob, OwnersDeploy, CloudConsistent, ServerIsFirewalled, Knows,
     DestroyKnows
<1>4. Proceeds(w) \/ Fails(w)
  <2> HIDE DEF Meets, Raise
  <2>1. CASE ResolveVolume(w)
    BY <2>1, RaisesFail, FaultsLeaveATrace DEF IInv, Proceeds
  <2>2. CASE DeleteStaleFirewall(w)
    BY <2>2, RaisesFail, FaultsLeaveATrace DEF IInv, Proceeds, Knows, DeployKnows
  <2>3. CASE CreateNewFirewall(w)
    BY <2>3, RaisesFail, FaultsLeaveATrace DEF IInv, Proceeds, Knows, DeployKnows
  <2>4. CASE RequestServer(w)
    BY <2>4, RaisesFail, FaultsLeaveATrace DEF IInv, Proceeds, Knows, DeployKnows
  <2>5. QED BY <2>1, <2>2, <2>3, <2>4
<1>5. RollbackKnows(w)'
  BY SMTT(30) DEF IInv, StepsMatchJob, OwnersDeploy, Knows, RollbackKnows, ReportsLast
<1>6. ReportsLast(w)' /\ ReportHolds(w)' BY <1>4, NothingReported DEF Knows
<1>7. QED BY <1>1, <1>2, <1>3, <1>5, <1>6 DEF Knows

(* Taking them back.                                                       *)
LEMMA RollbackInforms ==
    ASSUME IInv, TypeOK', VolumesOutlive, NEW w \in Workers, Knows(w), Rollback(w)
    PROVE  VolumesOutlive' /\ Knows(w)'
<1> USE DEF TypeOK, CloudTypeOK, WorkerTypeOK, Rollback, RollbackStep, RollbackServer,
            RollbackFirewall, DeleteServer, DeleteFirewall, CanDeleteFirewall, CanDeleteServer
<1>1. VolumesOutlive' BY DEF IInv, StepsMatchJob, VolumesOutlive, Knows, DeployKnows
<1>2. DeployKnows(w)'
  BY SMTT(30) DEF IInv, StepsMatchJob, OwnersDeploy, CloudConsistent, ServerIsFirewalled,
     VolumesOutlive, Knows, DeployKnows
<1>3. DestroyKnows(w)'
  BY SMTT(30) DEF IInv, StepsMatchJob, OwnersDeploy, CloudConsistent, ServerIsFirewalled, Knows,
     DestroyKnows
<1>4. ReportsLast(w)' BY SMTT(30) DEF IInv, StepsMatchJob, OwnersDeploy, Knows, ReportsLast
<1>5. RollbackKnows(w)'
  BY SMTT(30) DEF IInv, StepsMatchJob, OwnersDeploy, Knows, RollbackKnows, ReportsLast
<1>6. ReportHolds(w)'
  BY SMTT(30) DEF IInv, StepsMatchJob, OwnersDeploy, CloudConsistent, ServerIsFirewalled, Knows,
     DeployKnows, DestroyKnows, ReportsLast, RollbackKnows, ReportHolds
<1>7. QED BY <1>1, <1>2, <1>3, <1>4, <1>5, <1>6 DEF Knows

(* Stopping and saving a game.                                             *)
LEMMA SavingInforms ==
    ASSUME IInv, TypeOK', VolumesOutlive, NEW w \in Workers, Knows(w), Saving(w)
    PROVE  VolumesOutlive' /\ Knows(w)'
<1> USE DEF TypeOK, CloudTypeOK, WorkerTypeOK, Saving, StopGame, BackUp, PullGamedata,
            StopContainer, SaveCopy, CanStopContainer, Reachable
<1>1. VolumesOutlive' BY DEF IInv, StepsMatchJob, VolumesOutlive, Knows, DeployKnows
<1>2. DeployKnows(w)'
  BY SMTT(30) DEF IInv, StepsMatchJob, OwnersDeploy, CloudConsistent, ServerIsFirewalled,
     VolumesOutlive, Knows, DeployKnows
<1>3. DestroyKnows(w)'
  BY SMTT(30) DEF IInv, StepsMatchJob, OwnersDeploy, CloudConsistent, ServerIsFirewalled, Knows,
     DestroyKnows
<1>4. ReportsLast(w)' BY SMTT(30) DEF IInv, StepsMatchJob, OwnersDeploy, Knows, ReportsLast
<1>5. RollbackKnows(w)'
  BY SMTT(30) DEF IInv, StepsMatchJob, OwnersDeploy, Knows, RollbackKnows, ReportsLast
<1>6. ReportHolds(w)'
  BY SMTT(30) DEF IInv, StepsMatchJob, OwnersDeploy, CloudConsistent, ServerIsFirewalled, Knows,
     DeployKnows, DestroyKnows, ReportsLast, RollbackKnows, ReportHolds
<1>7. QED BY <1>1, <1>2, <1>3, <1>4, <1>5, <1>6 DEF Knows

(* Tearing it down.                                                        *)
LEMMA TearDownInforms ==
    ASSUME IInv, TypeOK', VolumesOutlive, NEW w \in Workers, Knows(w), TearDown(w)
    PROVE  VolumesOutlive' /\ Knows(w)'
<1> USE DEF TypeOK, CloudTypeOK, WorkerTypeOK, TearDown, RequestShutdown, Detach,
            DeleteGameServer, ReapFirewall, Shutdown, CanShutdown, DetachVolume, DeleteServer,
            CanDeleteServer, DeleteFirewall, CanDeleteFirewall
<1>1. VolumesOutlive' BY DEF IInv, StepsMatchJob, VolumesOutlive, Knows, DeployKnows
<1>2. DeployKnows(w)'
  BY SMTT(30) DEF IInv, StepsMatchJob, OwnersDeploy, CloudConsistent, ServerIsFirewalled,
     VolumesOutlive, Knows, DeployKnows
<1>3. DestroyKnows(w)'
  BY SMTT(30) DEF IInv, StepsMatchJob, OwnersDeploy, CloudConsistent, ServerIsFirewalled, Knows,
     DestroyKnows
<1>4. ReportsLast(w)' BY SMTT(30) DEF IInv, StepsMatchJob, OwnersDeploy, Knows, ReportsLast
<1>5. RollbackKnows(w)'
  BY SMTT(30) DEF IInv, StepsMatchJob, OwnersDeploy, Knows, RollbackKnows, ReportsLast
<1>6. ReportHolds(w)'
  BY SMTT(30) DEF IInv, StepsMatchJob, OwnersDeploy, CloudConsistent, ServerIsFirewalled, Knows,
     DeployKnows, DestroyKnows, ReportsLast, RollbackKnows, ReportHolds
<1>7. QED BY <1>1, <1>2, <1>3, <1>4, <1>5, <1>6 DEF Knows

(* A worker outside its lock changes nothing.                              *)
LEMMA OnlyHoldersTouch ==
    ASSUME TypeOK, NEW w \in Workers, WorkerStep(w), ~InLock(w)
    PROVE  \A g \in Games : Untouched(g)
<1>1. UNCHANGED cloudVars
  <2> USE DEF WorkerStep
  <2>1. CASE Lifecycle(w)
    BY <2>1 DEF Lifecycle, Take, Acquire, Release, LockWaitTimesOut,
       AcquireFails, AcquireRetried, ReleaseFails, Crash, EndJob
  <2>2. CASE Control(w) \/ Records(w)
    BY <2>2 DEF Control, DeployGuard, EnsureSshKey, RenderUserData, LookUp, AwaitServer, FindServer,
       WaitUntilOff, CheckDns, GetProvisioner, Announce, Escapes, Records, Publish, ClearDns
  <2>3. CASE Creating(w) \/ Rollback(w) \/ Saving(w) \/ TearDown(w)
    BY <2>3 DEF Creating, ResolveVolume, DeleteStaleFirewall, CreateNewFirewall, RequestServer,
       Rollback, RollbackStep, RollbackServer, RollbackFirewall, Saving, StopGame, BackUp,
       PullGamedata, TearDown, RequestShutdown, Detach, DeleteGameServer, ReapFirewall
  <2>4. QED BY <2>1, <2>2, <2>3
<1>2. QED BY <1>1 DEF Untouched

(* Keys and the world leave what is known alone.                           *)
LEMMA OthersApart ==
    ASSUME TypeOK, NEW h \in Games,
           ForgetOrphanedLock(h) \/ (Environment(h) /\ UNCHANGED <<workerVars, lock>>)
    PROVE  (\A v \in Workers : Aside(v)) /\ (\A g \in Games : Untouched(g))
BY DEF TypeOK, CloudTypeOK, ForgetOrphanedLock, Environment, Boot, Play, GameExit, PowerOff, Aside,
   Untouched

(* Each worker's own step keeps what it knows, and the lock keeps it from  *)
(* the others.                                                             *)
LEMMA KnowsInvStep ==
    ASSUME IInv, KnowsInv, [Next]_vars
    PROVE  KnowsInv'
<1>1. IInv' BY IInvStep
<1>2. CASE UNCHANGED vars
  <2>1. \A v \in Workers : Aside(v) /\ \A g \in Games : Untouched(g)
    BY <1>2 DEF Aside, Untouched
  <2>2. \A v \in Workers : Knows(v)'
    BY <2>1, KnowledgeLasts DEF KnowsInv, IInv, StepsMatchJob, TypeOK, WorkerTypeOK
  <2>3. VolumesOutlive' BY <1>2 DEF KnowsInv, VolumesOutlive
  <2>4. QED BY <2>2, <2>3 DEF KnowsInv
<1>3. ASSUME NEW w \in Workers, WorkerStep(w) PROVE KnowsInv'
  <2>1. VolumesOutlive' /\ Knows(w)'
    BY <1>1, <1>3, LifecycleInforms, ControlInforms, RecordsInform, CreatingInforms, RollbackInforms,
       SavingInforms, TearDownInforms DEF WorkerStep, KnowsInv, IInv
  <2>2. ASSUME NEW v \in Workers \ {w} PROVE Knows(v)'
    <3>1. Aside(v) BY <1>3, WorkersApart DEF IInv
    <3>2. ASSUME InLock(v) PROVE Untouched(job[v].game)
      <4>1. job[v].game \in Games
        BY <3>2 DEF IInv, StepsMatchJob, TypeOK, WorkerTypeOK
      <4>2. CASE InLock(w)
        <5>1. job[v].game # job[w].game BY <3>2, <4>2 DEF IInv, MutualExclusion
        <5>2. QED BY <1>3, <4>1, <5>1, WorkersApart DEF IInv
      <4>3. CASE ~InLock(w)
        BY <1>3, <4>1, <4>3, OnlyHoldersTouch DEF IInv
      <4>4. QED BY <4>2, <4>3
    <3>3. QED BY <3>1, <3>2, KnowledgeLasts DEF KnowsInv
  <2>3. QED BY <2>1, <2>2 DEF KnowsInv
<1>4. ASSUME NEW h \in Games,
             ForgetOrphanedLock(h) \/ (Environment(h) /\ UNCHANGED <<workerVars, lock>>)
      PROVE  KnowsInv'
  <2>1. (\A v \in Workers : Aside(v)) /\ (\A g \in Games : Untouched(g))
    BY <1>4, OthersApart DEF IInv
  <2>2. \A v \in Workers : Knows(v)'
    BY <2>1, KnowledgeLasts DEF KnowsInv, IInv, StepsMatchJob, TypeOK, WorkerTypeOK
  <2>3. VolumesOutlive' BY <2>1 DEF KnowsInv, VolumesOutlive, Untouched
  <2>4. QED BY <2>2, <2>3 DEF KnowsInv
<1>5. QED BY <1>2, <1>3, <1>4, NextCases DEF WorkerStep

(* What a job's report says is true when the job ends, whatever it met.    *)
THEOREM KnowsInvInductive == Spec => []KnowsInv
<1>1. Init => KnowsInv
  BY DEF Init, CloudInit, WorkerInit, KnowsInv, VolumesOutlive, Knows, DeployKnows, DestroyKnows,
     ReportsLast, RollbackKnows, ReportHolds
<1>2. IInv /\ KnowsInv /\ [Next]_vars => KnowsInv'
  BY KnowsInvStep
<1>3. QED BY <1>1, <1>2, IInvInductive, PTL DEF Spec

(* A start that met no fault has a server when it ends.                    *)
THEOREM CleanStartsServe == Spec => []CleanStartServes
<1>1. KnowsInv => CleanStartServes
  BY DEF KnowsInv, Knows, ReportHolds, CleanStartServes
<1>2. QED BY <1>1, KnowsInvInductive, PTL

(* A start whose channel is told of no failure but one of its records has  *)
(* a server its name resolves to, unless the DNS API failed; only an error *)
(* that start_server does not handle ends one with nothing posted.         *)
THEOREM QuietStartsServe == Spec => []QuietStartMeansServing
<1>1. KnowsInv => QuietStartMeansServing
  BY DEF KnowsInv, Knows, ReportHolds, QuietStartMeansServing
<1>2. QED BY <1>1, KnowsInvInductive, PTL

(* What is reported destroyed is gone.                                     *)
THEOREM FinishedIsTornDown == Spec => []FinishedMeansTornDown
<1>1. KnowsInv => FinishedMeansTornDown
  BY DEF KnowsInv, Knows, ReportHolds, FinishedMeansTornDown
<1>2. QED BY <1>1, KnowsInvInductive, PTL

(* A failed deploy has taken back what it created.                         *)
THEOREM RollbackIsComplete == Spec => []RollbackComplete
<1>1. KnowsInv => RollbackComplete
  BY DEF KnowsInv, Knows, ReportHolds, RollbackComplete
<1>2. QED BY <1>1, KnowsInvInductive, PTL

(* A start's own steps leave a server alone that it has not made.          *)
LEMMA StartsKeepOff ==
    ASSUME IInv, NEW w \in Workers, Knows(w), WorkerStep(w), InLock(w), NEW g \in Games,
           job[w] = [op |-> "start", game |-> g], server[g] # "absent", "server" \notin own[w]
    PROVE  Untouched(g)
<1>0. job[w].op = "start" /\ job[w].game = g OBVIOUS
<1> USE <1>0 DEF WorkerStep, Untouched
<1>1. CASE Lifecycle(w)
  BY <1>1 DEF Lifecycle, Take, Acquire, Release, LockWaitTimesOut,
     AcquireFails, AcquireRetried, ReleaseFails, Crash, EndJob
<1>2. CASE Control(w)
  BY <1>2 DEF Control, DeployGuard, EnsureSshKey, RenderUserData, LookUp, AwaitServer, FindServer,
     WaitUntilOff, CheckDns, GetProvisioner, Announce, Escapes
<1>3. CASE Records(w)
  BY <1>3 DEF Records, Publish, ClearDns, Knows, DeployKnows, IInv, StepsMatchJob
<1>4. CASE Creating(w)
  BY <1>4 DEF Creating, ResolveVolume, DeleteStaleFirewall, CreateNewFirewall, RequestServer, Knows,
     DeployKnows
<1>5. CASE Rollback(w)
  BY <1>5 DEF Rollback, RollbackStep, RollbackServer, RollbackFirewall, CanDeleteFirewall
<1>6. CASE Saving(w) \/ TearDown(w)
  BY <1>6 DEF Saving, StopGame, BackUp, PullGamedata, TearDown, RequestShutdown, Detach,
     DeleteGameServer, ReapFirewall, IInv, StepsMatchJob
<1>7. QED BY <1>1, <1>2, <1>3, <1>4, <1>5, <1>6

(* A start of a live game changes nothing of it, also past its guard.      *)
THEOREM LiveIsUndisturbed == Spec => StartNeverDisturbsLive
<1> DEFINE Bystander(w, g) ==
               /\ InLock(w) /\ job[w] = [op |-> "start", game |-> g]
               /\ server[g] # "absent" /\ "server" \notin own[w]
           Kept(g) ==
               /\ server'[g] # "absent" /\ dns'[g] = dns[g]
               /\ firewall'[g] = firewall[g] /\ volume'[g] = volume[g]
<1>1. ASSUME IInv, KnowsInv, [Next]_vars
      PROVE  \A w \in Workers, g \in Games : Bystander(w, g) => Kept(g)
  <2> SUFFICES ASSUME NEW w \in Workers, NEW g \in Games, Bystander(w, g)
               PROVE  Untouched(g)
    BY DEF Untouched
  <2>0. job[w].game = g OBVIOUS
  <2>1. CASE UNCHANGED vars BY <2>1 DEF Untouched
  <2>2. ASSUME NEW v \in Workers, WorkerStep(v) PROVE Untouched(g)
    <3>1. CASE v = w BY <1>1, <2>2, <3>1, StartsKeepOff DEF KnowsInv
    <3>2. CASE v # w /\ InLock(v)
      <4>1. job[v].game # g BY <1>1, <2>0, <3>2 DEF IInv, MutualExclusion
      <4>2. QED BY <1>1, <2>2, <4>1, WorkersApart DEF IInv
    <3>3. CASE ~InLock(v) BY <1>1, <2>2, <3>3, OnlyHoldersTouch DEF IInv
    <3>4. QED BY <3>1, <3>2, <3>3
  <2>3. ASSUME NEW h \in Games,
               ForgetOrphanedLock(h) \/ (Environment(h) /\ UNCHANGED <<workerVars, lock>>)
        PROVE  Untouched(g)
    BY <1>1, <2>3, OthersApart DEF IInv
  <2>4. QED BY <1>1, <2>1, <2>2, <2>3, NextCases DEF WorkerStep
<1>2. IInv /\ KnowsInv /\ [Next]_vars =>
          [\A w \in Workers, g \in Games : Bystander(w, g) => Kept(g)]_vars
  BY <1>1
<1>3. QED
  BY <1>2, IInvInductive, KnowsInvInductive, PTL DEF Spec, StartNeverDisturbsLive
----------------------------------------------------------------------------
(* The second stop                                                         *)

(* A stop has stopped the container, and the server is still up.           *)
HalfStopped(g) == Reachable(g) /\ container[g] = "stopped"

(* Guests, games and players do not bring that about ...                   *)
LEMMA WorldDoesNotHalfStop ==
    ASSUME IInv, NEW g \in Games, NEW h \in Games, ForgetOrphanedLock(h) \/ Environment(h)
    PROVE  HalfStopped(g)' => HalfStopped(g)
BY DEF IInv, TypeOK, CloudTypeOK, HalfStopped, Reachable, ForgetOrphanedLock, Environment, Boot,
   Play, GameExit, PowerOff

(* ... and of the jobs only the one that holds the game's lock.            *)
LEMMA OthersDoNotHalfStop ==
    ASSUME IInv, NEW g \in Games, NEW w \in Workers, WorkerStep(w), InLock(w) => job[w].game # g
    PROVE  HalfStopped(g)' => HalfStopped(g)
<1> USE DEF IInv, TypeOK, CloudTypeOK, WorkerTypeOK, HalfStopped, Reachable
<1>1. CASE Lifecycle(w)
  BY <1>1 DEF Lifecycle, Take, Acquire, Release, LockWaitTimesOut,
     AcquireFails, AcquireRetried, ReleaseFails, Crash, EndJob
<1>2. CASE Control(w)
  BY <1>2 DEF Control, DeployGuard, EnsureSshKey, RenderUserData, LookUp, AwaitServer, FindServer,
     WaitUntilOff, CheckDns, GetProvisioner, Announce, Escapes
<1>3. CASE Records(w) BY <1>3 DEF Records, Publish, ClearDns, WriteDns
<1>4. CASE Creating(w)
  BY <1>4 DEF Creating, ResolveVolume, DeleteStaleFirewall, CreateNewFirewall, RequestServer,
     CreateVolume, DeleteFirewall, CreateFirewall, CreateServer
<1>5. CASE Rollback(w)
  BY <1>5 DEF Rollback, RollbackStep, RollbackServer, RollbackFirewall, DeleteServer,
     DeleteFirewall
<1>6. CASE Saving(w) BY <1>6 DEF Saving, StopGame, BackUp, PullGamedata, StopContainer, SaveCopy
<1>7. CASE TearDown(w)
  BY <1>7 DEF TearDown, RequestShutdown, Detach, DeleteGameServer, ReapFirewall, Shutdown,
     DetachVolume, DeleteServer, DeleteFirewall
<1>8. QED BY <1>1, <1>2, <1>3, <1>4, <1>5, <1>6, <1>7 DEF WorkerStep

(* Without a fault a stop ends early only where the provider or the VM     *)
(* refuses a call, which a half-stopped game gives no occasion for.        *)
LEMMA StopsEndDone ==
    ASSUME IInv, NEW w \in Workers, Knows(w), WorkerStep(w), NEW g \in Games \ SigintGames,
           job[w].game = g, job[w].op = "stop", pc'[w] = "release", failedIn'[w] = {}
    PROVE  ~HalfStopped(g)'
<1> USE DEF IInv, TypeOK, CloudTypeOK, WorkerTypeOK, HalfStopped, Reachable
<1>1. CASE Lifecycle(w)
  BY <1>1 DEF Lifecycle, Take, Acquire, Release, LockWaitTimesOut,
     AcquireFails, AcquireRetried, ReleaseFails, Crash, EndJob
<1>2. CASE Control(w)
  <2> HIDE DEF Meets
  <2>1. CASE FindServer(w) \/ WaitUntilOff(w) \/ Announce(w) \/ GetProvisioner(w, "stop_prov", "find")
    BY <2>1, FaultsLeaveATrace DEF FindServer, WaitUntilOff, Announce, GetProvisioner, Escapes
  <2>2. QED
    BY <1>2, <2>1 DEF Control, DeployGuard, EnsureSshKey, RenderUserData, LookUp, AwaitServer,
       CheckDns, GetProvisioner, StepsMatchJob
<1>3. CASE Records(w)
  BY <1>3 DEF Records, Publish, ClearDns, WriteDns, StepsMatchJob, Knows, DestroyKnows
<1>4. CASE Creating(w)
  BY <1>4 DEF Creating, ResolveVolume, DeleteStaleFirewall, CreateNewFirewall, RequestServer,
     StepsMatchJob
<1>5. CASE Rollback(w)
  BY <1>5 DEF Rollback, RollbackStep, RollbackServer, RollbackFirewall, StepsMatchJob
<1>6. CASE Saving(w)
  <2> HIDE DEF Meets
  <2>1. CASE StopGame(w) BY <2>1, FaultsLeaveATrace DEF StopGame, CanStopContainer
  <2>2. CASE BackUp(w) BY <2>2, FaultsLeaveATrace DEF BackUp
  <2>3. CASE PullGamedata(w) BY <2>3, FaultsLeaveATrace DEF PullGamedata
  <2>4. QED BY <1>6, <2>1, <2>2, <2>3 DEF Saving
<1>7. CASE TearDown(w)
  <2> HIDE DEF Meets
  <2>1. CASE RequestShutdown(w) BY <2>1, FaultsLeaveATrace DEF RequestShutdown, CanShutdown
  <2>2. CASE Detach(w) BY <2>2, FaultsLeaveATrace DEF Detach
  <2>3. CASE DeleteGameServer(w) BY <2>3, FaultsLeaveATrace DEF DeleteGameServer, CanDeleteServer
  <2>4. CASE ReapFirewall(w)
    BY <2>4, FaultsLeaveATrace DEF ReapFirewall, CanDeleteFirewall, Knows, DestroyKnows
  <2>5. QED BY <1>7, <2>1, <2>2, <2>3, <2>4 DEF TearDown
<1>8. QED BY <1>1, <1>2, <1>3, <1>4, <1>5, <1>6, <1>7 DEF WorkerStep

LEMMA RepeatableStep ==
    ASSUME IInv, KnowsInv, StopIsRepeatable, [Next]_vars
    PROVE  StopIsRepeatable'
<1> SUFFICES ASSUME NEW v \in Workers, NEW g \in Games \ SigintGames,
                    pc'[v] = "release", job'[v].op = "stop", failedIn'[v] = {}, job'[v].game = g
             PROVE  ~HalfStopped(g)'
  <2>1. IInv' BY IInvStep
  <2>2. \A v \in Workers : pc'[v] = "release" => job'[v].game \in Games
    BY <2>1 DEF IInv, StepsMatchJob, TypeOK, WorkerTypeOK
  <2>3. QED BY <2>2 DEF StopIsRepeatable, HalfStopped
<1>1. ASSUME Aside(v), ~HalfStopped(g)' \/ (HalfStopped(g)' => HalfStopped(g))
      PROVE  ~HalfStopped(g)'
  BY <1>1 DEF Aside, StopIsRepeatable, HalfStopped
<1>2. CASE UNCHANGED vars BY <1>1, <1>2 DEF Aside, HalfStopped, Reachable
<1>3. ASSUME NEW w \in Workers, WorkerStep(w) PROVE ~HalfStopped(g)'
  <2>1. CASE w = v
    <3>1. UNCHANGED job
      BY <1>3, <2>1 DEF WorkerStep, Lifecycle, Take, Acquire, Release, LockWaitTimesOut,
         AcquireFails, AcquireRetried, ReleaseFails, Crash,
         EndJob, Control, DeployGuard, EnsureSshKey, RenderUserData, LookUp, AwaitServer,
         FindServer, WaitUntilOff, CheckDns, GetProvisioner, Announce, Escapes, Records, Publish,
         ClearDns, Creating, ResolveVolume, DeleteStaleFirewall, CreateNewFirewall, RequestServer,
         Rollback, RollbackStep, RollbackServer, RollbackFirewall, Saving, StopGame, BackUp,
         PullGamedata, TearDown, RequestShutdown, Detach, DeleteGameServer, ReapFirewall, IInv,
         TypeOK, WorkerTypeOK
    <3>2. QED BY <1>3, <2>1, <3>1, StopsEndDone DEF KnowsInv
  <2>2. CASE w # v
    <3>1. Aside(v) BY <1>3, <2>2, WorkersApart DEF IInv
    <3>2. ~(InLock(w) /\ job[w].game = g)
      BY <2>2, <3>1 DEF Aside, IInv, MutualExclusion
    <3>3. QED BY <1>1, <1>3, <3>1, <3>2, OthersDoNotHalfStop
  <2>3. QED BY <2>1, <2>2
<1>4. ASSUME NEW h \in Games,
             ForgetOrphanedLock(h) \/ (Environment(h) /\ UNCHANGED <<workerVars, lock>>)
      PROVE  ~HalfStopped(g)'
  <2>1. Aside(v) BY <1>4, OthersApart DEF IInv
  <2>2. HalfStopped(g)' => HalfStopped(g) BY <1>4, WorldDoesNotHalfStop
  <2>3. QED BY <1>1, <2>1, <2>2
<1>5. QED BY <1>2, <1>3, <1>4, NextCases DEF WorkerStep

(* A stop repeated after a failure, and itself without one, is not stuck   *)
(* half way, for every game that is stopped with `docker stop`.            *)
THEOREM StopsAreRepeatable == Spec => []StopIsRepeatable
<1>1. Init => StopIsRepeatable
  BY DEF Init, WorkerInit, StopIsRepeatable
<1>2. IInv /\ KnowsInv /\ StopIsRepeatable /\ [Next]_vars => StopIsRepeatable'
  BY RepeatableStep
<1>3. QED BY <1>1, <1>2, IInvInductive, KnowsInvInductive, PTL DEF Spec
----------------------------------------------------------------------------
(* No step is taken twice                                                  *)

(* The steps a job has still to come to, at most: those of start_server,   *)
(* in their order and with the rollback of any of them, and of stop_server.*)
StepsLeft(step) ==
    CASE step = "release" -> 0
      [] step \in {"publish", "rb_firewall", "clear"} -> 1
      [] step \in {"rb_server", "fw_reap"} -> 2
      [] step \in {"wait", "delete"} -> 3
      [] step \in {"create", "detach"} -> 4
      [] step \in {"lookup", "wait_off"} -> 5
      [] step \in {"fw_create", "shutdown"} -> 6
      [] step \in {"fw_delete", "mirror"} -> 7
      [] step \in {"render", "backup"} -> 8
      [] step \in {"volume", "stop_container"} -> 9
      [] step \in {"ssh_key", "find"} -> 10
      [] step \in {"guard", "stop_prov"} -> 11
      [] step \in {"start_prov", "announce"} -> 12
      [] step = "dns_check" -> 13
      [] OTHER -> 14

(* Between taking its lock and giving it back a job makes at most 13 steps *)
(* of its own, whatever fails: nothing in it loops.  That is why           *)
(* EveryJobEnds holds, once jobs are fair.                                 *)
JobsGoForward ==
    [][\A w \in Workers : JobStep(w) => StepsLeft(pc'[w]) < StepsLeft(pc[w])]_vars

(* The rollback comes after every step that can fail.                      *)
LEMMA RaiseGoesForward ==
    ASSUME WorkerTypeOK, NEW w \in Workers, NEW kind, Raise(w, kind), StepsLeft(pc[w]) > 2,
           StepsLeft(pc[w]) \in Nat
    PROVE  StepsLeft(pc'[w]) < StepsLeft(pc[w])
<1>1. pc'[w] \in {"rb_server", "release"} BY DEF WorkerTypeOK
<1>2. QED BY <1>1 DEF StepsLeft

(* Every step goes on to a later one, or raises.                           *)
LEMMA StepsGoForward ==
    ASSUME WorkerTypeOK, StepsMatchJob, NEW w \in Workers, JobStep(w)
    PROVE  StepsLeft(pc'[w]) < StepsLeft(pc[w])
<1> DEFINE GoesTo(at, next) ==
               \/ pc[w] = at /\ pc'[w] \in next
               \/ pc[w] = at /\ \E kind \in Handled : Raise(w, kind)
<1> USE DEF WorkerTypeOK
<1>1. ASSUME NEW at, NEW next, GoesTo(at, next), StepsLeft(at) > 2, StepsLeft(at) \in Nat,
             \A step \in next : StepsLeft(step) < StepsLeft(at)
      PROVE  StepsLeft(pc'[w]) < StepsLeft(pc[w])
  <2> HIDE DEF Raise, WorkerTypeOK
  <2>1. CASE pc'[w] \in next BY <1>1, <2>1
  <2>2. CASE \E kind \in Handled : Raise(w, kind) BY <1>1, <2>2, RaiseGoesForward
  <2>3. QED BY <1>1, <2>1, <2>2
<1>2. CASE Deploy(w)
  <2>1. CASE DeployGuard(w)
    <3>1. GoesTo("guard", {"ssh_key", "release"}) BY <2>1 DEF DeployGuard
    <3>2. QED BY <1>1, <3>1 DEF StepsLeft
  <2>2. CASE EnsureSshKey(w)
    <3>1. GoesTo("ssh_key", {"volume", "render"}) BY <2>2 DEF EnsureSshKey
    <3>2. QED BY <1>1, <3>1 DEF StepsLeft
  <2>3. CASE ResolveVolume(w)
    <3>1. GoesTo("volume", {"render"}) BY <2>3 DEF ResolveVolume
    <3>2. QED BY <1>1, <3>1 DEF StepsLeft
  <2>4. CASE RenderUserData(w)
    <3>1. GoesTo("render", {"fw_delete"}) BY <2>4 DEF RenderUserData
    <3>2. QED BY <1>1, <3>1 DEF StepsLeft
  <2>5. CASE DeleteStaleFirewall(w)
    <3>1. GoesTo("fw_delete", {"fw_create"}) BY <2>5 DEF DeleteStaleFirewall
    <3>2. QED BY <1>1, <3>1 DEF StepsLeft
  <2>6. CASE CreateNewFirewall(w)
    <3>1. GoesTo("fw_create", {"lookup"}) BY <2>6 DEF CreateNewFirewall
    <3>2. QED BY <1>1, <3>1 DEF StepsLeft
  <2>7. CASE LookUp(w)
    <3>1. GoesTo("lookup", {"create"}) BY <2>7 DEF LookUp
    <3>2. QED BY <1>1, <3>1 DEF StepsLeft
  <2>8. CASE RequestServer(w)
    <3>1. GoesTo("create", {"wait"}) BY <2>8 DEF RequestServer
    <3>2. QED BY <1>1, <3>1 DEF StepsLeft
  <2>9. CASE AwaitServer(w)
    <3>1. GoesTo("wait", {"publish"}) BY <2>9 DEF AwaitServer
    <3>2. QED BY <1>1, <3>1 DEF StepsLeft
  <2>10. CASE RollbackServer(w) \/ RollbackFirewall(w)
    BY <2>10 DEF RollbackServer, RollbackFirewall, RollbackStep, StepsLeft
  <2>11. QED BY <1>2, <2>1, <2>2, <2>3, <2>4, <2>5, <2>6, <2>7, <2>8, <2>9, <2>10 DEF Deploy
<1>3. CASE Destroy(w)
  <2>1. CASE FindServer(w)
    <3>1. GoesTo("find", {"fw_reap", "stop_container"}) BY <2>1 DEF FindServer
    <3>2. QED BY <1>1, <3>1 DEF StepsLeft
  <2>2. CASE StopGame(w)
    <3>1. GoesTo("stop_container", {"backup"}) BY <2>2 DEF StopGame
    <3>2. QED BY <1>1, <3>1 DEF StepsLeft
  <2>3. CASE BackUp(w)
    <3>1. GoesTo("backup", {"mirror"}) BY <2>3 DEF BackUp
    <3>2. QED BY <1>1, <3>1 DEF StepsLeft
  <2>4. CASE PullGamedata(w)
    <3>1. GoesTo("mirror", {"shutdown", "delete"}) BY <2>4 DEF PullGamedata
    <3>2. QED BY <1>1, <3>1 DEF StepsLeft
  <2>5. CASE RequestShutdown(w)
    <3>1. GoesTo("shutdown", {"wait_off"}) BY <2>5 DEF RequestShutdown
    <3>2. QED BY <1>1, <3>1 DEF StepsLeft
  <2>6. CASE WaitUntilOff(w)
    <3>1. GoesTo("wait_off", {"detach"}) BY <2>6 DEF WaitUntilOff
    <3>2. QED BY <1>1, <3>1 DEF StepsLeft
  <2>7. CASE Detach(w)
    <3>1. GoesTo("detach", {"delete"}) BY <2>7 DEF Detach
    <3>2. QED BY <1>1, <3>1 DEF StepsLeft
  <2>8. CASE DeleteGameServer(w)
    <3>1. GoesTo("delete", {"fw_reap"}) BY <2>8 DEF DeleteGameServer
    <3>2. QED BY <1>1, <3>1 DEF StepsLeft
  <2>9. CASE ReapFirewall(w)
    <3>1. pc[w] = "fw_reap" /\ pc'[w] \in {"clear", "release"}
      BY <2>9 DEF ReapFirewall, StepsMatchJob
    <3>2. QED BY <3>1 DEF StepsLeft
  <2>10. QED BY <1>3, <2>1, <2>2, <2>3, <2>4, <2>5, <2>6, <2>7, <2>8, <2>9 DEF Destroy
<1>4. CASE CheckDns(w)
  <2>1. pc[w] = "dns_check" /\ pc'[w] \in {"start_prov", "release"} BY <1>4 DEF CheckDns, Escapes
  <2>2. QED BY <2>1 DEF StepsLeft
<1>5. CASE GetProvisioner(w, "start_prov", "guard")
  <2>1. pc[w] = "start_prov" /\ pc'[w] \in {"guard", "release"} BY <1>5 DEF GetProvisioner, Escapes
  <2>2. QED BY <2>1 DEF StepsLeft
<1>6. CASE GetProvisioner(w, "stop_prov", "find")
  <2>1. pc[w] = "stop_prov" /\ pc'[w] \in {"find", "release"} BY <1>6 DEF GetProvisioner, Escapes
  <2>2. QED BY <2>1 DEF StepsLeft
<1>7. CASE Publish(w) \/ Announce(w) \/ ClearDns(w)
  <2>1. \/ pc[w] = "announce" /\ pc'[w] = "stop_prov"
        \/ pc[w] \in {"publish", "clear"} /\ pc'[w] = "release"
    BY <1>7 DEF Publish, Announce, ClearDns
  <2>2. QED BY <2>1 DEF StepsLeft
<1>8. QED BY <1>2, <1>3, <1>4, <1>5, <1>6, <1>7 DEF JobStep

(* The step of a job that meets a fault leads forward too: to the rollback *)
(* or to the end.  A worker's own steps between lock and release are       *)
(* bounded, for every schedule and every fault.                            *)
THEOREM JobsAlwaysGoForward == Spec => JobsGoForward
<1> DEFINE Forward == \A w \in Workers : JobStep(w) => StepsLeft(pc'[w]) < StepsLeft(pc[w])
<1>1. IInv /\ [Next]_vars => [Forward]_vars
  BY StepsGoForward DEF IInv, TypeOK
<1>2. QED BY <1>1, IInvInductive, PTL DEF Spec, JobsGoForward

=============================================================================
