--------------------------- MODULE JobsRefinement ---------------------------
(***************************************************************************)
(* The jobs implement module Session, for any games, workers and faults:   *)
(* a session is never retired before its world is in every copy.           *)
(***************************************************************************)
EXTENDS JobsProofs

USE DEF JobSet, NoJob, Steps, StartSteps, StopSteps, Copies, InLock, vars, cloudVars, workerVars,
        TypeOK, CloudTypeOK, WorkerTypeOK,
        Goto, Report, Meets, Raise, Handled, Unhandled, Call, Query

(* No job owns a server of a game another job works on.                    *)
LEMMA SoleOwner ==
    ASSUME IInv, NEW w \in Workers, NEW v \in Workers, InLock(w),
           job[v].game = job[w].game, "server" \in own[v]
    PROVE  v = w
BY DEF IInv, OwnersDeploy, MutualExclusion

(* A call that gains no local leaves deploy's locals as they are.          *)
LEMMA SameOwn ==
    ASSUME TypeOK, NEW w \in Workers, own' = own \/ own' = [own EXCEPT ![w] = @ \cup {}]
    PROVE  own' = own
OBVIOUS

(* A step that moves no server between absent and present and changes no   *)
(* server's owner is no step of any session.                               *)
LEMMA SameSessions ==
    ASSUME \A g \in Games : SessionOf(g)' = SessionOf(g), UNCHANGED behind
    PROVE  UNCHANGED S!sessionVars
BY DEF S!sessionVars

(* Taking a job, and ending one: the session of a job's own server is now  *)
(* confirmed.                                                              *)
LEMMA LifecycleRefines ==
    ASSUME IInv, NEW w \in Workers, Lifecycle(w)
    PROVE  S!Next \/ UNCHANGED S!sessionVars
<1>1. ASSUME NEW op \in {"start", "stop"}, NEW h \in Games, Take(w, op, h)
      PROVE  UNCHANGED S!sessionVars
  <2>1. own[w] = {} BY <1>1 DEF Take, IInv, StepsMatchJob, OwnersDeploy
  <2>2. \A g \in Games : SessionOf(g)' = SessionOf(g)
    BY <1>1, <2>1 DEF Take, IInv, SessionOf
  <2>3. QED BY <1>1, <2>2, SameSessions DEF Take
<1>2. ASSUME Acquire(w) PROVE UNCHANGED S!sessionVars
  <2>1. \A g \in Games : SessionOf(g)' = SessionOf(g)
    BY <1>2 DEF Acquire, SessionOf
  <2>2. QED BY <1>2, <2>1, SameSessions DEF Acquire
<1>3. ASSUME EndJob(w) PROVE S!Next \/ UNCHANGED S!sessionVars
  <2>1. CASE "server" \in own[w] /\ server[job[w].game] # "absent"
    <3> PICK g \in Games : g = job[w].game
      BY <2>1 DEF IInv, OwnersDeploy
    <3>1. InLock(w)
      BY <2>1 DEF IInv, OwnersDeploy
    <3>2. \A v \in Workers : "server" \in own[v] /\ job[v].game = g => v = w
      BY <3>1, SoleOwner
    <3>3. SessionOf(g) = "trial" BY <2>1 DEF SessionOf
    <3>4. SessionOf(g)' = "live"
      <4>1. server'[g] # "absent" BY <1>3, <2>1 DEF EndJob
      <4>2. ASSUME NEW v \in Workers, "server" \in own'[v], job'[v].game = g PROVE FALSE
        <5>1. v # w BY <1>3, <4>2 DEF EndJob, IInv
        <5>2. "server" \in own[v] /\ job[v].game = g BY <1>3, <4>2, <5>1 DEF EndJob, IInv
        <5>3. QED BY <3>2, <5>1, <5>2
      <4>3. QED BY <4>1, <4>2 DEF SessionOf
    <3>5. \A h \in Games \ {g} : SessionOf(h)' = SessionOf(h)
      BY <1>3 DEF EndJob, SessionOf, IInv
    <3>6. [h \in Games |-> SessionOf(h)]' = [[h \in Games |-> SessionOf(h)] EXCEPT ![g] = "live"]
      BY <3>1, <3>4, <3>5
    <3>7. S!Confirm(g)
      BY <1>3, <3>1, <3>3, <3>6 DEF S!Confirm, EndJob
    <3>8. QED BY <3>1, <3>7 DEF S!Next
  <2>2. CASE ~("server" \in own[w] /\ server[job[w].game] # "absent")
    <3>1. \A g \in Games : SessionOf(g)' = SessionOf(g)
      BY <1>3, <2>2 DEF EndJob, SessionOf, IInv
    <3>2. QED BY <1>3, <3>1, SameSessions DEF EndJob
  <2>3. QED BY <2>1, <2>2
<1>4. ASSUME AcquireRetried(w) PROVE UNCHANGED S!sessionVars
  <2>1. \A g \in Games : SessionOf(g)' = SessionOf(g)
    BY <1>4 DEF AcquireRetried, SessionOf
  <2>2. QED BY <1>4, <2>1, SameSessions DEF AcquireRetried
<1>5. QED BY <1>1, <1>2, <1>3, <1>4
      DEF Lifecycle, Release, LockWaitTimesOut, AcquireFails, ReleaseFails, Crash

(* deploy's requests: a server is a session on trial, or a live one if the *)
(* answer is lost.                                                         *)
LEMMA CreatingRefines ==
    ASSUME IInv, NEW w \in Workers, Creating(w)
    PROVE  S!Next \/ UNCHANGED S!sessionVars
<1>1. ASSUME ResolveVolume(w) \/ DeleteStaleFirewall(w) \/ CreateNewFirewall(w)
      PROVE  UNCHANGED S!sessionVars
  <2>1. /\ UNCHANGED <<server, behind, job>>
        /\ \A v \in Workers : "server" \in own'[v] <=> "server" \in own[v]
    BY <1>1 DEF ResolveVolume, DeleteStaleFirewall, CreateNewFirewall, CreateVolume, DeleteFirewall,
       CreateFirewall, IInv
  <2>2. \A g \in Games : SessionOf(g)' = SessionOf(g)
    BY <2>1 DEF SessionOf
  <2>3. QED BY <2>1, <2>2, SameSessions
<1>2. ASSUME RequestServer(w) PROVE S!Next \/ UNCHANGED S!sessionVars
  <2> PICK g \in Games : g = job[w].game
    BY <1>2 DEF RequestServer, IInv, StepsMatchJob
  <2>1. InLock(w) /\ "server" \notin own[w]
    BY <1>2 DEF RequestServer, IInv, OwnersDeploy
  <2>2. \A v \in Workers : "server" \in own[v] => job[v].game # g
    BY <2>1, SoleOwner
  <2>3. CASE UNCHANGED server
    <3>1. ~(CanCreateServer(g) /\ CreateServer(g))
      BY <2>1, <2>3 DEF CanCreateServer, CreateServer, IInv
    <3>2. UNCHANGED <<cloudVars, job, own>>
      BY <1>2, <3>1 DEF RequestServer
    <3>3. \A h \in Games : SessionOf(h)' = SessionOf(h)
      BY <3>2 DEF SessionOf
    <3>4. QED BY <3>2, <3>3, SameSessions
  <2>4. CASE ~UNCHANGED server
    <3>1. CanCreateServer(g) /\ CreateServer(g) /\ UNCHANGED job
      BY <1>2, <2>4 DEF RequestServer
    <3>2. \/ own' = [own EXCEPT ![w] = @ \cup {"server"}]
          \/ own' = own
      BY <1>2 DEF RequestServer
    <3>3. SessionOf(g) = "none" /\ SessionOf(g)' \in {"trial", "live"}
      BY <2>1, <3>1 DEF SessionOf, CanCreateServer, CreateServer, IInv
    <3>4. \A h \in Games \ {g} : SessionOf(h)' = SessionOf(h)
      BY <2>1, <3>1, <3>2 DEF SessionOf, CreateServer, IInv
    <3>5. S!Launch(g, SessionOf(g)')
      BY <2>1, <3>1, <3>3, <3>4 DEF S!Launch, CreateServer
    <3>6. QED BY <2>1, <3>3, <3>5 DEF S!Next
  <2>5. QED BY <2>3, <2>4
<1>3. QED BY <1>1, <1>2 DEF Creating

(* _rollback takes the session of the job's own server back.               *)
LEMMA RollbackRefines ==
    ASSUME IInv, NEW w \in Workers, Rollback(w)
    PROVE  S!Next \/ UNCHANGED S!sessionVars
<1> PICK g \in Games : g = job[w].game
  BY DEF Rollback, RollbackStep, RollbackServer, RollbackFirewall, IInv, StepsMatchJob
<1>2. UNCHANGED <<job, own>>
  BY DEF Rollback, RollbackStep, RollbackServer, RollbackFirewall
<1>3. CASE UNCHANGED server /\ UNCHANGED behind
  <2>1. \A h \in Games : SessionOf(h)' = SessionOf(h)
    BY <1>2, <1>3 DEF SessionOf
  <2>2. QED BY <1>3, <2>1, SameSessions
<1>4. CASE "server" \in own[w] /\ CanDeleteServer(g) /\ DeleteServer(g)
  <2>1. SessionOf(g) = "trial" /\ SessionOf(g)' = "none"
    BY <1>4 DEF SessionOf, CanDeleteServer, DeleteServer, IInv
  <2>2. \A h \in Games \ {g} : SessionOf(h)' = SessionOf(h)
    BY <1>2, <1>4 DEF SessionOf, DeleteServer, IInv
  <2>3. [h \in Games |-> SessionOf(h)]' = [[h \in Games |-> SessionOf(h)] EXCEPT ![g] = "none"]
    BY <2>1, <2>2
  <2>4. S!TakeBack(g)
    BY <1>4, <2>1, <2>3 DEF S!TakeBack, DeleteServer
  <2>5. QED BY <2>4 DEF S!Next
<1>5. QED
  BY <1>3, <1>4 DEF Rollback, RollbackStep, RollbackServer, RollbackFirewall, DeleteFirewall

(* A stop job saves the world of a confirmed session.                      *)
LEMMA SavingRefines ==
    ASSUME IInv, NEW w \in Workers, Saving(w)
    PROVE  S!Next \/ UNCHANGED S!sessionVars
<1> PICK g \in Games : g = job[w].game
  BY DEF Saving, StopGame, BackUp, PullGamedata, IInv, StepsMatchJob
<1>1. InLock(w) /\ own[w] = {}
  BY DEF Saving, StopGame, BackUp, PullGamedata, IInv, StepsMatchJob, OwnersDeploy
<1>2. UNCHANGED <<server, job, own>>
  <2>1. UNCHANGED <<server, job>>
    BY DEF Saving, StopGame, BackUp, PullGamedata, StopContainer, SaveCopy
  <2>2. own' = own \/ own' = [own EXCEPT ![w] = @ \cup {}]
    BY DEF Saving, StopGame, BackUp, PullGamedata
  <2>3. QED BY <2>1, <2>2, SameOwn DEF IInv
<1>3. \A h \in Games : SessionOf(h)' = SessionOf(h)
  BY <1>2 DEF SessionOf
<1>4. CASE UNCHANGED behind
  BY <1>3, <1>4, SameSessions
<1>5. ASSUME NEW copy \in Copies, Reachable(g), SaveCopy(g, copy)
      PROVE  S!Next
  <2>1. \A v \in Workers : "server" \in own[v] => job[v].game # g
    BY <1>1, SoleOwner
  <2>2. SessionOf(g) = "live"
    BY <1>5, <2>1 DEF SessionOf, Reachable
  <2>3. [h \in Games |-> SessionOf(h)]' = [h \in Games |-> SessionOf(h)]
    BY <1>3
  <2>4. S!Save(g, copy)
    BY <1>1, <1>5, <2>2, <2>3 DEF S!Save, SaveCopy
  <2>5. QED BY <1>1, <2>4 DEF S!Next
<1>6. QED
  BY <1>4, <1>5 DEF Saving, StopGame, BackUp, PullGamedata, StopContainer

(* It retires the session once every copy is up to date.                   *)
LEMMA TearDownRefines ==
    ASSUME IInv, NEW w \in Workers, TearDown(w)
    PROVE  S!Next \/ UNCHANGED S!sessionVars
<1> PICK g \in Games : g = job[w].game
  BY DEF TearDown, RequestShutdown, Detach, DeleteGameServer, ReapFirewall, IInv, StepsMatchJob
<1>1. InLock(w) /\ own[w] = {}
  BY DEF TearDown, RequestShutdown, Detach, DeleteGameServer, ReapFirewall, IInv, StepsMatchJob,
     OwnersDeploy
<1>2. UNCHANGED <<job, own>>
  <2>1. UNCHANGED job
    BY DEF TearDown, RequestShutdown, Detach, DeleteGameServer, ReapFirewall
  <2>2. own' = own \/ own' = [own EXCEPT ![w] = @ \cup {}]
    BY DEF TearDown, RequestShutdown, Detach, DeleteGameServer, ReapFirewall
  <2>3. QED BY <2>1, <2>2, SameOwn DEF IInv
<1>3. CASE DeleteGameServer(w) /\ CanDeleteServer(g) /\ DeleteServer(g)
  <2>1. \A v \in Workers : "server" \in own[v] => job[v].game # g
    BY <1>1, SoleOwner
  <2>2. SessionOf(g) = "live" /\ SessionOf(g)' = "none"
    BY <1>1, <1>3, <2>1 DEF SessionOf, CanDeleteServer, DeleteServer, IInv
  <2>3. \A h \in Games \ {g} : SessionOf(h)' = SessionOf(h)
    BY <1>2, <1>3 DEF SessionOf, DeleteServer, IInv
  <2>4. [h \in Games |-> SessionOf(h)]' = [[h \in Games |-> SessionOf(h)] EXCEPT ![g] = "none"]
    BY <1>1, <2>2, <2>3
  <2>5. behind[g] = {} BY <1>3 DEF DeleteGameServer, IInv, SavedStaysSaved
  <2>6. UNCHANGED behind BY <1>1, <1>3, <2>5 DEF DeleteServer, IInv
  <2>7. S!Retire(g)
    BY <1>1, <2>2, <2>4, <2>5, <2>6 DEF S!Retire
  <2>8. QED BY <1>1, <2>7 DEF S!Next
<1>4. CASE DeleteGameServer(w) /\ UNCHANGED cloudVars
  <2>1. \A h \in Games : SessionOf(h)' = SessionOf(h)
    BY <1>2, <1>4 DEF SessionOf
  <2>2. QED BY <1>4, <2>1, SameSessions
<1>5. CASE RequestShutdown(w) \/ Detach(w) \/ ReapFirewall(w)
  <2>1. UNCHANGED behind
    BY <1>5 DEF RequestShutdown, Detach, ReapFirewall, Shutdown, DetachVolume, DeleteFirewall
  <2>2. \A h \in Games : server'[h] = "absent" <=> server[h] = "absent"
    BY <1>1, <1>5 DEF RequestShutdown, Detach, ReapFirewall, Shutdown, DetachVolume,
       DeleteFirewall, IInv
  <2>3. \A h \in Games : SessionOf(h)' = SessionOf(h)
    BY <1>2, <2>2 DEF SessionOf
  <2>4. QED BY <2>1, <2>3, SameSessions
<1>6. QED BY <1>3, <1>4, <1>5 DEF TearDown, DeleteGameServer

(* The other steps of a job are none of the session's.                     *)
LEMMA ControlRefines ==
    ASSUME IInv, NEW w \in Workers, Control(w) \/ Records(w)
    PROVE  UNCHANGED S!sessionVars
<1>1. UNCHANGED <<server, behind, job>>
  BY DEF Control, DeployGuard, EnsureSshKey, RenderUserData, LookUp, AwaitServer, FindServer,
     WaitUntilOff, CheckDns, GetProvisioner, Announce, Escapes, Records, Publish, ClearDns, WriteDns
<1>2. own' = own
  BY DEF Control, DeployGuard, EnsureSshKey, RenderUserData, LookUp, AwaitServer, FindServer,
     WaitUntilOff, CheckDns, GetProvisioner, Announce, Escapes, Records, Publish, ClearDns, IInv
<1>3. \A g \in Games : SessionOf(g)' = SessionOf(g)
  BY <1>1, <1>2 DEF SessionOf
<1>4. QED BY <1>1, <1>3, SameSessions

(* Of what happens by itself, only play touches a session.                 *)
LEMMA WorldRefines ==
    ASSUME IInv, NEW g \in Games,
           ForgetOrphanedLock(g) \/ (Environment(g) /\ UNCHANGED <<workerVars, lock>>)
    PROVE  S!Next \/ UNCHANGED S!sessionVars
<1>1. UNCHANGED <<job, own>>
  BY DEF ForgetOrphanedLock
<1>2. \A h \in Games : server'[h] = "absent" <=> server[h] = "absent"
  BY DEF ForgetOrphanedLock, Environment, Boot, Play, GameExit, PowerOff, IInv
<1>3. \A h \in Games : SessionOf(h)' = SessionOf(h)
  BY <1>1, <1>2 DEF SessionOf
<1>4. CASE Play(g)
  <2>1. SessionOf(g) # "none" BY <1>4 DEF Play, SessionOf
  <2>2. [h \in Games |-> SessionOf(h)]' = [h \in Games |-> SessionOf(h)]
    BY <1>3
  <2>3. S!Play(g) BY <1>4, <2>1, <2>2 DEF Play, S!Play
  <2>4. QED BY <2>3 DEF S!Next
<1>5. CASE ~Play(g)
  <2>1. UNCHANGED behind
    BY <1>5 DEF ForgetOrphanedLock, Environment, Boot, GameExit, PowerOff
  <2>2. QED BY <1>3, <2>1, SameSessions
<1>6. QED BY <1>4, <1>5

(* The jobs keep the promise of module Session: what a player is told is   *)
(* live stays until it is saved everywhere.                                *)
THEOREM SessionsKept == Spec => ImplementsSession
<1>1. Init => S!Init
  BY DEF Init, CloudInit, S!Init, SessionOf
<1>2. IInv /\ [Next]_vars => [S!Next]_(S!sessionVars)
  <2> SUFFICES ASSUME IInv, [Next]_vars PROVE S!Next \/ UNCHANGED S!sessionVars
    OBVIOUS
  <2>1. CASE UNCHANGED vars
    <3>1. \A g \in Games : SessionOf(g)' = SessionOf(g) BY <2>1 DEF SessionOf
    <3>2. QED BY <2>1, <3>1, SameSessions
  <2>2. QED
    BY <2>1, NextCases, LifecycleRefines, ControlRefines, CreatingRefines, RollbackRefines,
       SavingRefines, TearDownRefines, WorldRefines
<1>3. QED BY <1>1, <1>2, IInvInductive, PTL DEF Spec, S!Spec, ImplementsSession
=============================================================================
