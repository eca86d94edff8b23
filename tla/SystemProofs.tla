---------------------------- MODULE SystemProofs ----------------------------
(***************************************************************************)
(* The composition of the bot and its workers, for any sets of games,      *)
(* workers, invocations and faults: it keeps everything that is proved of  *)
(* either part alone, since its jobs behave as in module Jobs and its bot  *)
(* as in module Bot.                                                       *)
(***************************************************************************)
EXTENDS System, JobsRefinement, FiniteSetTheorems

USE DEF NoJob, JobSet, cloudVars, workerVars, vars, botVars

(* Only Take and EndJob give a worker a job or take it away.               *)
LEMMA JobIsKept ==
    ASSUME NEW w \in Workers, Acquire(w) \/ JobStep(w)
    PROVE  UNCHANGED job
BY DEF Acquire, JobStep, CheckDns, GetProvisioner, Publish, Announce, ClearDns, Escapes,
   Deploy, Destroy, DeployGuard, EnsureSshKey, ResolveVolume, RenderUserData,
   DeleteStaleFirewall, CreateNewFirewall, LookUp, RequestServer, AwaitServer,
   RollbackServer, RollbackFirewall, RollbackStep, FindServer, StopGame, BackUp,
   PullGamedata, RequestShutdown, WaitUntilOff, Detach, DeleteGameServer, ReapFirewall,
   Call, Query, Raise

(* In the queue only invocations that are waiting, with their commands.    *)
LEMMA QueueTyped ==
    ASSUME ServesInv, queue # <<>>
    PROVE  /\ Head(queue) \in Handlers /\ Head(queue) = queue[1] /\ 1 \in 1..Len(queue)
           /\ botPc[Head(queue)] = "queued" /\ ctx[Head(queue)].command \in JobSet
           /\ Head(queue) \notin running
BY DEF ServesInv, WaitsOrRuns

(* What runs is what the workers serve.                                    *)
LEMMA RunningServed ==
    ASSUME ServesInv, NEW w \in Workers, job[w] # NoJob
    PROVE  serving[w] \in Handlers /\ serving[w] \in running
BY DEF ServesInv, OneServer, running

----------------------------------------------------------------------------
(* Every step of the system is one of the jobs ...                         *)
LEMMA JobsStep ==
    ASSUME ServesInv, [SysNext]_sysVars
    PROVE  [Next]_vars
<1>1. CASE UNCHANGED sysVars BY <1>1 DEF sysVars
<1>2. CASE BotStep \/ Tick BY <1>2 DEF BotStep, Tick
<1>3. CASE Outside BY <1>3 DEF Outside, Next
<1>4. ASSUME NEW w \in Workers, TakeNext(w) PROVE [Next]_vars
  <2> DEFINE c == ctx[Head(queue)].command
  <2>1. c \in JobSet BY <1>4, QueueTyped DEF TakeNext
  <2>2. c.op \in {"start", "stop"} /\ c.game \in Games BY <2>1
  <2>3. Take(w, c.op, c.game) BY <1>4 DEF TakeNext
  <2>4. QED BY <2>2, <2>3 DEF Next
<1>5. ASSUME NEW w \in Workers, JobRuns(w) \/ LockCallFails(w) \/ WorkerDies(w) PROVE [Next]_vars
  <2>1. Run(w) \/ AcquireFails(w) \/ AcquireRetried(w) \/ ReleaseFails(w) \/ Crash(w)
    BY <1>5 DEF JobRuns, LockCallFails, WorkerDies, Run
  <2>2. QED BY <2>1 DEF Next
<1>6. QED BY <1>1, <1>2, <1>3, <1>4, <1>5 DEF SysNext

----------------------------------------------------------------------------
(* No command runs twice                                                   *)

LEMMA ServesInvInit == SysInit => ServesInv
BY SystemAssumption
   DEF SysInit, Init, WorkerInit, B!Init, B!States, ServesInv, OneServer, WaitsOrRuns, running

(* An invocation that is not queued goes on or ends.                       *)
LEMMA InvocationMoves ==
    ASSUME ServesInv, NEW h \in Handlers, NEW to \in B!States, NEW x,
           botPc[h] # "queued", to # "free" => x.command \in JobSet,
           botPc' = [botPc EXCEPT ![h] = to], ctx' = [ctx EXCEPT ![h] = x],
           running' = running, UNCHANGED queue
    PROVE  WaitsOrRuns'
<1> USE DEF ServesInv, WaitsOrRuns
<1>1. botPc' \in [Handlers -> B!States] OBVIOUS
<1>2. ctx' = [k \in Handlers |-> ctx'[k]] OBVIOUS
<1>3. \A k \in Handlers : botPc'[k] # "free" => ctx'[k].command \in JobSet OBVIOUS
<1>4. \A i \in 1..Len(queue) : queue[i] \in Handlers /\ queue[i] # h OBVIOUS
<1>5. h \notin running /\ running \subseteq Handlers BY DEF running
<1>6. QED BY <1>1, <1>2, <1>3, <1>4, <1>5

(* The bot's steps leave the workers alone.                                *)
LEMMA BotKeeps ==
    ASSUME ServesInv, BotStep \/ Tick
    PROVE  ServesInv'
<1> USE DEF B!States, B!Goto, B!Forget
<1>1. OneServer' BY DEF ServesInv, OneServer, BotStep, Tick
<1>2. running' = running BY DEF running, BotStep, Tick
<1>3. ASSUME NEW h \in Handlers, NEW c \in JobSet, NEW allowed \in BOOLEAN, B!Invoke(h, c, allowed)
      PROVE  WaitsOrRuns'
  BY <1>2, <1>3, InvocationMoves DEF B!Invoke
<1>4. ASSUME NEW h \in Handlers, B!Deny(h) \/ B!CoolDown(h) \/ B!Accept(h)
      PROVE  WaitsOrRuns'
  <2>1. /\ botPc[h] = "deferring" /\ UNCHANGED <<ctx, queue>>
        /\ \E to \in {"denied", "cooling", "replying"} : botPc' = [botPc EXCEPT ![h] = to]
    BY <1>4 DEF B!Deny, B!CoolDown, B!Accept
  <2>2. ctx' = [ctx EXCEPT ![h] = ctx[h]] /\ ctx[h].command \in JobSet
    BY <2>1 DEF ServesInv, WaitsOrRuns
  <2>3. QED BY <1>2, <2>1, <2>2, InvocationMoves
<1>5. ASSUME NEW h \in Handlers, B!Refused(h) \/ B!DiscordFails(h) \/ B!RedisFails(h)
      PROVE  WaitsOrRuns'
  <2>1. botPc[h] # "queued" /\ B!Forget(h) /\ UNCHANGED queue
    BY <1>5 DEF B!Refused, B!DiscordFails, B!RedisFails
  <2>2. QED BY <1>2, <2>1, InvocationMoves
<1>6. ASSUME NEW h \in Handlers, B!Enqueue(h)
      PROVE  WaitsOrRuns'
  <2> USE DEF ServesInv, WaitsOrRuns
  <2>1. /\ botPc[h] = "replying" /\ botPc' = [botPc EXCEPT ![h] = "queued"]
        /\ queue' = Append(queue, h) /\ UNCHANGED ctx
    BY <1>6 DEF B!Enqueue
  <2>2. h \notin running /\ running \subseteq Handlers BY <2>1 DEF running
  <2>3. /\ queue' \in Seq(Handlers) /\ Len(queue') = Len(queue) + 1
        /\ \A i \in 1..Len(queue') : queue'[i] = IF i \in 1..Len(queue) THEN queue[i] ELSE h
    BY <2>1
  <2>4. \A i \in 1..Len(queue) : queue[i] \in Handlers /\ queue[i] # h
    BY <2>1
  <2>5. \A i \in 1..Len(queue') : botPc'[queue'[i]] = "queued" /\ queue'[i] \notin running'
    BY <1>2, <2>1, <2>2, <2>3, <2>4
  <2>6. \A i, j \in 1..Len(queue') : queue'[i] = queue'[j] => i = j
    BY <2>1, <2>3, <2>4
  <2>7. QED BY <1>2, <2>1, <2>2, <2>3, <2>5, <2>6
<1>7. ASSUME B!Crash PROVE WaitsOrRuns'
  <2>1. \A h \in Handlers : botPc[h] = "queued" => botPc'[h] = "queued" /\ ctx'[h] = ctx[h]
    BY <1>7 DEF B!Crash
  <2>2. \A h \in Handlers : botPc'[h] # "free" => botPc[h] = "queued"
    BY <1>7 DEF B!Crash
  <2>3. botPc' \in [Handlers -> B!States] /\ ctx' = [h \in Handlers |-> ctx'[h]] /\ UNCHANGED queue
    BY <1>7 DEF B!Crash
  <2>4. running \subseteq Handlers /\ \A i \in 1..Len(queue) : queue[i] \in Handlers
    BY DEF ServesInv, WaitsOrRuns, running
  <2>5. \A h \in Handlers : botPc'[h] # "free" => ctx'[h].command \in JobSet
    BY <2>1, <2>2 DEF ServesInv, WaitsOrRuns
  <2>6. \A i \in 1..Len(queue) : botPc'[queue[i]] = "queued"
    BY <2>1, <2>4 DEF ServesInv, WaitsOrRuns
  <2>7. \A h \in running : botPc'[h] = "queued"
    BY <2>1, <2>4 DEF ServesInv, WaitsOrRuns
  <2>8. QED BY <1>2, <2>3, <2>5, <2>6, <2>7 DEF ServesInv, WaitsOrRuns
<1>8. ASSUME Tick PROVE WaitsOrRuns'
  <2>1. UNCHANGED <<botPc, ctx, queue>> BY <1>8 DEF Tick, B!Tick
  <2>2. QED BY <1>2, <2>1 DEF ServesInv, WaitsOrRuns
<1>9. WaitsOrRuns'
  <2>1. CASE Tick BY <1>8, <2>1
  <2>2. CASE BotStep BY <1>3, <1>4, <1>5, <1>6, <1>7, <2>2 DEF BotStep
  <2>3. QED BY <2>1, <2>2
<1>10. QED BY <1>1, <1>9 DEF ServesInv

(* A worker that takes a job is idle, and the job leaves the queue.        *)
LEMMA TakeKeeps ==
    ASSUME ServesInv, IInv, NEW w \in Workers, TakeNext(w)
    PROVE  ServesInv' /\ running' = running \cup {Head(queue)} /\ serving[w] = NoHandler
<1> DEFINE h == Head(queue)
<1>1. h \in Handlers /\ h \notin running /\ botPc[h] = "queued" /\ h # NoHandler
  BY QueueTyped, SystemAssumption DEF TakeNext
<1>2. job[w] = NoJob /\ serving[w] = NoHandler
  BY DEF TakeNext, Take, IInv, StepsMatchJob, ServesInv, OneServer
<1>3. serving' = [serving EXCEPT ![w] = h] /\ UNCHANGED <<botPc, ctx>> /\ queue' = Tail(queue)
  BY DEF TakeNext
<1>4. job' = [job EXCEPT ![w] = [op |-> ctx[h].command.op, game |-> ctx[h].command.game]]
  BY DEF TakeNext, Take
<1>5. job \in [Workers -> JobSet \cup {NoJob}]
  BY DEF IInv, TypeOK, WorkerTypeOK
<1>6. running' = running \cup {h}
  <2>1. /\ serving \in [Workers -> Handlers \cup {NoHandler}] /\ serving'[w] = h
        /\ \A v \in Workers \ {w} : serving'[v] = serving[v]
    BY <1>3 DEF ServesInv, OneServer
  <2>2. ASSUME NEW k \in Handlers
        PROVE  (\E v \in Workers : serving'[v] = k)
                   <=> (k = h \/ \E v \in Workers : serving[v] = k)
    BY <1>1, <1>2, <2>1, SystemAssumption
  <2>3. QED BY <1>1, <2>2 DEF running
<1>7. [op |-> ctx[h].command.op, game |-> ctx[h].command.game] # NoJob
  <2>1. ctx[h].command \in JobSet BY QueueTyped DEF TakeNext
  <2>2. QED BY <2>1
<1>8. OneServer'
  BY <1>1, <1>2, <1>3, <1>4, <1>5, <1>7 DEF ServesInv, OneServer, running
<1>9. WaitsOrRuns'
  <2>1. queue \in Seq(Handlers) /\ queue # <<>>
    BY DEF ServesInv, WaitsOrRuns, TakeNext
  <2>2. /\ Tail(queue) \in Seq(Handlers) /\ Len(Tail(queue)) = Len(queue) - 1
        /\ \A i \in 1..Len(Tail(queue)) : Tail(queue)[i] = queue[i + 1] /\ i + 1 \in 1..Len(queue)
    BY <2>1
  <2>3. \A i \in 1..Len(Tail(queue)) : Tail(queue)[i] # h
    BY <2>1, <2>2, QueueTyped DEF ServesInv, WaitsOrRuns
  <2>4. QED BY <1>1, <1>3, <1>6, <2>1, <2>2, <2>3 DEF ServesInv, WaitsOrRuns
<1>10. QED BY <1>2, <1>6, <1>8, <1>9 DEF ServesInv

(* A job that is over leaves its worker idle and its invocation forgotten. *)
LEMMA FinishKeeps ==
    ASSUME ServesInv, IInv, NEW w \in Workers, pc[w] # "idle", Finish(w),
           job' = [job EXCEPT ![w] = NoJob]
    PROVE  ServesInv' /\ serving[w] \in running /\ running' = running \ {serving[w]}
<1> DEFINE h == serving[w]
<1>1. job \in [Workers -> JobSet \cup {NoJob}] /\ job[w] # NoJob
  BY DEF IInv, TypeOK, WorkerTypeOK, StepsMatchJob
<1>2. h \in Handlers /\ h \in running /\ h # NoHandler
  BY <1>1, RunningServed, SystemAssumption
<1>3. serving' = [serving EXCEPT ![w] = NoHandler]
  BY DEF Finish
<1>4. running' = running \ {h}
  BY <1>2, <1>3, SystemAssumption DEF running, ServesInv, OneServer
<1>5. OneServer'
  BY <1>1, <1>2, <1>3 DEF ServesInv, OneServer
<1>6. WaitsOrRuns'
  <2> USE DEF ServesInv, WaitsOrRuns
  <2>1. /\ botPc' = [botPc EXCEPT ![h] = "free"] /\ ctx' = [ctx EXCEPT ![h] = B!NoCtx]
        /\ UNCHANGED queue
    BY DEF Finish
  <2>2. botPc' \in [Handlers -> B!States] BY <2>1 DEF B!States
  <2>3. ctx' = [k \in Handlers |-> ctx'[k]] BY <2>1
  <2>4. \A k \in Handlers : botPc'[k] # "free" => ctx'[k].command \in JobSet BY <1>2, <2>1
  <2>5. \A i \in 1..Len(queue) : queue[i] \in Handlers /\ queue[i] # h BY <1>2
  <2>6. running \subseteq Handlers BY DEF running
  <2>7. QED BY <1>2, <1>4, <2>1, <2>2, <2>3, <2>4, <2>5, <2>6
<1>7. QED BY <1>2, <1>4, <1>5, <1>6 DEF ServesInv

(* Which steps end a job.                                                  *)
LEMMA JobEndsWith ==
    ASSUME ServesInv, IInv, NEW w \in Workers, JobRuns(w) \/ LockCallFails(w) \/ WorkerDies(w)
    PROVE  \/ UNCHANGED <<job, botVars, serving>>
           \/ pc[w] # "idle" /\ Finish(w) /\ job' = [job EXCEPT ![w] = NoJob]
BY JobIsKept DEF JobRuns, LockCallFails, WorkerDies, Release, LockWaitTimesOut,
   AcquireFails, AcquireRetried, ReleaseFails, Crash, EndJob

(* The world outside, and steps that touch neither jobs nor invocations.   *)
LEMMA RestKeeps ==
    ASSUME ServesInv, UNCHANGED <<job, botVars, serving>>
    PROVE  ServesInv'
BY DEF ServesInv, OneServer, WaitsOrRuns, running

----------------------------------------------------------------------------
(* No lock leaks                                                           *)

USE DEF InLock, Goto

(* A step of a job proper is taken, and leads, inside the lock.            *)
LEMMA JobStaysInLock ==
    ASSUME WorkerTypeOK, NEW w \in Workers, JobStep(w)
    PROVE  /\ InLock(w) /\ InLock(w)' /\ UNCHANGED <<lock, job>>
           /\ \A v \in Workers \ {w} : InLock(v)' <=> InLock(v)
<1> USE DEF WorkerTypeOK
<1>1. ASSUME NEW at \in Steps \ {"idle", "lock"}, NEW to \in Steps \ {"idle", "lock"},
             pc[w] = at, pc' = [pc EXCEPT ![w] = to]
      PROVE  InLock(w) /\ InLock(w)' /\ \A v \in Workers \ {w} : InLock(v)' <=> InLock(v)
  BY <1>1
<1>2. UNCHANGED <<lock, job>>
  BY JobIsKept DEF JobStep, CheckDns, GetProvisioner, Publish, Announce, ClearDns, Escapes
<1>3. \E at, to \in Steps \ {"idle", "lock"} : pc[w] = at /\ pc' = [pc EXCEPT ![w] = to]
  BY DEF JobStep, CheckDns, GetProvisioner, Publish, Announce, ClearDns, Escapes,
     Deploy, Destroy, DeployGuard, EnsureSshKey, ResolveVolume, RenderUserData,
     DeleteStaleFirewall, CreateNewFirewall, LookUp, RequestServer, AwaitServer,
     RollbackServer, RollbackFirewall, RollbackStep, FindServer, StopGame, BackUp,
     PullGamedata, RequestShutdown, WaitUntilOff, Detach, DeleteGameServer, ReapFirewall, Steps,
     StartSteps, StopSteps, Call, Query, Raise
<1>4. QED BY <1>1, <1>2, <1>3

(* Whoever stays inside or outside of a lock leaves the account as it is.  *)
LEMMA AccountKept ==
    ASSUME LocksAccounted, UNCHANGED <<lock, left>>,
           \A w \in Workers : (InLock(w)' <=> InLock(w)) /\ (InLock(w) => job'[w] = job[w])
    PROVE  LocksAccounted'
BY DEF LocksAccounted, Held

(* A job that takes the lock of its game holds it.                         *)
LEMMA AcquireAccounts ==
    ASSUME IInv, LocksAccounted, NEW w \in Workers, Acquire(w), UNCHANGED left,
           NEW g \in Games, job[w].game = g
    PROVE  LocksAccounted'
<1> USE DEF IInv, TypeOK, WorkerTypeOK, LocksAccounted, Held
<1>1. ~lock[g] /\ lock' = [lock EXCEPT ![g] = TRUE] /\ UNCHANGED job
  BY DEF Acquire
<1>2. InLock(w)' /\ \A v \in Workers \ {w} : InLock(v)' <=> InLock(v)
  BY DEF Acquire
<1>3. ~InLock(w) BY DEF Acquire
<1>4. g \notin left BY <1>1
<1>5. Held(g)' BY <1>1, <1>2
<1>6. \A h \in Games \ {g} : Held(h)' <=> Held(h) BY <1>1, <1>2, <1>3
<1>7. \A h \in Games \ {g} : lock'[h] = lock[h] BY <1>1
<1>8. lock'[g] BY <1>1
<1>9. left \subseteq Games \ {g} /\ UNCHANGED left BY <1>4
<1>10. QED
  <2> HIDE DEF Held
  <2>1. \A h \in Games : lock'[h] => Held(h)' \/ h \in left' BY <1>5, <1>6, <1>7, <1>9
  <2>2. \A h \in left' : lock'[h] /\ ~Held(h)' BY <1>6, <1>7, <1>9
  <2>3. QED BY <1>9, <2>1, <2>2

(* A job that ends inside its lock was the only one there.                 *)
LEMMA EndFreesGame ==
    ASSUME IInv, NEW w \in Workers, InLock(w), EndJob(w), NEW g \in Games, job[w].game = g
    PROVE  /\ lock[g] /\ Held(g) /\ ~Held(g)'
           /\ \A h \in Games \ {g} : Held(h)' <=> Held(h)
<1> USE DEF IInv, TypeOK, WorkerTypeOK, Held
<1>1. lock[g] BY DEF HoldersHaveKeys
<1>2. ~InLock(w)' BY DEF EndJob
<1>3. \A v \in Workers \ {w} : (InLock(v)' <=> InLock(v)) /\ job'[v] = job[v]
  BY DEF EndJob
<1>4. \A v \in Workers \ {w} : ~(InLock(v) /\ job[v].game = g)
  BY DEF MutualExclusion
<1>5. ~Held(g)' BY <1>2, <1>3, <1>4
<1>6. ASSUME NEW h \in Games \ {g} PROVE Held(h)' <=> Held(h)
  BY <1>2, <1>3
<1>7. QED BY <1>1, <1>5, <1>6

(* A job that ends before it has the lock is accounted nowhere.            *)
LEMMA EndOutside ==
    ASSUME IInv, LocksAccounted, NEW w \in Workers, ~InLock(w), EndJob(w), UNCHANGED <<lock, left>>
    PROVE  LocksAccounted'
<1>1. \A v \in Workers : (InLock(v)' <=> InLock(v)) /\ (InLock(v) => job'[v] = job[v])
  BY DEF EndJob, IInv, TypeOK, WorkerTypeOK
<1>2. QED BY <1>1, AccountKept

(* A job that ends inside its lock without giving it back leaves it behind.*)
LEMMA EndLeavesLock ==
    ASSUME IInv, LocksAccounted, NEW w \in Workers, InLock(w), EndJob(w), UNCHANGED lock,
           left' = left \cup {job[w].game}
    PROVE  LocksAccounted'
<1>1. PICK g \in Games : job[w].game = g
  BY DEF IInv, StepsMatchJob, TypeOK, WorkerTypeOK
<1>2. lock[g] /\ ~Held(g)' /\ \A h \in Games \ {g} : Held(h)' <=> Held(h)
  BY <1>1, EndFreesGame
<1>3. QED BY <1>1, <1>2 DEF LocksAccounted

(* A free lock whose key is set by a job that stays outside is left behind.*)
LEMMA StrayKey ==
    ASSUME IInv, LocksAccounted, NEW w \in Workers, pc[w] = "lock", ~lock[job[w].game],
           lock' = [lock EXCEPT ![job[w].game] = TRUE], left' = left \cup {job[w].game},
           EndJob(w) \/ UNCHANGED workerVars
    PROVE  LocksAccounted'
<1>1. PICK g \in Games : job[w].game = g
  BY DEF IInv, StepsMatchJob, TypeOK, WorkerTypeOK
<1>2. \A v \in Workers : (InLock(v)' <=> InLock(v)) /\ (InLock(v) => job'[v] = job[v])
  BY DEF EndJob, IInv, TypeOK, WorkerTypeOK
<1>3. \A h \in Games : Held(h)' <=> Held(h)
  BY <1>2 DEF Held
<1>4. ~Held(g) BY <1>1 DEF Held, IInv, HoldersHaveKeys
<1>5. lock'[g] /\ \A h \in Games \ {g} : lock'[h] = lock[h]
  BY <1>1 DEF IInv, TypeOK
<1>6. left' = left \cup {g} BY <1>1
<1>7. QED
  <2>1. left' \subseteq Games BY <1>6 DEF LocksAccounted
  <2>2. \A h \in Games : lock'[h] => Held(h)' \/ h \in left'
    BY <1>3, <1>5, <1>6 DEF LocksAccounted
  <2>3. \A h \in left' : lock'[h] /\ ~Held(h)'
    BY <1>3, <1>4, <1>5, <1>6 DEF LocksAccounted
  <2>4. QED BY <2>1, <2>2, <2>3 DEF LocksAccounted

LEMMA LocksKept ==
    ASSUME IInv, LocksAccounted, [SysNext]_sysVars
    PROVE  LocksAccounted'
<1>1. CASE UNCHANGED sysVars \/ BotStep \/ Tick
  BY <1>1, AccountKept DEF sysVars, BotStep, Tick
<1>2. ASSUME NEW g \in Games, ForgetOrphanedLock(g), left' = left \ {g} PROVE LocksAccounted'
  <2>1. ~Held(g) /\ \A h \in Games : Held(h)' <=> Held(h)
    BY <1>2 DEF ForgetOrphanedLock, Held
  <2>2. ~lock'[g] /\ \A h \in Games \ {g} : lock'[h] = lock[h]
    BY <1>2 DEF ForgetOrphanedLock, IInv, TypeOK
  <2>3. QED BY <1>2, <2>1, <2>2 DEF LocksAccounted
<1>3. CASE Outside
  <2>1. CASE UNCHANGED <<workerVars, lock, left>> BY <2>1, AccountKept
  <2>2. QED BY <1>2, <1>3, <2>1 DEF Outside
<1>4. ASSUME NEW w \in Workers, TakeNext(w) PROVE LocksAccounted'
  <2>1. /\ pc[w] = "idle" /\ pc' = [pc EXCEPT ![w] = "lock"] /\ UNCHANGED <<lock, left>>
        /\ \A v \in Workers \ {w} : job'[v] = job[v]
    BY <1>4 DEF TakeNext, Take, IInv, TypeOK, WorkerTypeOK
  <2>2. \A v \in Workers : (InLock(v)' <=> InLock(v)) /\ (InLock(v) => job'[v] = job[v])
    BY <2>1 DEF IInv, TypeOK, WorkerTypeOK
  <2>3. QED BY <2>1, <2>2, AccountKept
<1>5. ASSUME NEW w \in Workers, JobRuns(w) PROVE LocksAccounted'
  <2>1. UNCHANGED left BY <1>5 DEF JobRuns
  <2>2. CASE Acquire(w)
    <3>1. job[w].game \in Games BY <2>2 DEF Acquire, IInv, StepsMatchJob, TypeOK, WorkerTypeOK
    <3>2. QED BY <2>1, <2>2, <3>1, AcquireAccounts
  <2>3. CASE JobStep(w)
    BY <2>1, <2>3, JobStaysInLock, AccountKept DEF IInv, TypeOK
  <2>4. CASE Release(w)
    <3>1. InLock(w) /\ EndJob(w) /\ lock' = [lock EXCEPT ![job[w].game] = FALSE]
      BY <2>4 DEF Release
    <3>2. PICK g \in Games : job[w].game = g
      BY <3>1 DEF IInv, StepsMatchJob, TypeOK, WorkerTypeOK
    <3>3. ~lock'[g] /\ \A h \in Games \ {g} : lock'[h] = lock[h]
      BY <3>1, <3>2 DEF IInv, TypeOK
    <3>4. Held(g) /\ ~Held(g)' /\ \A h \in Games \ {g} : Held(h)' <=> Held(h)
      BY <3>1, <3>2, EndFreesGame
    <3>5. QED BY <2>1, <3>3, <3>4 DEF LocksAccounted
  <2>5. CASE LockWaitTimesOut(w)
    BY <2>1, <2>5, EndOutside DEF LockWaitTimesOut
  <2>6. QED BY <1>5, <2>2, <2>3, <2>4, <2>5 DEF JobRuns
<1>6. ASSUME NEW w \in Workers, WorkerDies(w) PROVE LocksAccounted'
  <2>1. EndJob(w) /\ UNCHANGED lock BY <1>6 DEF WorkerDies, Crash
  <2>2. CASE ~InLock(w) BY <1>6, <2>1, <2>2, EndOutside DEF WorkerDies
  <2>3. CASE InLock(w) BY <1>6, <2>1, <2>3, EndLeavesLock DEF WorkerDies
  <2>4. QED BY <2>2, <2>3
<1>7. ASSUME NEW w \in Workers, LockCallFails(w) PROVE LocksAccounted'
  <2>1. CASE ReleaseFails(w) /\ left' = left \cup {job[w].game}
    BY <2>1, EndLeavesLock DEF ReleaseFails
  <2>2. CASE AcquireRetried(w) /\ left' = left \cup {job[w].game}
    BY <2>2, StrayKey DEF AcquireRetried
  <2>3. CASE AcquireFails(w) /\ lock' = lock /\ left' = left
    BY <2>3, EndOutside DEF AcquireFails
  <2>4. CASE AcquireFails(w) /\ lock' # lock /\ left' = left \cup {job[w].game}
    <3>1. pc[w] = "lock" /\ EndJob(w) /\ lock' = [lock EXCEPT ![job[w].game] = TRUE]
      BY <2>4 DEF AcquireFails
    <3>2. ~lock[job[w].game]
      BY <2>4, <3>1 DEF IInv, TypeOK
    <3>3. QED BY <2>4, <3>1, <3>2, StrayKey
  <2>5. QED BY <1>7, <2>1, <2>2, <2>3, <2>4 DEF LockCallFails
<1>8. QED BY <1>1, <1>3, <1>4, <1>5, <1>6, <1>7 DEF SysNext

HIDE DEF InLock, Goto

(* The invariants are inductive together.                                  *)
LEMMA SysInvStep ==
    ASSUME SysInv, IInv, [SysNext]_sysVars
    PROVE  SysInv' /\ IInv'
<1> USE DEF SysInv
<1>1. IInv' BY JobsStep, IInvStep
<1>2. LocksAccounted' BY LocksKept
<1>3. CASE UNCHANGED sysVars \/ Outside
  BY <1>1, <1>2, <1>3, RestKeeps DEF sysVars, Outside, ForgetOrphanedLock
<1>4. CASE BotStep \/ Tick BY <1>1, <1>2, <1>4, BotKeeps
<1>5. ASSUME NEW w \in Workers, TakeNext(w) PROVE SysInv' BY <1>2, <1>5, TakeKeeps
<1>6. ASSUME NEW w \in Workers, JobRuns(w) \/ LockCallFails(w) \/ WorkerDies(w) PROVE SysInv'
  BY <1>2, <1>6, JobEndsWith, FinishKeeps, RestKeeps
<1>7. QED BY <1>1, <1>3, <1>4, <1>5, <1>6 DEF SysNext

(* No accepted command is run twice or by two workers at once, and every   *)
(* lock that is taken is held by the one job inside it or was left behind, *)
(* by a worker that died or a call to Redis that failed as the lock was    *)
(* taken or given back: nothing that happens inside it leaves one behind.  *)
THEOREM SysInvInductive == SysSpec => [](SysInv /\ IInv)
<1>1. SysInit => SysInv /\ IInv
  BY ServesInvInit, IInvInit DEF SysInit, Init, SysInv, LocksAccounted
<1>2. SysInv /\ IInv /\ [SysNext]_sysVars => SysInv' /\ IInv'
  BY SysInvStep
<1>3. QED BY <1>1, <1>2, PTL DEF SysSpec

(* The jobs of the system are those of module Jobs: every theorem about    *)
(* Spec holds of the system.                                               *)
THEOREM JobsAsSpecified == SysSpec => Spec
<1>1. SysInit => Init BY DEF SysInit
<1>2. SysInv /\ [SysNext]_sysVars => [Next]_vars BY JobsStep DEF SysInv
<1>3. QED BY <1>1, <1>2, SysInvInductive, PTL DEF SysSpec, Spec
----------------------------------------------------------------------------
(* The bot's queue and workers are the real ones                           *)

(* While a worker is idle fewer jobs run than there are workers.           *)
LEMMA IdleMeansRoom ==
    ASSUME ServesInv, NEW w \in Workers, serving[w] = NoHandler
    PROVE  Cardinality(running) < Cardinality(Workers)
<1> DEFINE f == [h \in running |-> CHOOSE v \in Workers : serving[v] = h]
<1>1. \A h \in running : f[h] \in Workers \ {w} /\ serving[f[h]] = h
  BY SystemAssumption DEF running
<1>2. f \in Injection(running, Workers \ {w})
  <2>1. f \in [running -> Workers \ {w}] BY <1>1
  <2>2. \A h, k \in running : f[h] = f[k] => h = k BY <1>1
  <2>3. QED BY <2>1, <2>2 DEF Injection, IsInjective
<1>3. /\ IsFiniteSet(Workers \ {w}) /\ Cardinality(Workers \ {w}) = Cardinality(Workers) - 1
      /\ Cardinality(Workers) \in Nat
  BY SystemAssumption, FS_RemoveElement, FS_CardinalityType
<1>4. IsFiniteSet(running) /\ Cardinality(running) <= Cardinality(Workers \ {w})
  BY <1>2, <1>3, FS_Injection
<1>5. Cardinality(running) \in Nat BY <1>4, FS_CardinalityType
<1>6. QED BY <1>3, <1>4, <1>5

(* A step of the system is one of the bot, or does not concern it.         *)
LEMMA BotRefines ==
    ASSUME ServesInv, IInv, [SysNext]_sysVars
    PROVE  [B!Next]_(B!vars)
<1>1. ASSUME UNCHANGED <<botVars, serving>> PROVE [B!Next]_(B!vars)
  BY <1>1 DEF B!vars, running
<1>2. CASE UNCHANGED sysVars \/ Outside
  BY <1>1, <1>2 DEF sysVars, Outside
<1>3. CASE Tick BY <1>3 DEF Tick, B!Next
<1>4. ASSUME BotStep PROVE B!Next
  <2>1. CASE B!Crash BY <2>1 DEF B!Next
  <2>2. ASSUME NEW h \in Handlers, NEW c \in JobSet, NEW allowed \in BOOLEAN, B!Invoke(h, c, allowed)
        PROVE  B!Next
    BY <2>2 DEF B!Next
  <2>3. ASSUME NEW h \in Handlers,
               \/ B!Deny(h) \/ B!CoolDown(h) \/ B!Accept(h) \/ B!Refused(h) \/ B!Enqueue(h)
               \/ B!DiscordFails(h) \/ B!RedisFails(h)
        PROVE  B!Next
    BY <2>3 DEF B!Next
  <2>4. QED BY <1>4, <2>1, <2>2, <2>3 DEF BotStep
<1>5. ASSUME NEW w \in Workers, TakeNext(w) PROVE B!Next
  <2>1. running' = running \cup {Head(queue)} /\ Cardinality(running) < Cardinality(Workers)
    BY <1>5, TakeKeeps, IdleMeansRoom
  <2>2. B!Cardinality(running) = Cardinality(running) BY DEF B!Cardinality, Cardinality
  <2>3. B!RunJob BY <1>5, <2>1, <2>2 DEF TakeNext, B!RunJob
  <2>4. QED BY <2>3 DEF B!Next
<1>6. ASSUME NEW w \in Workers, JobRuns(w) \/ LockCallFails(w) \/ WorkerDies(w)
      PROVE  [B!Next]_(B!vars)
  <2>1. CASE UNCHANGED <<job, botVars, serving>> BY <1>1, <2>1
  <2>2. CASE pc[w] # "idle" /\ Finish(w) /\ job' = [job EXCEPT ![w] = NoJob]
    <3>1. serving[w] \in running /\ running' = running \ {serving[w]} /\ serving[w] \in Handlers
      BY <2>2, FinishKeeps DEF running
    <3>2. B!JobEnds(serving[w])
      BY <2>2, <3>1 DEF Finish, B!JobEnds, B!Forget, B!Goto
    <3>3. QED BY <3>1, <3>2 DEF B!Next
  <2>3. QED BY <1>6, <2>1, <2>2, JobEndsWith
<1>7. QED BY <1>2, <1>3, <1>4, <1>5, <1>6 DEF SysNext

(* The composition implements the specification of the bot, so that what   *)
(* is proved of cooldowns and the queue there holds of the system.         *)
THEOREM BotAsSpecified == SysSpec => ImplementsBot
<1>1. SysInit => B!Init
  BY DEF SysInit
<1>2. SysInv /\ IInv /\ [SysNext]_sysVars => [B!Next]_(B!vars)
  BY BotRefines DEF SysInv
<1>3. QED BY <1>1, <1>2, SysInvInductive, PTL DEF SysSpec, ImplementsBot, B!Spec
----------------------------------------------------------------------------
(* What the composition inherits                                           *)

BP == INSTANCE BotProofs WITH Commands <- JobSet, Workers <- Cardinality(Workers),
                              Faults <- BotFaults, pc <- botPc

(* With the real queue in front of the workers, and whatever the bot, the  *)
(* workers and the commands meet: no two jobs work on one game, no server  *)
(* stands without its firewall, a stop that says "destroyed" has removed   *)
(* server and firewall, one that failed can be repeated, and no server is  *)
(* deleted before what was played on it is saved.                          *)
THEOREM SystemIsSafe ==
    SysSpec => /\ [](MutualExclusion /\ ServerIsFirewalled)
               /\ [](FinishedMeansTornDown /\ StopIsRepeatable)
               /\ NeverDeletesUnsaved
BY JobsAsSpecified, MutuallyExclusive, AlwaysFirewalled, FinishedIsTornDown,
   StopsAreRepeatable, UnsavedIsKept, PTL

(* The sessions the players of the whole system see are those of module    *)
(* Session: what they were told is live stays until it is in every copy.   *)
THEOREM SystemKeepsSessions == SysSpec => ImplementsSession
BY JobsAsSpecified, SessionsKept, PTL

(* Two jobs of one command are accepted a full cooldown apart, with the    *)
(* real workers behind the queue.                                          *)
THEOREM SystemKeepsCooldown == SysSpec => B!CooldownSpacing
<1>1. BP!BotAssumption
  BY SystemAssumption, FS_CardinalityType, FS_EmptySet DEF BP!BotAssumption, BP!FaultKinds
<1>2. B!Init => BP!Init
  BY DEF B!Init, BP!Init, B!NoCtx, BP!NoCtx
<1>3. [B!Next]_(B!vars) => [BP!Next]_(BP!vars)
  BY DEF B!Next, BP!Next, B!vars, BP!vars, B!Invoke, BP!Invoke, B!Deny, BP!Deny,
     B!CoolDown, BP!CoolDown, B!Accept, BP!Accept, B!Refused, BP!Refused,
     B!Enqueue, BP!Enqueue, B!DiscordFails, BP!DiscordFails, B!RedisFails, BP!RedisFails,
     B!JobEnds, BP!JobEnds, B!Crash, BP!Crash, B!RunJob, BP!RunJob, B!Tick, BP!Tick,
     B!Goto, BP!Goto, B!Forget, BP!Forget, B!NoCtx, BP!NoCtx, B!OnCooldown, BP!OnCooldown,
     B!SetCooldown, BP!SetCooldown, B!Cardinality, BP!Cardinality
<1>4. B!Spec => BP!Spec
  BY <1>2, <1>3, PTL DEF B!Spec, BP!Spec
<1>5. BP!Spec => B!CooldownSpacing
  BY <1>1, BP!CooldownHolds DEF BP!CooldownSpacing, B!CooldownSpacing, B!vars, BP!vars
<1>6. QED BY <1>4, <1>5, BotAsSpecified, PTL DEF ImplementsBot
============================================================================
