------------------------------- MODULE System -------------------------------
(***************************************************************************)
(* The bot and its job runner together: the slash commands of module Bot   *)
(* feed the queue from which the workers of module Jobs take their jobs.   *)
(* The two share nothing else.                                             *)
(***************************************************************************)
EXTENDS Jobs, Naturals, Sequences, FiniteSets

CONSTANTS
    Handlers,   \* invocations in flight at a time, their jobs included
    NoHandler,  \* a worker serves none
    Cooldown,   \* COMMAND_COOLDOWN_SECONDS, in ticks
    BotFaults   \* the kinds of fault the bot may meet

ASSUME SystemAssumption ==
    /\ IsFiniteSet(Workers) /\ Workers # {}
    /\ NoHandler \notin Handlers
    /\ Cooldown \in Nat \ {0}
    /\ BotFaults \subseteq {"discord", "redis", "crash"}

VARIABLES
    botPc, ctx, ttl, age, queue,    \* module Bot's
    serving,                        \* the invocation whose job a worker runs
    lost,                           \* the invocation whose job the last step
                                    \* ended in the middle, if it did
    left                            \* games whose lock was left behind, by a worker
                                    \* that died or a call to Redis that failed

botVars == <<botPc, ctx, ttl, age, queue>>
sysVars == <<vars, botVars, serving, lost, left>>

running == {h \in Handlers : \E w \in Workers : serving[w] = h}

B == INSTANCE Bot WITH Commands <- JobSet, Workers <- Cardinality(Workers),
                       Faults <- BotFaults, pc <- botPc

SysInit ==
    /\ Init
    /\ serving = [w \in Workers |-> NoHandler]
    /\ lost = {} /\ left = {}
    /\ B!Init

----------------------------------------------------------------------------
(* The bot's own steps                                                     *)
BotStep ==
    /\ UNCHANGED <<vars, serving, left>>
    /\ lost' = {}
    /\ \/ \E h \in Handlers :
            \/ \E c \in JobSet, allowed \in BOOLEAN : B!Invoke(h, c, allowed)
            \/ B!Deny(h) \/ B!CoolDown(h) \/ B!Accept(h) \/ B!Refused(h) \/ B!Enqueue(h)
            \/ B!DiscordFails(h) \/ B!RedisFails(h)
       \/ B!Crash

Tick ==
    /\ UNCHANGED <<vars, serving, left>>
    /\ lost' = {}
    /\ B!Tick

(* Mutant: the newest job first.                                           *)
TakeNewest(w) ==
    /\ queue # <<>>
    /\ LET h == queue[Len(queue)] IN
        /\ Take(w, ctx[h].command.op, ctx[h].command.game)
        /\ serving' = [serving EXCEPT ![w] = h]
    /\ queue' = SubSeq(queue, 1, Len(queue) - 1)
    /\ lost' = {}
    /\ UNCHANGED <<botPc, ctx, ttl, age, left>>

(* Mutant: a job stays in the queue while it runs.                         *)
TakeAndKeep(w) ==
    /\ queue # <<>>
    /\ LET h == Head(queue) IN
        /\ Take(w, ctx[h].command.op, ctx[h].command.game)
        /\ serving' = [serving EXCEPT ![w] = h]
    /\ lost' = {}
    /\ UNCHANGED <<botVars, left>>

(* An idle worker takes the oldest job of the queue.                       *)
TakeNext(w) ==
    /\ queue # <<>>
    /\ LET h == Head(queue) IN
        /\ Take(w, ctx[h].command.op, ctx[h].command.game)
        /\ serving' = [serving EXCEPT ![w] = h]
    /\ queue' = Tail(queue)
    /\ lost' = {}
    /\ UNCHANGED <<botPc, ctx, ttl, age, left>>

(* However a job ends, RQ does not run it again.                           *)
Finish(w) ==
    /\ serving' = [serving EXCEPT ![w] = NoHandler]
    /\ botPc' = [botPc EXCEPT ![serving[w]] = "free"]
    /\ ctx' = [ctx EXCEPT ![serving[w]] = B!NoCtx]
    /\ UNCHANGED <<ttl, age, queue>>

JobRuns(w) ==
    /\ \/ (Acquire(w) \/ JobStep(w)) /\ UNCHANGED <<botVars, serving>> /\ lost' = {}
       \/ Release(w) /\ Finish(w) /\ lost' = {}
       \/ LockWaitTimesOut(w) /\ Finish(w) /\ lost' = {serving[w]}
    /\ UNCHANGED left

WorkerDies(w) ==
    /\ Crash(w) /\ Finish(w)
    /\ lost' = {serving[w]}
    /\ left' = IF InLock(w) THEN left \cup {job[w].game} ELSE left

(* The lock's own calls fail.  A job that got no lock is over, or waits    *)
(* for the key it has set itself; one that keeps its lock was done.        *)
LockCallFails(w) ==
    LET g == job[w].game IN
    \/ /\ AcquireFails(w) /\ Finish(w) /\ lost' = {serving[w]}
       /\ left' = IF lock' = lock THEN left ELSE left \cup {g}
    \/ /\ AcquireRetried(w) /\ UNCHANGED <<botVars, serving>> /\ lost' = {}
       /\ left' = left \cup {g}
    \/ /\ ReleaseFails(w) /\ Finish(w) /\ lost' = {}
       /\ left' = left \cup {g}

Outside ==
    /\ \E g \in Games :
        \/ ForgetOrphanedLock(g) /\ left' = left \ {g}
        \/ Environment(g) /\ UNCHANGED <<workerVars, lock, left>>
    /\ lost' = {}
    /\ UNCHANGED <<botVars, serving>>

SysNext ==
    \/ BotStep \/ Tick \/ Outside
    \/ \E w \in Workers :
            TakeNext(w) \/ JobRuns(w) \/ LockCallFails(w) \/ WorkerDies(w)

SysSpec == SysInit /\ [][SysNext]_sysVars

(* What FairSpec of Jobs assumes, and that time passes and idle workers    *)
(* take jobs.  That jobs end is no assumption here.                        *)
SysFairSpec ==
    /\ SysSpec
    /\ WF_sysVars(Tick)
    /\ \A w \in Workers : WF_sysVars(TakeNext(w) \/ JobRuns(w))

----------------------------------------------------------------------------
(* The composition does what module Bot says of the bot: its queue and     *)
(* its workers are the real ones.                                          *)
ImplementsBot == B!Spec

(* A command's job has come to an end that the channel was told of, or met *)
(* one of the errors that no handler of start_server or stop_server sees.  *)
Answered(h) ==
    \E w \in Workers :
        /\ serving[w] = h /\ pc[w] = "release"
        /\ outcome[w] # "none" \/ failedIn[w] \cap {"dns", "config"} # {}

(* What is in the queue is run and answered, however many other commands   *)
(* come in, whatever the bot, the workers and the jobs before it met,      *)
(* unless its own worker dies, or it never gets its lock because Redis     *)
(* fails or RQ's job timeout ends the wait.                                *)
QueuedIsAnswered ==
    \A h \in Handlers : botPc[h] = "queued" ~> Answered(h) \/ h \in lost

(* Whatever happens inside the `with` statement (a refusal, a failure, a   *)
(* rollback, a timeout, an error nothing handles), the lock comes free.    *)
(* Left behind it is only by a worker that dies there, or by a failing     *)
(* call to Redis at the statement's entry or exit.                         *)
LockComesFree == \A g \in Games : lock[g] ~> ~lock[g] \/ g \in left

----------------------------------------------------------------------------
(* The inductive invariant                                                 *)

(* A worker that has a job serves the invocation it is for, and nobody     *)
(* else does.                                                              *)
OneServer ==
    /\ serving \in [Workers -> Handlers \cup {NoHandler}]
    /\ \A w \in Workers : serving[w] = NoHandler <=> job[w] = NoJob
    /\ \A v, w \in Workers : serving[v] = serving[w] /\ serving[v] # NoHandler => v = w

(* An accepted command waits once, or runs, and is remembered meanwhile.   *)
WaitsOrRuns ==
    /\ queue \in Seq(Handlers)
    /\ botPc \in [Handlers -> B!States]
    /\ ctx = [h \in Handlers |-> ctx[h]]
    /\ \A h \in Handlers : botPc[h] # "free" => ctx[h].command \in JobSet
    /\ \A i \in 1..Len(queue) : botPc[queue[i]] = "queued" /\ queue[i] \notin running
    /\ \A i, j \in 1..Len(queue) : queue[i] = queue[j] => i = j
    /\ \A h \in running : botPc[h] = "queued"

ServesInv == OneServer /\ WaitsOrRuns

(* A job of game g is inside its `with` statement.                         *)
Held(g) == \E w \in Workers : InLock(w) /\ job[w].game = g

(* A lock that is taken is held by the one job that runs inside it, or was *)
(* left behind and is held by nobody.                                      *)
LocksAccounted ==
    /\ left \subseteq Games
    /\ \A g \in Games : lock[g] => Held(g) \/ g \in left
    /\ \A g \in left : lock[g] /\ ~Held(g)

(* No accepted command is run twice or by two workers, and every lock is   *)
(* accounted for, whenever the bot or a worker dies or Redis fails.        *)
SysInv == ServesInv /\ LocksAccounted
=============================================================================
