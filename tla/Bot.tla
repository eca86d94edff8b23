--------------------------------- MODULE Bot ---------------------------------
(***************************************************************************)
(* discord_bot/bot.py with db.py: the slash-command handlers, coroutines   *)
(* of one event loop, the cooldowns they keep in Redis and the RQ queue    *)
(* they feed.  A handler's step runs from one await to the next; between   *)
(* two steps any other handler may run.                                    *)
(***************************************************************************)
EXTENDS Naturals, Sequences, FiniteSets

CONSTANTS
    Commands,   \* a start and a stop of every game
    Handlers,   \* invocations in flight at a time, their jobs included
    Workers,    \* the number of processes that run jobs
    Cooldown,   \* COMMAND_COOLDOWN_SECONDS, in ticks
    Faults      \* the kinds of fault that may happen

FaultKinds == {"discord", "redis", "crash"}

ASSUME BotAssumption ==
    /\ Workers \in Nat \ {0} /\ Cooldown \in Nat \ {0}
    /\ Faults \subseteq FaultKinds

VARIABLES
    pc,         \* where each invocation is
    ctx,        \* its command, and whether its channel is allowed
    ttl,        \* what is left of "cooldown_<command>"; 0: no such key
    age,        \* ticks since the command was last accepted, up to Cooldown
    queue,      \* the RQ queue
    running     \* the jobs workers are running

vars == <<pc, ctx, ttl, age, queue, running>>

Contexts == [command : Commands, allowed : BOOLEAN]
NoCtx == [command |-> "none", allowed |-> FALSE]

States == {"free", "deferring", "denied", "cooling", "replying", "queued"}

TypeOK ==
    /\ pc \in [Handlers -> States]
    /\ ctx \in [Handlers -> Contexts \cup {NoCtx}]
    /\ ttl \in [Commands -> 0..Cooldown]
    /\ age \in [Commands -> 0..Cooldown]
    /\ queue \in Seq(Handlers)
    /\ running \in SUBSET Handlers

Init ==
    /\ pc = [h \in Handlers |-> "free"]
    /\ ctx = [h \in Handlers |-> NoCtx]
    /\ ttl = [c \in Commands |-> 0]
    /\ age = [c \in Commands |-> Cooldown]
    /\ queue = <<>>
    /\ running = {}

----------------------------------------------------------------------------
Goto(h, state) == pc' = [pc EXCEPT ![h] = state]

(* The invocation ends; nothing of it is left.                             *)
Forget(h) == Goto(h, "free") /\ ctx' = [ctx EXCEPT ![h] = NoCtx]

(* db.get_cooldown looks for the key, whatever its value.                  *)
OnCooldown(c) == ttl[c] > 0

(* db.set_cooldown: SET with EX, one command of Redis.                     *)
SetCooldown(c) == ttl' = [ttl EXCEPT ![c] = Cooldown]

(* A slash command arrives; `await ctx.defer()`.                           *)
Invoke(h, c, allowed) ==
    /\ pc[h] = "free"
    /\ Goto(h, "deferring")
    /\ ctx' = [ctx EXCEPT ![h] = [command |-> c, allowed |-> allowed]]
    /\ UNCHANGED <<ttl, age, queue, running>>

(* authorize: a wrong channel is told so before anything else.             *)
Deny(h) ==
    /\ pc[h] = "deferring" /\ ~ctx[h].allowed
    /\ Goto(h, "denied")
    /\ UNCHANGED <<ctx, ttl, age, queue, running>>

(* Mutant: every attempt renews the cooldown.                              *)
CoolDownAgain(h) ==
    /\ pc[h] = "deferring" /\ ctx[h].allowed /\ OnCooldown(ctx[h].command)
    /\ SetCooldown(ctx[h].command)
    /\ Goto(h, "cooling")
    /\ UNCHANGED <<ctx, age, queue, running>>

(* cooldown finds the key; `await ctx.respond` says what is left.          *)
CoolDown(h) ==
    /\ pc[h] = "deferring" /\ ctx[h].allowed /\ OnCooldown(ctx[h].command)
    /\ Goto(h, "cooling")
    /\ UNCHANGED <<ctx, ttl, age, queue, running>>

(* Mutant: the cooldown is taken before the channel is looked at.          *)
AcceptAnywhere(h) ==
    /\ pc[h] = "deferring" /\ ~OnCooldown(ctx[h].command)
    /\ SetCooldown(ctx[h].command)
    /\ age' = [age EXCEPT ![ctx[h].command] = 0]
    /\ Goto(h, IF ctx[h].allowed THEN "replying" ELSE "denied")
    /\ UNCHANGED <<ctx, queue, running>>

(* Mutant: the cooldown is left to be set once the job is queued.          *)
AcceptWithoutCooldown(h) ==
    /\ pc[h] = "deferring" /\ ctx[h].allowed /\ ~OnCooldown(ctx[h].command)
    /\ age' = [age EXCEPT ![ctx[h].command] = 0]
    /\ Goto(h, "replying")
    /\ UNCHANGED <<ctx, ttl, queue, running>>

(* cooldown finds no key and sets it, without an await between the two;    *)
(* `await ctx.respond` acknowledges the command.                           *)
Accept(h) ==
    /\ pc[h] = "deferring" /\ ctx[h].allowed /\ ~OnCooldown(ctx[h].command)
    /\ SetCooldown(ctx[h].command)
    /\ age' = [age EXCEPT ![ctx[h].command] = 0]
    /\ Goto(h, "replying")
    /\ UNCHANGED <<ctx, queue, running>>

(* The denial or the refusal was delivered.                                *)
Refused(h) ==
    /\ pc[h] \in {"denied", "cooling"}
    /\ Forget(h)
    /\ UNCHANGED <<ttl, age, queue, running>>

(* Mutant: the job is put at the front.                                    *)
EnqueueAtFront(h) ==
    /\ pc[h] = "replying"
    /\ queue' = <<h>> \o queue
    /\ Goto(h, "queued")
    /\ UNCHANGED <<ctx, ttl, age, running>>

(* The acknowledgement was delivered; jobs.get_queue().enqueue(job).       *)
Enqueue(h) ==
    /\ pc[h] = "replying"
    /\ queue' = Append(queue, h)
    /\ Goto(h, "queued")
    /\ UNCHANGED <<ctx, ttl, age, running>>

----------------------------------------------------------------------------
(* Faults                                                                  *)

(* A deferral or a response raises: the invocation ends where it is.       *)
DiscordFails(h) ==
    /\ "discord" \in Faults
    /\ pc[h] \in {"deferring", "denied", "cooling", "replying"}
    /\ Forget(h)
    /\ UNCHANGED <<ttl, age, queue, running>>

(* Redis raises in get, set or enqueue; a set may have taken effect.       *)
RedisFails(h) ==
    /\ "redis" \in Faults
    /\ \/ /\ pc[h] = "deferring" /\ ctx[h].allowed
          /\ UNCHANGED ttl \/ (~OnCooldown(ctx[h].command) /\ SetCooldown(ctx[h].command))
       \/ pc[h] = "replying" /\ UNCHANGED ttl
    /\ Forget(h)
    /\ UNCHANGED <<age, queue, running>>

(* The bot dies and restarts: its invocations are gone, what is in Redis   *)
(* stays.                                                                  *)
Crash ==
    /\ "crash" \in Faults
    /\ pc' = [h \in Handlers |-> IF pc[h] = "queued" THEN "queued" ELSE "free"]
    /\ ctx' = [h \in Handlers |-> IF pc[h] = "queued" THEN ctx[h] ELSE NoCtx]
    /\ UNCHANGED <<ttl, age, queue, running>>

----------------------------------------------------------------------------
(* The queue's other end and the clock                                     *)

(* A worker takes the oldest job (module Jobs' Take).                      *)
RunJob ==
    /\ queue # <<>>
    /\ Cardinality(running) < Workers
    /\ running' = running \cup {Head(queue)}
    /\ queue' = Tail(queue)
    /\ UNCHANGED <<pc, ctx, ttl, age>>

(* The job ends, however it does.                                          *)
JobEnds(h) ==
    /\ h \in running
    /\ running' = running \ {h}
    /\ Forget(h)
    /\ UNCHANGED <<ttl, age, queue>>

Tick ==
    /\ ttl' = [c \in Commands |-> IF ttl[c] = 0 THEN 0 ELSE ttl[c] - 1]
    /\ age' = [c \in Commands |-> IF age[c] = Cooldown THEN Cooldown ELSE age[c] + 1]
    /\ UNCHANGED <<pc, ctx, queue, running>>

Next ==
    \/ \E h \in Handlers :
        \/ \E c \in Commands, allowed \in BOOLEAN : Invoke(h, c, allowed)
        \/ Deny(h) \/ CoolDown(h) \/ Accept(h) \/ Refused(h) \/ Enqueue(h)
        \/ DiscordFails(h) \/ RedisFails(h) \/ JobEnds(h)
    \/ Crash \/ RunJob \/ Tick

Spec == Init /\ [][Next]_vars

(* Time passes.  Nothing is assumed of players, Discord, the bot or the    *)
(* workers; that they do what is queued is module System's.                *)
FairSpec == Spec /\ WF_vars(Tick)

----------------------------------------------------------------------------
(* Two acceptances of a command are a cooldown apart, whatever other       *)
(* invocations, restarts of the bot and Redis errors come between.         *)
CooldownSpacing ==
    [][\A h \in Handlers :
          pc[h] = "deferring" /\ pc'[h] = "replying" => age[ctx[h].command] = Cooldown]_vars

(* An invocation from another channel keeps nobody waiting: no step of it  *)
(* touches a cooldown or the queue.                                        *)
DeniedHasNoEffect ==
    [][\A h \in Handlers :
          pc[h] # "free" /\ ~ctx[h].allowed /\ pc'[h] # pc[h] => UNCHANGED <<ttl, queue>>]_vars

(* Every cooldown ends, also of a command that is tried again and again.   *)
CooldownEnds == \A c \in Commands : ttl[c] > 0 ~> ttl[c] = 0

----------------------------------------------------------------------------
(* The inductive invariant: the key outlives the cooldown it stands for.   *)
CooldownKept == \A c \in Commands : ttl[c] + age[c] >= Cooldown

(* Only an allowed invocation gets past authorize.                         *)
OnlyAllowedReply == \A h \in Handlers : pc[h] \in {"replying", "queued"} => ctx[h].allowed

BInv == TypeOK /\ CooldownKept /\ OnlyAllowedReply
=============================================================================
