------------------------------- MODULE BotProofs -------------------------------
(***************************************************************************)
(* The cooldown holds for any commands, number of invocations in flight,   *)
(* workers and faults: the Redis key outlives the cooldown it stands for.  *)
(***************************************************************************)
EXTENDS Bot, TLAPS

USE BotAssumption
USE DEF vars, Contexts, NoCtx, States, TypeOK, CooldownKept, OnlyAllowedReply, BInv, Goto, Forget

(* A step of one invocation.                                               *)
LEMMA InvocationPreserves ==
    ASSUME BInv, NEW h \in Handlers,
           \/ \E c \in Commands, allowed \in BOOLEAN : Invoke(h, c, allowed)
           \/ Deny(h) \/ CoolDown(h) \/ Accept(h) \/ Refused(h) \/ Enqueue(h)
           \/ DiscordFails(h) \/ RedisFails(h) \/ JobEnds(h)
    PROVE  BInv'
<1>1. ASSUME NEW c \in Commands, NEW allowed \in BOOLEAN, Invoke(h, c, allowed) PROVE BInv'
  BY <1>1 DEF Invoke
<1>2. CASE Deny(h) \/ CoolDown(h) \/ Refused(h) \/ DiscordFails(h)
  BY <1>2 DEF Deny, CoolDown, Refused, DiscordFails
<1>3. CASE Accept(h)
  BY <1>3 DEF Accept, OnCooldown, SetCooldown
<1>4. CASE Enqueue(h)
  BY <1>4 DEF Enqueue
<1>5. CASE RedisFails(h)
  <2>1. CASE UNCHANGED ttl
    BY <1>5, <2>1 DEF RedisFails
  <2>2. CASE ctx[h].allowed /\ SetCooldown(ctx[h].command)
    <3>1. ctx[h].command \in Commands
      BY <2>2
    <3>2. ttl' \in [Commands -> 0..Cooldown]
      BY <2>2, <3>1 DEF SetCooldown
    <3>3. CooldownKept'
      BY <1>5, <2>2, <3>1 DEF SetCooldown, RedisFails
    <3>4. QED BY <1>5, <3>2, <3>3 DEF RedisFails
  <2>3. QED BY <1>5, <2>1, <2>2 DEF RedisFails
<1>6. CASE JobEnds(h)
  BY <1>6 DEF JobEnds
<1>7. QED BY <1>1, <1>2, <1>3, <1>4, <1>5, <1>6

(* The bot's death, the queue's other end, the clock.                      *)
LEMMA RestPreserves ==
    ASSUME BInv, Crash \/ RunJob \/ Tick
    PROVE  BInv'
<1>1. CASE Crash BY <1>1 DEF Crash
<1>2. CASE RunJob
  <2>1. Head(queue) \in Handlers /\ Tail(queue) \in Seq(Handlers)
    BY <1>2 DEF RunJob
  <2>2. QED BY <1>2, <2>1 DEF RunJob
<1>3. CASE Tick BY <1>3 DEF Tick
<1>4. QED BY <1>1, <1>2, <1>3

(* Together with its age a cooldown's key always covers the full time.     *)
THEOREM BInvInductive == Spec => []BInv
<1>1. Init => BInv
  BY DEF Init
<1>2. BInv /\ [Next]_vars => BInv'
  <2>1. ASSUME BInv, UNCHANGED vars PROVE BInv'
    BY <2>1
  <2>2. QED BY <2>1, InvocationPreserves, RestPreserves DEF Next
<1>3. QED BY <1>1, <1>2, PTL DEF Spec

(* A command is accepted when its key is gone, that is after a cooldown.   *)
THEOREM CooldownHolds == Spec => CooldownSpacing
<1>1. BInv /\ [Next]_vars =>
        \A h \in Handlers :
            pc[h] = "deferring" /\ pc'[h] = "replying" => age[ctx[h].command] = Cooldown
  <2> SUFFICES ASSUME BInv, [Next]_vars, NEW h \in Handlers,
                      pc[h] = "deferring", pc'[h] = "replying"
               PROVE  age[ctx[h].command] = Cooldown
    OBVIOUS
  <2>1. Accept(h)
    BY DEF Next, Invoke, Deny, CoolDown, Accept, Refused, Enqueue, DiscordFails, RedisFails,
       JobEnds, Crash, RunJob, Tick
  <2>2. ctx[h].command \in Commands
    BY <2>1 DEF Accept
  <2>3. QED BY <2>1, <2>2 DEF Accept, OnCooldown
<1>2. QED BY <1>1, BInvInductive, PTL DEF Spec, CooldownSpacing

(* An invocation from a wrong channel never gets as far as the queue or    *)
(* the cooldown.                                                           *)
THEOREM DeniedIsHarmless == Spec => DeniedHasNoEffect
<1>1. BInv /\ [Next]_vars =>
        \A h \in Handlers :
            pc[h] # "free" /\ ~ctx[h].allowed /\ pc'[h] # pc[h] => UNCHANGED <<ttl, queue>>
  <2> SUFFICES ASSUME BInv, [Next]_vars, NEW h \in Handlers,
                      pc[h] # "free", ~ctx[h].allowed, pc'[h] # pc[h]
               PROVE  UNCHANGED <<ttl, queue>>
    OBVIOUS
  <2>1. CASE Crash \/ RunJob \/ Tick
    BY <2>1 DEF Crash, RunJob, Tick
  <2>2. ASSUME NEW k \in Handlers,
               \/ \E c \in Commands, allowed \in BOOLEAN : Invoke(k, c, allowed)
               \/ Deny(k) \/ CoolDown(k) \/ Accept(k) \/ Refused(k) \/ Enqueue(k)
               \/ DiscordFails(k) \/ RedisFails(k) \/ JobEnds(k)
        PROVE  UNCHANGED <<ttl, queue>>
    <3>1. k = h
      BY <2>2 DEF Invoke, Deny, CoolDown, Accept, Refused, Enqueue, DiscordFails, RedisFails, JobEnds
    <3>2. QED
      BY <2>2, <3>1 DEF Invoke, Deny, CoolDown, Accept, Refused, Enqueue, DiscordFails, RedisFails,
         JobEnds
  <2>3. QED BY <2>1, <2>2 DEF Next
<1>2. QED BY <1>1, BInvInductive, PTL DEF Spec, DeniedHasNoEffect
=============================================================================
