-------------------------------- MODULE Jobs --------------------------------
(***************************************************************************)
(* discord_bot/jobs.py: start_server and stop_server, run by any number of *)
(* RQ workers under one Redis lock per game, composed with the provider,   *)
(* the virtual machines and the players of module Cloud.                   *)
(***************************************************************************)
EXTENDS Provisioner

VARIABLE lock   \* lock[g]: the key "<game>_server" exists in Redis

vars == <<cloudVars, workerVars, lock>>

TypeOK ==
    /\ CloudTypeOK
    /\ WorkerTypeOK
    /\ lock \in [Games -> BOOLEAN]

Init ==
    /\ CloudInit
    /\ WorkerInit
    /\ lock = [g \in Games |-> FALSE]

(* Inside `with db.get_redis().lock(lock_name)`.                           *)
InLock(w) == pc[w] \notin {"idle", "lock"}

----------------------------------------------------------------------------
(* RQ hands a worker a job; the queue that feeds it is the bot's.          *)
Take(w, op, g) ==
    /\ pc[w] = "idle"
    /\ job' = [job EXCEPT ![w] = [op |-> op, game |-> g]]
    /\ Goto(w, "lock")
    /\ UNCHANGED <<cloudVars, own, outcome, failedIn, lock>>

(* Mutant: the key has an expiry, so a holder may not be the only one.     *)
AcquireAnyway(w) ==
    LET g == job[w].game IN
    /\ pc[w] = "lock"
    /\ lock' = [lock EXCEPT ![g] = TRUE]
    /\ Goto(w, IF job[w].op = "start" THEN "dns_check" ELSE "announce")
    /\ UNCHANGED <<cloudVars, job, own, outcome, failedIn>>

(* `with db.get_redis().lock(lock_name)`: a blocking acquire of a key      *)
(* without an expiry.  It may also fail, see AcquireFails.                 *)
Acquire(w) ==
    LET g == job[w].game IN
    /\ pc[w] = "lock" /\ ~lock[g]
    /\ lock' = [lock EXCEPT ![g] = TRUE]
    /\ Goto(w, IF job[w].op = "start" THEN "dns_check" ELSE "announce")
    /\ UNCHANGED <<cloudVars, job, own, outcome, failedIn>>

EndJob(w) ==
    /\ Goto(w, "idle")
    /\ job' = [job EXCEPT ![w] = NoJob]
    /\ own' = [own EXCEPT ![w] = {}]
    /\ outcome' = [outcome EXCEPT ![w] = "none"]
    /\ failedIn' = [failedIn EXCEPT ![w] = {}]
    /\ UNCHANGED cloudVars

(* The `with` statement deletes the key however its body ends ...          *)
Release(w) ==
    /\ pc[w] = "release"
    /\ lock' = [lock EXCEPT ![job[w].game] = FALSE]
    /\ EndJob(w)

(* ... unless that call fails: Redis is away, or RQ's job timeout comes    *)
(* before the key is deleted.  The job is over and the key stays.          *)
ReleaseFails(w) ==
    /\ pc[w] = "release" /\ "redis" \in Faults
    /\ EndJob(w)
    /\ UNCHANGED lock

(* The acquire raises, on an error of Redis or by RQ's job timeout, and    *)
(* the body is never entered.  The key may have been set all the same.     *)
AcquireFails(w) ==
    /\ pc[w] = "lock" /\ "redis" \in Faults
    /\ lock' \in {lock, [lock EXCEPT ![job[w].game] = TRUE]}
    /\ EndJob(w)

(* redis-py repeats the acquire whose answer was lost, finds the key that  *)
(* its first attempt has set, and waits for whoever holds it.              *)
AcquireRetried(w) ==
    LET g == job[w].game IN
    /\ pc[w] = "lock" /\ "redis" \in Faults
    /\ ~lock[g] /\ lock' = [lock EXCEPT ![g] = TRUE]
    /\ UNCHANGED <<cloudVars, workerVars>>

(* RQ's job timeout ends the wait: nothing is reported, nothing retried.   *)
LockWaitTimesOut(w) ==
    /\ pc[w] = "lock" /\ "lock_wait" \in Faults
    /\ EndJob(w)
    /\ UNCHANGED lock

(* The worker dies; the job is lost and a key it holds stays in Redis.     *)
Crash(w) ==
    /\ "crash" \in Faults /\ pc[w] # "idle"
    /\ EndJob(w)
    /\ UNCHANGED lock

(* Someone deletes a key that was left behind and no job holds.            *)
ForgetOrphanedLock(g) ==
    /\ lock[g]
    /\ \A w \in Workers : ~(InLock(w) /\ job[w].game = g)
    /\ lock' = [lock EXCEPT ![g] = FALSE]
    /\ UNCHANGED <<cloudVars, workerVars>>

----------------------------------------------------------------------------
(* Mutant: the lock is released after the body, not by a `with`.           *)
EscapesWithLock(w, fault) ==
    /\ fault \in Faults
    /\ EndJob(w)
    /\ UNCHANGED lock

(* A step of the job itself that may raise.  An exception nothing catches  *)
(* ends the job with nothing reported.                                     *)
Escapes(w, fault) ==
    /\ fault \in Faults
    /\ Meets(w, fault)
    /\ Goto(w, "release")
    /\ UNCHANGED <<cloudVars, job, own, outcome, lock>>

(* dns.client_from_env().check(): a start needs working DNS.               *)
CheckDns(w) ==
    /\ pc[w] = "dns_check"
    /\ \/ /\ Goto(w, "start_prov")
          /\ UNCHANGED <<cloudVars, job, own, outcome, failedIn, lock>>
       \/ /\ "dns" \in Faults
          /\ Meets(w, "dns")
          /\ Report(w, "dns_invalid")
          /\ Goto(w, "release")
          /\ UNCHANGED <<cloudVars, job, own, lock>>
       \/ Escapes(w, "dns")

(* get_provisioner() stands outside the `try`.                             *)
GetProvisioner(w, at, next) ==
    /\ pc[w] = at
    /\ \/ /\ Goto(w, next)
          /\ UNCHANGED <<cloudVars, job, own, outcome, failedIn, lock>>
       \/ Escapes(w, "config")

(* client.publish: a DnsError, with the records written or not, only warns.*)
Publish(w) ==
    LET g == job[w].game IN
    /\ pc[w] = "publish"
    /\ \/ /\ WriteDns(g, "current") /\ UNCHANGED failedIn
          /\ Report(w, "started")
       \/ /\ "dns" \in Faults /\ Meets(w, "dns")
          /\ WriteDns(g, "current") \/ UNCHANGED cloudVars
          /\ Report(w, "started") \/ UNCHANGED outcome
    /\ Goto(w, "release")
    /\ UNCHANGED <<job, own, lock>>

(* The "shutting down" message and dns.client_from_env: without a DNS      *)
(* configuration (then "dns" \in failedIn) the teardown still goes ahead.  *)
Announce(w) ==
    /\ pc[w] = "announce"
    /\ \/ UNCHANGED failedIn
       \/ "dns" \in Faults /\ Meets(w, "dns")
    /\ Goto(w, "stop_prov")
    /\ UNCHANGED <<cloudVars, job, own, outcome, lock>>

(* client.clear if there is a client, then the "destroyed" message.        *)
ClearDns(w) ==
    LET g == job[w].game IN
    /\ pc[w] = "clear"
    /\ \/ /\ "dns" \notin failedIn[w]
          /\ WriteDns(g, "none") /\ UNCHANGED failedIn
          /\ Report(w, "finished")
       \/ /\ "dns" \in failedIn[w]
          /\ UNCHANGED <<cloudVars, failedIn>>
          /\ Report(w, "finished")
       \/ /\ "dns" \in Faults \ failedIn[w] /\ Meets(w, "dns")
          /\ WriteDns(g, "none") \/ UNCHANGED cloudVars
          /\ Report(w, "finished") \/ UNCHANGED outcome
    /\ Goto(w, "release")
    /\ UNCHANGED <<job, own, lock>>

JobStep(w) ==
    \/ CheckDns(w) \/ GetProvisioner(w, "start_prov", "guard") \/ Publish(w)
    \/ Announce(w) \/ GetProvisioner(w, "stop_prov", "find") \/ ClearDns(w)
    \/ (Deploy(w) \/ Destroy(w)) /\ UNCHANGED lock

----------------------------------------------------------------------------
Run(w) == Acquire(w) \/ LockWaitTimesOut(w) \/ JobStep(w) \/ Release(w)

Next ==
    \/ \E w \in Workers :
        \/ \E op \in {"start", "stop"}, g \in Games : Take(w, op, g)
        \/ Run(w)
        \/ AcquireFails(w) \/ AcquireRetried(w) \/ ReleaseFails(w) \/ Crash(w)
    \/ \E g \in Games :
        \/ ForgetOrphanedLock(g)
        \/ Environment(g) /\ UNCHANGED <<workerVars, lock>>

Spec == Init /\ [][Next]_vars

(* A job that can take a step takes one: every wait inside it is bounded,  *)
(* by the call's own timeout or by the job timeout of RQ.  Nothing is      *)
(* assumed of players, guests, operators, Redis, crashes or new commands.  *)
FairSpec == Spec /\ \A w \in Workers : WF_vars(Run(w))

----------------------------------------------------------------------------
(* Safety                                                                  *)

(* Two jobs of one game never work at the same time, whatever crashed,     *)
(* timed out or was cleaned up before.                                     *)
MutualExclusion ==
    \A w1, w2 \in Workers :
        InLock(w1) /\ InLock(w2) /\ job[w1].game = job[w2].game => w1 = w2

(* The rollback of the deploy that created g's server.                     *)
TakesBack(w, g) == pc[w] = "rb_server" /\ job[w].game = g /\ "server" \in own[w]

(* destroy's order: a server goes away only when restic and the mirror     *)
(* both hold its latest world, or with the deploy that made it.            *)
NeverDeletesUnsaved ==
    [][\A g \in Games :
          server[g] # "absent" /\ server'[g] = "absent" =>
              behind[g] = {} \/ \E w \in Workers : TakesBack(w, g)]_vars

(* An install volume leaves a server only once that is off: destroy never  *)
(* detaches it, or deletes the server under it, while the guest runs.      *)
DetachesOnlyWhenOff ==
    [][\A g \in Games :
          volume[g] = "attached" /\ volume'[g] # "attached" =>
              server[g] = "off" \/ \E w \in Workers : TakesBack(w, g)]_vars

(* A start of a game that already has a server, even one that raced past   *)
(* its guard, leaves the server, its resources and its records alone.      *)
StartNeverDisturbsLive ==
    [][\A w \in Workers, g \in Games :
          /\ InLock(w) /\ job[w] = [op |-> "start", game |-> g]
          /\ server[g] # "absent" /\ "server" \notin own[w]
          => /\ server'[g] # "absent" /\ dns'[g] = dns[g]
             /\ firewall'[g] = firewall[g] /\ volume'[g] = volume[g]]_vars

(* A machine on the Internet has its game's firewall, from creation to     *)
(* deletion, also across failed and half-finished jobs.                    *)
ServerIsFirewalled == \A g \in Games : server[g] # "absent" => firewall[g] = "present"

(* A start that met no fault ends with a server, whatever an earlier job   *)
(* left behind: a stale firewall, a volume, old records.                   *)
CleanStartServes ==
    \A w \in Workers :
        pc[w] = "release" /\ job[w].op = "start" /\ failedIn[w] = {} =>
            /\ outcome[w] \in {"started", "refused"}
            /\ server[job[w].game] # "absent"

(* A start whose channel is told of no failure but one of its records has  *)
(* a server, and the name resolves to it unless the DNS API failed.  The   *)
(* exception is an error that start_server does not handle, in its DNS     *)
(* calls or get_provisioner: then nothing is posted at all.                *)
QuietStartMeansServing ==
    \A w \in Workers :
        LET g == job[w].game IN
        /\ pc[w] = "release" /\ job[w].op = "start" /\ outcome[w] \in {"none", "started"}
        => \/ server[g] # "absent" /\ ("dns" \in failedIn[w] \/ dns[g] = "current")
           \/ outcome[w] = "none" /\ failedIn[w] \cap {"dns", "config"} # {}

(* "Destroyed" is posted only when server and firewall are gone, and the   *)
(* records too unless a warning was posted.                                *)
FinishedMeansTornDown ==
    \A w \in Workers :
        pc[w] = "release" /\ outcome[w] = "finished" =>
            /\ server[job[w].game] = "absent" /\ firewall[job[w].game] = "absent"
            /\ "dns" \in failedIn[w] \/ dns[job[w].game] = "none"

(* A deploy that reports "Failed to start" has taken back what it created, *)
(* unless taking it back failed too.                                       *)
RollbackComplete ==
    \A w \in Workers :
        LET g == job[w].game IN
        /\ pc[w] = "release" /\ job[w].op = "start"
        /\ outcome[w] = "failed" /\ "rollback" \notin failedIn[w]
        => /\ "server" \in own[w] => server[g] = "absent"
           /\ "firewall" \in own[w] /\ server[g] = "absent" => firewall[g] = "absent"

(* What a stop has begun a later one completes: one that meets no fault    *)
(* does not end with the container stopped and its server still up.  Not   *)
(* so where `docker kill` wants it running (StopResumesAfterContainerStop).*)
StopIsRepeatable ==
    \A w \in Workers :
        LET g == job[w].game IN
        /\ pc[w] = "release" /\ job[w].op = "stop" /\ failedIn[w] = {}
        /\ g \notin SigintGames
        => ~(Reachable(g) /\ container[g] = "stopped")

----------------------------------------------------------------------------
(* Refinement                                                              *)

(* On trial while the start job that created the server still runs.        *)
SessionOf(g) ==
    IF server[g] = "absent" THEN "none"
    ELSE IF \E w \in Workers : "server" \in own[w] /\ job[w].game = g THEN "trial"
    ELSE "live"

S == INSTANCE Session WITH session <- [g \in Games |-> SessionOf(g)], unsaved <- behind

(* The jobs keep the promise of module Session.                            *)
ImplementsSession == S!Spec

----------------------------------------------------------------------------
(* Liveness                                                                *)

(* Every job ends, also one that waits for a lock nobody will release.     *)
EveryJobEnds == \A w \in Workers : pc[w] # "idle" ~> pc[w] = "idle"

----------------------------------------------------------------------------
(* What the documentation says beyond that                                 *)

(* tests/test_provisioner.py:231: "Failure AFTER the server exists ...     *)
(* must roll back the server itself".                                      *)
FailureAfterCreateRollsBack ==
    \A w \in Workers :
        /\ pc[w] = "release" /\ outcome[w] \in {"failed", "unexpected"}
        /\ "server" \in own[w] /\ "rollback" \notin failedIn[w]
        => server[job[w].game] = "absent"

(* provisioner.py:431: the teardown is "Idempotent throughout": a stop     *)
(* that meets no fault completes one that already stopped the container.   *)
StopResumesAfterContainerStop ==
    \A w \in Workers :
        LET g == job[w].game IN
        pc[w] = "release" /\ job[w].op = "stop" /\ failedIn[w] = {} =>
            ~(server[g] = "running" /\ container[g] = "stopped")

(* tests/test_provisioner.py:467: "recovery from a partial teardown ...    *)
(* the teardown continues" with the server already off.                    *)
StopResumesAfterPowerOff ==
    \A w \in Workers :
        pc[w] = "release" /\ job[w].op = "stop" /\ failedIn[w] = {} =>
            server[job[w].game] # "off"
=============================================================================
