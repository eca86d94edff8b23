---------------------------- MODULE Provisioner ----------------------------
(***************************************************************************)
(* discord_bot/provisioner.py: Provisioner.deploy, _rollback and destroy,  *)
(* as run by a job-runner worker inside start_server and stop_server       *)
(* (module Jobs).  A worker's step is one call to the outside; between two *)
(* steps anything else may happen.                                         *)
(*                                                                         *)
(* A call to the outside succeeds, is refused by the provider in the state *)
(* it finds, or is hit by a fault: an error raised whether or not the call *)
(* took effect (a timeout, an outage, a failed action, the job timeout of  *)
(* RQ, which raises an exception wherever the job is).  What the code does *)
(* next depends only on the kind of exception: "failed" stands for the     *)
(* ones reported as ProvisionError, "unexpected" for all others.           *)
(***************************************************************************)
EXTENDS Cloud

CONSTANTS
    Workers,    \* the processes that run jobs
    Faults      \* the kinds of fault that may happen

FaultKinds == {"crash", "lock_wait", "redis", "config", "dns", "cloud", "rollback"}

ASSUME FaultsAssumption == Faults \subseteq FaultKinds

VARIABLES
    pc,         \* the next step of each worker
    job,        \* the job it runs, NoJob if idle
    own,        \* deploy's created_server and created_firewall, if not None
    outcome,    \* what the job reported to the game's channel
    failedIn    \* the kinds of fault the job met

workerVars == <<pc, job, own, outcome, failedIn>>

JobSet == [op : {"start", "stop"}, game : Games]
NoJob == [op |-> "none"]

(* The order of start_server, with deploy from "guard" to "wait"...        *)
StartSteps == {"dns_check", "start_prov", "guard", "ssh_key", "volume", "render",
               "fw_delete", "fw_create", "lookup", "create", "wait",
               "rb_server", "rb_firewall", "publish"}
(* ... and of stop_server, with destroy from "find" to "fw_reap".          *)
StopSteps == {"announce", "stop_prov", "find", "stop_container", "backup", "mirror",
              "shutdown", "wait_off", "detach", "delete", "fw_reap", "clear"}

Steps == {"idle", "lock", "release"} \cup StartSteps \cup StopSteps

Outcomes == {"none", "started", "finished", "refused", "failed", "unexpected", "dns_invalid"}

WorkerTypeOK ==
    /\ pc \in [Workers -> Steps]
    /\ job \in [Workers -> JobSet \cup {NoJob}]
    /\ own \in [Workers -> SUBSET {"server", "firewall"}]
    /\ outcome \in [Workers -> Outcomes]
    /\ failedIn \in [Workers -> SUBSET FaultKinds]

WorkerInit ==
    /\ pc = [w \in Workers |-> "idle"]
    /\ job = [w \in Workers |-> NoJob]
    /\ own = [w \in Workers |-> {}]
    /\ outcome = [w \in Workers |-> "none"]
    /\ failedIn = [w \in Workers |-> {}]

----------------------------------------------------------------------------
Goto(w, step) == pc' = [pc EXCEPT ![w] = step]

Report(w, what) == outcome' = [outcome EXCEPT ![w] = what]

Meets(w, fault) == failedIn' = [failedIn EXCEPT ![w] = @ \cup {fault}]

(* An exception leaves deploy or destroy.  Those deploy catches are rolled *)
(* back first; the rest go straight to start_server's `except Exception`.  *)
Raise(w, kind) ==
    /\ Report(w, kind)
    /\ Goto(w, IF kind = "failed" /\ job[w].op = "start" THEN "rb_server" ELSE "release")
    /\ UNCHANGED own

(* The kinds of exception a call can raise where it stands: inside a `try` *)
(* that turns API (or SSH) errors into ProvisionError, or outside.         *)
Handled == {"failed", "unexpected"}
Unhandled == {"unexpected"}

(* One call to the outside at step `at`: accepted when `can` holds, doing  *)
(* `effect`; on success the locals in `gain` are set and `next` is next.   *)
Call(w, at, can, effect, next, gain, kinds) ==
    /\ pc[w] = at
    /\ \/ /\ can /\ effect
          /\ Goto(w, next)
          /\ own' = [own EXCEPT ![w] = @ \cup gain]
          /\ UNCHANGED <<outcome, failedIn>>
       \/ /\ ~can /\ UNCHANGED cloudVars
          /\ Raise(w, IF "failed" \in kinds THEN "failed" ELSE "unexpected")
          /\ UNCHANGED failedIn
       \/ /\ "cloud" \in Faults
          /\ (can /\ effect) \/ UNCHANGED cloudVars
          /\ \E kind \in kinds : Raise(w, kind)
          /\ Meets(w, "cloud")
    /\ UNCHANGED job

(* A call that only reads, or whose effect no other step depends on.       *)
Query(w, at, next, kinds) == Call(w, at, TRUE, UNCHANGED cloudVars, next, {}, kinds)

----------------------------------------------------------------------------
(* deploy                                                                  *)

(* AlreadyDeployedError: a start of an existing server changes nothing.    *)
DeployGuard(w) ==
    LET g == job[w].game IN
    /\ pc[w] = "guard"
    /\ \/ server[g] = "absent" /\ Query(w, "guard", "ssh_key", Unhandled)
       \/ /\ server[g] # "absent"
          /\ Goto(w, "release")
          /\ Report(w, "refused")
          /\ UNCHANGED <<cloudVars, job, own, failedIn>>

(* _ensure_bot_ssh_key: the shared key is a module of its own.             *)
EnsureSshKey(w) ==
    Query(w, "ssh_key", IF job[w].game \in VolumeGames THEN "volume" ELSE "render", Handled)

ResolveVolume(w) ==
    LET g == job[w].game IN
    Call(w, "volume", TRUE,
         IF volume[g] = "absent" THEN CreateVolume(g) ELSE UNCHANGED cloudVars,
         "render", {}, Handled)

RenderUserData(w) == Query(w, "render", "fw_delete", Unhandled)

(* Mutant: the firewall an earlier deploy left behind is kept.             *)
KeepStaleFirewall(w) == Query(w, "fw_delete", "fw_create", Handled)

(* Mutant: deploy goes on without a firewall when creating it fails.       *)
CreateFirewallOrGoOn(w) ==
    LET g == job[w].game IN
    /\ pc[w] = "fw_create"
    /\ (CanCreateFirewall(g) /\ CreateFirewall(g)) \/ UNCHANGED cloudVars
    /\ Goto(w, "lookup")
    /\ own' = [own EXCEPT ![w] = @ \cup {"firewall"}]
    /\ UNCHANGED <<job, outcome, failedIn>>

(* _recreate_firewall, in its two calls.  The firewall is deploy's own     *)
(* only once the method has returned.                                      *)
DeleteStaleFirewall(w) ==
    LET g == job[w].game IN
    Call(w, "fw_delete", firewall[g] = "present" => CanDeleteFirewall(g),
         DeleteFirewall(g), "fw_create", {}, Handled)

CreateNewFirewall(w) ==
    LET g == job[w].game IN
    Call(w, "fw_create", CanCreateFirewall(g), CreateFirewall(g),
         "lookup", {"firewall"}, Handled)

(* _all_project_ssh_keys and _resolve_image.                               *)
LookUp(w) == Query(w, "lookup", "create", Handled)

(* Mutant: a failed create is taken for a success.                         *)
RequestServerOrGoOn(w) ==
    LET g == job[w].game IN
    /\ pc[w] = "create"
    /\ (CanCreateServer(g) /\ CreateServer(g)) \/ UNCHANGED cloudVars
    /\ Goto(w, "wait")
    /\ own' = [own EXCEPT ![w] = @ \cup {"server"}]
    /\ UNCHANGED <<job, outcome, failedIn>>

RequestServer(w) ==
    LET g == job[w].game IN
    Call(w, "create", CanCreateServer(g), CreateServer(g), "wait", {"server"}, Handled)

(* The create action is waited for and the addresses read.  An action that *)
(* fails or times out is not an APIException: no rollback.                 *)
AwaitServer(w) == Query(w, "wait", "publish", Handled)

(* _rollback deletes what deploy created, swallowing every exception.      *)
RollbackStep(w, at, created, can, effect, next) ==
    /\ pc[w] = at
    /\ \/ created \in own[w] /\ can /\ effect /\ UNCHANGED failedIn
       \/ (created \in own[w] => ~can) /\ UNCHANGED <<cloudVars, failedIn>>
       \/ /\ "rollback" \in Faults /\ created \in own[w]
          /\ (can /\ effect) \/ UNCHANGED cloudVars
          /\ Meets(w, "rollback")
    /\ Goto(w, next)
    /\ UNCHANGED <<job, own, outcome>>

(* Mutant: the server is looked up by name and deleted whoever made it.    *)
RollbackServerByName(w) ==
    LET g == job[w].game IN
    /\ pc[w] = "rb_server"
    /\ IF CanDeleteServer(g) THEN DeleteServer(g) ELSE UNCHANGED cloudVars
    /\ Goto(w, "rb_firewall")
    /\ UNCHANGED <<job, own, outcome, failedIn>>

(* Mutant: the rollback ends with the server.                              *)
RollbackServerOnly(w) ==
    LET g == job[w].game IN
    RollbackStep(w, "rb_server", "server", CanDeleteServer(g), DeleteServer(g), "release")

RollbackServer(w) ==
    LET g == job[w].game IN
    RollbackStep(w, "rb_server", "server", CanDeleteServer(g), DeleteServer(g), "rb_firewall")

RollbackFirewall(w) ==
    LET g == job[w].game IN
    RollbackStep(w, "rb_firewall", "firewall", CanDeleteFirewall(g), DeleteFirewall(g), "release")

Deploy(w) ==
    \/ DeployGuard(w) \/ EnsureSshKey(w) \/ ResolveVolume(w) \/ RenderUserData(w)
    \/ DeleteStaleFirewall(w) \/ CreateNewFirewall(w) \/ LookUp(w)
    \/ RequestServer(w) \/ AwaitServer(w) \/ RollbackServer(w) \/ RollbackFirewall(w)

----------------------------------------------------------------------------
(* destroy                                                                 *)

(* Mutant: with no server there is nothing to destroy.                     *)
FindServerOrFinish(w) ==
    Query(w, "find", IF server[job[w].game] = "absent" THEN "clear" ELSE "stop_container",
          Unhandled)

FindServer(w) ==
    Query(w, "find", IF server[job[w].game] = "absent" THEN "fw_reap" ELSE "stop_container",
          Unhandled)

(* Mutant: the container's stop runs with check=False.                     *)
StopGameUnchecked(w) ==
    LET g == job[w].game IN
    /\ pc[w] = "stop_container"
    /\ IF CanStopContainer(g) THEN StopContainer(g) ELSE UNCHANGED cloudVars
    /\ Goto(w, "backup")
    /\ UNCHANGED <<job, own, outcome, failedIn>>

(* Mutant: the mirror replaces the restic backup.                          *)
StopGameThenMirror(w) ==
    LET g == job[w].game IN
    Call(w, "stop_container", CanStopContainer(g), StopContainer(g), "mirror", {}, Handled)

(* Mutant: every game is stopped with `docker kill`.                       *)
StopGameByKill(w) ==
    LET g == job[w].game IN
    Call(w, "stop_container", CanStopContainer(g) /\ container[g] = "running",
         StopContainer(g), "backup", {}, Handled)

(* stop_and_backup: stop the container, back it up, mirror it.             *)
StopGame(w) ==
    LET g == job[w].game IN
    Call(w, "stop_container", CanStopContainer(g), StopContainer(g), "backup", {}, Handled)

(* Mutant: the restic backup replaces the mirror.                          *)
BackUpOnly(w) ==
    LET g == job[w].game IN
    Call(w, "backup", Reachable(g), SaveCopy(g, "restic"),
         IF g \in VolumeGames THEN "shutdown" ELSE "delete", {}, Handled)

BackUp(w) ==
    LET g == job[w].game IN
    Call(w, "backup", Reachable(g), SaveCopy(g, "restic"), "mirror", {}, Handled)

PullGamedata(w) ==
    LET g == job[w].game IN
    Call(w, "mirror", Reachable(g), SaveCopy(g, "mirror"),
         IF g \in VolumeGames THEN "shutdown" ELSE "delete", {}, Handled)

RequestShutdown(w) ==
    LET g == job[w].game IN
    Call(w, "shutdown", CanShutdown(g), Shutdown(g), "wait_off", {}, Handled)

(* Mutant: when the deadline passes the teardown goes on.                  *)
WaitBriefly(w) ==
    /\ pc[w] = "wait_off"
    /\ Goto(w, "detach")
    /\ UNCHANGED <<cloudVars, job, own, outcome, failedIn>>

(* Mutant: the poll has no deadline.                                       *)
WaitForever(w) ==
    /\ pc[w] = "wait_off" /\ server[job[w].game] = "off"
    /\ Query(w, "wait_off", "detach", Handled)

(* _wait_until_off polls until the server is off; the deadline raises      *)
(* ProvisionError("shutdown").                                             *)
WaitUntilOff(w) ==
    LET g == job[w].game IN
    /\ pc[w] = "wait_off"
    /\ \/ server[g] = "off" /\ Query(w, "wait_off", "detach", Handled)
       \/ /\ server[g] # "off"
          /\ \E kind \in (IF "cloud" \in Faults THEN Handled ELSE {"failed"}) : Raise(w, kind)
          /\ Meets(w, "cloud")
          /\ UNCHANGED <<cloudVars, job>>

Detach(w) ==
    LET g == job[w].game IN
    Call(w, "detach", TRUE,
         IF volume[g] = "attached" THEN DetachVolume(g) ELSE UNCHANGED cloudVars,
         "delete", {}, Handled)

DeleteGameServer(w) ==
    LET g == job[w].game IN
    Call(w, "delete", CanDeleteServer(g), DeleteServer(g), "fw_reap", {}, Unhandled)

ReapFirewall(w) ==
    LET g == job[w].game IN
    Call(w, "fw_reap", firewall[g] = "present" => CanDeleteFirewall(g),
         DeleteFirewall(g), "clear", {}, Handled)

Destroy(w) ==
    \/ FindServer(w) \/ StopGame(w) \/ BackUp(w) \/ PullGamedata(w)
    \/ RequestShutdown(w) \/ WaitUntilOff(w) \/ Detach(w)
    \/ DeleteGameServer(w) \/ ReapFirewall(w)
============================================================================
