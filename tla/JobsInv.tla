------------------------------ MODULE JobsInv ------------------------------
(***************************************************************************)
(* The inductive invariant of module Jobs: what a worker may rely on at    *)
(* each step because it alone holds its game's lock.                       *)
(***************************************************************************)
EXTENDS Jobs

(* A worker has a job unless idle, and runs the steps of its own kind.     *)
StepsMatchJob ==
    \A w \in Workers :
        /\ pc[w] = "idle" <=> job[w] = NoJob
        /\ pc[w] \in StartSteps => job[w].op = "start"
        /\ pc[w] \in StopSteps => job[w].op = "stop"

(* The key exists for every worker inside the `with` statement.            *)
HoldersHaveKeys == \A w \in Workers : InLock(w) => lock[job[w].game]

(* Nothing of a session outlives its server; only games with a volume ever *)
(* attach one.                                                             *)
CloudConsistent ==
    \A g \in Games :
        /\ server[g] = "absent" => container[g] = "none" /\ behind[g] = {}
        /\ volume[g] = "attached" => g \in VolumeGames

(* Where deploy's locals can be set.                                       *)
OwnersDeploy ==
    \A w \in Workers :
        /\ own[w] # {} => job[w] # NoJob /\ job[w].op = "start" /\ InLock(w)
        /\ "server" \in own[w] =>
              pc[w] \in {"wait", "publish", "rb_server", "rb_firewall", "release"}

(* deploy has its firewall before it asks for the server.                  *)
FirewallFirst ==
    \A w \in Workers : pc[w] \in {"lookup", "create"} => firewall[job[w].game] = "present"

(* From the stop of the container on, the world cannot change; what has    *)
(* been saved stays saved.                                                 *)
SavedStaysSaved ==
    \A w \in Workers :
        LET g == job[w].game IN
        /\ pc[w] \in {"backup", "mirror", "shutdown", "wait_off", "detach", "delete"} =>
              container[g] \in {"stopped", "exited"}
        /\ pc[w] = "mirror" => "restic" \notin behind[g]
        /\ pc[w] \in {"shutdown", "wait_off", "detach", "delete"} => behind[g] = {}

(* The guest is off before its volume goes, the volume before the server.  *)
OffBeforeDetach ==
    \A w \in Workers :
        LET g == job[w].game IN
        /\ pc[w] = "detach" => server[g] = "off"
        /\ pc[w] = "delete" => volume[g] # "attached"

IInv ==
    /\ TypeOK
    /\ StepsMatchJob
    /\ HoldersHaveKeys
    /\ MutualExclusion
    /\ CloudConsistent
    /\ ServerIsFirewalled
    /\ FirewallFirst
    /\ OwnersDeploy
    /\ SavedStaysSaved
    /\ OffBeforeDetach
----------------------------------------------------------------------------
(* The second invariant: what a job has found out or brought about by the  *)
(* time it reaches a step, and so what its report means.                   *)

(* An install volume is made before its server and outlives it.            *)
VolumesOutlive ==
    \A g \in Games :
        /\ g \in VolumeGames /\ server[g] # "absent" => volume[g] # "absent"
        /\ volume[g] = "attached" => server[g] # "absent"

(* From the guard to the server.                                           *)
DeployKnows(w) ==
    LET g == job[w].game IN
    /\ pc[w] \in {"ssh_key", "volume", "render", "fw_delete", "fw_create", "lookup", "create"} =>
          server[g] = "absent"
    /\ pc[w] = "volume" => g \in VolumeGames
    /\ pc[w] \in {"render", "fw_delete", "fw_create", "lookup", "create"} /\ g \in VolumeGames =>
          volume[g] = "detached"
    /\ pc[w] = "fw_create" => firewall[g] = "absent"
    /\ pc[w] \in {"wait", "publish"} => "server" \in own[w] /\ server[g] # "absent"

(* The end of destroy, with or without a server to begin with.             *)
DestroyKnows(w) ==
    LET g == job[w].game IN
    /\ pc[w] \in {"fw_reap", "clear"} => server[g] = "absent"
    /\ pc[w] = "clear" => firewall[g] = "absent"

(* Nothing is reported before the job is over or being rolled back, and a  *)
(* start that met no fault is not rolled back.                             *)
ReportsLast(w) ==
    /\ outcome[w] \notin {"none", "failed"} => pc[w] = "release"
    /\ outcome[w] = "failed" => pc[w] \in {"rb_server", "rb_firewall", "release"}
    /\ pc[w] \in {"rb_server", "rb_firewall"} => outcome[w] = "failed" /\ failedIn[w] # {}

RollbackKnows(w) ==
    pc[w] = "rb_firewall" /\ "server" \in own[w] /\ "rollback" \notin failedIn[w] =>
        server[job[w].game] = "absent"

(* What is reported is true when the job ends (CleanStartServes and its    *)
(* neighbours, of one worker).                                             *)
ReportHolds(w) ==
    LET g == job[w].game IN
    /\ pc[w] = "release" /\ job[w].op = "start" /\ failedIn[w] = {} =>
          outcome[w] \in {"started", "refused"} /\ server[g] # "absent"
    /\ pc[w] = "release" /\ outcome[w] = "started" =>
          server[g] # "absent" /\ ("dns" \in failedIn[w] \/ dns[g] = "current")
    /\ pc[w] = "release" /\ job[w].op = "start" /\ outcome[w] = "none" =>
          failedIn[w] \cap {"dns", "config"} # {}
    /\ pc[w] = "release" /\ outcome[w] = "finished" =>
          /\ server[g] = "absent" /\ firewall[g] = "absent"
          /\ "dns" \in failedIn[w] \/ dns[g] = "none"
    /\ /\ pc[w] = "release" /\ job[w].op = "start"
       /\ outcome[w] = "failed" /\ "rollback" \notin failedIn[w]
       => /\ "server" \in own[w] => server[g] = "absent"
          /\ "firewall" \in own[w] /\ server[g] = "absent" => firewall[g] = "absent"

Knows(w) == DeployKnows(w) /\ DestroyKnows(w) /\ ReportsLast(w) /\ RollbackKnows(w) /\ ReportHolds(w)

KnowsInv == VolumesOutlive /\ \A w \in Workers : Knows(w)
============================================================================
