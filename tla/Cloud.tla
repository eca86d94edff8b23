------------------------------- MODULE Cloud -------------------------------
(***************************************************************************)
(* The resources one game owns outside the job runner: its Hetzner server, *)
(* firewall and install volume, the game container on that server, the     *)
(* copies of the world it is saved to, and its deSEC records.  None of it  *)
(* is code of the repository; each effect below is what the call in        *)
(* provisioner.py, remote_ops.py or dns.py relies on.  A resource is named *)
(* after its game, so there is at most one of each kind per game.          *)
(***************************************************************************)
EXTENDS FiniteSets

CONSTANTS
    Games,          \* the games with a start and a stop command
    VolumeGames,    \* those whose ServerSpec has an install volume
    SigintGames     \* those stopped with `docker kill -s SIGINT && docker wait`

ASSUME GamesAssumption == VolumeGames \subseteq Games /\ SigintGames \subseteq Games

VARIABLES
    server,     \* state of the virtual machine
    container,  \* state of the game container on it
    behind,     \* the copies that lack the VM's latest world
    firewall,
    volume,
    dns         \* the A/AAAA records: none, the live server's, an older one's

cloudVars == <<server, container, behind, firewall, volume, dns>>

(* Where a world is saved: the restic repository, restored by the next     *)
(* boot, and the job runner's rsync mirror.                                *)
Copies == {"restic", "mirror"}

(* "stopped" by a stop job, "exited" by the game itself or the OS.         *)
ContainerStates == {"none", "running", "stopped", "exited"}

CloudTypeOK ==
    /\ server \in [Games -> {"absent", "running", "stopping", "off"}]
    /\ container \in [Games -> ContainerStates]
    /\ behind \in [Games -> SUBSET Copies]
    /\ firewall \in [Games -> {"absent", "present"}]
    /\ volume \in [Games -> {"absent", "detached", "attached"}]
    /\ dns \in [Games -> {"none", "current", "stale"}]

CloudInit ==
    /\ server = [g \in Games |-> "absent"]
    /\ container = [g \in Games |-> "none"]
    /\ behind = [g \in Games |-> {}]
    /\ firewall = [g \in Games |-> "absent"]
    /\ volume = [g \in Games |-> "absent"]
    /\ dns = [g \in Games |-> "none"]

----------------------------------------------------------------------------
(* The provider's API.  CanX is when the provider accepts request X.       *)

CanCreateServer(g) ==
    /\ server[g] = "absent"
    /\ g \in VolumeGames => volume[g] = "detached"

(* The server is created running (start_after_create) with the volume      *)
(* attached and the firewall applied, if that still exists: whether the    *)
(* provider would refuse otherwise is not relied on.                       *)
CreateServer(g) ==
    /\ server' = [server EXCEPT ![g] = "running"]
    /\ volume' = IF g \in VolumeGames THEN [volume EXCEPT ![g] = "attached"] ELSE volume
    /\ UNCHANGED <<container, behind, firewall, dns>>

CanDeleteServer(g) == server[g] # "absent"

(* Deleting a server takes its local disk, the container and whatever was  *)
(* not saved with it, and detaches its volume.                             *)
DeleteServer(g) ==
    /\ server' = [server EXCEPT ![g] = "absent"]
    /\ container' = [container EXCEPT ![g] = "none"]
    /\ behind' = [behind EXCEPT ![g] = {}]
    /\ volume' = IF volume[g] = "attached" THEN [volume EXCEPT ![g] = "detached"] ELSE volume
    /\ dns' = IF dns[g] = "current" THEN [dns EXCEPT ![g] = "stale"] ELSE dns
    /\ UNCHANGED firewall

CanShutdown(g) == server[g] # "absent"

(* An ACPI request: the guest powers off later, or never (PowerOff).       *)
Shutdown(g) ==
    /\ server' = IF server[g] = "running" THEN [server EXCEPT ![g] = "stopping"] ELSE server
    /\ UNCHANGED <<container, behind, firewall, volume, dns>>

(* Firewall names are unique; a firewall attached to a server stays.       *)
CanCreateFirewall(g) == firewall[g] = "absent"

CreateFirewall(g) ==
    /\ firewall' = [firewall EXCEPT ![g] = "present"]
    /\ UNCHANGED <<server, container, behind, volume, dns>>

CanDeleteFirewall(g) == server[g] = "absent"

DeleteFirewall(g) ==
    /\ firewall' = [firewall EXCEPT ![g] = "absent"]
    /\ UNCHANGED <<server, container, behind, volume, dns>>

CreateVolume(g) ==
    /\ volume' = [volume EXCEPT ![g] = "detached"]
    /\ UNCHANGED <<server, container, behind, firewall, dns>>

DetachVolume(g) ==
    /\ volume' = [volume EXCEPT ![g] = "detached"]
    /\ UNCHANGED <<server, container, behind, firewall, dns>>

----------------------------------------------------------------------------
(* Commands on the virtual machine, over SSH.                              *)

Reachable(g) == server[g] \in {"running", "stopping"}

(* `docker kill` wants a running container; `docker stop` any that exists. *)
CanStopContainer(g) ==
    /\ Reachable(g)
    /\ container[g] # "none"
    /\ g \in SigintGames => container[g] = "running"

StopContainer(g) ==
    /\ container' = IF container[g] = "running"
                    THEN [container EXCEPT ![g] = "stopped"] ELSE container
    /\ UNCHANGED <<server, behind, firewall, volume, dns>>

(* One copy catches up with the world on the VM.                           *)
SaveCopy(g, copy) ==
    /\ behind' = [behind EXCEPT ![g] = @ \ {copy}]
    /\ UNCHANGED <<server, container, firewall, volume, dns>>

----------------------------------------------------------------------------
(* deSEC.                                                                  *)

WriteDns(g, records) ==
    /\ dns' = [dns EXCEPT ![g] = records]
    /\ UNCHANGED <<server, container, behind, firewall, volume>>

----------------------------------------------------------------------------
(* What happens by itself.                                                 *)

(* cloud-init reaches `docker run` of the game; the restored world is the  *)
(* one restic holds.                                                       *)
Boot(g) ==
    /\ server[g] = "running" /\ container[g] = "none"
    /\ container' = [container EXCEPT ![g] = "running"]
    /\ UNCHANGED <<server, behind, firewall, volume, dns>>

(* The game writes its world.                                              *)
Play(g) ==
    /\ server[g] = "running" /\ container[g] = "running"
    /\ behind' = [behind EXCEPT ![g] = Copies]
    /\ UNCHANGED <<server, container, firewall, volume, dns>>

(* The game ends by itself: there is no restart policy.                    *)
GameExit(g) ==
    /\ container[g] = "running"
    /\ container' = [container EXCEPT ![g] = "exited"]
    /\ UNCHANGED <<server, behind, firewall, volume, dns>>

(* The guest completes the shutdown it was asked for.                      *)
PowerOff(g) ==
    /\ server[g] = "stopping"
    /\ server' = [server EXCEPT ![g] = "off"]
    /\ container' = IF container[g] = "running"
                    THEN [container EXCEPT ![g] = "exited"] ELSE container
    /\ UNCHANGED <<behind, firewall, volume, dns>>

Environment(g) == Boot(g) \/ Play(g) \/ GameExit(g) \/ PowerOff(g)
============================================================================
