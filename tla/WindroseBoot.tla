---------------------------- MODULE WindroseBoot ----------------------------
(***************************************************************************)
(* What happens on the virtual machines of Windrose, over any number of    *)
(* sessions: cloud-init's runcmd (windrose.yaml.j2), restore-backup.sh,    *)
(* entrypoint.sh with install-or-update-game.sh, windrose/start.sh,        *)
(* server_launch_watcher.py and the stop that backs the world up           *)
(* (remote_ops.py, backup.sh).                                             *)
(*                                                                         *)
(* A world is known by its WorldIslandId.  The id the game loads is in     *)
(* ServerDescription.json on the install volume; the worlds themselves are *)
(* in /gamedata, which is restored from and saved to restic together with  *)
(* a copy of the description.                                              *)
(***************************************************************************)
EXTENDS Naturals

CONSTANTS
    Islands,        \* ids of worlds
    NoIsland,       \* there is no ServerDescription.json
    MaxAttempts,    \* STEAMCMD_MAX_ATTEMPTS
    Faults          \* what may go wrong

FaultKinds == {"mount", "restore", "docker", "install", "generate", "game",
               "watcher", "backup", "vm", "volume"}

ASSUME BootAssumption ==
    /\ NoIsland \notin Islands
    /\ MaxAttempts \in Nat \ {0}
    /\ Faults \subseteq FaultKinds

VARIABLES
    boot,       \* the next step of runcmd
    restored,   \* what became of the restore on this VM
    disk,       \* what the install directory is on: the volume or the VM's disk
    desc,       \* the WorldIslandId in R5/ServerDescription.json, on each disk
    gamedata,   \* /gamedata: the copy of the description and the worlds
    latest,     \* restic's latest snapshot of /gamedata, if there is one
    script,     \* where the game container is; "none": there is no container
    attempt,    \* install-or-update-game.sh's attempt
    playing,    \* the world the game has loaded on this VM
    oldLog,     \* who printed a ready marker to the R5.log to be rotated
    stream,     \* who printed a ready marker on the container's stdout
    watcher,    \* where server_launch_watcher.py is
    stop,       \* where a stop job is
    met,        \* what has kept this VM from becoming ready
    mishaps     \* the failed steps of any boot that cloud-init ignored

world == <<desc, gamedata, latest>>
container == <<script, attempt, playing, oldLog, stream>>
history == <<met, mishaps>>
vars == <<boot, restored, disk, world, container, watcher, stop, history>>

Disks == {"volume", "root"}
IslandOrNone == Islands \cup {NoIsland}
Saves == [desc : IslandOrNone, worlds : SUBSET Islands]
EmptySaves == [desc |-> NoIsland, worlds |-> {}]
NoSnapshot == [none |-> TRUE]

TypeOK ==
    /\ boot \in {"no_vm", "mount", "restore", "run_game", "run_watcher", "done"}
    /\ restored \in {"no", "ok", "nothing", "failed"}
    /\ disk \in Disks
    /\ desc \in [Disks -> IslandOrNone]
    /\ gamedata \in Saves
    /\ latest \in Saves \cup {NoSnapshot}
    /\ script \in {"none", "install", "description", "temporary", "stamp", "launch",
                   "serving", "exited"}
    /\ attempt \in 1..MaxAttempts
    /\ playing \in IslandOrNone
    /\ oldLog \in SUBSET {"temporary"}
    /\ stream \in SUBSET {"temporary", "real"}
    /\ watcher \in {"none", "addresses", "container", "reading", "posted", "ended"}
    /\ stop \in {"none", "backup", "teardown"}
    /\ met \in SUBSET (FaultKinds \cup {"stop"})
    /\ mishaps \in SUBSET {"mount", "restore"}

Init ==
    /\ boot = "no_vm" /\ restored = "no" /\ disk = "root"
    /\ desc = [d \in Disks |-> NoIsland]
    /\ gamedata = EmptySaves /\ latest = NoSnapshot
    /\ script = "none" /\ attempt = 1 /\ playing = NoIsland
    /\ oldLog = {} /\ stream = {}
    /\ watcher = "none" /\ stop = "none"
    /\ met = {} /\ mishaps = {}

Meets(fault) == met' = met \cup {fault}

----------------------------------------------------------------------------
(* cloud-init.  A step of runcmd that fails does not stop the next one.    *)

CreateVm ==
    /\ boot = "no_vm"
    /\ boot' = "mount"
    /\ UNCHANGED <<restored, disk, world, container, watcher, stop, history>>

MountVolume ==
    /\ boot = "mount"
    /\ \/ disk' = "volume" /\ UNCHANGED mishaps
       \/ /\ "mount" \in Faults
          /\ mishaps' = mishaps \cup {"mount"}
          /\ UNCHANGED disk
    /\ boot' = "restore"
    /\ UNCHANGED <<restored, world, container, watcher, stop, met>>

(* Mutant: only the worlds are restored, not the description beside them.  *)
RestoreWorldsOnly ==
    /\ boot = "restore"
    /\ IF latest # NoSnapshot
       THEN gamedata' = [EmptySaves EXCEPT !.worlds = latest.worlds] /\ restored' = "ok"
       ELSE UNCHANGED gamedata /\ restored' = "nothing"
    /\ boot' = "run_game"
    /\ UNCHANGED <<disk, desc, latest, container, watcher, stop, history>>

(* restore-backup.sh: the latest snapshot as a whole, nothing if there is  *)
(* none, or whatever part of it had arrived when restic failed.            *)
Restore ==
    /\ boot = "restore"
    /\ \/ /\ latest # NoSnapshot
          /\ gamedata' = latest /\ restored' = "ok"
          /\ UNCHANGED mishaps
       \/ /\ latest = NoSnapshot
          /\ restored' = "nothing"
          /\ UNCHANGED <<gamedata, mishaps>>
       \/ /\ "restore" \in Faults /\ latest # NoSnapshot
          /\ \E part \in Saves :
                /\ part.desc \in {NoIsland, latest.desc} /\ part.worlds \subseteq latest.worlds
                /\ gamedata' = part
          /\ restored' = "failed"
          /\ mishaps' = mishaps \cup {"restore"}
    /\ boot' = "run_game"
    /\ UNCHANGED <<disk, desc, latest, container, watcher, stop, met>>

(* `docker run -d` of the game; entrypoint.sh starts with the install.     *)
RunGame ==
    /\ boot = "run_game"
    /\ \/ script' = "install" /\ UNCHANGED met
       \/ "docker" \in Faults /\ Meets("docker") /\ UNCHANGED script
    /\ boot' = "run_watcher"
    /\ UNCHANGED <<restored, disk, world, attempt, playing, oldLog, stream,
                   watcher, stop, mishaps>>

RunWatcher ==
    /\ boot = "run_watcher"
    /\ \/ watcher' = "addresses" /\ UNCHANGED met
       \/ "docker" \in Faults /\ Meets("docker") /\ UNCHANGED watcher
    /\ boot' = "done"
    /\ UNCHANGED <<restored, disk, world, container, stop, mishaps>>

Runcmd == MountVolume \/ Restore \/ RunGame \/ RunWatcher

----------------------------------------------------------------------------
(* The game container.  The scripts run with `set -e`: an error ends them, *)
(* and nothing restarts the container.                                     *)

Exit(fault) == script' = "exited" /\ Meets(fault)

(* Mutant: an exit code other than the known one is fatal.                 *)
InstallOnce ==
    /\ script = "install"
    /\ script' \in {"description", "exited"}
    /\ UNCHANGED <<boot, restored, disk, world, attempt, playing, oldLog,
                   stream, watcher, stop, history>>

(* install-or-update-game.sh retries steamcmd up to MaxAttempts times.     *)
(* install-steamcmd.sh, before it, is not retried.                         *)
Install ==
    /\ script = "install"
    /\ \/ script' = "description" /\ UNCHANGED <<attempt, met>>
       \/ /\ "install" \in Faults
          /\ \/ attempt < MaxAttempts /\ attempt' = attempt + 1 /\ UNCHANGED <<script, met>>
             \/ attempt \in {1, MaxAttempts} /\ Exit("install") /\ UNCHANGED attempt
    /\ UNCHANGED <<boot, restored, disk, world, playing, oldLog, stream,
                   watcher, stop, mishaps>>

(* Mutant: a restored description is not put back.                         *)
FirstBootCheckOnly ==
    /\ script = "description"
    /\ script' = IF desc[disk] = NoIsland THEN "temporary" ELSE "stamp"
    /\ UNCHANGED <<boot, restored, disk, world, attempt, playing, oldLog,
                   stream, watcher, stop, history>>

(* start.sh: a description that was restored with the world is put back    *)
(* where there is none; then the first-boot check.                         *)
RestoreDescription ==
    /\ script = "description"
    /\ desc' = IF desc[disk] = NoIsland THEN [desc EXCEPT ![disk] = gamedata.desc] ELSE desc
    /\ script' = IF desc'[disk] = NoIsland THEN "temporary" ELSE "stamp"
    /\ UNCHANGED <<boot, restored, disk, gamedata, latest, attempt, playing,
                   oldLog, stream, watcher, stop, history>>

(* An id no description, world or snapshot uses any more.                  *)
Fresh(i) ==
    /\ \A d \in Disks : desc[d] # i
    /\ gamedata.desc # i /\ i \notin gamedata.worlds
    /\ latest # NoSnapshot => latest.desc # i /\ i \notin latest.worlds

(* The temporary server writes a description with a new id.  Before it is  *)
(* stopped it may have made the world, and even been ready.  If nothing    *)
(* appears in time, the script gives up.                                   *)
GenerateDescription ==
    /\ script = "temporary"
    /\ \/ /\ \E i \in Islands :
                /\ Fresh(i)
                /\ desc' = [desc EXCEPT ![disk] = i]
                /\ \/ gamedata' = [gamedata EXCEPT !.worlds = @ \cup {i}]
                      /\ oldLog' \in SUBSET {"temporary"}
                   \/ UNCHANGED <<gamedata, oldLog>>
          /\ script' = "stamp"
          /\ UNCHANGED met
       \/ /\ "generate" \in Faults
          /\ Exit("generate")
          /\ UNCHANGED <<desc, gamedata, oldLog>>
    /\ UNCHANGED <<boot, restored, disk, latest, attempt, playing,
                   stream, watcher, stop, mishaps>>

(* Mutant: the stamped description is not mirrored.                        *)
StampOnly ==
    /\ script = "stamp"
    /\ script' = "launch"
    /\ UNCHANGED <<boot, restored, disk, world, attempt, playing, oldLog,
                   stream, watcher, stop, history>>

(* The jq patch leaves the id alone; the result is mirrored to /gamedata.  *)
StampDescription ==
    /\ script = "stamp"
    /\ gamedata' = [gamedata EXCEPT !.desc = desc[disk]]
    /\ script' = "launch"
    /\ UNCHANGED <<boot, restored, disk, desc, latest, attempt, playing,
                   oldLog, stream, watcher, stop, history>>

(* Mutant: `tail -F` without `-n 0`, before the engine rotates the log.    *)
LaunchTailingOldLog ==
    /\ script = "launch"
    /\ script' = "serving"
    /\ stream' = stream \cup oldLog
    /\ oldLog' = {}
    /\ UNCHANGED <<boot, restored, disk, world, attempt, playing, watcher, stop, history>>

(* run_server, and `tail -n 0 -F` of R5.log, which the engine rotates.     *)
Launch ==
    /\ script = "launch"
    /\ script' = "serving"
    /\ oldLog' = {}
    /\ UNCHANGED <<boot, restored, disk, world, attempt, playing, stream,
                   watcher, stop, history>>

(* The game loads the world of the description, or creates it.             *)
LoadWorld ==
    /\ script = "serving" /\ playing = NoIsland
    /\ playing' = desc[disk]
    /\ gamedata' = [gamedata EXCEPT !.worlds = @ \cup {desc[disk]}]
    /\ UNCHANGED <<boot, restored, disk, desc, latest, script, attempt,
                   oldLog, stream, watcher, stop, history>>

BecomeReady ==
    /\ script = "serving" /\ playing # NoIsland
    /\ stream' = stream \cup {"real"}
    /\ UNCHANGED <<boot, restored, disk, world, script, attempt, playing,
                   oldLog, watcher, stop, history>>

GameCrash ==
    /\ script = "serving" /\ "game" \in Faults
    /\ Exit("game")
    /\ UNCHANGED <<boot, restored, disk, world, attempt, playing, oldLog,
                   stream, watcher, stop, mishaps>>

Container ==
    \/ Install \/ RestoreDescription \/ GenerateDescription \/ StampDescription
    \/ Launch \/ LoadWorld \/ BecomeReady

----------------------------------------------------------------------------
(* server_launch_watcher.py                                                *)

WatcherGoto(next) ==
    /\ watcher' = next
    /\ UNCHANGED <<boot, restored, disk, world, container, stop, mishaps>>

WatcherFails ==
    /\ "watcher" \in Faults
    /\ Meets("watcher")
    /\ WatcherGoto("ended")

(* get_addresses stands outside the `try`: an error ends the watcher.      *)
GetAddresses ==
    /\ watcher = "addresses"
    /\ \/ WatcherGoto("container") /\ UNCHANGED met
       \/ WatcherFails

(* get_container; NotFound after a minute of retries is only logged.       *)
GetContainer ==
    /\ watcher = "container"
    /\ \/ script # "none" /\ WatcherGoto("reading") /\ UNCHANGED met
       \/ script = "none" /\ WatcherGoto("ended") /\ UNCHANGED met
       \/ WatcherFails

(* first_ready_line reads old and new lines alike; the first match is      *)
(* posted.  The stream ends with the container.                            *)
ReadLog ==
    /\ watcher = "reading"
    /\ \/ stream # {} /\ WatcherGoto("posted") /\ UNCHANGED met
       \/ stream = {} /\ script = "exited" /\ WatcherGoto("ended") /\ UNCHANGED met
       \/ WatcherFails

Watch == GetAddresses \/ GetContainer \/ ReadLog

----------------------------------------------------------------------------
(* The stop job, which may come at any time after the VM was created.      *)

StopGoto(next) ==
    /\ stop' = next
    /\ UNCHANGED <<boot, restored, disk, desc, gamedata, attempt, playing,
                   oldLog, stream, watcher, mishaps>>

(* Mutant: the container's stop runs with check=False.                     *)
StopGameUnchecked ==
    /\ boot # "no_vm" /\ stop = "none"
    /\ script' = IF script = "none" THEN "none" ELSE "exited"
    /\ Meets("stop")
    /\ StopGoto("backup")
    /\ UNCHANGED latest

(* `docker stop -t 90` fails without a container; otherwise it has exited  *)
(* afterwards, by its trap or by SIGKILL, whatever it was doing.           *)
StopGame ==
    /\ boot # "no_vm" /\ stop = "none" /\ script # "none"
    /\ script' = "exited"
    /\ Meets("stop")
    /\ StopGoto("backup")
    /\ UNCHANGED latest

(* backup.sh: /gamedata becomes the latest snapshot; a failure ends the    *)
(* stop job.                                                               *)
BackUp ==
    /\ stop = "backup"
    /\ \/ latest' = gamedata /\ StopGoto("teardown")
       \/ "backup" \in Faults /\ StopGoto("none") /\ UNCHANGED latest
    /\ UNCHANGED <<script, met>>

(* The VM and its disk are gone; the volume stays.                         *)
RemoveVm ==
    /\ boot' = "no_vm" /\ restored' = "no" /\ disk' = "root"
    /\ desc' = [desc EXCEPT !["root"] = NoIsland]
    /\ gamedata' = EmptySaves
    /\ script' = "none" /\ attempt' = 1 /\ playing' = NoIsland
    /\ oldLog' = {} /\ stream' = {}
    /\ watcher' = "none" /\ stop' = "none"
    /\ met' = {}
    /\ UNCHANGED <<latest, mishaps>>

(* The rest of destroy, or its failure: the next stop starts over.         *)
TearDown ==
    /\ stop = "teardown"
    /\ RemoveVm \/ ("backup" \in Faults /\ StopGoto("none") /\ UNCHANGED <<latest, script, met>>)

(* The VM is deleted by somebody else, or taken back by deploy.            *)
VmLost == "vm" \in Faults /\ boot # "no_vm" /\ RemoveVm

(* Without a VM the volume is lost or replaced by an empty one.            *)
VolumeLost ==
    /\ "volume" \in Faults /\ boot = "no_vm"
    /\ desc' = [desc EXCEPT !["volume"] = NoIsland]
    /\ UNCHANGED <<boot, restored, disk, gamedata, latest, container, watcher,
                   stop, history>>

----------------------------------------------------------------------------
Next ==
    \/ CreateVm \/ Runcmd \/ Container \/ GameCrash \/ Watch
    \/ StopGame \/ BackUp \/ TearDown \/ VmLost \/ VolumeLost

Spec == Init /\ [][Next]_vars

(* The VM, the container and the watcher run on; nothing is assumed of     *)
(* stop jobs and faults.  A game that never becomes ready is a GameCrash.  *)
FairSpec == Spec /\ WF_vars(Runcmd) /\ WF_vars(Container) /\ WF_vars(Watch)
----------------------------------------------------------------------------
(* A restored world is the one that is played, after a lost volume, an     *)
(* aborted first boot or a deleted VM: as long as no mount and no restore  *)
(* ever failed.                                                            *)
RestoredWorldIsPlayed ==
    [][playing = NoIsland /\ playing' # NoIsland /\ restored = "ok"
       /\ latest.desc # NoIsland /\ mishaps = {}
       => playing' = latest.desc]_vars

(* A snapshot never lacks a world of the one it follows because a stop     *)
(* came before the restore was through, or at any other time: only a       *)
(* restore that failed loses worlds.                                       *)
SnapshotsKeepWorlds ==
    [][latest' # latest /\ latest # NoSnapshot =>
          restored = "failed" \/ (restored = "ok" /\ latest.worlds \subseteq latest'.worlds)]_vars

(* Once a world has been played, a snapshot names it: restoring that       *)
(* snapshot on a fresh volume brings it back.                              *)
SnapshotNamesPlayedWorld ==
    [][latest' # latest /\ playing # NoIsland => latest'.desc = playing]_vars

(* "Ready" is only posted once the real server of this VM was ready, never *)
(* for the temporary server of the first boot.                             *)
ReadyMeansServing == watcher = "posted" => "real" \in stream

(* Every boot ends with "ready", also when the mount or the restore failed *)
(* or the install had to be repeated, unless something else failed or the  *)
(* VM was stopped or deleted.                                              *)
BootBecomesReady == boot = "mount" ~> (watcher = "posted" \/ met # {} \/ boot = "no_vm")

(* The sessions of the VMs are one lineage of worlds, as module Lineage    *)
(* describes it: whatever boot step fails, whenever a stop, the loss of    *)
(* the VM or of the volume comes, and however often.                       *)
L == INSTANCE Lineage WITH
        Worlds <- Islands, None <- NoIsland,
        session <- CASE restored = "no" -> "none"
                     [] restored = "failed" -> "partial"
                     [] OTHER -> "whole",
        here <- gamedata.worlds,
        played <- playing,
        saved <- IF latest = NoSnapshot THEN {} ELSE latest.worlds,
        named <- IF latest = NoSnapshot THEN NoIsland ELSE latest.desc,
        sound <- mishaps = {}

ImplementsLineage == L!Spec

----------------------------------------------------------------------------
(* The inductive invariant                                                 *)

(* runcmd's order: no container before the restore, nothing on a VM that   *)
(* does not exist.                                                         *)
RuncmdOrder ==
    /\ restored = "no" <=> boot \in {"no_vm", "mount", "restore"}
    /\ restored = "no" => gamedata = EmptySaves
    /\ boot \in {"no_vm", "mount", "restore", "run_game"} => script = "none"
    /\ script = "none" => playing = NoIsland /\ stream = {} /\ watcher # "posted"
    /\ stop # "none" => script = "exited"

(* What was restored stays in /gamedata; a snapshot of a VM without a      *)
(* restore is the /gamedata of that VM, which nothing changes any more.    *)
GamedataFollowsSnapshot ==
    /\ restored = "ok" => latest # NoSnapshot /\ latest.worlds \subseteq gamedata.worlds
    /\ restored = "nothing" /\ latest # NoSnapshot => script = "exited" /\ gamedata = latest

(* From stamping on /gamedata names the world the game loads.              *)
GamedataNamesWorld ==
    /\ script \in {"stamp", "launch", "serving"} => desc[disk] # NoIsland
    /\ script \in {"launch", "serving"} => gamedata.desc = desc[disk]
    /\ playing # NoIsland => gamedata.desc = playing /\ script \in {"serving", "exited"}

(* Only the real server's marker reaches the watcher.                      *)
OnlyRealMarkers == "temporary" \notin stream /\ ReadyMeansServing

(* What the volume, /gamedata and the latest snapshot say of the world.    *)
Descriptions ==
    {desc["volume"], gamedata.desc} \cup (IF latest = NoSnapshot THEN {} ELSE {latest.desc})

(* Without mishaps they agree, and a first boot means that none says any.  *)
OneDescription ==
    mishaps = {} =>
        /\ \A i, j \in Descriptions \ {NoIsland} : i = j
        /\ boot \notin {"no_vm", "mount"} => disk = "volume"
        /\ restored # "failed"
        /\ restored = "ok" /\ latest.desc # NoIsland => gamedata.desc = latest.desc
        /\ script = "temporary" => desc[disk] = NoIsland /\ gamedata.desc = NoIsland

BootInv ==
    /\ TypeOK /\ RuncmdOrder /\ GamedataFollowsSnapshot /\ GamedataNamesWorld
    /\ OnlyRealMarkers /\ OneDescription
=============================================================================
