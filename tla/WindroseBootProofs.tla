------------------------- MODULE WindroseBootProofs -------------------------
(***************************************************************************)
(* Proofs about module WindroseBoot, for any number of worlds, attempts    *)
(* and kinds of fault: the inductive invariant, then what follows from it. *)
(***************************************************************************)
EXTENDS WindroseBoot, TLAPS

(* What /gamedata holds is never mistaken for the lack of a snapshot.      *)
LEMMA SavesAreSnapshots == NoSnapshot \notin Saves
  BY DEF NoSnapshot, Saves

(* The invariant of a VM's life: the order of runcmd, what /gamedata is    *)
(* with respect to the latest snapshot and to the world that is played,    *)
(* and, without mishaps, that all descriptions agree.                      *)
THEOREM BootInvInductive == Spec => []BootInv
<1>1. Init => BootInv
  BY BootAssumption DEF Init, BootInv, TypeOK, RuncmdOrder, GamedataFollowsSnapshot,
     GamedataNamesWorld, OnlyRealMarkers, ReadyMeansServing, OneDescription, Descriptions,
     IslandOrNone, Saves, EmptySaves, NoSnapshot, Disks
<1>2. BootInv /\ [Next]_vars => BootInv'
  <2> SUFFICES ASSUME BootInv, [Next]_vars PROVE BootInv'
    OBVIOUS
  <2> USE BootAssumption DEF world, container, history, BootInv
  <2>1. CASE CreateVm
    <3>1. TypeOK' BY <2>1 DEF CreateVm, TypeOK
    <3>2. RuncmdOrder' BY <2>1 DEF CreateVm, RuncmdOrder
    <3>3. GamedataFollowsSnapshot' BY <2>1 DEF CreateVm, GamedataFollowsSnapshot
    <3>4. GamedataNamesWorld' BY <2>1 DEF CreateVm, GamedataNamesWorld
    <3>5. OnlyRealMarkers' BY <2>1 DEF CreateVm, OnlyRealMarkers, ReadyMeansServing
    <3>6. OneDescription' BY <2>1 DEF CreateVm, OneDescription, Descriptions
    <3> QED BY <3>1, <3>2, <3>3, <3>4, <3>5, <3>6
  <2>2. CASE MountVolume
    <3>1. TypeOK'
      <4>1. disk' \in Disks BY <2>2 DEF MountVolume, TypeOK, Disks
      <4>2. mishaps' \in SUBSET {"mount", "restore"} BY <2>2 DEF MountVolume, TypeOK
      <4> QED BY <2>2, <4>1, <4>2 DEF MountVolume, TypeOK
    <3>2. RuncmdOrder' BY <2>2 DEF MountVolume, RuncmdOrder
    <3>3. GamedataFollowsSnapshot' BY <2>2 DEF MountVolume, GamedataFollowsSnapshot
    <3>4. GamedataNamesWorld' BY <2>2 DEF MountVolume, GamedataNamesWorld, RuncmdOrder
    <3>5. OnlyRealMarkers' BY <2>2 DEF MountVolume, OnlyRealMarkers, ReadyMeansServing
    <3>6. OneDescription' BY <2>2 DEF MountVolume, OneDescription, Descriptions, RuncmdOrder
    <3> QED BY <3>1, <3>2, <3>3, <3>4, <3>5, <3>6
  <2>3. CASE Restore
    <3>1. TypeOK'
      <4>1. gamedata' \in Saves BY <2>3 DEF Restore, TypeOK
      <4>2. restored' \in {"no", "ok", "nothing", "failed"} BY <2>3 DEF Restore
      <4>3. mishaps' \in SUBSET {"mount", "restore"} BY <2>3 DEF Restore, TypeOK
      <4> QED BY <2>3, <4>1, <4>2, <4>3 DEF Restore, TypeOK
    <3>2. RuncmdOrder' BY <2>3 DEF Restore, RuncmdOrder
    <3>3. GamedataFollowsSnapshot' BY <2>3 DEF Restore, GamedataFollowsSnapshot
    <3>4. GamedataNamesWorld' BY <2>3 DEF Restore, GamedataNamesWorld, RuncmdOrder
    <3>5. OnlyRealMarkers' BY <2>3 DEF Restore, OnlyRealMarkers, ReadyMeansServing
    <3>6. OneDescription' BY <2>3 DEF Restore, OneDescription, Descriptions, RuncmdOrder
    <3> QED BY <3>1, <3>2, <3>3, <3>4, <3>5, <3>6
  <2>4. CASE RunGame
    <3>1. TypeOK' BY <2>4 DEF RunGame, Meets, TypeOK
    <3>2. RuncmdOrder' BY <2>4 DEF RunGame, Meets, RuncmdOrder
    <3>3. GamedataFollowsSnapshot'
      BY <2>4 DEF RunGame, Meets, GamedataFollowsSnapshot, RuncmdOrder
    <3>4. GamedataNamesWorld' BY <2>4 DEF RunGame, Meets, GamedataNamesWorld, RuncmdOrder
    <3>5. OnlyRealMarkers' BY <2>4 DEF RunGame, Meets, OnlyRealMarkers, ReadyMeansServing
    <3>6. OneDescription' BY <2>4 DEF RunGame, Meets, OneDescription, Descriptions
    <3> QED BY <3>1, <3>2, <3>3, <3>4, <3>5, <3>6
  <2>5. CASE RunWatcher
    <3>1. TypeOK' BY <2>5 DEF RunWatcher, Meets, TypeOK
    <3>2. RuncmdOrder' BY <2>5 DEF RunWatcher, Meets, RuncmdOrder
    <3>3. GamedataFollowsSnapshot' BY <2>5 DEF RunWatcher, Meets, GamedataFollowsSnapshot
    <3>4. GamedataNamesWorld' BY <2>5 DEF RunWatcher, Meets, GamedataNamesWorld
    <3>5. OnlyRealMarkers' BY <2>5 DEF RunWatcher, Meets, OnlyRealMarkers, ReadyMeansServing
    <3>6. OneDescription' BY <2>5 DEF RunWatcher, Meets, OneDescription, Descriptions
    <3> QED BY <3>1, <3>2, <3>3, <3>4, <3>5, <3>6
  <2>6. CASE Install
    <3>1. TypeOK' BY <2>6 DEF Install, Exit, Meets, TypeOK
    <3>2. RuncmdOrder' BY <2>6 DEF Install, Exit, Meets, RuncmdOrder
    <3>3. GamedataFollowsSnapshot' BY <2>6 DEF Install, Exit, Meets, GamedataFollowsSnapshot
    <3>4. GamedataNamesWorld' BY <2>6 DEF Install, Exit, Meets, GamedataNamesWorld
    <3>5. OnlyRealMarkers' BY <2>6 DEF Install, Exit, Meets, OnlyRealMarkers, ReadyMeansServing
    <3>6. OneDescription' BY <2>6 DEF Install, Exit, Meets, OneDescription, Descriptions
    <3> QED BY <3>1, <3>2, <3>3, <3>4, <3>5, <3>6
  <2>7. CASE RestoreDescription
    <3>1. TypeOK'
      BY <2>7 DEF RestoreDescription, TypeOK, Saves, IslandOrNone, EmptySaves, Disks
    <3>2. RuncmdOrder' BY <2>7 DEF RestoreDescription, RuncmdOrder
    <3>3. GamedataFollowsSnapshot' BY <2>7 DEF RestoreDescription, GamedataFollowsSnapshot
    <3>4. GamedataNamesWorld' BY <2>7 DEF RestoreDescription, GamedataNamesWorld
    <3>5. OnlyRealMarkers' BY <2>7 DEF RestoreDescription, OnlyRealMarkers, ReadyMeansServing
    <3>6. OneDescription'
      BY <2>7 DEF RestoreDescription, OneDescription, Descriptions, EmptySaves, TypeOK, Saves
    <3> QED BY <3>1, <3>2, <3>3, <3>4, <3>5, <3>6
  <2>8. CASE GenerateDescription
    <3>1. TypeOK'
      BY <2>8 DEF GenerateDescription, Fresh, Exit, Meets, TypeOK, Saves, IslandOrNone,
        EmptySaves, Disks
    <3>2. RuncmdOrder' BY <2>8 DEF GenerateDescription, Fresh, Exit, Meets, RuncmdOrder
    <3>3. GamedataFollowsSnapshot'
      BY <2>8 DEF GenerateDescription, Fresh, Exit, Meets, GamedataFollowsSnapshot, TypeOK,
        Saves
    <3>4. GamedataNamesWorld'
      BY <2>8 DEF GenerateDescription, Fresh, Exit, Meets, GamedataNamesWorld, TypeOK
    <3>5. OnlyRealMarkers'
      BY <2>8 DEF GenerateDescription, Fresh, Exit, Meets, OnlyRealMarkers, ReadyMeansServing
    <3>6. OneDescription'
      BY <2>8 DEF GenerateDescription, Fresh, Exit, Meets, OneDescription, Descriptions,
        RuncmdOrder, GamedataFollowsSnapshot, TypeOK, Saves, Disks
    <3> QED BY <3>1, <3>2, <3>3, <3>4, <3>5, <3>6
  <2>9. CASE StampDescription
    <3>1. TypeOK' BY <2>9 DEF StampDescription, TypeOK, Saves, IslandOrNone, EmptySaves, Disks
    <3>2. RuncmdOrder' BY <2>9 DEF StampDescription, RuncmdOrder
    <3>3. GamedataFollowsSnapshot' BY <2>9 DEF StampDescription, GamedataFollowsSnapshot
    <3>4. GamedataNamesWorld' BY <2>9 DEF StampDescription, GamedataNamesWorld
    <3>5. OnlyRealMarkers' BY <2>9 DEF StampDescription, OnlyRealMarkers, ReadyMeansServing
    <3>6. OneDescription'
      BY <2>9 DEF StampDescription, OneDescription, Descriptions, TypeOK, RuncmdOrder,
        GamedataFollowsSnapshot, GamedataNamesWorld, Saves, Disks, EmptySaves
    <3> QED BY <3>1, <3>2, <3>3, <3>4, <3>5, <3>6
  <2>10. CASE Launch
    <3>1. TypeOK' BY <2>10 DEF Launch, TypeOK
    <3>2. RuncmdOrder' BY <2>10 DEF Launch, RuncmdOrder
    <3>3. GamedataFollowsSnapshot' BY <2>10 DEF Launch, GamedataFollowsSnapshot
    <3>4. GamedataNamesWorld' BY <2>10 DEF Launch, GamedataNamesWorld
    <3>5. OnlyRealMarkers' BY <2>10 DEF Launch, OnlyRealMarkers, ReadyMeansServing
    <3>6. OneDescription' BY <2>10 DEF Launch, OneDescription, Descriptions
    <3> QED BY <3>1, <3>2, <3>3, <3>4, <3>5, <3>6
  <2>11. CASE LoadWorld
    <3>1. TypeOK'
      <4>1. desc[disk] \in IslandOrNone BY DEF TypeOK
      <4>2. desc[disk] # NoIsland BY <2>11 DEF LoadWorld, GamedataNamesWorld
      <4>3. gamedata' \in Saves BY <2>11, <4>1, <4>2 DEF LoadWorld, TypeOK, Saves, IslandOrNone
      <4> QED BY <2>11, <4>1, <4>3 DEF LoadWorld, TypeOK
    <3>2. RuncmdOrder' BY <2>11 DEF LoadWorld, RuncmdOrder
    <3>3. GamedataFollowsSnapshot' BY <2>11 DEF LoadWorld, GamedataFollowsSnapshot
    <3>4. GamedataNamesWorld' BY <2>11 DEF LoadWorld, GamedataNamesWorld
    <3>5. OnlyRealMarkers' BY <2>11 DEF LoadWorld, OnlyRealMarkers, ReadyMeansServing
    <3>6. OneDescription' BY <2>11 DEF LoadWorld, OneDescription, Descriptions
    <3> QED BY <3>1, <3>2, <3>3, <3>4, <3>5, <3>6
  <2>12. CASE BecomeReady
    <3>1. TypeOK' BY <2>12 DEF BecomeReady, TypeOK
    <3>2. RuncmdOrder' BY <2>12 DEF BecomeReady, RuncmdOrder
    <3>3. GamedataFollowsSnapshot' BY <2>12 DEF BecomeReady, GamedataFollowsSnapshot
    <3>4. GamedataNamesWorld' BY <2>12 DEF BecomeReady, GamedataNamesWorld
    <3>5. OnlyRealMarkers' BY <2>12 DEF BecomeReady, OnlyRealMarkers, ReadyMeansServing
    <3>6. OneDescription' BY <2>12 DEF BecomeReady, OneDescription, Descriptions
    <3> QED BY <3>1, <3>2, <3>3, <3>4, <3>5, <3>6
  <2>13. CASE GameCrash
    <3>1. TypeOK' BY <2>13 DEF GameCrash, Exit, Meets, TypeOK
    <3>2. RuncmdOrder' BY <2>13 DEF GameCrash, Exit, Meets, RuncmdOrder
    <3>3. GamedataFollowsSnapshot' BY <2>13 DEF GameCrash, Exit, Meets, GamedataFollowsSnapshot
    <3>4. GamedataNamesWorld' BY <2>13 DEF GameCrash, Exit, Meets, GamedataNamesWorld
    <3>5. OnlyRealMarkers'
      BY <2>13 DEF GameCrash, Exit, Meets, OnlyRealMarkers, ReadyMeansServing
    <3>6. OneDescription' BY <2>13 DEF GameCrash, Exit, Meets, OneDescription, Descriptions
    <3> QED BY <3>1, <3>2, <3>3, <3>4, <3>5, <3>6
  <2>14. CASE GetAddresses
    <3>1. TypeOK'
      <4>1. watcher' \in {"none", "addresses", "container", "reading", "posted", "ended"}
        BY <2>14 DEF GetAddresses, WatcherGoto, WatcherFails
      <4>2. met' \in SUBSET (FaultKinds \cup {"stop"})
        BY <2>14 DEF GetAddresses, WatcherFails, Meets, TypeOK, FaultKinds
      <4>3. UNCHANGED <<boot, restored, disk, world, container, stop, mishaps>>
        BY <2>14 DEF GetAddresses, WatcherGoto, WatcherFails
      <4> QED BY <4>1, <4>2, <4>3 DEF TypeOK
    <3>2. RuncmdOrder' BY <2>14 DEF GetAddresses, WatcherGoto, WatcherFails, RuncmdOrder
    <3>3. GamedataFollowsSnapshot'
      BY <2>14 DEF GetAddresses, WatcherGoto, WatcherFails, GamedataFollowsSnapshot
    <3>4. GamedataNamesWorld'
      BY <2>14 DEF GetAddresses, WatcherGoto, WatcherFails, GamedataNamesWorld
    <3>5. OnlyRealMarkers'
      BY <2>14 DEF GetAddresses, WatcherGoto, WatcherFails, OnlyRealMarkers, ReadyMeansServing
    <3>6. OneDescription'
      BY <2>14 DEF GetAddresses, WatcherGoto, WatcherFails, OneDescription, Descriptions
    <3> QED BY <3>1, <3>2, <3>3, <3>4, <3>5, <3>6
  <2>15. CASE GetContainer
    <3>1. TypeOK'
      <4>1. watcher' \in {"none", "addresses", "container", "reading", "posted", "ended"}
        BY <2>15 DEF GetContainer, WatcherGoto, WatcherFails
      <4>2. met' \in SUBSET (FaultKinds \cup {"stop"})
        BY <2>15 DEF GetContainer, WatcherFails, Meets, TypeOK, FaultKinds
      <4>3. UNCHANGED <<boot, restored, disk, world, container, stop, mishaps>>
        BY <2>15 DEF GetContainer, WatcherGoto, WatcherFails
      <4> QED BY <4>1, <4>2, <4>3 DEF TypeOK
    <3>2. RuncmdOrder' BY <2>15 DEF GetContainer, WatcherGoto, WatcherFails, RuncmdOrder
    <3>3. GamedataFollowsSnapshot'
      BY <2>15 DEF GetContainer, WatcherGoto, WatcherFails, GamedataFollowsSnapshot
    <3>4. GamedataNamesWorld'
      BY <2>15 DEF GetContainer, WatcherGoto, WatcherFails, GamedataNamesWorld
    <3>5. OnlyRealMarkers'
      BY <2>15 DEF GetContainer, WatcherGoto, WatcherFails, OnlyRealMarkers, ReadyMeansServing
    <3>6. OneDescription'
      BY <2>15 DEF GetContainer, WatcherGoto, WatcherFails, OneDescription, Descriptions
    <3> QED BY <3>1, <3>2, <3>3, <3>4, <3>5, <3>6
  <2>16. CASE ReadLog
    <3>1. TypeOK'
      <4>1. watcher' \in {"none", "addresses", "container", "reading", "posted", "ended"}
        BY <2>16 DEF ReadLog, WatcherGoto, WatcherFails
      <4>2. met' \in SUBSET (FaultKinds \cup {"stop"})
        BY <2>16 DEF ReadLog, WatcherFails, Meets, TypeOK, FaultKinds
      <4>3. UNCHANGED <<boot, restored, disk, world, container, stop, mishaps>>
        BY <2>16 DEF ReadLog, WatcherGoto, WatcherFails
      <4> QED BY <4>1, <4>2, <4>3 DEF TypeOK
    <3>2. RuncmdOrder' BY <2>16 DEF ReadLog, WatcherGoto, WatcherFails, RuncmdOrder
    <3>3. GamedataFollowsSnapshot'
      BY <2>16 DEF ReadLog, WatcherGoto, WatcherFails, GamedataFollowsSnapshot
    <3>4. GamedataNamesWorld'
      BY <2>16 DEF ReadLog, WatcherGoto, WatcherFails, GamedataNamesWorld
    <3>5. OnlyRealMarkers'
      BY <2>16 DEF ReadLog, WatcherGoto, WatcherFails, OnlyRealMarkers, ReadyMeansServing,
        RuncmdOrder, TypeOK
    <3>6. OneDescription'
      BY <2>16 DEF ReadLog, WatcherGoto, WatcherFails, OneDescription, Descriptions
    <3> QED BY <3>1, <3>2, <3>3, <3>4, <3>5, <3>6
  <2>17. CASE StopGame
    <3>1. TypeOK' BY <2>17 DEF StopGame, StopGoto, Meets, TypeOK
    <3>2. RuncmdOrder' BY <2>17 DEF StopGame, StopGoto, Meets, RuncmdOrder
    <3>3. GamedataFollowsSnapshot'
      BY <2>17 DEF StopGame, StopGoto, Meets, GamedataFollowsSnapshot
    <3>4. GamedataNamesWorld' BY <2>17 DEF StopGame, StopGoto, Meets, GamedataNamesWorld
    <3>5. OnlyRealMarkers'
      BY <2>17 DEF StopGame, StopGoto, Meets, OnlyRealMarkers, ReadyMeansServing
    <3>6. OneDescription' BY <2>17 DEF StopGame, StopGoto, Meets, OneDescription, Descriptions
    <3> QED BY <3>1, <3>2, <3>3, <3>4, <3>5, <3>6
  <2>18. CASE BackUp
    <3>1. TypeOK'
      <4>1. latest' \in Saves \cup {NoSnapshot} BY <2>18 DEF BackUp, TypeOK
      <4>2. stop' \in {"none", "backup", "teardown"} BY <2>18 DEF BackUp, StopGoto
      <4>3. UNCHANGED <<boot, restored, disk, desc, gamedata, container, watcher, history>>
        BY <2>18 DEF BackUp, StopGoto
      <4> QED BY <4>1, <4>2, <4>3 DEF TypeOK
    <3>2. RuncmdOrder' BY <2>18 DEF BackUp, StopGoto, RuncmdOrder
    <3>3. GamedataFollowsSnapshot'
      BY <2>18, SavesAreSnapshots DEF BackUp, StopGoto, GamedataFollowsSnapshot, RuncmdOrder,
        TypeOK, Saves
    <3>4. GamedataNamesWorld' BY <2>18 DEF BackUp, StopGoto, GamedataNamesWorld
    <3>5. OnlyRealMarkers' BY <2>18 DEF BackUp, StopGoto, OnlyRealMarkers, ReadyMeansServing
    <3>6. OneDescription' BY <2>18 DEF BackUp, StopGoto, OneDescription, Descriptions
    <3> QED BY <3>1, <3>2, <3>3, <3>4, <3>5, <3>6
  <2>19. CASE TearDown
    <3>1. TypeOK'
      <4>1. CASE RemoveVm
        BY <4>1 DEF RemoveVm, TypeOK, IslandOrNone, Saves, EmptySaves, Disks
      <4>2. CASE StopGoto("none") /\ UNCHANGED <<latest, script, met>>
        BY <4>2 DEF StopGoto, TypeOK
      <4> QED BY <2>19, <4>1, <4>2 DEF TearDown
    <3>2. RuncmdOrder' BY <2>19 DEF TearDown, StopGoto, RemoveVm, RuncmdOrder
    <3>3. GamedataFollowsSnapshot'
      BY <2>19 DEF TearDown, StopGoto, RemoveVm, GamedataFollowsSnapshot
    <3>4. GamedataNamesWorld' BY <2>19 DEF TearDown, StopGoto, RemoveVm, GamedataNamesWorld
    <3>5. OnlyRealMarkers'
      BY <2>19 DEF TearDown, StopGoto, RemoveVm, OnlyRealMarkers, ReadyMeansServing
    <3>6. OneDescription'
      BY <2>19 DEF TearDown, StopGoto, RemoveVm, OneDescription, Descriptions, RuncmdOrder,
        EmptySaves, TypeOK, Saves
    <3> QED BY <3>1, <3>2, <3>3, <3>4, <3>5, <3>6
  <2>20. CASE VmLost
    <3>1. TypeOK' BY <2>20 DEF VmLost, RemoveVm, TypeOK, Saves, IslandOrNone, EmptySaves, Disks
    <3>2. RuncmdOrder' BY <2>20 DEF VmLost, RemoveVm, RuncmdOrder
    <3>3. GamedataFollowsSnapshot' BY <2>20 DEF VmLost, RemoveVm, GamedataFollowsSnapshot
    <3>4. GamedataNamesWorld' BY <2>20 DEF VmLost, RemoveVm, GamedataNamesWorld
    <3>5. OnlyRealMarkers' BY <2>20 DEF VmLost, RemoveVm, OnlyRealMarkers, ReadyMeansServing
    <3>6. OneDescription'
      BY <2>20 DEF VmLost, RemoveVm, OneDescription, Descriptions, EmptySaves, TypeOK, Saves
    <3> QED BY <3>1, <3>2, <3>3, <3>4, <3>5, <3>6
  <2>21. CASE VolumeLost
    <3>1. TypeOK' BY <2>21 DEF VolumeLost, TypeOK, Saves, IslandOrNone, EmptySaves, Disks
    <3>2. RuncmdOrder' BY <2>21 DEF VolumeLost, RuncmdOrder
    <3>3. GamedataFollowsSnapshot' BY <2>21 DEF VolumeLost, GamedataFollowsSnapshot
    <3>4. GamedataNamesWorld' BY <2>21 DEF VolumeLost, GamedataNamesWorld, RuncmdOrder
    <3>5. OnlyRealMarkers' BY <2>21 DEF VolumeLost, OnlyRealMarkers, ReadyMeansServing
    <3>6. OneDescription' BY <2>21 DEF VolumeLost, OneDescription, Descriptions
    <3> QED BY <3>1, <3>2, <3>3, <3>4, <3>5, <3>6
  <2>22. CASE UNCHANGED vars
    BY <2>22 DEF vars, TypeOK, RuncmdOrder, GamedataFollowsSnapshot, GamedataNamesWorld,
       OnlyRealMarkers, ReadyMeansServing, OneDescription, Descriptions
  <2> QED
    BY <2>1, <2>2, <2>3, <2>4, <2>5, <2>6, <2>7, <2>8, <2>9, <2>10, <2>11,
       <2>12, <2>13, <2>14, <2>15, <2>16, <2>17, <2>18, <2>19, <2>20, <2>21, <2>22
       DEF Next, Runcmd, Container, Watch
<1> QED BY <1>1, <1>2, PTL DEF Spec

(* "Ready" is never posted for the temporary server of a first boot.       *)
THEOREM ReadyOnlyWhenServing == Spec => []ReadyMeansServing
<1>1. BootInv => ReadyMeansServing
  BY DEF BootInv, OnlyRealMarkers
<1> QED BY <1>1, BootInvInductive, PTL

(* The only step that starts a world loads the one /gamedata names, which  *)
(* without mishaps is the restored one.                                    *)
THEOREM RestoredIsPlayed == Spec => RestoredWorldIsPlayed
<1> DEFINE Loads == playing = NoIsland /\ playing' # NoIsland /\ restored = "ok"
                    /\ latest.desc # NoIsland /\ mishaps = {}
<1>1. BootInv /\ Next => (Loads => playing' = latest.desc)
  <2> SUFFICES ASSUME BootInv, Next, Loads PROVE playing' = latest.desc
    OBVIOUS
  <2>1. LoadWorld
    BY DEF Next, Runcmd, Container, Watch, container,
       CreateVm, MountVolume, Restore, RunGame, RunWatcher, Install, RestoreDescription,
       GenerateDescription, StampDescription, Launch, BecomeReady, GameCrash, GetAddresses,
       GetContainer, ReadLog, WatcherGoto, WatcherFails, StopGame, BackUp, TearDown,
       StopGoto, VmLost, VolumeLost, RemoveVm
  <2>2. playing' = gamedata.desc
    BY <2>1 DEF LoadWorld, BootInv, GamedataNamesWorld
  <2>3. gamedata.desc = latest.desc
    BY DEF BootInv, OneDescription
  <2> QED BY <2>2, <2>3
<1>2. BootInv /\ [Next]_vars => [Loads => playing' = latest.desc]_vars
  BY <1>1
<1> QED BY <1>2, BootInvInductive, PTL DEF Spec, RestoredWorldIsPlayed

(* Only BackUp changes the latest snapshot.                                *)
LEMMA OnlyBackUpSaves == Next /\ latest' # latest => BackUp /\ latest' = gamedata
  BY DEF Next, Runcmd, Container, Watch, world,
     CreateVm, MountVolume, Restore, RunGame, RunWatcher, Install, RestoreDescription,
     GenerateDescription, StampDescription, Launch, LoadWorld, BecomeReady, GameCrash,
     GetAddresses, GetContainer, ReadLog, WatcherGoto, WatcherFails, StopGame, BackUp,
     TearDown, StopGoto, VmLost, VolumeLost, RemoveVm

(* A snapshot has every world of the one it follows, unless a restore      *)
(* failed: a stop that races the boot never saves an empty /gamedata.      *)
THEOREM WorldsAreKept == Spec => SnapshotsKeepWorlds
<1> DEFINE Keeps == latest' # latest /\ latest # NoSnapshot =>
                      restored = "failed"
                      \/ (restored = "ok" /\ latest.worlds \subseteq latest'.worlds)
<1>1. BootInv /\ Next => Keeps
  <2> SUFFICES ASSUME BootInv, Next, latest' # latest, latest # NoSnapshot PROVE Keeps
    OBVIOUS
  <2>1. BackUp /\ latest' = gamedata
    BY OnlyBackUpSaves
  <2>2. restored # "no"
    BY <2>1 DEF BackUp, BootInv, RuncmdOrder
  <2>3. restored # "nothing"
    BY <2>1 DEF BootInv, GamedataFollowsSnapshot
  <2>4. restored = "ok" => latest.worlds \subseteq latest'.worlds
    BY <2>1 DEF BootInv, GamedataFollowsSnapshot
  <2>5. restored \in {"no", "ok", "nothing", "failed"}
    BY DEF BootInv, TypeOK
  <2> QED BY <2>2, <2>3, <2>4, <2>5
<1>2. BootInv /\ [Next]_vars => [Keeps]_vars
  BY <1>1
<1> QED BY <1>2, BootInvInductive, PTL DEF Spec, SnapshotsKeepWorlds

(* A snapshot taken after a world was played names it.                     *)
THEOREM WorldIsNamed == Spec => SnapshotNamesPlayedWorld
<1> DEFINE Names == latest' # latest /\ playing # NoIsland => latest'.desc = playing
<1>1. BootInv /\ Next => Names
  BY OnlyBackUpSaves DEF BootInv, GamedataNamesWorld
<1>2. BootInv /\ [Next]_vars => [Names]_vars
  BY <1>1
<1> QED BY <1>2, BootInvInductive, PTL DEF Spec, SnapshotNamesPlayedWorld
----------------------------------------------------------------------------
(* The lineage of worlds                                                   *)

(* A step that leaves the saves, the restore, the game's world and the     *)
(* account of mishaps alone is none of the lineage.                        *)
LEMMA ElsewhereStutters ==
    ASSUME UNCHANGED <<restored, gamedata, latest, playing, mishaps>>
    PROVE  UNCHANGED L!lineageVars
BY DEF L!lineageVars

(* The end of a VM ends its session, if it had one.                        *)
LEMMA RemovalEndsSession ==
    ASSUME BootInv, RemoveVm
    PROVE  [L!Next]_(L!lineageVars)
<1>1. CASE restored = "no"
  <2>1. gamedata = EmptySaves /\ playing = NoIsland
    BY <1>1 DEF BootInv, RuncmdOrder
  <2>2. QED BY <1>1, <2>1, ElsewhereStutters DEF RemoveVm
<1>2. CASE restored # "no"
  <2>1. L!End BY <1>2 DEF RemoveVm, EmptySaves, L!End, BootInv, TypeOK
  <2>2. QED BY <2>1 DEF L!Next
<1>3. QED BY <1>1, <1>2

(* Every step of the VM is a step of the lineage or none of its business.  *)
LEMMA LineageStep ==
    ASSUME BootInv, [Next]_vars
    PROVE  [L!Next]_(L!lineageVars)
<1> USE DEF container, world, history
<1>1. CASE \/ UNCHANGED vars \/ CreateVm \/ RunGame \/ RunWatcher \/ Install \/ RestoreDescription
           \/ Launch \/ BecomeReady \/ GameCrash \/ Watch \/ StopGame \/ VolumeLost
  <2>1. UNCHANGED <<restored, gamedata, latest, playing, mishaps>>
    BY <1>1 DEF vars, CreateVm, RunGame, RunWatcher, Install, RestoreDescription, Launch, BecomeReady,
       GameCrash, Watch, GetAddresses, GetContainer, ReadLog, WatcherGoto, WatcherFails, StopGame,
       StopGoto, VolumeLost, Exit, Meets
  <2>2. QED BY <2>1, ElsewhereStutters
<1>2. CASE MountVolume
  <2>1. CASE UNCHANGED mishaps BY <1>2, <2>1, ElsewhereStutters DEF MountVolume
  <2>2. CASE mishaps' = mishaps \cup {"mount"}
    <3>1. L!Mishap BY <1>2, <2>2 DEF MountVolume, L!Mishap, BootInv, RuncmdOrder
    <3>2. QED BY <3>1 DEF L!Next
  <2>3. QED BY <1>2, <2>1, <2>2 DEF MountVolume
<1>3. CASE Restore
  <2>1. restored = "no" /\ gamedata = EmptySaves
    BY <1>3 DEF Restore, BootInv, RuncmdOrder
  <2>2. CASE restored' = "failed"
    <3>1. L!ResumePartly BY <1>3, <2>1, <2>2 DEF Restore, L!ResumePartly
    <3>2. QED BY <3>1 DEF L!Next
  <2>3. CASE restored' # "failed"
    <3>1. L!Resume BY <1>3, <2>1, <2>3 DEF Restore, L!Resume, EmptySaves
    <3>2. QED BY <3>1 DEF L!Next
  <2>4. QED BY <2>2, <2>3
<1>4. CASE GenerateDescription
  <2>1. CASE UNCHANGED gamedata BY <1>4, <2>1, ElsewhereStutters DEF GenerateDescription
  <2>2. ASSUME NEW i \in Islands, Fresh(i), gamedata' = [gamedata EXCEPT !.worlds = @ \cup {i}]
        PROVE  L!Begin(i)
    <3>1. restored # "no" /\ playing = NoIsland
      BY <1>4 DEF GenerateDescription, BootInv, RuncmdOrder, GamedataNamesWorld
    <3>2. mishaps = {} /\ latest # NoSnapshot => latest.desc = NoIsland
      BY <1>4 DEF GenerateDescription, BootInv, TypeOK, OneDescription, GamedataFollowsSnapshot,
         RuncmdOrder
    <3>3. i \notin gamedata.worlds /\ (latest # NoSnapshot => i \notin latest.worlds)
      BY <2>2 DEF Fresh
    <3>4. gamedata'.worlds = gamedata.worlds \cup {i}
      BY <2>2 DEF BootInv, TypeOK, Saves
    <3>5. QED BY <1>4, <3>1, <3>2, <3>3, <3>4 DEF GenerateDescription, L!Begin, BootInv, TypeOK
  <2>3. QED BY <1>4, <2>1, <2>2 DEF GenerateDescription, L!Next
<1>5. CASE StampDescription
  <2>1. gamedata'.worlds = gamedata.worlds /\ UNCHANGED <<restored, latest, playing, mishaps>>
    BY <1>5 DEF StampDescription, BootInv, TypeOK, Saves
  <2>2. QED BY <2>1 DEF L!lineageVars
<1>6. CASE LoadWorld
  <2> DEFINE i == desc[disk]
  <2>1. i = gamedata.desc /\ i # NoIsland /\ i \in Islands /\ playing = NoIsland /\ restored # "no"
    BY <1>6 DEF LoadWorld, BootInv, TypeOK, IslandOrNone, Saves, GamedataNamesWorld, RuncmdOrder
  <2>2. mishaps = {} /\ latest # NoSnapshot => latest.desc \in {i, NoIsland}
    BY <1>6, <2>1 DEF LoadWorld, BootInv, TypeOK, OneDescription, GamedataFollowsSnapshot, RuncmdOrder
  <2>3. gamedata'.worlds = gamedata.worlds \cup {i} /\ playing' = i
    BY <1>6 DEF LoadWorld, BootInv, TypeOK, Saves
  <2>4. L!Play(i) BY <1>6, <2>1, <2>2, <2>3 DEF LoadWorld, L!Play, BootInv, TypeOK
  <2>5. QED BY <2>1, <2>4 DEF L!Next
<1>7. CASE BackUp
  <2>1. CASE UNCHANGED latest BY <1>7, <2>1, ElsewhereStutters DEF BackUp, StopGoto
  <2>2. CASE latest' = gamedata
    <3>1. restored \in {"ok", "nothing", "failed"} /\ gamedata # NoSnapshot
      BY <1>7, SavesAreSnapshots DEF BackUp, BootInv, TypeOK, RuncmdOrder
    <3>2. restored # "failed" /\ latest # NoSnapshot => latest.worlds \subseteq gamedata.worlds
      BY <1>7, <3>1 DEF BackUp, BootInv, GamedataFollowsSnapshot
    <3>3. gamedata.desc \in Islands \cup {NoIsland}
      BY DEF BootInv, TypeOK, Saves, IslandOrNone
    <3>4. playing # NoIsland => gamedata.desc = playing
      BY DEF BootInv, GamedataNamesWorld
    <3>5. mishaps = {} /\ latest # NoSnapshot /\ latest.desc # NoIsland => gamedata.desc = latest.desc
      BY <3>1 DEF BootInv, OneDescription, GamedataFollowsSnapshot
    <3>6. UNCHANGED <<restored, gamedata, playing, mishaps>>
      BY <1>7 DEF BackUp, StopGoto
    <3>7. L!Save BY <2>2, <3>1, <3>2, <3>3, <3>4, <3>5, <3>6 DEF L!Save
    <3>8. QED BY <3>7 DEF L!Next
  <2>3. QED BY <1>7, <2>1, <2>2 DEF BackUp
<1>8. CASE TearDown \/ VmLost
  <2>1. CASE RemoveVm BY <2>1, RemovalEndsSession
  <2>2. CASE StopGoto("none") /\ UNCHANGED latest BY <2>2, ElsewhereStutters DEF StopGoto
  <2>3. QED BY <1>8, <2>1, <2>2 DEF TearDown, VmLost
<1>9. QED
  BY <1>1, <1>2, <1>3, <1>4, <1>5, <1>6, <1>7, <1>8 DEF Next, Runcmd, Container

(* The sessions of the VMs implement the lineage, for any number of        *)
(* worlds, sessions, failures and stops.                                   *)
THEOREM LineageKept == Spec => ImplementsLineage
<1>1. Init => L!Init BY DEF Init, EmptySaves, L!Init
<1>2. BootInv /\ [Next]_vars => [L!Next]_(L!lineageVars) BY LineageStep
<1>3. QED BY <1>1, <1>2, BootInvInductive, PTL DEF Spec, ImplementsLineage, L!Spec

(* Without mishaps the players of all sessions are in one and the same     *)
(* world, by the abstract specification alone.                             *)
THEOREM OneWorldForAll == Spec => []L!OneWorld
<1>1. L!Init => L!OneWorld BY DEF L!Init, L!OneWorld
<1>2. L!OneWorld /\ [L!Next]_(L!lineageVars) => L!OneWorld'
  <2> SUFFICES ASSUME L!OneWorld, [L!Next]_(L!lineageVars) PROVE L!OneWorld'
    OBVIOUS
  <2>1. CASE UNCHANGED L!lineageVars BY <2>1 DEF L!lineageVars, L!OneWorld
  <2>2. CASE L!Resume \/ L!ResumePartly \/ L!Mishap \/ L!End
    BY <2>2 DEF L!Resume, L!ResumePartly, L!Mishap, L!End, L!OneWorld
  <2>3. ASSUME NEW w \in Islands, L!Begin(w) \/ L!Play(w) PROVE L!OneWorld'
    BY <2>3 DEF L!Begin, L!Play, L!OneWorld
  <2>4. CASE L!Save BY <2>4 DEF L!Save, L!OneWorld
  <2>5. QED BY <2>1, <2>2, <2>3, <2>4 DEF L!Next
<1>3. QED BY <1>1, <1>2, LineageKept, PTL DEF ImplementsLineage, L!Spec
----------------------------------------------------------------------------
(* Every boot comes to an end                                              *)

(* The steps that lie ahead of each part of a boot, at most.               *)
RuncmdLeft ==
    CASE boot = "mount" -> 4 [] boot = "restore" -> 3 [] boot = "run_game" -> 2
      [] boot = "run_watcher" -> 1 [] OTHER -> 0

ScriptLeft ==
    CASE script = "none" -> 7 [] script = "install" -> 6 [] script = "description" -> 5
      [] script = "temporary" -> 4 [] script = "stamp" -> 3 [] script = "launch" -> 2
      [] script = "serving" -> 1 [] OTHER -> 0

WatcherLeft ==
    CASE watcher = "none" -> 4 [] watcher = "addresses" -> 3 [] watcher = "container" -> 2
      [] watcher = "reading" -> 1 [] OTHER -> 0

GameLeft ==
    (IF playing = NoIsland THEN 1 ELSE 0) + (IF "real" \in stream THEN 0 ELSE 1)

BootLeft == RuncmdLeft + ScriptLeft + WatcherLeft + GameLeft + (MaxAttempts - attempt)

(* runcmd, the scripts and the watcher never go round in circles: each of  *)
(* their steps leaves fewer of them, the install's retries included, of    *)
(* which a VM has at most MaxAttempts + 16 in all.                         *)
BootsGoForward == [][Runcmd \/ Container \/ Watch => BootLeft' < BootLeft]_vars

(* A boot that met none of the faults in FaultKinds and no stop is on its  *)
(* way to "ready": its container runs and its watcher watches.             *)
UnhinderedGoesOn ==
    met = {} =>
        /\ script # "exited" /\ watcher # "ended"
        /\ boot \in {"run_watcher", "done"} => script # "none"
        /\ boot = "done" => watcher # "none"

(* The watcher is started last.                                            *)
WatcherIsLast == watcher # "none" => boot = "done"

LEMMA WatcherComesLast == Spec => []WatcherIsLast
<1> USE DEF WatcherIsLast, world, container, history
<1>1. Init => WatcherIsLast BY DEF Init
<1>2. WatcherIsLast /\ [Next]_vars => WatcherIsLast'
  <2>1. UNCHANGED vars \/ CreateVm \/ Runcmd => (WatcherIsLast => WatcherIsLast')
    BY DEF vars, CreateVm, Runcmd, MountVolume, Restore, RunGame, RunWatcher
  <2>2. Container \/ GameCrash => (WatcherIsLast => WatcherIsLast')
    BY DEF Container, Install, RestoreDescription, GenerateDescription, StampDescription,
       Launch, LoadWorld, BecomeReady, GameCrash
  <2>3. Watch => (WatcherIsLast => WatcherIsLast')
    BY DEF Watch, GetAddresses, GetContainer, ReadLog, WatcherFails, WatcherGoto
  <2>4. StopGame \/ BackUp \/ TearDown \/ VmLost \/ VolumeLost => (WatcherIsLast => WatcherIsLast')
    BY DEF StopGame, BackUp, TearDown, VmLost, VolumeLost, RemoveVm, StopGoto
  <2>5. QED BY <2>1, <2>2, <2>3, <2>4 DEF Next
<1>3. QED BY <1>1, <1>2, PTL DEF Spec

(* If no part of what lies ahead grows and one shrinks, less lies ahead.   *)
LEMMA LessIsLeft ==
    ASSUME NEW r \in Nat, NEW s \in Nat, NEW w \in Nat, NEW g \in Nat, NEW a \in Nat,
           NEW r2 \in Nat, NEW s2 \in Nat, NEW w2 \in Nat, NEW g2 \in Nat, NEW a2 \in Nat,
           r2 <= r, s2 <= s, w2 <= w, g2 <= g, a <= a2,
           r2 < r \/ s2 < s \/ w2 < w \/ g2 < g \/ a < a2
    PROVE  r2 + s2 + w2 + g2 + (MaxAttempts - a2) < r + s + w + g + (MaxAttempts - a)
BY BootAssumption

LEMMA ForwardStep ==
    ASSUME BootInv, WatcherIsLast, vars' # vars, Runcmd \/ Container \/ Watch
    PROVE  BootLeft' < BootLeft
<1> USE DEF world, container, history
<1>1. attempt \in Nat BY BootAssumption DEF BootInv, TypeOK
<1>2. /\ RuncmdLeft \in Nat /\ ScriptLeft \in Nat /\ WatcherLeft \in Nat /\ GameLeft \in Nat
      /\ RuncmdLeft' \in Nat /\ ScriptLeft' \in Nat /\ WatcherLeft' \in Nat /\ GameLeft' \in Nat
  BY DEF RuncmdLeft, ScriptLeft, WatcherLeft, GameLeft
<1> SUFFICES /\ RuncmdLeft' <= RuncmdLeft /\ ScriptLeft' <= ScriptLeft /\ attempt' \in Nat
             /\ WatcherLeft' <= WatcherLeft /\ GameLeft' <= GameLeft /\ attempt <= attempt'
             /\ \/ RuncmdLeft' < RuncmdLeft \/ ScriptLeft' < ScriptLeft
                \/ WatcherLeft' < WatcherLeft \/ GameLeft' < GameLeft \/ attempt < attempt'
  BY <1>1, <1>2, LessIsLeft DEF BootLeft
<1>3. CASE MountVolume \/ Restore \/ RunGame \/ RunWatcher
  <2>1. UNCHANGED <<attempt, playing, stream>> BY <1>3 DEF MountVolume, Restore, RunGame, RunWatcher
  <2>2. RuncmdLeft' < RuncmdLeft
    BY <1>3 DEF MountVolume, Restore, RunGame, RunWatcher, RuncmdLeft
  <2>3. ScriptLeft' <= ScriptLeft
    BY <1>3 DEF MountVolume, Restore, RunGame, RunWatcher, ScriptLeft, BootInv, RuncmdOrder
  <2>4. WatcherLeft' <= WatcherLeft
    BY <1>3 DEF MountVolume, Restore, RunGame, RunWatcher, WatcherLeft, WatcherIsLast
  <2>5. GameLeft' = GameLeft BY <2>1 DEF GameLeft
  <2>6. QED BY <1>1, <1>2, <2>1, <2>2, <2>3, <2>4, <2>5
<1>4. CASE RestoreDescription \/ GenerateDescription \/ StampDescription \/ Launch
  <2>1. UNCHANGED <<boot, attempt, playing, stream, watcher>>
    BY <1>4 DEF RestoreDescription, GenerateDescription, StampDescription, Launch
  <2>2. ScriptLeft' < ScriptLeft
    BY <1>4 DEF RestoreDescription, GenerateDescription, StampDescription, Launch, Exit, ScriptLeft
  <2>3. RuncmdLeft' = RuncmdLeft /\ WatcherLeft' = WatcherLeft /\ GameLeft' = GameLeft
    BY <2>1 DEF RuncmdLeft, WatcherLeft, GameLeft
  <2>4. QED BY <1>1, <1>2, <2>1, <2>2, <2>3
<1>5. CASE Install
  <2>1. UNCHANGED <<boot, playing, stream, watcher>> BY <1>5 DEF Install
  <2>2. RuncmdLeft' = RuncmdLeft /\ WatcherLeft' = WatcherLeft /\ GameLeft' = GameLeft
    BY <2>1 DEF RuncmdLeft, WatcherLeft, GameLeft
  <2>3. CASE script' = script /\ attempt' = attempt + 1
    BY <1>1, <1>2, <2>2, <2>3 DEF ScriptLeft
  <2>4. CASE script' # script /\ attempt' = attempt
    <3>1. ScriptLeft' < ScriptLeft
      BY <1>5, <2>4 DEF Install, Exit, ScriptLeft
    <3>2. QED BY <1>1, <1>2, <2>2, <2>4, <3>1
  <2>5. QED BY <1>5, <2>3, <2>4 DEF Install, Exit
<1>6. CASE LoadWorld \/ BecomeReady
  <2>1. UNCHANGED <<boot, attempt, script, watcher>> BY <1>6 DEF LoadWorld, BecomeReady
  <2>2. RuncmdLeft' = RuncmdLeft /\ WatcherLeft' = WatcherLeft /\ ScriptLeft' = ScriptLeft
    BY <2>1 DEF RuncmdLeft, WatcherLeft, ScriptLeft
  <2>3. GameLeft' < GameLeft
    <3>1. CASE LoadWorld
      BY <3>1 DEF LoadWorld, GameLeft, BootInv, GamedataNamesWorld
    <3>2. CASE BecomeReady
      <4>1. "real" \notin stream /\ "real" \in stream' /\ playing' = playing
        BY <3>2 DEF BecomeReady, vars
      <4>2. QED BY <4>1 DEF GameLeft
    <3>3. QED BY <1>6, <3>1, <3>2
  <2>4. QED BY <1>1, <1>2, <2>1, <2>2, <2>3
<1>7. CASE Watch
  <2>1. UNCHANGED <<boot, attempt, script, playing, stream>>
    BY <1>7 DEF Watch, GetAddresses, GetContainer, ReadLog, WatcherFails, WatcherGoto
  <2>2. RuncmdLeft' = RuncmdLeft /\ ScriptLeft' = ScriptLeft /\ GameLeft' = GameLeft
    BY <2>1 DEF RuncmdLeft, ScriptLeft, GameLeft
  <2>3. WatcherLeft' < WatcherLeft
    BY <1>7 DEF Watch, GetAddresses, GetContainer, ReadLog, WatcherFails, WatcherGoto, WatcherLeft
  <2>4. QED BY <1>1, <1>2, <2>1, <2>2, <2>3
<1>8. QED BY <1>3, <1>4, <1>5, <1>6, <1>7 DEF Runcmd, Container

(* The retries of the install are counted, the game loads its world once   *)
(* (its description names one, by GamedataNamesWorld), and every other     *)
(* step goes on to a later one.                                            *)
THEOREM BootsAlwaysGoForward == Spec => BootsGoForward
<1> DEFINE Forward == Runcmd \/ Container \/ Watch => BootLeft' < BootLeft
<1>1. BootInv /\ WatcherIsLast /\ [Next]_vars => [Forward]_vars BY ForwardStep
<1>2. QED BY <1>1, BootInvInductive, WatcherComesLast, PTL DEF Spec, BootsGoForward

(* Whatever keeps a boot from going on has left its trace in met: nothing  *)
(* else stops it, and no order of stop, boot and watcher does.             *)
THEOREM UnhinderedBootsGoOn == Spec => []UnhinderedGoesOn
<1> USE DEF UnhinderedGoesOn, WatcherIsLast, world, container, history, Meets, Exit
<1>1. Init => UnhinderedGoesOn BY DEF Init
<1>2. BootInv /\ WatcherIsLast /\ UnhinderedGoesOn /\ [Next]_vars => UnhinderedGoesOn'
  <2> SUFFICES ASSUME BootInv, WatcherIsLast, UnhinderedGoesOn, [Next]_vars
               PROVE  UnhinderedGoesOn'
    OBVIOUS
  <2>1. CASE UNCHANGED vars \/ CreateVm \/ Runcmd
    BY <2>1 DEF vars, CreateVm, Runcmd, MountVolume, Restore, RunGame, RunWatcher, BootInv, RuncmdOrder
  <2>2. CASE Container \/ GameCrash
    BY <2>2 DEF Container, Install, RestoreDescription, GenerateDescription, StampDescription,
       Launch, LoadWorld, BecomeReady, GameCrash
  <2>3. CASE Watch
    BY <2>3 DEF Watch, GetAddresses, GetContainer, ReadLog, WatcherFails, WatcherGoto
  <2>4. CASE StopGame \/ BackUp \/ TearDown \/ VmLost \/ VolumeLost
    BY <2>4 DEF StopGame, BackUp, TearDown, VmLost, VolumeLost, RemoveVm, StopGoto, BootInv,
       RuncmdOrder
  <2>5. QED BY <2>1, <2>2, <2>3, <2>4 DEF Next
<1>3. QED BY <1>1, <1>2, BootInvInductive, WatcherComesLast, PTL DEF Spec
=============================================================================
