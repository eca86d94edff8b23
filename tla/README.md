# Verification of the game-server deployment bot

TLA+ models of the bot, the TLC configurations that check them on small
instances, and TLAPS proofs of the properties that matter most. Paths are
relative to the repository (`src/...`); `provisioner.py` and the other Python
files are in `src/discord_bot/`.

## 1. The system

A Discord command travels through four parts that share only Redis and the
outside world:

    Discord -> bot.py handler -> RQ queue (Redis) -> job-runner worker (jobs.py)
                   |                                    |  lock "<game>_server" (Redis)
             cooldown (Redis)                           +-> provisioner.py -> Hetzner API
                                                        +-> remote_ops.py  -> SSH to the VM
                                                        +-> dns.py         -> deSEC API
    the VM: cloud-init -> restore -> game container, server_launch_watcher.py

| Component | State | Operations | Interacts with | What is hard | What makes it correct |
|---|---|---|---|---|---|
| Bot (`bot.py`, `db.py`) | handlers in flight, `cooldown_<command>` keys | one slash command per game and action | Discord (await), Redis, the queue | handlers interleave at every `await`; restarts; Redis and Discord errors | two runs of a command are a cooldown apart; a denied channel has no effect; what is accepted is run |
| Jobs (`jobs.py`) | lock key per game, the worker's position | `start_server`, `stop_server` | provisioner, DNS, webhooks | two jobs of a game; the lock never expires, and a worker may die with it or Redis fail when it is taken or given back; RQ's job timeout | mutual exclusion; every job ends, and nothing it does inside the lock leaks it; a report means what it says |
| Provisioner (`provisioner.py`) | `created_server`, `created_firewall`; the provider's server, firewall, volume | `deploy`, `_rollback`, `destroy` | Hetzner API, cloud-init, remote operations | each of the dozen calls may fail with or without effect; rollback may fail | no world lost, no server without a firewall, no volume pulled from a running guest, nothing left behind |
| Shared SSH key (`_ensure_bot_ssh_key`) | two key files, one cloud key | adopt, create, recreate | deploys of *all* games | the locks are per game, the key is not | a new server accepts the local key; a key in use is not recreated |
| Remote operations (`remote_ops.py`) | game container, `/gamedata`, restic repository, local mirror | stop, backup, rsync | the VM over SSH | stop strategies differ; a second stop meets a stopped container | part of the teardown's promise |
| DNS client (`dns.py`) | A/AAAA records | check, publish, clear | deSEC | three attempts, throttling, lost answers that take effect late | A and AAAA name one server; a call that ends quietly has written what it was asked to |
| Games (`games.py`) | none | data | all | - | the stop strategy fits the game's script |
| cloud-init (`cloud_init/`) | the VM's boot | `render`, `runcmd` | restic, Docker | a failing step does not stop the next | the restored world is the last one saved |
| Watcher (`server_launch_watcher.py`) | position in the log | wait, match, notify | Docker, Discord | container may be late; errors outside the `try` | a boot becomes ready in bounded steps; "ready" is posted only when it is |
| Container scripts (`src/docker/`) | install volume, `ServerDescription.json`, the processes of a container | install, first boot, shutdown | Steam, Proton | retries; two copies of one description; a signal that meets the script at any point | the world id matches the restored world; the container ends only when the game has saved |

`PROJECT.json` lists the same components with their status, and every hazard
with its line and the properties that cover it.

## 2. The modules

| Module | What it models |
|---|---|
| `GameDefinitions` | the five games of `games.py`, with what of a `ServerSpec` decides the steps of a job: the install volume and the stop strategy |
| `Cloud` | the outside of one game: server, container, firewall, volume, DNS records, and `behind`, the set of world copies (restic, mirror) that lack the VM's latest world. Not code of the repository: each effect is what the calling code relies on |
| `Provisioner` | `deploy`, `_rollback`, `destroy` with the remote operations; one action per call to the outside |
| `Jobs` | `start_server` and `stop_server` under the Redis lock, workers, crashes, RQ's timeout; states all properties of the composition |
| `Session` | the abstract promise to the players: a session's world is never thrown away |
| `JobsInv` | the two inductive invariants of `Jobs`: what a worker relies on (`IInv`) and what it knows (`KnowsInv`) |
| `JobsProofs`, `JobsRefinement` | the proofs about `Jobs` |
| `Bot`, `BotProofs` | the command handlers, cooldowns and queue, and their proofs; of a worker only that it takes and ends jobs |
| `System`, `SystemProofs` | `Bot` and `Jobs` together: the workers of `Jobs` take their jobs from the queue of `Bot`. Shown to implement both |
| `SshKey`, `SshKeyProofs` | the key shared by deploys of different games, and its proofs |
| `Dns`, `DnsProofs` | one game's records and the retry loop of `_call`, with requests that take effect after their caller has given up, and its proofs |
| `GameContainer`, `GameContainerProofs` | one container of Valheim, Enshrouded or Windrose, its scripts, signals and processes, and the stop command that meets them; and its proofs |
| `WindroseBoot`, `WindroseBootProofs` | the VMs of Windrose over any number of sessions: `runcmd`, restore, install, `start.sh`, the watcher, the stop's backup; and its proofs |
| `Lineage` | the abstract promise of the boots and backups together: a server's successive sessions play one world. `WindroseBoot` implements it |
| `MCJobs`, `MCSshKey` | games and symmetry sets for TLC; the rest of an instance is in its `.cfg` file |

### How a call is modelled

`Call` in `Provisioner` stands for every request of the code to a provider or
the VM. It succeeds (if the provider accepts it in the state it finds), is
refused, or is hit by a fault, which raises whether or not the request took
effect. The exception's kind decides what follows, as in the code: inside
`deploy`'s `try` a `ProvisionError` or `APIException` is "failed" and goes to
`_rollback`; every other exception is "unexpected" and goes straight to
`start_server`'s last `except`. RQ's job timeout is an exception of the second
kind, so it is among the faults of every call. `own` is deploy's
`created_server`/`created_firewall`: it is set only when a request returned,
so a server whose answer was lost is not deploy's own. `failedIn` records the
kinds of fault a job met; it appears in the guard of one action only
(`ClearDns`, for "is there a DNS client") and otherwise serves the properties.

`with db.get_redis().lock(...)` makes calls of its own when it is entered and
left. Both may raise, on an error of Redis or by RQ's timeout. A failed acquire
may have set the key (`AcquireFails`), or redis-py, which repeats a command
whose answer was lost, then waits for its own key (`AcquireRetried`); a failed
release leaves it (`ReleaseFails`). As the key never expires, the game's later
jobs time out waiting until somebody deletes it (`ForgetOrphanedLock`).

The teardown's `_wait_until_off` is one step: off, or the deadline. Retries of
`_retry` are inside a call. Best-effort notifications never fail a job, so
only their meaning is kept, in `outcome`.

### The shared key

`SshKey` splits `_ensure_bot_ssh_key` into its reads and writes, because the
locks of two games do not exclude each other there. The cloud key has an id:
`ssh_keys.delete(existing)` deletes that id, not the name, and this is what
keeps a deploy from deleting the key another deploy has just recreated (the
mutant `DeleteByName` breaks `BornReachable`). `ssh-keygen` writes two files; a
second run finds the private key, asks before replacing it, gets no answer and
fails. If it was cut off between the files, every later start fails that way
until somebody removes the private key: the model has this behaviour, no
document says otherwise, and it endangers no property. The local key pair is
replaced only while no job runs, because it lives on a volume of the one
job-runner container.

### The bot

A handler's step runs from one `await` to the next. `cooldown` has no `await`
between `get_cooldown` and `set_cooldown`, so the two are one step (`Accept`).
The bot's restart loses the invocations and keeps Redis. `age` is a history
variable for `CooldownSpacing`.

### The system

In `System` the variables of `Bot` and `Jobs` are side by side, and `running`,
the jobs `Bot` thinks are being run, is computed from `serving`, the invocation
a worker of `Jobs` works for. An idle worker takes the oldest job of the one
queue; whatever ends the job of `Jobs`, a crash included, ends the invocation.
A step of the composition is therefore a step of `Bot`, of `Jobs`, or of both.
Two history variables serve its liveness properties: `lost`, the invocation whose
job the last step ended in the middle, and `left`, the games whose lock was left
behind; `SysInv` relates the second to the locks (`LocksAccounted`).

### The DNS client

`DesecClient._call` sends a request up to three times; 429 and every answer
that is not a 4xx, and no answer at all, lead to the next attempt. A request
without an answer may have been carried out, and may be carried out later
(`late`), even after the next session's records were written; `overtaken` tells
this apart. `_write` sends both record sets in one PUT, which deSEC applies as
a whole. `Jobs` has the client's outcome as one step: written and said so,
written and not said so, or not written.

### The container

Only the first process of a container gets the stop signal, and the kernel
drops a signal that process has no handler for. `GameContainer` follows this
through `entrypoint.sh` and the three `start.sh` of the repository that handle
a stop: Valheim's becomes the game by `exec`, Enshrouded's and Windrose's stay
and set a trap. A trap runs between two commands or interrupts `wait`, which
then returns 143 and so, by `set -e`, ends the script. Where Enshrouded's trap
only sends a signal, Windrose's is `wineserver -k`, which returns when the game
has gone.

### The boot

`WindroseBoot` looks into what `Cloud` has as one action, `Boot`. `runcmd` has no
`set -e`, so a failed mount or restore does not stop the boot (`mishaps`
remembers it), whereas the container's scripts end at their first error and
nothing restarts them. Windrose is the game with the most to go wrong: the id
of its world is in `ServerDescription.json` on the install volume (or, when the
mount failed, on the VM's disk), a copy of it and the worlds are in
`/gamedata`, and both are in the snapshot. Worlds are ids; that a world also
grows while it is played is `behind` of `Cloud`. The stop job, the deletion of
the VM by others and the loss of the volume may come at any time they can. The
log of the game is the set of servers (temporary or real) that printed a ready
marker. `met` collects what excuses a missing "ready" message; the failures
that the scripts are meant to survive are not in it.

What the temporary server prints does not reach the container's stdout
(`windrose/start.sh:27`), and the real one starts its log long after `tail` is
attached: the model relies on both.

## 3. The runs

| Run | Instance | Shows |
|---|---|---|
| `jobs_volume` | 3 workers, 1 volume game (Windrose), every fault, fair | mutual exclusion; firewall before server; volume detached only when off; a start never disturbs a live server; rollback is complete; a clean start serves; a start that posts no failure is serving, or met an error nothing handles; "destroyed" means gone; a stop that failed can be repeated; every job ends; `IInv` and `KnowsInv` |
| `jobs_two_games` | 2 workers, a volume game and one stopped by SIGINT (Valheim), crashes, cloud and Redis faults | a server only goes with a saved world; `Jobs` implements `Session` |
| `system` | 2 invocations, 1 worker that may die, Enshrouded, a Redis that fails at the lock, every fault of the bot, fair | `System` implements `Bot`; what is queued is answered, unless its worker dies or it never gets its lock; only a death or a failing call to Redis at the lock itself leaves a lock behind; `SysInv` (an invocation's job waits once or is run by one worker; a lock is held by a job or was left behind) |
| `ssh_key` | 3 workers, 3 games, 3 key pairs, 4 ids | the shared key's properties and `KInv` |
| `bot` | 3 invocations, 2 commands, every fault, time passes | cooldown spacing; a denied channel has no effect; every cooldown ends; `BInv` |
| `windrose_boot` | 3 world ids, 2 install attempts, every fault, fair | a restored world is the one played, also on a fresh volume; a snapshot has the worlds of the last one and names the world it was taken of, whenever the stop came; "ready" is true; every boot becomes ready unless a fault it is not meant to survive, or a stop, ends it; `WindroseBoot` implements `Lineage`; `BootInv` |
| `container` | 3 games, 3 turns of Enshrouded's search, every fault | a stop that returned has ended the container; Valheim's and Windrose's worlds are saved unless dockerd or a crash ends them; `CInv`, which includes that Enshrouded's script knows the pid it waits for |
| `dns` | 3 sessions' servers, one without IPv6, 3 attempts, every fault, fair | A and AAAA name the same server; a quiet call has written; every call ends; `DInv` |
| `create_fails`, `stop_twice`, `stop_after_off` | 2 workers, 1 game | disagreements 1 to 3 of section 6 |
| `enshrouded_stop` | Enshrouded, no fault | disagreement 4 of section 6 |

**Bounds.** The state of a game is finite, so little is cut off: the bounds are
the numbers of workers, games, key pairs, ids, servers and invocations, the
length of a cooldown and of Enshrouded's search. Two workers give every race
for one lock; the third lets one die with the lock while two others compete.
Games interact through the workers (`jobs_two_games`) and the shared key (three
games there: one that is looked at, one being deployed, one live). `system` has
the one worker that the Dockerfile starts; two invocations make one wait behind
the other, and a cooldown of one tick lets it be repeated while it waits. Three
key pairs are the local one, the cloud's and an earlier server's; the fourth id
is for a key that is created while three older ones are still remembered. A
third world id lets one be generated while the volume and the snapshot name two
others; two install attempts are one that is retried and one that is the last.
Three servers let a late request of the first overtake the records of the
third. A cooldown of two ticks has a middle. Enshrouded's search has three
turns instead of ten: a first, a middle and the last. For the proved properties
no bound matters.

**Mutants.** Each property is broken by one mutated definition, named in
`PROJECT.json` and written next to the original with a comment "Mutant: ...".

**Fairness.** `FairSpec` of `Jobs` assumes that a job that can take a step
takes one. The code justifies it: every call has its own timeout, the wait
for the guest has a deadline, the wait for the lock ends by RQ's job timeout,
and Redis lets one of the waiters have a free lock. It assumes nothing of
players, guests, operators, crashes or new commands, and it does not assume
that an orphaned lock is ever deleted. `SysFairSpec` of `System` adds that an
idle worker takes a job that is queued. Its worker may die; the image restarts
it, but nothing is assumed to delete its lock, so its liveness properties name
what this costs: the job that dies, the jobs that do not get their lock, and the lock
itself. `FairSpec` of `Bot` assumes only that time passes. `FairSpec` of `Dns`
assumes that a request is answered or times out. `FairSpec` of `WindroseBoot`
assumes that the VM, the container and the watcher run on; it assumes nothing
of stops.

## 4. What is proved

For any games, workers, kinds of fault, key pairs, invocations and lengths of
a cooldown, with only the named assumptions on the constants
(`GamesAssumption`, `FaultsAssumption`, `NoneAssumption`, `BotAssumption`,
`SystemAssumption`, `DnsAssumption`, `ContainerAssumption`, `BootAssumption`):

| Theorem | Says |
|---|---|
| `TypeCorrect` | `Jobs` keeps its types |
| `IInvInductive` | the inductive invariant of `Jobs` |
| `MutuallyExclusive` | one job of a game works at a time, whatever crashed, timed out or was cleaned up |
| `AlwaysFirewalled` | a server never exists without its firewall |
| `UnsavedIsKept` | no server goes with an unsaved world, except by the rollback of the deploy that made it |
| `VolumesAreSafe` | no volume leaves a running guest, with the same exception |
| `SessionsKept` | `Jobs` implements `Session` |
| `KnowsInvInductive` | the second inductive invariant of `Jobs` |
| `CleanStartsServe`, `QuietStartsServe` | a start without a fault has a server; one that posts no failure has one, which its name resolves to unless the DNS API failed, or met an error that nothing handles and posted nothing |
| `FinishedIsTornDown`, `RollbackIsComplete` | what is reported destroyed is gone; a failed deploy has taken back what it made |
| `LiveIsUndisturbed` | a start changes nothing of a server it has not made |
| `StopsAreRepeatable` | a stop that meets no fault leaves no stopped container on a server that is up, whatever an earlier stop did, except for a game stopped by SIGINT (disagreement 2) |
| `JobsAlwaysGoForward` | a job never goes back: every step of its own brings it nearer to its end, which is at most 13 steps from the lock |
| `SysInvInductive`, `JobsAsSpecified`, `BotAsSpecified` | the composition: no job is run twice, no lock is lost track of; `System` implements `Jobs` and `Bot` |
| `SystemIsSafe`, `SystemKeepsSessions`, `SystemKeepsCooldown` | what is proved of `Jobs` and `Bot` alone, for the composition |
| `KInvInductive`, `KeyFilesAlwaysMatch`, `NewServersAreReachable`, `KeysInUseAreKept` | the shared key |
| `BInvInductive`, `CooldownHolds`, `DeniedIsHarmless` | the cooldown, and who can take it |
| `DInvInductive`, `AlwaysSameServer`, `QuietCallsWrite` | the records of one server, written when nothing was reported |
| `CallsAlwaysGoForward` | a DNS call has at most `3 * Attempts` steps, whatever is answered |
| `CInvInductive`, `StoppedIsEnded`, `AwaitedGamesAreFlushed`, `PidAlwaysKnown` | a stop waits for the container, and the container for its game |
| `BootInvInductive` | the inductive invariant of `WindroseBoot` |
| `RestoredIsPlayed` | without a failed mount or restore, the restored world is played |
| `WorldsAreKept`, `WorldIsNamed` | snapshots lose no world unless a restore failed, and name the world that was played |
| `LineageKept`, `OneWorldForAll` | `WindroseBoot` implements `Lineage`; as long as nothing failed, what is saved and what is played is one world |
| `BootsAlwaysGoForward`, `UnhinderedBootsGoOn` | a boot has at most `MaxAttempts + 16` steps, and one that met no fault and no stop has not stopped short of "ready" |
| `ReadyOnlyWhenServing` | "ready" is never posted for the temporary server |

**The argument for the jobs.** Mutual exclusion alone is not inductive: a worker
inside the lock must have its game's key in Redis (`HoldersHaveKeys`), and run
the steps of its own kind of job (`StepsMatchJob`). Given that, what a worker
established at one step still holds at its next, because no other job of the
game works and the environment cannot undo it: a stopped container never runs
again on its server, so from then on the world does not change and what is
saved stays saved (`SavedStaysSaved`); an off guest stays off and a detached
volume detached (`OffBeforeDetach`); the firewall stays between its creation
and the server's (`FirewallFirst`), and afterwards the provider refuses to
delete an attached one (`ServerIsFirewalled`). `OwnersDeploy` says where
deploy's locals are set: hence only a start's rollback deletes a server it
owns, and the stop that deletes any other has been through all its steps. The
proof has a lemma per group of actions (`DeployPreserves`, `SavingPreserves`,
...), under `NextCases`.

**What a report means.** `KnowsInv` says, per worker, what it has found out or
brought about: from the guard to `servers.create` there is no server and the
volume is free (`DeployKnows`), hence no request of a fault-free start is
refused; at the end of a teardown the server and then the firewall are gone
(`DestroyKnows`); nothing is reported before the end (`ReportsLast`). A worker's
own step keeps it, by a lemma per group of actions (`ControlInforms`,
`CreatingInforms`, ...). A step of another worker is of another game
(`MutualExclusion`, `WorkersApart`) or outside the lock and touches nothing
(`OnlyHoldersTouch`), and players, guests and deleted keys change nothing it
speaks of (`OthersApart`), so what is known lasts (`KnowledgeLasts`). The reports
follow at "release", and so does that a start can only touch a server it made:
`LiveIsUndisturbed`.

**The second stop.** A stop is repeated after one that stopped the container and
then failed: its server is up, the container stopped (`HalfStopped`). Only a
stop's own step leaves a game so: not the world (`WorldDoesNotHalfStop`), not the
job of another game (`OthersDoNotHalfStop`). And a stop that ends without a fault
knows, by `KnowsInv`, that the server is gone (`StopsEndDone`). `StopIsRepeatable`
is not inductive alone: the step needs `IInv` and `KnowsInv` (`RepeatableStep`).

**Bounded jobs, calls and boots.** `StepsLeft` counts what lies ahead of each step of a job, on the
longest way through teardown or rollback. Every step of the job lowers it
(`StepsGoForward`), the raised ones included (`RaiseGoesForward`). This is the
safety half of `EveryJobEnds`; the other half, that a step is taken, is fairness.
The same is proved of a DNS call (`CallLeft`, which counts the attempts that are
left) and of a boot (`BootLeft`, the sum of what is left of `runcmd`, script,
watcher, game and install attempts; that the game loads its world only once
needs `GamedataNamesWorld`). For a boot that is not all: it must not stop short
either. `UnhinderedGoesOn` says that container and watcher are missing or ended
only where a fault or a stop is in `met`; it needs that the watcher is started
last (`WatcherIsLast`).

**The composition.** A worker of `System` serves an invocation exactly while it
has a job, and that job is the invocation's command; an invocation that is
"queued" is in the queue or served, never both, and in neither twice
(`SysInv`). So taking a job is `Bot`'s `RunJob` and `Jobs`' `Take`, its end is
`JobEnds`, and every other step is one module's own or a stutter of both. The
theorems about `Jobs` and `Bot` hold of the composition through
`JobsAsSpecified` and `BotAsSpecified`; for the second the proofs of `Bot` are
instantiated and `BotAssumption` is proved of the workers (`SystemKeepsCooldown`).

**The locks.** That a lock is held by the one job inside it, or was left behind
and is held by nobody, is kept step by step (`LocksKept`): the worker that takes
it is the only one inside (`AcquireAccounts`, by `MutualExclusion`), the one that
ends frees its own game and no other (`EndFreesGame`), one that ends outside
frees none (`EndOutside`), and `left` grows only with a lock that was free
(`StrayKey`) or whose holder is gone (`EndLeavesLock`). The steps that add to it
are a death inside the lock and a failing call to Redis at the entry or exit of
the `with` statement. Nothing in between leaks a lock: no refusal, exception,
timeout or rollback.

**DNS.** The two records only ever change together, to those of one server or to
none: that holds of the zone, of what is being asked for and of everything that
is late (`DInv`).

**The container.** The container ends with its first process. For Valheim that
is the game, which ends when it has saved; Windrose's trap does not return
while the game saves, and no game starts in a trap that found none
(`TrapAwaitsGame`). Enshrouded's has no such part, which is disagreement 4.

**The refinement.** A game's session is "trial" while the start job that created
its server runs, "live" otherwise. A server that appears is a `Launch`, the end
of its job `Confirm`s it, a rollback is `TakeBack`, a backup step is `Save`, and
the stop's `server.delete` is `Retire`: `SavedStaysSaved` gives the abstract
guard that every copy is up to date. All other steps stutter.

**The shared key.** While any job runs the local pair is fixed (`KeyPairFixed`).
A worker about to delete has read a key that did not match it, and ids name
one key each (`MismatchSeen`), so a matching cloud key is never deleted: past
`_ensure_bot_ssh_key` it stays (`EnsuredKeyStays`). And as long as the
mismatched key is there no deploy gets past it, so a game once seen without a
server stays so (`ScanStaysTrue`).

**The boot.** No container exists before the restore is through, so a stop,
which needs one, never saves an empty `/gamedata` (`RuncmdOrder`,
`GamedataFollowsSnapshot`). From stamping on `/gamedata` names the world the game
will load (`GamedataNamesWorld`), and while no mount or restore failed there is
one description (`OneDescription`): a new id is generated only where neither the
volume nor `/gamedata` has one, and then the snapshot has none either. With a
mishap this breaks, in the code as well: an id generated by a boot that
restored nothing stays on the volume when its VM is deleted unsaved, and the
next boot prefers it to the restored one (`windrose/start.sh:72`).

**The lineage.** A session of `Lineage` is a VM: it `Resume`s the saved world,
`Play`s one, `Save`s what it has and `End`s. The restore is `Resume`, or
`ResumePartly` when it failed, a boot without its volume `Mishap`; a world the
temporary server generates is `Begin`, the world the game loads `Play`, the
stop's restic backup `Save`, and the VM's removal `End`. All other steps stutter
(`ElsewhereStutters`). `BootInv` gives the abstract guards: no world is begun
while the snapshot names one (`OneDescription`), and the world that is loaded is
the one it names. Then `OneWorld` is proved of `Lineage`, a specification of
seven actions, and carried over.

**Only model-checked:** liveness (`EveryJobEnds`, `LockComesFree`,
`QueuedIsAnswered`, `CooldownEnds`, `EveryCallEnds`, `BootBecomesReady`): it rests
on fairness, that is on ENABLED, which is out of the prover's reach. Every
invariant, action property and refinement that a passing run checks is stated by
a theorem.

## 5. Assumptions and what is not modelled

- The provider: names are unique per kind; an attached firewall is not
  deleted; deleting a server detaches its volume; ids are not reused; a
  shutdown request may never be obeyed.
- A game saves its world and ends when it, or Proton or Wine above it, is told
  to stop, if it is there to be told; the kernel and bash treat signals and
  traps as documented.
- deSEC applies the bulk PUT of both record sets as a whole; a request without
  an answer is carried out once, later, or never.
- Redis keeps its keys. A Redis that loses them is the deletion of a lock
  (`ForgetOrphanedLock`), and only of one no job holds: losing a held lock
  breaks mutual exclusion in the code as well.
- A backup or an rsync saves the world as a whole or not at all.
- `Boot` of `Cloud` is a boot that worked; failing steps are in `WindroseBoot`.
- A snapshot is what restic calls `latest`; older ones are not looked at.
- `windrose.yaml.j2` stands for the five templates. The others have Docker
  volumes on the VM's disk instead of an install volume (Abiotic Factor has
  one) and a game without a description of its own.
- Not modelled: message texts, ports, sizes and other data of `games.py` that
  decide no step; the rendering of templates, which succeeds or raises;
  `sentry.py`, which initialises a library; images, compose file and CI (read
  for the number of workers, the volumes and the restarts). Abiotic Factor's
  container is Proton's launcher and Factorio's is a foreign image: how they
  react to a stop is in code that is not here.

## 6. Where code and documents disagree

Four runs end in a violation on purpose; each property states what a document
or test of the repository says.

1. `create_fails`: a create action that fails or times out raises neither
   `ProvisionError` nor `APIException`, so `deploy` does not roll back, and the
   server blocks later starts (`provisioner.py:373`, against
   `src/tests/test_provisioner.py:231`). A stop removes it, unless its
   container never came up.
2. `stop_twice`: for a game stopped by SIGINT, `docker kill` of the repeated
   stop fails on the stopped container (`remote_ops.py:62`, against "Idempotent
   throughout", `provisioner.py:431`).
3. `stop_after_off`: a stop that failed after the guest went off cannot be
   repeated: it begins with SSH to that guest (`provisioner.py:443`, against
   `src/tests/test_provisioner.py:467`).
4. `enshrouded_stop`: the signal interrupts the `wait` for Proton, which then
   returns 143 and ends the script, and with it the container, while the game
   may still save; the part that should wait for the game is not reached
   (`src/docker/enshrouded/start.sh:72`, against line 74: "After Proton exits,
   ensure the game process has also fully stopped").

Without a run: an exception of `get_provisioner()`, which stands outside the
`try` (`jobs.py:75`), ends a job with its lock released and nothing posted.

## 7. Plan

All components with state of their own are modelled, and their safety is proved.
What is left, in this order:

1. The records of `Dns` as an abstract register with late writes that `Dns`
   implements and the DNS steps of `Jobs` use.
2. `Lineage` joined to `Session`, whose `Launch` would carry the world.
3. An abstract key ring that `SshKey` implements: adopt, replace, use.
4. `build_context` of `cloud_init` as a function, against the variables of the
   five templates.
