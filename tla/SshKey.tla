------------------------------- MODULE SshKey -------------------------------
(***************************************************************************)
(* discord_bot/provisioner.py: Provisioner._ensure_bot_ssh_key and the     *)
(* steps of deploy that use the key.  One cloud key, found by its name, is *)
(* shared by all games, and the locks are per game: deploys of different   *)
(* games read, delete and create it at the same time.  The key pair itself *)
(* is two files on a volume of the job runner.                             *)
(***************************************************************************)

CONSTANTS
    Games,      \* ALL_GAMES
    Workers,    \* the processes that run jobs
    KeyPairs,   \* the key pairs that ssh-keygen or an operator may make
    Ids,        \* the provider's ids of cloud keys
    None

CloudKeys == [id : Ids, pub : KeyPairs]

ASSUME NoneAssumption == None \notin KeyPairs \cup Ids \cup Games \cup CloudKeys

VARIABLES
    priv,       \* the private key file
    pub,        \* the public key file
    cloud,      \* the provider's key under BOT_SSH_KEY_NAME
    accepts,    \* the key pairs each server lets in; None without a server
    pc,         \* the next step of each worker
    game,       \* the game it deploys
    localPub,   \* local_pub of _ensure_bot_ssh_key
    existing,   \* its `existing` cloud key
    unseen,     \* the games _any_managed_server_live has still to look at
    attach      \* deploy's ssh_keys

fileVars == <<priv, pub>>
workerVars == <<pc, game, localPub, existing, unseen, attach>>
vars == <<fileVars, cloud, accepts, workerVars>>

Steps == {"idle", "read", "keygen", "keygen_pub", "get", "create", "scan", "delete",
          "recreate", "lookup", "server"}

TypeOK ==
    /\ priv \in KeyPairs \cup {None}
    /\ pub \in KeyPairs \cup {None}
    /\ cloud \in CloudKeys \cup {None}
    /\ accepts \in [Games -> (SUBSET KeyPairs) \cup {None}]
    /\ pc \in [Workers -> Steps]
    /\ game \in [Workers -> Games \cup {None}]
    /\ localPub \in [Workers -> KeyPairs \cup {None}]
    /\ existing \in [Workers -> CloudKeys \cup {None}]
    /\ unseen \in [Workers -> SUBSET Games]
    /\ attach \in [Workers -> SUBSET CloudKeys]

(* A job runner with or without key files, a project with or without a key *)
(* of an earlier installation.                                             *)
Init ==
    /\ priv \in KeyPairs \cup {None} /\ pub = priv
    /\ cloud \in CloudKeys \cup {None}
    /\ accepts = [g \in Games |-> None]
    /\ pc = [w \in Workers |-> "idle"]
    /\ game = [w \in Workers |-> None]
    /\ localPub = [w \in Workers |-> None]
    /\ existing = [w \in Workers |-> None]
    /\ unseen = [w \in Workers |-> {}]
    /\ attach = [w \in Workers |-> {}]

----------------------------------------------------------------------------
Live(g) == accepts[g] # None

(* The provider never gives an id twice, and ssh-keygen never a key pair.  *)
FreshId(id) ==
    /\ cloud # None => id # cloud.id
    /\ \A w \in Workers :
        /\ existing[w] # None => id # existing[w].id
        /\ \A key \in attach[w] : id # key.id

FreshKeyPair(k) ==
    /\ k \notin {priv, pub}
    /\ cloud # None => k # cloud.pub
    /\ \A g \in Games : Live(g) => k \notin accepts[g]
    /\ \A w \in Workers : k # localPub[w]

Goto(w, step) == pc' = [pc EXCEPT ![w] = step]

(* The job is over, for whatever reason: its locals are gone.              *)
End(w) ==
    /\ Goto(w, "idle")
    /\ game' = [game EXCEPT ![w] = None]
    /\ localPub' = [localPub EXCEPT ![w] = None]
    /\ existing' = [existing EXCEPT ![w] = None]
    /\ unseen' = [unseen EXCEPT ![w] = {}]
    /\ attach' = [attach EXCEPT ![w] = {}]

----------------------------------------------------------------------------
(* Under the lock of its game, whose server the start guard did not find.  *)
Start(w, g) ==
    /\ pc[w] = "idle" /\ ~Live(g)
    /\ \A v \in Workers : game[v] # g
    /\ game' = [game EXCEPT ![w] = g]
    /\ Goto(w, "read")
    /\ UNCHANGED <<fileVars, cloud, accepts, localPub, existing, unseen, attach>>

(* _read_local_pubkey: the public key file decides.                        *)
ReadLocalPubkey(w) ==
    /\ pc[w] = "read"
    /\ IF pub = None
       THEN Goto(w, "keygen") /\ UNCHANGED localPub
       ELSE Goto(w, "get") /\ localPub' = [localPub EXCEPT ![w] = pub]
    /\ UNCHANGED <<fileVars, cloud, accepts, game, existing, unseen, attach>>

(* ssh-keygen writes the private key file; the public one is next.         *)
WritePrivateKey(w) ==
    /\ \E k \in KeyPairs :
        /\ FreshKeyPair(k)
        /\ priv' = k
        /\ localPub' = [localPub EXCEPT ![w] = k]
    /\ Goto(w, "keygen_pub")
    /\ UNCHANGED <<pub, cloud, accepts, game, existing, unseen, attach>>

(* Mutant: ssh-keygen replaces a key pair that lacks its public key file.  *)
KeygenReplaces(w) == pc[w] = "keygen" /\ WritePrivateKey(w)

(* It asks before it replaces a private key, gets no answer and fails.     *)
Keygen(w) ==
    /\ pc[w] = "keygen"
    /\ \/ priv = None /\ WritePrivateKey(w)
       \/ priv # None /\ End(w) /\ UNCHANGED <<fileVars, cloud, accepts>>

KeygenPub(w) ==
    /\ pc[w] = "keygen_pub"
    /\ pub' = localPub[w]
    /\ Goto(w, "read")
    /\ UNCHANGED <<priv, cloud, accepts, game, localPub, existing, unseen, attach>>

(* Mutant: only the server of the game itself is looked for.               *)
LookAtOwnGameOnly(w) ==
    /\ pc[w] = "get"
    /\ existing' = [existing EXCEPT ![w] = cloud]
    /\ Goto(w, IF cloud = None THEN "create"
               ELSE IF cloud.pub = localPub[w] THEN "lookup" ELSE "scan")
    /\ unseen' = [unseen EXCEPT ![w] = {game[w]}]
    /\ UNCHANGED <<fileVars, cloud, accepts, game, localPub, attach>>

(* ssh_keys.get_by_name, then: create it, adopt it, or look whether any    *)
(* managed server depends on it.                                           *)
GetCloudKey(w) ==
    /\ pc[w] = "get"
    /\ existing' = [existing EXCEPT ![w] = cloud]
    /\ Goto(w, IF cloud = None THEN "create"
               ELSE IF cloud.pub = localPub[w] THEN "lookup" ELSE "scan")
    /\ unseen' = [unseen EXCEPT ![w] = Games]
    /\ UNCHANGED <<fileVars, cloud, accepts, game, localPub, attach>>

(* One _get_server per game, in any order here.  A live one refuses.       *)
AnyManagedServerLive(w) ==
    /\ pc[w] = "scan"
    /\ \/ /\ unseen[w] = {}
          /\ Goto(w, "delete")
          /\ UNCHANGED <<game, localPub, existing, unseen, attach>>
       \/ \E g \in unseen[w] :
            \/ Live(g) /\ End(w)
            \/ /\ ~Live(g)
               /\ unseen' = [unseen EXCEPT ![w] = @ \ {g}]
               /\ UNCHANGED <<pc, game, localPub, existing, attach>>
    /\ UNCHANGED <<fileVars, cloud, accepts>>

(* Mutant: the key is deleted by its name.                                 *)
DeleteByName(w) ==
    /\ pc[w] = "delete"
    /\ cloud # None /\ cloud' = None
    /\ Goto(w, "recreate")
    /\ UNCHANGED <<fileVars, accepts, game, localPub, existing, unseen, attach>>

(* ssh_keys.delete goes by id: the key that was read, not its successor.   *)
DeleteCloudKey(w) ==
    /\ pc[w] = "delete"
    /\ cloud # None /\ cloud.id = existing[w].id
    /\ cloud' = None
    /\ Goto(w, "recreate")
    /\ UNCHANGED <<fileVars, accepts, game, localPub, existing, unseen, attach>>

(* ssh_keys.create: names are unique.                                      *)
CreateCloudKey(w) ==
    /\ pc[w] \in {"create", "recreate"} /\ cloud = None
    /\ \E id \in Ids : FreshId(id) /\ cloud' = [id |-> id, pub |-> localPub[w]]
    /\ Goto(w, "lookup")
    /\ UNCHANGED <<fileVars, accepts, game, localPub, existing, unseen, attach>>

(* _all_project_ssh_keys; the keys of humans are left out.                 *)
AllProjectSshKeys(w) ==
    /\ pc[w] = "lookup"
    /\ attach' = [attach EXCEPT ![w] = IF cloud = None THEN {} ELSE {cloud}]
    /\ Goto(w, "server")
    /\ UNCHANGED <<fileVars, cloud, accepts, game, localPub, existing, unseen>>

(* servers.create copies the keys, which must still exist, to the server.  *)
CreateServer(w) ==
    /\ pc[w] = "server"
    /\ \A key \in attach[w] : key = cloud
    /\ accepts' = [accepts EXCEPT ![game[w]] = {key.pub : key \in attach[w]}]
    /\ End(w)
    /\ UNCHANGED <<fileVars, cloud>>

(* A request that is refused in the state it finds, fails or is cut off,   *)
(* before or after it took effect; or the worker dies.                     *)
Fails(w) ==
    /\ pc[w] # "idle"
    /\ End(w)
    /\ UNCHANGED fileVars
    /\ \/ UNCHANGED <<cloud, accepts>>
       \/ /\ pc[w] = "delete" /\ cloud # None /\ cloud = existing[w]
          /\ cloud' = None /\ UNCHANGED accepts
       \/ /\ pc[w] \in {"create", "recreate"} /\ cloud = None
          /\ \E id \in Ids : FreshId(id) /\ cloud' = [id |-> id, pub |-> localPub[w]]
          /\ UNCHANGED accepts

----------------------------------------------------------------------------
(* Outside of deploy                                                       *)

(* A stop job or an operator removes a server, or a deploy's rollback:     *)
(* nothing of it is left.                                                  *)
RemoveServer(g) ==
    /\ Live(g) /\ \A w \in Workers : game[w] # g
    /\ accepts' = [accepts EXCEPT ![g] = None]
    /\ UNCHANGED <<fileVars, cloud, workerVars>>

(* The job runner's volume is lost or its key pair replaced between jobs.  *)
ReplaceKeyPair ==
    /\ \A w \in Workers : pc[w] = "idle"
    /\ \E k \in KeyPairs \cup {None} :
        /\ k # None => FreshKeyPair(k)
        /\ priv' = k /\ pub' = k
    /\ UNCHANGED <<cloud, accepts, workerVars>>

EnsureBotSshKey(w) ==
    \/ ReadLocalPubkey(w) \/ Keygen(w) \/ KeygenPub(w) \/ GetCloudKey(w)
    \/ AnyManagedServerLive(w) \/ DeleteCloudKey(w) \/ CreateCloudKey(w)

Next ==
    \/ \E w \in Workers :
        \/ \E g \in Games : Start(w, g)
        \/ EnsureBotSshKey(w) \/ AllProjectSshKeys(w) \/ CreateServer(w)
        \/ Fails(w)
    \/ \E g \in Games : RemoveServer(g)
    \/ ReplaceKeyPair

Spec == Init /\ [][Next]_vars

----------------------------------------------------------------------------
(* A new server lets the job runner in, whatever other deploys did to the  *)
(* shared key meanwhile: the next stop can back it up.                     *)
BornReachable ==
    [][\A g \in Games : ~Live(g) /\ Live(g)' => priv \in accepts'[g]]_vars

(* A cloud key a managed server depends on is never recreated: at the      *)
(* moment it is deleted no game has a server.                              *)
NeverDeletesKeyInUse ==
    [][cloud # None /\ cloud' # cloud => \A g \in Games : ~Live(g)]_vars

(* The two key files never belong to different key pairs, also when two    *)
(* workers generate them at once.                                          *)
KeyFilesMatch == pub # None => pub = priv

----------------------------------------------------------------------------
(* The inductive invariant                                                 *)

(* Jobs run under their games' locks.                                      *)
OneJobPerGame ==
    /\ \A w \in Workers : pc[w] = "idle" <=> game[w] = None
    /\ \A v, w \in Workers : game[v] = game[w] /\ game[v] # None => v = w

(* One worker at most is between the two key files, and nobody has read a  *)
(* public key before there is one.                                         *)
KeyPairFixed ==
    \A w \in Workers :
        /\ \A v \in Workers : pc[v] = "keygen_pub" /\ pc[w] = "keygen_pub" => v = w
        /\ pc[w] = "keygen_pub" => pub = None /\ priv # None /\ localPub[w] = priv
        /\ pc[w] \in {"get", "create", "scan", "delete", "recreate", "lookup", "server"} =>
              pub # None /\ localPub[w] = pub

(* Past _ensure_bot_ssh_key the cloud key is the local one, and attached.  *)
EnsuredKeyStays ==
    \A w \in Workers :
        /\ pc[w] \in {"lookup", "server"} => cloud # None /\ cloud.pub = pub
        /\ pc[w] = "server" => \E key \in attach[w] : key.pub = pub

(* An id names one key; a key about to be deleted was read as mismatched.  *)
MismatchSeen ==
    \A w \in Workers :
        /\ existing[w] # None /\ cloud # None /\ existing[w].id = cloud.id => existing[w] = cloud
        /\ pc[w] \in {"scan", "delete"} => existing[w] # None /\ existing[w].pub # localPub[w]

(* The games already looked at stay without a server as long as the        *)
(* mismatched key is there: no deploy gets past it.                        *)
ScanStaysTrue ==
    \A w \in Workers :
        pc[w] \in {"scan", "delete"} /\ cloud = existing[w] =>
            /\ \A g \in Games \ unseen[w] : ~Live(g)
            /\ pc[w] = "delete" => unseen[w] = {}

KInv ==
    /\ TypeOK
    /\ KeyFilesMatch
    /\ OneJobPerGame
    /\ KeyPairFixed
    /\ EnsuredKeyStays
    /\ MismatchSeen
    /\ ScanStaysTrue
=============================================================================
