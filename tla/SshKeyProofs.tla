----------------------------- MODULE SshKeyProofs -----------------------------
(***************************************************************************)
(* The shared key's safety properties, for any games, workers, key pairs   *)
(* and ids.  The argument: while a job runs the local key pair is fixed,   *)
(* so a cloud key that matches it is never one a worker read as            *)
(* mismatched, and ids keep a successor apart from the key it replaced.    *)
(***************************************************************************)
EXTENDS SshKey, TLAPS

USE NoneAssumption
USE DEF fileVars, workerVars, vars, CloudKeys, Steps, Live, Goto, End

USE DEF KInv, TypeOK, KeyFilesMatch, OneJobPerGame, KeyPairFixed, EnsuredKeyStays, MismatchSeen,
        ScanStaysTrue

LEMMA StartPreserves ==
    ASSUME KInv, NEW w \in Workers, NEW g \in Games, Start(w, g)
    PROVE  KInv'
BY DEF Start

LEMMA KeygenPreserves ==
    ASSUME KInv, NEW w \in Workers, ReadLocalPubkey(w) \/ Keygen(w) \/ KeygenPub(w)
    PROVE  KInv'
<1>1. CASE ReadLocalPubkey(w)
  BY <1>1 DEF ReadLocalPubkey
<1>2. CASE pc[w] = "keygen" /\ priv = None /\ WritePrivateKey(w)
  <2>1. PICK k \in KeyPairs : priv' = k /\ localPub' = [localPub EXCEPT ![w] = k]
    BY <1>2 DEF WritePrivateKey
  <2>2. QED BY <1>2, <2>1 DEF WritePrivateKey
<1>3. CASE End(w) /\ UNCHANGED <<fileVars, cloud, accepts>>
  BY <1>3
<1>4. CASE KeygenPub(w)
  BY <1>4 DEF KeygenPub
<1>5. QED BY <1>1, <1>2, <1>3, <1>4 DEF Keygen

LEMMA LookingPreserves ==
    ASSUME KInv, NEW w \in Workers, GetCloudKey(w) \/ AnyManagedServerLive(w)
    PROVE  KInv'
<1>1. CASE GetCloudKey(w)
  BY <1>1 DEF GetCloudKey
<1>2. CASE pc[w] = "scan" /\ unseen[w] = {} /\ Goto(w, "delete")
           /\ UNCHANGED <<fileVars, cloud, accepts, game, localPub, existing, unseen, attach>>
  BY <1>2
<1>3. CASE End(w) /\ UNCHANGED <<fileVars, cloud, accepts>>
  BY <1>3
<1>4. ASSUME NEW g \in Games, pc[w] = "scan", ~Live(g), unseen' = [unseen EXCEPT ![w] = @ \ {g}],
             UNCHANGED <<fileVars, cloud, accepts, pc, game, localPub, existing, attach>>
      PROVE  KInv'
  BY <1>4
<1>5. QED BY <1>1, <1>2, <1>3, <1>4 DEF AnyManagedServerLive

LEMMA CloudKeyPreserves ==
    ASSUME KInv, NEW w \in Workers, DeleteCloudKey(w) \/ CreateCloudKey(w) \/ AllProjectSshKeys(w)
    PROVE  KInv'
<1>1. CASE DeleteCloudKey(w)
  BY <1>1 DEF DeleteCloudKey
<1>2. CASE CreateCloudKey(w)
  <2>1. PICK id \in Ids : FreshId(id) /\ cloud' = [id |-> id, pub |-> localPub[w]]
    BY <1>2 DEF CreateCloudKey
  <2>2. localPub[w] = pub /\ pub \in KeyPairs
    BY <1>2 DEF CreateCloudKey
  <2>3. cloud' \in CloudKeys /\ cloud'.id = id /\ cloud'.pub = pub
    BY <2>1, <2>2
  <2>4. \A v \in Workers : existing[v] # None => existing[v].id # id
    BY <2>1 DEF FreshId
  <2>5. /\ Goto(w, "lookup")
        /\ UNCHANGED <<fileVars, accepts, game, localPub, existing, unseen, attach>>
    BY <1>2 DEF CreateCloudKey
  <2>6. cloud = None /\ pc[w] \in {"create", "recreate"}
    BY <1>2 DEF CreateCloudKey
  <2>7. TypeOK' BY <2>3, <2>5
  <2>8. KeyFilesMatch' /\ OneJobPerGame' BY <2>5, <2>6
  <2>9. KeyPairFixed' BY <2>5, <2>6
  <2>10. EnsuredKeyStays' BY <2>3, <2>5, <2>6
  <2>11. MismatchSeen' BY <2>3, <2>4, <2>5, <2>6
  <2>12. ScanStaysTrue' BY <2>3, <2>4, <2>5, <2>6
  <2>13. QED BY <2>7, <2>8, <2>9, <2>10, <2>11, <2>12
<1>3. CASE AllProjectSshKeys(w)
  BY <1>3 DEF AllProjectSshKeys
<1>4. QED BY <1>1, <1>2, <1>3

LEMMA EndingPreserves ==
    ASSUME KInv, NEW w \in Workers, CreateServer(w) \/ Fails(w)
    PROVE  KInv'
<1>1. CASE CreateServer(w) BY <1>1 DEF CreateServer
<1>2. CASE Fails(w) BY <1>2 DEF Fails, FreshId
<1>3. QED BY <1>1, <1>2

LEMMA OutsidePreserves ==
    ASSUME KInv, ReplaceKeyPair \/ \E g \in Games : RemoveServer(g)
    PROVE  KInv'
<1>1. ASSUME NEW g \in Games, RemoveServer(g) PROVE KInv' BY <1>1 DEF RemoveServer
<1>2. CASE ReplaceKeyPair BY <1>2 DEF ReplaceKeyPair
<1>3. QED BY <1>1, <1>2

----------------------------------------------------------------------------
(* What each worker may rely on while others handle the same key.          *)
THEOREM KInvInductive == Spec => []KInv
<1>1. Init => KInv
  <2> SUFFICES ASSUME Init PROVE KInv
    OBVIOUS
  <2>1. TypeOK
    <3>1. /\ priv \in KeyPairs \cup {None} /\ pub \in KeyPairs \cup {None}
          /\ cloud \in CloudKeys \cup {None}
      BY DEF Init
    <3>2. QED BY <3>1 DEF Init
  <2>2. QED BY <2>1 DEF Init
<1>2. KInv /\ [Next]_vars => KInv'
  <2> SUFFICES ASSUME KInv, [Next]_vars PROVE KInv'
    OBVIOUS
  <2>1. CASE UNCHANGED vars
    BY <2>1
  <2>2. QED
    BY <2>1, StartPreserves, KeygenPreserves, LookingPreserves, CloudKeyPreserves,
       EndingPreserves, OutsidePreserves DEF Next, EnsureBotSshKey
<1>3. QED BY <1>1, <1>2, PTL DEF Spec

(* The two key files match, however many workers generate them at once.    *)
THEOREM KeyFilesAlwaysMatch == Spec => []KeyFilesMatch
<1>1. KInv => KeyFilesMatch OBVIOUS
<1>2. QED BY <1>1, KInvInductive, PTL

(* A server appears by CreateServer only, with the key that was ensured.   *)
THEOREM NewServersAreReachable == Spec => BornReachable
<1>1. KInv /\ [Next]_vars => \A g \in Games : ~Live(g) /\ Live(g)' => priv \in accepts'[g]
  <2> SUFFICES ASSUME KInv, [Next]_vars, NEW g \in Games, ~Live(g), Live(g)'
               PROVE  priv \in accepts'[g]
    OBVIOUS
  <2>1. PICK w \in Workers : CreateServer(w)
    BY DEF Next, Start, EnsureBotSshKey, ReadLocalPubkey, Keygen, WritePrivateKey, KeygenPub,
       GetCloudKey, AnyManagedServerLive, DeleteCloudKey, CreateCloudKey, AllProjectSshKeys,
       Fails, RemoveServer, ReplaceKeyPair
  <2>2. g = game[w] /\ accepts'[g] = {key.pub : key \in attach[w]}
    BY <2>1 DEF CreateServer
  <2>3. PICK key \in attach[w] : key.pub = priv
    BY <2>1 DEF CreateServer
  <2>4. QED BY <2>2, <2>3
<1>2. QED BY <1>1, KInvInductive, PTL DEF Spec, BornReachable

(* Only a worker that has seen every game without a server deletes a key,  *)
(* and what it has seen is still so.                                       *)
THEOREM KeysInUseAreKept == Spec => NeverDeletesKeyInUse
<1>1. KInv /\ [Next]_vars => (cloud # None /\ cloud' # cloud => \A g \in Games : ~Live(g))
  <2> SUFFICES ASSUME KInv, [Next]_vars, cloud # None, cloud' # cloud
               PROVE  \A g \in Games : ~Live(g)
    OBVIOUS
  <2>1. PICK w \in Workers : pc[w] = "delete" /\ cloud.id = existing[w].id
    BY DEF Next, Start, EnsureBotSshKey, ReadLocalPubkey, Keygen, WritePrivateKey, KeygenPub,
       GetCloudKey, AnyManagedServerLive, DeleteCloudKey, CreateCloudKey, AllProjectSshKeys,
       CreateServer, Fails, RemoveServer, ReplaceKeyPair
  <2>2. cloud = existing[w] /\ unseen[w] = {}
    BY <2>1
  <2>3. QED BY <2>1, <2>2
<1>2. QED BY <1>1, KInvInductive, PTL DEF Spec, NeverDeletesKeyInUse
=============================================================================
