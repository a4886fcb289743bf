------------------------ MODULE ClientRegistryProofs ------------------------
(***************************************************************************)
(* What ClientRegistry guarantees for every set of clients, every TTL and  *)
(* any number of restarts.                                                 *)
(*                                                                         *)
(* PromptSubscriberIsVisible is not inductive: it needs that the entry of  *)
(* a client that has not opened its socket yet is still there unless its   *)
(* TTL is over (PendingInv), that no two clients of this run share an id   *)
(* (IdsInv), and that a socket with another run's id has been noted when   *)
(* it closes (StrangerInv).                                                *)
(***************************************************************************)
EXTENDS ClientRegistry, FiniteSetTheorems, TLAPS

\* The clients that hold an id of the server that is running.
Native(c) == pc[c] # "idle" /\ issued[c] = run

IdsInv == /\ \A c \in Client : pc[c] # "idle" => cid[c] \in Nat
          /\ \A c \in Client : Native(c) => cid[c] \in 0..next_id - 1
          /\ \A c, d \in Client : Native(c) /\ Native(d) /\ cid[c] = cid[d] => c = d

PendingInv ==
  \A c \in Client :
    /\ Native(c) /\ pc[c] # "live"
    /\ cid[c] \notin strangers
    /\ now - shookAt[c] < TTL
    => cid[c] \in DOMAIN clients /\ clients[cid[c]].last_seen = shookAt[c]

StrangerInv == \A c \in Client : pc[c] = "live" /\ issued[c] # run => cid[c] \in strangers

\* What a status request has noted and answered so far is true of its time.
StatusInv ==
  status # None =>
    /\ status.steady \subseteq Subscribed
    /\ Subscribed \subseteq status.ever
    /\ IsFiniteSet(status.ever)
    /\ status.connected => status.ever # {}
    /\ status.steady # {} => status.connected
    /\ status.at # "count" => /\ Cardinality(status.steady) <= status.count
                              /\ status.count <= Cardinality(status.ever)
    /\ status.at = "respond" => /\ status.steady \subseteq status.listed
                                /\ status.listed \subseteq status.ever

IndInv == /\ TypeOK
          /\ SubscribedHasTask
          /\ IdsInv
          /\ PendingInv
          /\ StrangerInv
          /\ PromptSubscriberIsVisible
          /\ StatusInv

-----------------------------------------------------------------------------
\* The registry is finite, so that subscribed_count() is a number.
LEMMA SubscribedFinite ==
  ASSUME TypeOK
  PROVE  /\ IsFiniteSet(Subscribed)
         /\ Cardinality(Subscribed) \in Nat
         /\ Cardinality(Subscribed) > 0 <=> Subscribed # {}
<1>1. IsFiniteSet(0..next_id - 1)
  <2>1. 0 \in Int /\ next_id - 1 \in Int
    BY DEF TypeOK
  <2> QED  BY <2>1, FS_Interval
<1>2. IsFiniteSet(Subscribed)
  BY <1>1, FS_Subset DEF TypeOK, Subscribed
<1>3. Cardinality(Subscribed) \in Nat
  BY <1>2, FS_CardinalityType
<1>4. Cardinality(Subscribed) = 0 <=> Subscribed = {}
  BY <1>2, FS_EmptySet
<1> QED  BY <1>2, <1>3, <1>4

\* Pruning keeps every subscribed entry (prune_stale).
LEMMA PruneKeepsSubscribed == Spared \intersect Subscribed = Subscribed
BY DEF Spared, Subscribed

\* An empty registry, nobody connected.
LEMMA InitInv == Init => IndInv
<1> SUFFICES ASSUME Init PROVE IndInv
  OBVIOUS
<1>1. clients \in [DOMAIN clients -> ClientInfo] /\ DOMAIN clients = {}
  BY DEF Init
<1>2. TypeOK
  BY <1>1 DEF Init, TypeOK, PcState
<1>3. SubscribedHasTask /\ IdsInv /\ PendingInv /\ StrangerInv /\ PromptSubscriberIsVisible
  BY <1>1 DEF Init, SubscribedHasTask, Subscribed, IdsInv, PendingInv, StrangerInv,
     PromptSubscriberIsVisible, Native
<1>4. StatusInv
  BY DEF Init, StatusInv
<1> QED  BY <1>2, <1>3, <1>4 DEF IndInv

\* A handshake adds one unsubscribed entry under a fresh id and prunes the
\* rest.
LEMMA HandshakeInv ==
  ASSUME IndInv, NEW c \in Client, NEW p \in {"confirming", "upgrading"},
         pc[c] = "idle", Handshake(c), pc' = [pc EXCEPT ![c] = p],
         UNCHANGED <<now, run, openedAt, strangers, status>>
  PROVE  IndInv'
<1> USE DEF IndInv
<1>1. next_id \in Nat /\ next_id \notin DOMAIN clients /\ now \in Nat /\ run \in Nat
  BY DEF TypeOK
<1>2. Spared \subseteq DOMAIN clients
  BY DEF Spared
<1>3. /\ DOMAIN clients' = Spared \union {next_id}
      /\ clients'[next_id] = [subscribed |-> FALSE, last_seen |-> now]
      /\ \A i \in Spared : i # next_id /\ clients'[i] = clients[i]
  BY <1>1, <1>2 DEF Handshake
<1>4. \A i \in DOMAIN clients' : clients'[i] \in ClientInfo /\ clients'[i].last_seen <= now
  <2>1. clients'[next_id] \in ClientInfo /\ clients'[next_id].last_seen <= now
    BY <1>1, <1>3 DEF ClientInfo
  <2>2. \A i \in Spared : clients'[i] \in ClientInfo /\ clients'[i].last_seen <= now
    BY <1>2, <1>3 DEF TypeOK
  <2> QED  BY <1>3, <2>1, <2>2
<1>5. TypeOK'
  <2>1. clients' \in [DOMAIN clients' -> ClientInfo]
    BY <1>4 DEF Handshake
  <2>2. DOMAIN clients' \subseteq 0..next_id' - 1
    BY <1>1, <1>2, <1>3 DEF Handshake, TypeOK
  <2>3. next_id' \in Nat /\ pc' \in [Client -> PcState]
    BY <1>1 DEF Handshake, TypeOK, PcState
  <2>4. /\ cid' \in [Client -> Nat \union {None}]
        /\ issued' \in [Client -> 0..run]
        /\ shookAt' \in [Client -> 0..now]
    BY <1>1 DEF Handshake, TypeOK
  <2> QED  BY <1>4, <2>1, <2>2, <2>3, <2>4 DEF TypeOK
<1>6. Subscribed' = Subscribed
  BY <1>2, <1>3 DEF Subscribed, Spared
<1>7. \A d \in Client : d # c => /\ pc'[d] = pc[d] /\ cid'[d] = cid[d]
                                  /\ issued'[d] = issued[d] /\ shookAt'[d] = shookAt[d]
  BY DEF Handshake
<1>8. /\ cid'[c] = next_id /\ issued'[c] = run /\ shookAt'[c] = now
      /\ pc'[c] = p /\ next_id' = next_id + 1
  BY DEF Handshake, TypeOK
<1>9. SubscribedHasTask'
  BY <1>6, <1>7 DEF SubscribedHasTask
<1>10. IdsInv'
  BY <1>1, <1>7, <1>8 DEF IdsInv, Native
<1>11. PendingInv'
  <2> SUFFICES ASSUME NEW d \in Client, Native(d)', pc'[d] # "live",
                      cid'[d] \notin strangers, now - shookAt'[d] < TTL
               PROVE  cid'[d] \in DOMAIN clients' /\ clients'[cid'[d]].last_seen = shookAt'[d]
    BY DEF PendingInv
  <2>1. CASE d = c
    BY <1>3, <1>8, <2>1
  <2>2. CASE d # c
    BY <1>3, <1>7, <2>2 DEF PendingInv, Native, Spared
  <2> QED  BY <2>1, <2>2
<1>12. StrangerInv'
  BY <1>7, <1>8 DEF StrangerInv
<1>13. PromptSubscriberIsVisible'
  BY <1>6, <1>7, <1>8 DEF PromptSubscriberIsVisible, Visible
<1>14. StatusInv'
  BY <1>6 DEF StatusInv
<1> QED  BY <1>5, <1>9, <1>10, <1>11, <1>12, <1>13, <1>14

\* A client that is not live gives up, asks for its socket, or fails to get it.
LEMMA MoveInv ==
  ASSUME IndInv, NEW c \in Client, Abandon(c) \/ OpenSocket(c) \/ UpgradeFails(c)
  PROVE  IndInv'
<1> USE DEF IndInv
<1>1. /\ UNCHANGED <<now, run, clients, next_id, cid, issued, shookAt, openedAt,
                     strangers, status>>
      /\ pc[c] \in {"confirming", "upgrading"}
      /\ \E p \in {"idle", "upgrading"} : pc' = [pc EXCEPT ![c] = p]
  BY DEF Abandon, OpenSocket, UpgradeFails
<1>2. PICK p \in {"idle", "upgrading"} : pc' = [pc EXCEPT ![c] = p]
  BY <1>1
<1>3. /\ pc'[c] = p
      /\ \A d \in Client : d # c => pc'[d] = pc[d]
      /\ \A d \in Client : pc'[d] = "live" <=> pc[d] = "live"
      /\ \A d \in Client : pc'[d] # "idle" => pc[d] # "idle"
  BY <1>1, <1>2 DEF TypeOK
<1>4. TypeOK'
  BY <1>1, <1>2 DEF TypeOK, PcState
<1>5. Subscribed' = Subscribed
  BY <1>1 DEF Subscribed
<1>6. SubscribedHasTask' /\ StrangerInv'
  BY <1>1, <1>3, <1>5 DEF SubscribedHasTask, StrangerInv
<1>7. IdsInv' /\ PendingInv'
  BY <1>1, <1>3 DEF IdsInv, PendingInv, Native
<1>8. PromptSubscriberIsVisible'
  BY <1>1, <1>3, <1>5 DEF PromptSubscriberIsVisible, Visible
<1>9. StatusInv'
  BY <1>1, <1>5 DEF StatusInv
<1> QED  BY <1>4, <1>6, <1>7, <1>8, <1>9

\* A socket that opens widens who was ever subscribed and takes nobody from
\* those who were throughout.
LEMMA OpenedInv ==
  ASSUME TypeOK, StatusInv, NEW id \in Nat, NoteOpened(id),
         Subscribed \subseteq Subscribed', Subscribed' \subseteq Subscribed \union {id}
  PROVE  /\ status' \in StatusAnswer \union {None}
         /\ StatusInv'
<1>1. CASE status = None
  BY <1>1 DEF NoteOpened, StatusInv
<1>2. CASE status # None
  <2>1. status \in StatusAnswer
    BY <1>2 DEF TypeOK
  <2>2. status' = [status EXCEPT !.ever = @ \union {id}]
    BY <1>2 DEF NoteOpened
  <2>3. /\ status' \in StatusAnswer
        /\ status'.ever = status.ever \union {id}
        /\ status'.at = status.at /\ status'.connected = status.connected
        /\ status'.count = status.count /\ status'.listed = status.listed
        /\ status'.steady = status.steady
    BY <2>1, <2>2 DEF StatusAnswer
  <2>4. /\ IsFiniteSet(status'.ever)
        /\ Cardinality(status.ever) <= Cardinality(status'.ever)
        /\ Cardinality(status.ever) \in Nat /\ Cardinality(status'.ever) \in Nat
    <3>1. IsFiniteSet(status.ever)
      BY <1>2 DEF StatusInv
    <3>2. IsFiniteSet(status'.ever)
      BY <2>3, <3>1, FS_AddElement
    <3> QED  BY <2>3, <3>1, <3>2, FS_Subset, FS_CardinalityType
  <2>5. status.steady \subseteq status.ever
    BY <1>2 DEF StatusInv
  <2>6. Cardinality(status.steady) \in Nat
    BY <1>2, <2>5, FS_Subset, FS_CardinalityType DEF StatusInv
  <2>7. status.count \in Nat
    BY <2>1 DEF StatusAnswer
  <2>8. StatusInv'
    BY <1>2, <2>3, <2>4, <2>6, <2>7 DEF StatusInv
  <2> QED  BY <2>3, <2>8
<1> QED  BY <1>1, <1>2

\* A socket that closes is no longer one that was open throughout.
LEMMA ClosedInv ==
  ASSUME TypeOK, StatusInv, NEW id, NoteClosed(id), Subscribed' = Subscribed \ {id}
  PROVE  /\ status' \in StatusAnswer \union {None}
         /\ StatusInv'
<1>1. CASE status = None
  BY <1>1 DEF NoteClosed, StatusInv
<1>2. CASE status # None
  <2>1. status \in StatusAnswer
    BY <1>2 DEF TypeOK
  <2>2. status' = [status EXCEPT !.steady = @ \ {id}]
    BY <1>2 DEF NoteClosed
  <2>3. /\ status' \in StatusAnswer
        /\ status'.steady = status.steady \ {id}
        /\ status'.at = status.at /\ status'.connected = status.connected
        /\ status'.count = status.count /\ status'.listed = status.listed
        /\ status'.ever = status.ever
    BY <2>1, <2>2 DEF StatusAnswer
  <2>4. IsFiniteSet(status.ever) /\ status.steady \subseteq status.ever
    BY <1>2 DEF StatusInv
  <2>5. IsFiniteSet(status.steady)
    BY <2>4, FS_Subset
  <2>6. /\ Cardinality(status'.steady) <= Cardinality(status.steady)
        /\ Cardinality(status'.steady) \in Nat /\ Cardinality(status.steady) \in Nat
    BY <2>3, <2>5, FS_Subset, FS_CardinalityType
  <2>7. status.count \in Nat
    BY <2>1 DEF StatusAnswer
  <2>8. StatusInv'
    BY <1>2, <2>3, <2>6, <2>7 DEF StatusInv
  <2> QED  BY <2>3, <2>8
<1> QED  BY <1>1, <1>2

\* SubscriptionGuard::new: the entry, if it is there, becomes subscribed.
LEMMA UpgradeInv ==
  ASSUME IndInv, NEW c \in Client, Upgrade(c)
  PROVE  IndInv'
<1> USE DEF IndInv
<1>1. /\ UNCHANGED <<now, run, next_id, cid, issued, shookAt>>
      /\ pc[c] = "upgrading" /\ pc'[c] = "live" /\ openedAt'[c] = now
      /\ \A d \in Client : d # c => pc'[d] = pc[d] /\ openedAt'[d] = openedAt[d]
      /\ strangers \subseteq strangers'
      /\ issued[c] # run => cid[c] \in strangers'
  BY DEF Upgrade, TypeOK
<1>2. cid[c] \in Nat /\ now \in Nat
  BY <1>1 DEF IdsInv, TypeOK
<1>3. /\ DOMAIN clients' = DOMAIN clients
      /\ \A i \in DOMAIN clients : i # cid[c] => clients'[i] = clients[i]
      /\ cid[c] \in DOMAIN clients =>
           clients'[cid[c]] = [subscribed |-> TRUE, last_seen |-> now]
      /\ clients' = [i \in DOMAIN clients |-> clients'[i]]
  BY DEF Upgrade, SetSubscribed
<1>4. \A i \in DOMAIN clients' : clients'[i] \in ClientInfo /\ clients'[i].last_seen <= now
  <2>1. [subscribed |-> TRUE, last_seen |-> now] \in ClientInfo
    BY <1>2 DEF ClientInfo
  <2>2. \A i \in DOMAIN clients : clients[i] \in ClientInfo /\ clients[i].last_seen <= now
    BY DEF TypeOK
  <2> QED  BY <1>2, <1>3, <2>1, <2>2
<1>6. Subscribed' = Subscribed \union ({cid[c]} \intersect DOMAIN clients)
  BY <1>3 DEF Subscribed
<1>12. status' \in StatusAnswer \union {None} /\ StatusInv'
  BY <1>2, <1>6, OpenedInv DEF Upgrade
<1>5. TypeOK'
  <2>1. clients' \in [DOMAIN clients' -> ClientInfo]
    BY <1>3, <1>4
  <2>2. strangers' \subseteq Nat
    BY <1>2 DEF Upgrade, TypeOK
  <2>3. status' \in StatusAnswer \union {None}
    BY <1>12
  <2> QED  BY <1>1, <1>2, <1>3, <1>4, <2>1, <2>2, <2>3 DEF Upgrade, TypeOK, PcState
<1>7. SubscribedHasTask'
  BY <1>1, <1>6 DEF SubscribedHasTask
<1>8. IdsInv'
  BY <1>1 DEF IdsInv, Native
<1>9. PendingInv'
  <2> SUFFICES ASSUME NEW d \in Client, Native(d)', pc'[d] # "live",
                      cid[d] \notin strangers', now - shookAt[d] < TTL
               PROVE  cid[d] \in DOMAIN clients' /\ clients'[cid[d]].last_seen = shookAt[d]
    BY <1>1 DEF PendingInv
  <2>1. d # c /\ Native(d) /\ pc[d] # "live" /\ cid[d] \notin strangers
    BY <1>1 DEF Native
  <2>2. cid[d] \in DOMAIN clients /\ clients[cid[d]].last_seen = shookAt[d]
    BY <2>1 DEF PendingInv
  <2>3. cid[d] # cid[c]
    BY <1>1, <2>1 DEF IdsInv, Native
  <2> QED  BY <1>3, <2>2, <2>3
<1>10. StrangerInv'
  BY <1>1 DEF StrangerInv
<1>11. PromptSubscriberIsVisible'
  <2> SUFFICES ASSUME NEW d \in Client, pc'[d] = "live", issued[d] = run,
                      cid[d] \notin strangers', openedAt'[d] - shookAt[d] < TTL
               PROVE  cid[d] \in Subscribed'
    BY <1>1 DEF PromptSubscriberIsVisible, Visible
  <2>1. CASE d = c
    BY <1>1, <1>6, <2>1 DEF PendingInv, Native
  <2>2. CASE d # c
    BY <1>1, <1>6, <2>2 DEF PromptSubscriberIsVisible, Visible
  <2> QED  BY <2>1, <2>2
<1> QED  BY <1>5, <1>7, <1>8, <1>9, <1>10, <1>11, <1>12

\* SubscriptionGuard::drop: the entry under the id is gone, whoever's it was.
LEMMA DropInv ==
  ASSUME IndInv, NEW c \in Client, Drop(c)
  PROVE  IndInv'
<1> USE DEF IndInv
<1>1. /\ UNCHANGED <<now, run, next_id, cid, issued, shookAt, openedAt, strangers>>
      /\ pc[c] = "live" /\ pc'[c] = "idle"
      /\ \A d \in Client : d # c => pc'[d] = pc[d]
  BY DEF Drop, TypeOK
<1>2. /\ DOMAIN clients' = DOMAIN clients \ {cid[c]}
      /\ \A i \in DOMAIN clients' : clients'[i] = clients[i]
      /\ clients' = [i \in DOMAIN clients' |-> clients'[i]]
  BY DEF Drop, Remove
<1>4. Subscribed' = Subscribed \ {cid[c]}
  BY <1>2 DEF Subscribed
<1>10. status' \in StatusAnswer \union {None} /\ StatusInv'
  BY <1>4, ClosedInv DEF Drop
<1>3. TypeOK'
  <2>1. \A i \in DOMAIN clients' : clients'[i] \in ClientInfo /\ clients'[i].last_seen <= now
    BY <1>2 DEF TypeOK
  <2>2. clients' \in [DOMAIN clients' -> ClientInfo]
    BY <1>2, <2>1
  <2>3. status' \in StatusAnswer \union {None}
    BY <1>10
  <2> QED  BY <1>1, <1>2, <2>1, <2>2, <2>3 DEF Drop, TypeOK, PcState
<1>5. SubscribedHasTask'
  BY <1>1, <1>4 DEF SubscribedHasTask
<1>6. IdsInv' /\ StrangerInv'
  BY <1>1 DEF IdsInv, StrangerInv, Native
<1>7. ASSUME NEW d \in Client, d # c, Native(d), cid[d] \notin strangers
      PROVE  cid[d] # cid[c]
  BY <1>1, <1>7 DEF IdsInv, StrangerInv, Native
<1>8. PendingInv'
  BY <1>1, <1>2, <1>7 DEF PendingInv, Native
<1>9. PromptSubscriberIsVisible'
  BY <1>1, <1>4, <1>7 DEF PromptSubscriberIsVisible, Visible, Native
<1> QED  BY <1>3, <1>5, <1>6, <1>8, <1>9, <1>10

\* handle_api_status: each read is of a moment between the first and the last.
LEMMA StatusStepInv ==
  ASSUME IndInv, StatusConnected \/ StatusCount \/ StatusRespond
  PROVE  IndInv'
<1> USE DEF IndInv
<1>1. UNCHANGED <<now, run, clients, next_id, clientVars>>
  BY DEF StatusConnected, StatusCount, StatusRespond
<1>2. UNCHANGED <<pc, cid, issued, shookAt, openedAt, strangers>>
  BY <1>1 DEF clientVars
<1>3. Subscribed' = Subscribed
  BY <1>1 DEF Subscribed
<1>4. status' \in StatusAnswer \union {None} /\ StatusInv'
  <2>1. CASE StatusConnected
    <3>1. Subscribed \subseteq Nat
      BY DEF Subscribed, TypeOK
    <3>2. IsFiniteSet(Subscribed)
      BY SubscribedFinite
    <3> QED  BY <1>3, <2>1, <3>1, <3>2 DEF StatusConnected, StatusInv, StatusAnswer
  <2>2. CASE StatusCount
    <3>1. status \in StatusAnswer
      BY <2>2 DEF StatusCount, TypeOK
    <3>2. IsFiniteSet(Subscribed) /\ Cardinality(Subscribed) \in Nat
      BY SubscribedFinite
    <3>3. /\ status # None /\ IsFiniteSet(status.ever)
          /\ status.steady \subseteq Subscribed /\ Subscribed \subseteq status.ever
      BY <2>2 DEF StatusCount, StatusInv
    <3>4. /\ Cardinality(status.steady) <= Cardinality(Subscribed)
          /\ Cardinality(Subscribed) <= Cardinality(status.ever)
      BY <3>2, <3>3, FS_Subset
    <3>5. /\ status' \in StatusAnswer
          /\ status'.at = "clients" /\ status'.count = Cardinality(Subscribed)
          /\ status'.connected = status.connected /\ status'.steady = status.steady
          /\ status'.ever = status.ever
      BY <2>2, <3>1, <3>2 DEF StatusCount, StatusAnswer
    <3> QED  BY <1>3, <3>3, <3>4, <3>5 DEF StatusInv
  <2>3. CASE StatusRespond
    BY <2>3 DEF StatusRespond, StatusInv
  <2> QED  BY <2>1, <2>2, <2>3
<1>5. TypeOK'
  BY <1>1, <1>2, <1>4 DEF TypeOK
<1>6. SubscribedHasTask' /\ IdsInv' /\ PendingInv' /\ StrangerInv'
  BY <1>1, <1>2, <1>3 DEF SubscribedHasTask, IdsInv, PendingInv, StrangerInv, Native
<1>7. PromptSubscriberIsVisible'
  BY <1>1, <1>2, <1>3 DEF PromptSubscriberIsVisible, Visible
<1> QED  BY <1>4, <1>5, <1>6, <1>7

\* clients(): the registry is pruned and listed.
LEMMA StatusClientsInv ==
  ASSUME IndInv, StatusClients
  PROVE  IndInv'
<1> USE DEF IndInv
<1>1. UNCHANGED <<now, run, next_id, pc, cid, issued, shookAt, openedAt, strangers>>
  BY DEF StatusClients, clientVars
<1>2. /\ DOMAIN clients' = Spared
      /\ Spared \subseteq DOMAIN clients
      /\ \A i \in Spared : clients'[i] = clients[i]
      /\ clients' = [i \in DOMAIN clients' |-> clients'[i]]
  BY DEF StatusClients, PruneStale, Spared
<1>3. Subscribed' = Subscribed
  BY <1>2 DEF Subscribed, Spared
<1>4. status \in StatusAnswer /\ Subscribed \subseteq Nat
  BY DEF StatusClients, TypeOK, Subscribed
<1>5. status' \in StatusAnswer /\ StatusInv'
  BY <1>3, <1>4, PruneKeepsSubscribed DEF StatusClients, StatusInv, StatusAnswer
<1>6. TypeOK'
  <2>1. \A i \in DOMAIN clients' : clients'[i] \in ClientInfo /\ clients'[i].last_seen <= now
    BY <1>2 DEF TypeOK
  <2>2. clients' \in [DOMAIN clients' -> ClientInfo]
    BY <1>2, <2>1
  <2> QED  BY <1>1, <1>2, <1>5, <2>1, <2>2 DEF TypeOK
<1>7. SubscribedHasTask' /\ IdsInv' /\ StrangerInv'
  BY <1>1, <1>3 DEF SubscribedHasTask, IdsInv, StrangerInv, Native
<1>8. PendingInv'
  BY <1>1, <1>2 DEF PendingInv, Native, Spared
<1>9. PromptSubscriberIsVisible'
  BY <1>1, <1>3 DEF PromptSubscriberIsVisible, Visible
<1> QED  BY <1>5, <1>6, <1>7, <1>8, <1>9

\* Time passes.
LEMMA TickInv ==
  ASSUME IndInv, Tick
  PROVE  IndInv'
<1> USE DEF IndInv
<1>1. /\ UNCHANGED <<run, clients, next_id, pc, cid, issued, shookAt, openedAt, strangers,
                     status>>
      /\ now \in Nat /\ now' = now + 1
  BY DEF Tick, clientVars, TypeOK
<1>2. Subscribed' = Subscribed
  BY <1>1 DEF Subscribed
<1>3. TypeOK'
  <2>1. \A i \in DOMAIN clients : clients[i].last_seen \in Nat /\ clients[i].last_seen <= now
    BY DEF TypeOK, ClientInfo
  <2>2. 0..now \subseteq 0..now'
    BY <1>1
  <2>3. shookAt \in [Client -> 0..now'] /\ openedAt \in [Client -> 0..now']
    BY <2>2 DEF TypeOK
  <2> QED  BY <1>1, <2>1, <2>3 DEF TypeOK
<1>4. SubscribedHasTask' /\ IdsInv' /\ StrangerInv' /\ StatusInv'
  BY <1>1, <1>2 DEF SubscribedHasTask, IdsInv, StrangerInv, StatusInv, Native
<1>5. PendingInv'
  <2>1. \A c \in Client : shookAt[c] \in Nat
    BY DEF TypeOK
  <2> QED  BY <1>1, <2>1, TTLAssumption DEF PendingInv, Native
<1>6. PromptSubscriberIsVisible'
  BY <1>1, <1>2 DEF PromptSubscriberIsVisible, Visible
<1> QED  BY <1>3, <1>4, <1>5, <1>6

\* Another server process: the registry is empty and every id is a stranger's.
LEMMA RestartInv ==
  ASSUME IndInv, Restart
  PROVE  IndInv'
<1> USE DEF IndInv
<1>1. /\ UNCHANGED <<now, cid, issued, shookAt, openedAt>>
      /\ run \in Nat /\ run' = run + 1
      /\ next_id' = 0 /\ strangers' = {} /\ status' = None
      /\ DOMAIN clients' = {} /\ clients' = << >>
      /\ \A c \in Client : pc'[c] \in {"idle", "confirming"}
      /\ \A c \in Client : pc'[c] # "idle" => pc[c] # "idle"
      /\ pc' \in [Client -> PcState]
  BY DEF Restart, TypeOK, PcState
<1>2. \A c \in Client : issued[c] # run'
  BY <1>1 DEF TypeOK
<1>3. TypeOK'
  <2>1. clients' \in [DOMAIN clients' -> ClientInfo]
    BY <1>1
  <2>2. issued \in [Client -> 0..run']
    BY <1>1 DEF TypeOK
  <2> QED  BY <1>1, <2>1, <2>2 DEF TypeOK
<1>4. SubscribedHasTask'
  BY <1>1 DEF SubscribedHasTask, Subscribed
<1>5. IdsInv' /\ PendingInv' /\ StrangerInv'
  BY <1>1, <1>2 DEF IdsInv, PendingInv, StrangerInv, Native
<1>6. PromptSubscriberIsVisible' /\ StatusInv'
  BY <1>1, <1>2 DEF PromptSubscriberIsVisible, StatusInv
<1> QED  BY <1>3, <1>4, <1>5, <1>6

\* A step that changes nothing.
LEMMA StutterInv == ASSUME IndInv, UNCHANGED vars PROVE IndInv'
<1>1. UNCHANGED <<now, run, clients, next_id, pc, cid, issued, shookAt, openedAt, strangers,
                  status>>
  BY DEF vars, clientVars
<1>2. Subscribed' = Subscribed
  BY <1>1 DEF Subscribed
<1> QED  BY <1>1, <1>2 DEF IndInv, TypeOK, SubscribedHasTask, IdsInv, PendingInv,
            StrangerInv, PromptSubscriberIsVisible, StatusInv, Native, Visible

\* Every step keeps the inductive invariant.
LEMMA NextInv == IndInv /\ [Next]_vars => IndInv'
<1> SUFFICES ASSUME IndInv, [Next]_vars PROVE IndInv'
  OBVIOUS
<1>1. ASSUME NEW c \in Client, Connect(c) PROVE IndInv'
  BY <1>1, HandshakeInv DEF Connect
<1>2. ASSUME NEW c \in Client, OpenAnonymous(c) PROVE IndInv'
  BY <1>2, HandshakeInv DEF OpenAnonymous
<1>3. ASSUME NEW c \in Client, Abandon(c) \/ OpenSocket(c) \/ UpgradeFails(c) PROVE IndInv'
  BY <1>3, MoveInv
<1>4. ASSUME NEW c \in Client, Upgrade(c) \/ Drop(c) PROVE IndInv'
  BY <1>4, UpgradeInv, DropInv
<1> QED  BY <1>1, <1>2, <1>3, <1>4, StatusStepInv, StatusClientsInv, TickInv, RestartInv,
            StutterInv DEF Next

-----------------------------------------------------------------------------
(* The theorems.                                                           *)

\* Every variable of the registry, its clients and the status request keeps
\* its type.
THEOREM TypeCorrect == Spec => []TypeOK
<1>1. IndInv => TypeOK
  BY DEF IndInv
<1> QED  BY <1>1, InitInv, NextInv, PTL DEF Spec

\* Nothing looks connected without a websocket task that runs
\* (SubscriptionGuard).
THEOREM NothingLooksConnected == Spec => []SubscribedHasTask
<1>1. IndInv => SubscribedHasTask
  BY DEF IndInv
<1> QED  BY <1>1, InitInv, NextInv, PTL DEF Spec

\* A client that opens its socket in time is visible while the socket is open
\* (handshake, prune_stale, set_subscribed, remove).
THEOREM PromptIsVisible == Spec => []PromptSubscriberIsVisible
<1>1. IndInv => PromptSubscriberIsVisible
  BY DEF IndInv
<1> QED  BY <1>1, InitInv, NextInv, PTL DEF Spec

\* Every part of a status answer is true of the time its request took, whatever
\* sockets open and close between the reads (handle_api_status).
THEOREM StatusIsTimely == Spec => []StatusIsOfItsTime
<1>1. IndInv => StatusIsOfItsTime
  BY DEF IndInv, StatusInv, StatusIsOfItsTime
<1> QED  BY <1>1, InitInv, NextInv, PTL DEF Spec

\* A subscribed entry leaves the registry only with the task of a client that
\* holds its id: no handshake, no status request and no passing of time expires
\* it, and a restart ends every task (prune_stale, SubscriptionGuard::drop).
THEOREM NoExpiryOfSubscribed == Spec => OnlyClosingUnsubscribes
<1> DEFINE Closing(i) == \E c \in Client : pc[c] = "live" /\ cid[c] = i /\ pc'[c] = "idle"
           Kept == \A i \in Subscribed : i \in Subscribed' \/ Closing(i)
<1>1. ASSUME IndInv, [Next]_vars PROVE [Kept]_vars
  <2> SUFFICES ASSUME Next PROVE Kept
    BY <1>1
  <2> USE <1>1 DEF IndInv
  <2>1. ASSUME NEW c \in Client, Connect(c) \/ OpenAnonymous(c) PROVE Kept
    <3>1. Handshake(c)
      BY <2>1 DEF Connect, OpenAnonymous
    <3>2. \A i \in Spared : i \in DOMAIN clients' /\ i # next_id /\ clients'[i] = clients[i]
      BY <3>1 DEF Handshake, Spared, TypeOK
    <3> QED  BY <3>2 DEF Subscribed, Spared
  <2>2. ASSUME NEW c \in Client, Abandon(c) \/ OpenSocket(c) \/ UpgradeFails(c) PROVE Kept
    BY <2>2 DEF Abandon, OpenSocket, UpgradeFails, Subscribed
  <2>3. ASSUME NEW c \in Client, Upgrade(c) PROVE Kept
    BY <2>3 DEF Upgrade, SetSubscribed, Subscribed
  <2>4. ASSUME NEW c \in Client, Drop(c) PROVE Kept
    <3>1. pc[c] = "live" /\ pc'[c] = "idle"
      BY <2>4 DEF Drop, TypeOK
    <3>2. \A i \in Subscribed : i # cid[c] => i \in Subscribed'
      BY <2>4 DEF Drop, Remove, Subscribed
    <3> QED  BY <3>1, <3>2
  <2>5. CASE StatusConnected \/ StatusCount \/ StatusRespond \/ Tick
    BY <2>5 DEF StatusConnected, StatusCount, StatusRespond, Tick, Subscribed
  <2>6. CASE StatusClients
    BY <2>6 DEF StatusClients, PruneStale, Spared, Subscribed
  <2>7. CASE Restart
    <3>1. \A c \in Client : pc[c] = "live" => pc'[c] = "idle"
      BY <2>7 DEF Restart
    <3> QED  BY <3>1 DEF SubscribedHasTask
  <2> QED  BY <2>1, <2>2, <2>3, <2>4, <2>5, <2>6, <2>7 DEF Next
<1>2. [Kept]_vars => [\A i \in Subscribed :
        i \in Subscribed' \/ \E c \in Client : /\ pc[c] = "live" /\ cid[c] = i
                                               /\ pc'[c] = "idle" ]_vars
  OBVIOUS
<1> QED  BY <1>1, <1>2, InitInv, NextInv, PTL DEF Spec, OnlyClosingUnsubscribes

=============================================================================
