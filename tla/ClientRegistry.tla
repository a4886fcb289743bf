--------------------------- MODULE ClientRegistry ---------------------------
(***************************************************************************)
(* Which Studio clients are attached to a serve session: the handshake of  *)
(* api/rojo, the websocket task with its SubscriptionGuard, the expiry of  *)
(* handshakes that never subscribed, and the status handler that reads the *)
(* registry in three separate critical sections.  The server process may   *)
(* be restarted on the same port while plugins are between their handshake *)
(* and their socket.                                                       *)
(***************************************************************************)
EXTENDS Naturals, FiniteSets

CONSTANTS
  Client,       \* the plugins and other programs that connect
  TTL,          \* UNSUBSCRIBED_TTL_SECS
  MaxTime,      \* bound: how far the clock runs
  MaxIds,       \* bound: handshakes per server process
  MaxRuns,      \* bound: server processes
  None

ASSUME TTLAssumption == TTL \in Nat \ {0}
ASSUME BoundsAssumption == MaxTime \in Nat /\ MaxIds \in Nat /\ MaxRuns \in Nat
ASSUME NoneAssumption == None \notin Nat

VARIABLES
  now,       \* now_secs()
  run,       \* which server process is running
  clients,   \* ClientRegistry.clients: id -> what status shows of it
  next_id,
  pc,        \* each client: "idle", "confirming", "upgrading" or "live"
  cid,       \* the id each client was given, None before
  issued,    \* the run that gave it
  shookAt,   \* when
  openedAt,  \* when its SubscriptionGuard was made
  strangers, \* history: ids that sockets brought from an earlier run
  status     \* the status request being answered, None if there is none, with
             \* two histories: whose entry was subscribed when it began and has not
             \* been closed since (steady), and whose was or has opened since (ever)

clientVars == <<pc, cid, issued, shookAt, openedAt, strangers>>
vars == <<now, run, clients, next_id, clientVars, status>>

ClientInfo == [subscribed : BOOLEAN, last_seen : Nat]

Init == /\ now = 0 /\ run = 1
        /\ clients = << >> /\ next_id = 0
        /\ pc = [c \in Client |-> "idle"]
        /\ cid = [c \in Client |-> None]
        /\ issued = [c \in Client |-> 0]
        /\ shookAt = [c \in Client |-> 0]
        /\ openedAt = [c \in Client |-> 0]
        /\ strangers = {}
        /\ status = None

-----------------------------------------------------------------------------
(* The registry's operations.                                              *)

\* prune_stale
SparedIgnoringSocket == {i \in DOMAIN clients : now - clients[i].last_seen < TTL}

SparedOffByOne == {i \in DOMAIN clients : \/ clients[i].subscribed
                                          \/ now - clients[i].last_seen < TTL - 1}

Spared == {i \in DOMAIN clients : \/ clients[i].subscribed
                                  \/ now - clients[i].last_seen < TTL}

PruneStale == [i \in Spared |-> clients[i]]

\* handshake: prune, take the next id, insert.
Handshake(c) ==
  /\ next_id < MaxIds
  /\ clients' = [i \in Spared \union {next_id} |->
                   IF i = next_id THEN [subscribed |-> FALSE, last_seen |-> now]
                                  ELSE clients[i]]
  /\ next_id' = next_id + 1
  /\ cid' = [cid EXCEPT ![c] = next_id]
  /\ issued' = [issued EXCEPT ![c] = run]
  /\ shookAt' = [shookAt EXCEPT ![c] = now]

SetSubscribedInserts(id) ==
  clients' = [i \in DOMAIN clients \union {id} |->
                IF i = id THEN [subscribed |-> TRUE, last_seen |-> now] ELSE clients[i]]

\* set_subscribed(id, true) does nothing for an id it does not know.
SetSubscribed(id) ==
  clients' = [i \in DOMAIN clients |->
                IF i = id THEN [subscribed |-> TRUE, last_seen |-> now] ELSE clients[i]]

RemoveForgotten(id) == UNCHANGED clients

Remove(id) == clients' = [i \in DOMAIN clients \ {id} |-> clients[i]]

Subscribed == {i \in DOMAIN clients : clients[i].subscribed}

\* A status request under way takes note of the sockets that open and close.
NoteOpened(id) == status' = IF status = None THEN None
                            ELSE [status EXCEPT !.ever = @ \union {id}]
NoteClosed(id) == status' = IF status = None THEN None
                            ELSE [status EXCEPT !.steady = @ \ {id}]

-----------------------------------------------------------------------------
(* A client's session.                                                     *)

\* GET api/rojo, then api/read, the diff and the confirmation.
Connect(c) == /\ pc[c] = "idle"
              /\ Handshake(c)
              /\ pc' = [pc EXCEPT ![c] = "confirming"]
              /\ UNCHANGED <<now, run, openedAt, strangers, status>>

\* The plugin rejects the server's answer, or the user rejects the patch.
Abandon(c) == /\ pc[c] = "confirming"
              /\ pc' = [pc EXCEPT ![c] = "idle"]
              /\ UNCHANGED <<now, run, clients, next_id, cid, issued, shookAt, openedAt,
                             strangers, status>>

\* GET api/socket with a clientId.
OpenSocket(c) == /\ pc[c] = "confirming"
                 /\ pc' = [pc EXCEPT ![c] = "upgrading"]
                 /\ UNCHANGED <<now, run, clients, next_id, cid, issued, shookAt, openedAt,
                                strangers, status>>

\* GET api/socket without one: an old plugin, or a program of somebody's own.
OpenAnonymous(c) == /\ pc[c] = "idle"
                    /\ Handshake(c)
                    /\ pc' = [pc EXCEPT ![c] = "upgrading"]
                    /\ UNCHANGED <<now, run, openedAt, strangers, status>>

\* The spawned task's websocket is there: SubscriptionGuard::new.
Upgrade(c) ==
  /\ pc[c] = "upgrading"
  /\ pc' = [pc EXCEPT ![c] = "live"]
  /\ SetSubscribed(cid[c])
  /\ openedAt' = [openedAt EXCEPT ![c] = now]
  /\ strangers' = IF issued[c] = run THEN strangers ELSE strangers \union {cid[c]}
  /\ NoteOpened(cid[c])
  /\ UNCHANGED <<now, run, next_id, cid, issued, shookAt>>

\* websocket.await? fails before there is a guard.
UpgradeFails(c) == /\ pc[c] = "upgrading"
                   /\ pc' = [pc EXCEPT ![c] = "idle"]
                   /\ UNCHANGED <<now, run, clients, next_id, cid, issued, shookAt, openedAt,
                                  strangers, status>>

\* The task ends, on whatever path: the guard's drop.
Drop(c) == /\ pc[c] = "live"
           /\ pc' = [pc EXCEPT ![c] = "idle"]
           /\ Remove(cid[c])
           /\ NoteClosed(cid[c])
           /\ UNCHANGED <<now, run, next_id, cid, issued, shookAt, openedAt, strangers>>

-----------------------------------------------------------------------------
(* GET api/roxo/status: subscribed_count() > 0, subscribed_count() and     *)
(* clients() lock the registry one after the other.                        *)

StatusConnected ==
  /\ status = None
  /\ status' = [at |-> "count", connected |-> Subscribed # {}, count |-> 0,
                listed |-> {}, steady |-> Subscribed, ever |-> Subscribed]
  /\ UNCHANGED <<now, run, clients, next_id, clientVars>>

StatusCountEveryone ==
  /\ status # None /\ status.at = "count"
  /\ status' = [status EXCEPT !.at = "clients", !.count = Cardinality(DOMAIN clients)]
  /\ UNCHANGED <<now, run, clients, next_id, clientVars>>

StatusCount ==
  /\ status # None /\ status.at = "count"
  /\ status' = [status EXCEPT !.at = "clients", !.count = Cardinality(Subscribed)]
  /\ UNCHANGED <<now, run, clients, next_id, clientVars>>

StatusClients ==
  /\ status # None /\ status.at = "clients"
  /\ clients' = PruneStale
  /\ status' = [status EXCEPT !.at = "respond", !.listed = Spared \intersect Subscribed]
  /\ UNCHANGED <<now, run, next_id, clientVars>>

StatusRespond == /\ status # None /\ status.at = "respond"
                 /\ status' = None
                 /\ UNCHANGED <<now, run, clients, next_id, clientVars>>

-----------------------------------------------------------------------------
(* The environment.                                                        *)

Tick == /\ now < MaxTime
        /\ now' = now + 1
        /\ UNCHANGED <<run, clients, next_id, clientVars, status>>

\* The server is stopped and another is started on its port.  Sockets close;
\* a plugin that is between requests does not notice.
Restart == /\ run < MaxRuns
           /\ run' = run + 1
           /\ clients' = << >> /\ next_id' = 0 /\ strangers' = {} /\ status' = None
           /\ pc' = [c \in Client |-> IF pc[c] = "confirming" THEN "confirming" ELSE "idle"]
           /\ UNCHANGED <<now, cid, issued, shookAt, openedAt>>

Next == \/ \E c \in Client : \/ Connect(c) \/ Abandon(c)
                             \/ OpenSocket(c) \/ OpenAnonymous(c)
                             \/ Upgrade(c) \/ UpgradeFails(c) \/ Drop(c)
        \/ StatusConnected \/ StatusCount \/ StatusClients \/ StatusRespond
        \/ Tick \/ Restart

Spec == Init /\ [][Next]_vars

-----------------------------------------------------------------------------
(* Properties.                                                             *)

PcState == {"idle", "confirming", "upgrading", "live"}
StatusAnswer == [at : {"count", "clients", "respond"}, connected : BOOLEAN, count : Nat,
                 listed : SUBSET Nat, steady : SUBSET Nat, ever : SUBSET Nat]

TypeOK ==
  /\ now \in Nat /\ run \in Nat /\ next_id \in Nat
  /\ DOMAIN clients \subseteq 0..next_id - 1
  /\ clients \in [DOMAIN clients -> ClientInfo]
  /\ \A i \in DOMAIN clients : clients[i].last_seen <= now
  /\ pc \in [Client -> PcState]
  /\ cid \in [Client -> Nat \union {None}]
  /\ issued \in [Client -> 0..run]
  /\ shookAt \in [Client -> 0..now]
  /\ openedAt \in [Client -> 0..now]
  /\ strangers \subseteq Nat
  /\ status \in StatusAnswer \union {None}

Visible(c) == cid[c] \in Subscribed

\* "A dropped connection can never leave a session looking connected forever"
\* (api.rs:738): whatever is listed as subscribed has a websocket task that is
\* still running, across expiry, restarts and ids brought from another run.
SubscribedHasTask == \A i \in Subscribed : \E c \in Client : pc[c] = "live" /\ cid[c] = i

\* A client that opened its socket within the TTL of its handshake, on the
\* server that gave it its id, is listed as subscribed as long as the socket is
\* open, unless a socket from before a restart brought the same id.
PromptSubscriberIsVisible ==
  \A c \in Client :
    /\ pc[c] = "live"
    /\ issued[c] = run
    /\ cid[c] \notin strangers
    /\ openedAt[c] - shookAt[c] < TTL
    => Visible(c)

\* "Subscribed clients are never pruned by age; they are removed when their
\* connection actually closes" (client_registry.rs:236).
OnlyClosingUnsubscribes ==
  [][ \A i \in Subscribed :
        i \in Subscribed' \/ \E c \in Client : /\ pc[c] = "live" /\ cid[c] = i
                                               /\ pc'[c] = "idle" ]_vars

\* The parts of one status answer are read at different moments and may
\* contradict each other, but each is true of the time the request took: who
\* was subscribed throughout is in every part, and nobody is in any part who
\* was subscribed at no time of it.
StatusIsOfItsTime ==
  status # None /\ status.at = "respond" =>
    /\ status.steady \subseteq status.listed
    /\ status.listed \subseteq status.ever
    /\ status.steady # {} => status.connected
    /\ status.connected => status.ever # {}
    /\ Cardinality(status.steady) <= status.count
    /\ status.count <= Cardinality(status.ever)

\* "True when at least one client holds a live change subscription"
\* (interface.rs:244; README.md:110 says the same of studioConnected).
LiveMeansConnected == (\E c \in Client : pc[c] = "live") => Subscribed # {}
=============================================================================
