----------------------------- MODULE Discovery -----------------------------
(* How Studio finds a serve session, and how a caller learns why it did    *)
(* not: the plugin's discovery rounds (AutoConnect.lua discover, App       *)
(* tryAutoConnect and startSession), the probes and verdicts a server      *)
(* remembers (client_registry.rs, web/api.rs), and the diagnosis that roxo  *)
(* status makes of them (cli/status.rs, cli/diagnose.rs).                  *)
(*                                                                         *)
(* A Server is one run of roxo serve; several may have one port, one after *)
(* the other.  The probe table that is modelled is that of the server on   *)
(* the port Watched.  Times are kept as ages, in units of which Stale and  *)
(* TTL are counts; what is TTL old is as good as gone.                     *)
EXTENDS AutoConnect

CONSTANTS Searching,                  \* the places whose rounds are modelled; the
                                      \* others only look at the watched port
          Server, Port,
          PortOf, Info, Registered,   \* of a server; Registered: not --no-registry
          Scanned,                    \* the ports of the configured ranges
          Watched,                    \* the port the caller waits on
          Slot,                       \* bounds the sessions of one place at a time,
          MaxClicks, MaxStops,        \* Connect being pressed, and servers that stop
          MaxPeerPorts, MaxProbes,    \* MAX_PEER_PORTS, maxPeerPorts; MAX_PROBES
          TTL, Stale                  \* PROBE_TTL_SECS, STALE_VERDICT_SECS

ASSUME DiscoveryAssumption ==
  /\ Searching \subseteq Place
  /\ PortOf \in [Server -> Port] /\ Registered \subseteq Server
  /\ Scanned \subseteq Port /\ Port \subseteq Nat /\ Watched \in Port
  /\ PlaceId \in [Place -> Nat] /\ GameId \in [Place -> Nat]
  /\ MaxPeerPorts \in Nat \ {0} /\ MaxProbes \in Nat \ {0}
  /\ MaxClicks \in Nat /\ MaxStops \in Nat
  /\ Stale \in Nat /\ TTL \in Nat \ 0..Stale
  /\ None \notin Place \union Server \union Port \union Slot

\* What the servers report; None is none of the things it stands in for.
ASSUME InfoAssumption ==
  /\ \A s \in Server : Info[s] \in Infos(Nat, {Info[t].project : t \in Server})
  /\ \A s \in Server, p \in Place :
       {PlaceId[p]} \union (IF Info[s].serve = None THEN {} ELSE Info[s].serve) # None
  /\ None \notin {"off", "matching", "always"}

VARIABLES
  up,         \* [Server -> "new", "up" or "gone"]
  beacon,     \* [Port -> the server whose beacon file is there, or None]
  known,      \* [Place -> knownPeerPorts]
  preferred,  \* [Place -> the port in the connect form, or None]
  pairing,    \* [Place -> the project saved for it, or None]
  round,      \* [Place -> the discovery round under way, or None]
  session,    \* [Place -> [Slot -> a ServeSession, or None]]
  current,    \* [Place -> the slot of App.serveSession, or None]
  shown,      \* [Place -> the App's page: "connected", "confirm" or "other"]
  overlapped, \* [Place -> history: Connect was pressed during a round, or while
              \* the App had a session]
  clicks,     \* how often Connect was pressed
  net,        \* the probe reports on their way to Watched
  probes,     \* the watched server's probe table
  looked      \* [Place -> how long ago it looked at the watched server; TTL for
              \* that long or never]

app == <<session, current, shown, overlapped>>
place == <<known, preferred, pairing, round, app, clicks>>
table == <<net, probes, looked>>
vars == <<up, beacon, place, table>>

Init == /\ up = [s \in Server |-> "new"]
        /\ beacon = [n \in Port |-> None]
        /\ known = [p \in Place |-> {}]
        /\ preferred = [p \in Place |-> None]
        /\ pairing = [p \in Place |-> None]
        /\ round = [p \in Place |-> None]
        /\ session = [p \in Place |-> [k \in Slot |-> None]]
        /\ current = [p \in Place |-> None]
        /\ shown = [p \in Place |-> "other"] /\ overlapped = [p \in Place |-> FALSE]
        /\ clicks = 0
        /\ net = {} /\ probes = << >>
        /\ looked = [p \in Place |-> TTL]

Up == {s \in Server : up[s] = "up"}

\* The server that answers a request to the port at the host.
Listening(n, host) == {s \in Up : PortOf[s] = n /\ Answers(Info[s], host)}

Lowest(ports, k) == {n \in ports : Cardinality({m \in ports : m < n}) < k}

\* peer_ports: the other sessions' beacons, whether or not they still run.
Peers(s) ==
  IF Info[s].roxo
  THEN Lowest({n \in Port : beacon[n] # None /\ beacon[n] # s}, MaxPeerPorts)
  ELSE {}

-----------------------------------------------------------------------------
(* The probe table.  A record has the time of the last probe, and the last *)
(* verdict with the run of the server it was about, which the code does    *)
(* not keep.                                                               *)

LastSign(r) == IF r.verdict = None \/ r.verdict.at > r.at THEN r.at ELSE r.verdict.at

\* prune_probes
Recent(T) == {p \in DOMAIN T : LastSign(T[p]) < TTL}
Pruned(T) == [p \in Recent(T) |-> T[p]]

Restricted(T, keep) == [p \in keep |-> T[p]]

\* The keys that may make room in a full table.
Oldest(T) == {p \in DOMAIN T : \A q \in DOMAIN T : T[p].at >= T[q].at}

WithEntry(T, p) ==
  [q \in DOMAIN T \union {p} |->
     IF q \in DOMAIN T THEN T[q] ELSE [at |-> 0, verdict |-> None]]

\* As if nothing made room.
ProbeEntryUnbounded(T, p) == {WithEntry(T, p)}

\* probe_entry: the tables it may leave.
ProbeEntry(T, p) ==
  IF p \notin DOMAIN T /\ Cardinality(DOMAIN T) >= MaxProbes
  THEN {WithEntry(Restricted(T, DOMAIN T \ {old}), p) : old \in Oldest(T)}
  ELSE {WithEntry(T, p)}

RecordProbe(p) ==
  /\ probes' \in {[T EXCEPT ![p].at = 0] : T \in ProbeEntry(Pruned(probes), p)}
  /\ looked' = [looked EXCEPT ![p] = 0]

\* record_probe_verdict
RecordVerdict(m) ==
  /\ probes' \in {[T EXCEPT ![m.place].verdict =
                     [outcome |-> m.outcome, code |-> m.code, of |-> m.of, at |-> 0]] :
                    T \in ProbeEntry(Pruned(probes), m.place)}
  /\ looked' = IF m.place \in Recent(probes) THEN looked
               ELSE [looked EXCEPT ![m.place] = 0]

-----------------------------------------------------------------------------
(* A discovery round.  Polling starts one whenever the last has ended and  *)
(* the App knows of no session.                                            *)

NewRound(p) ==
  LET ports == Scanned \union known[p] \union ({preferred[p]} \ {None})
  IN  [asking |-> ports, seen |-> ports, heard |-> {}, listed |-> {}, more |-> FALSE,
       paired |-> pairing[p], steady |-> Up]

\* As if polling ended with the first session.
BeginRoundBeforeSessions(p) ==
  /\ round[p] = None
  /\ current[p] = None /\ preferred[p] = None
  /\ round' = [round EXCEPT ![p] = NewRound(p)]
  /\ UNCHANGED <<up, beacon, known, preferred, pairing, app, clicks, table>>

BeginRound(p) ==
  /\ round[p] = None
  /\ current[p] = None
  /\ round' = [round EXCEPT ![p] = NewRound(p)]
  /\ UNCHANGED <<up, beacon, known, preferred, pairing, app, clicks, table>>

\* probe: the answers of a batch come in any order, a closed port's too.
AskClosed(p, n) ==
  /\ round[p] # None /\ n \in round[p].asking
  /\ Listening(n, "localhost") = {}
  /\ round' = [round EXCEPT ![p].asking = @ \ {n}]
  /\ UNCHANGED <<up, beacon, known, preferred, pairing, app, clicks, table>>

AskOpen(p, n) ==
  /\ round[p] # None /\ n \in round[p].asking
  /\ \E s \in Listening(n, "localhost") :
       /\ round' = [round EXCEPT ![p].asking = @ \ {n},
                                 ![p].heard = @ \union {s},
                                 ![p].listed = @ \union Peers(s)]
       /\ IF n = Watched /\ Info[s].roxo THEN RecordProbe(p) ELSE UNCHANGED <<probes, looked>>
  /\ UNCHANGED <<up, beacon, known, preferred, pairing, app, clicks, net>>

\* As if peers were never followed.
CollectedNone(r) == {{}}

\* collectPeerPorts: at most MaxPeerPorts of the ports not yet asked.
Collected(r) ==
  LET new == r.listed \ r.seen
  IN  {ports \in SUBSET new :
         Cardinality(ports) = IF Cardinality(new) < MaxPeerPorts THEN Cardinality(new)
                              ELSE MaxPeerPorts}

\* One more batch, for the ports the first one's servers advertised.
AskPeers(p) ==
  /\ round[p] # None /\ round[p].asking = {} /\ ~round[p].more
  /\ \E ports \in Collected(round[p]) \ {{}} :
       round' = [round EXCEPT ![p].asking = ports, ![p].more = TRUE]
  /\ UNCHANGED <<up, beacon, known, preferred, pairing, app, clicks, table>>

RoundIsOver(r) == r # None /\ r.asking = {} /\ (r.more \/ Collected(r) = {{}})

\* classify, with the pairing the place had when the round began.
Candidates(p) == {s \in round[p].heard : Claims(Info[s], p, round[p].paired)}

\* buildVerdicts, for the watched port.
Verdicts(p) ==
  LET cands == Candidates(p)
      Report(s, outcome, code) == [place |-> p, of |-> s, outcome |-> outcome, code |-> code]
  IN  {Report(s, "rejected", Evaluate(Info[s], p, round[p].paired)) :
         s \in {t \in round[p].heard \ cands : Info[t].roxo /\ PortOf[t] = Watched}}
      \union
      {Report(s, "ambiguous", "ambiguous") :
         s \in {t \in cands : Cardinality(cands) > 1 /\ Info[t].roxo /\ PortOf[t] = Watched}}

\* tryAutoConnect after discover.  It does not look at serveSession again.  A bound:
\* rounds are seconds apart, and a report that takes longer than one is lost.
Remember(p) == /\ known' = IF round[p].heard = {} THEN known
                           ELSE [known EXCEPT ![p] = round[p].listed]
               /\ net' = {m \in net : m.place # p} \union Verdicts(p)
               /\ round' = [round EXCEPT ![p] = None]

Decline(p) ==
  /\ RoundIsOver(round[p])
  /\ Chosen(Candidates(p)) = None
  /\ Remember(p)
  /\ UNCHANGED <<up, beacon, preferred, pairing, app, clicks, probes, looked>>

\* startSession: the new session is the App's, whatever it had before.  judged is
\* the server that discovery chose, while an auto-connected session connects; asks
\* is the server whose patch the user is asked to confirm.
Free(p) == {k \in Slot : session[p][k] = None}
StartSession(p, n, judged) ==
  LET k == CHOOSE j \in Free(p) : TRUE
  IN  /\ Free(p) # {}
      /\ session' = [session EXCEPT ![p][k] =
                       [port |-> n, judged |-> judged, asks |-> None, to |-> None,
                        stopped |-> FALSE]]
      /\ current' = [current EXCEPT ![p] = k]
      /\ shown' = [shown EXCEPT ![p] = "other"]
      /\ preferred' = [preferred EXCEPT ![p] = n]

Attach(p) ==
  LET s == Chosen(Candidates(p))
  IN  /\ RoundIsOver(round[p])
      /\ s # None
      /\ Remember(p)
      /\ StartSession(p, PortOf[s], s)
      /\ UNCHANGED <<up, beacon, pairing, overlapped, clicks, probes, looked>>

-----------------------------------------------------------------------------
(* Sessions.  The handshake, the first sync and the subscription are one   *)
(* step here; LiveSync and ClientRegistry have their parts.                *)

\* The user asks to connect: from the form, during a round too, or from a sync
\* reminder, which may come and stay up while the App has a session.
ConnectByHand(p, n) ==
  /\ clicks < MaxClicks /\ clicks' = clicks + 1
  /\ StartSession(p, n, None)
  /\ overlapped' = [overlapped EXCEPT ![p] = @ \/ round[p] # None \/ current[p] # None]
  /\ UNCHANGED <<up, beacon, known, pairing, round, table>>

\* setPairing: not for a server without a project id, nor for a place that has
\* no id of its own.
Paired(p, s) == IF Info[s].project = None \/ PlaceId[p] = 0 THEN pairing
                ELSE [pairing EXCEPT ![p] = Info[s].project]

\* A session whose connect and __initialSync go on without the user.
Connecting(p, k) == /\ session[p][k] # None /\ session[p][k].to = None
                    /\ session[p][k].asks = None

\* The servers it may connect to.
Welcoming(p, k) ==
  {s \in Listening(session[p][k].port, "localhost") : Accepts(Info[s], p)}

\* connect and __initialSync, where the patch needs no confirmation.  A session that
\* was stopped meanwhile connects all the same.
Open(p, k) ==
  /\ Connecting(p, k)
  /\ \E s \in Welcoming(p, k) :
       /\ session' = [session EXCEPT ![p][k].to = s, ![p][k].judged = None]
       /\ pairing' = Paired(p, s)
  /\ shown' = [shown EXCEPT ![p] = "connected"]
  /\ UNCHANGED <<up, beacon, known, preferred, round, current, overlapped, clicks, table>>

\* The confirm callback asks about the patch of a session that was started by hand,
\* one that was stopped too.
AskUser(p, k) ==
  /\ Connecting(p, k) /\ session[p][k].judged = None
  /\ \E s \in Welcoming(p, k) : session' = [session EXCEPT ![p][k].asks = s]
  /\ shown' = [shown EXCEPT ![p] = "confirm"]
  /\ UNCHANGED <<up, beacon, known, preferred, pairing, round, current, overlapped, clicks,
                 table>>

\* The user's answer goes to every session that waits for one.  Accept: they all
\* connect, and the pairing is that of the last to do so.
Waiting(p) == {k \in Slot : session[p][k] # None /\ session[p][k].asks # None}

Accept(p) ==
  /\ shown[p] = "confirm"
  /\ \E k \in Waiting(p) : pairing' = Paired(p, session[p][k].asks)
  /\ session' = [session EXCEPT ![p] =
                   [k \in Slot |-> IF k \in Waiting(p)
                                   THEN [@[k] EXCEPT !.to = session[p][k].asks, !.asks = None]
                                   ELSE @[k]]]
  /\ shown' = [shown EXCEPT ![p] = "connected"]
  /\ UNCHANGED <<up, beacon, known, preferred, round, current, overlapped, clicks, table>>

\* Abort: they all end, and of those that were not stopped the App hears.
Abort(p) ==
  /\ shown[p] = "confirm" /\ Waiting(p) # {}
  /\ session' = [session EXCEPT ![p] = [k \in Slot |-> IF k \in Waiting(p) THEN None ELSE @[k]]]
  /\ IF \A k \in Waiting(p) : session[p][k].stopped
     THEN UNCHANGED <<current, shown>>
     ELSE /\ current' = [current EXCEPT ![p] = None]
          /\ shown' = [shown EXCEPT ![p] = "other"]
  /\ UNCHANGED <<up, beacon, known, preferred, pairing, round, overlapped, clicks, table>>

\* A session ends on its own: Disconnected, which forgets the App's session
\* whichever one it is.
EndSession(p, k) == /\ session' = [session EXCEPT ![p][k] = None]
                    /\ current' = [current EXCEPT ![p] = None]
                    /\ shown' = [shown EXCEPT ![p] = "other"]

\* One that was stopped before may end without a word.
EndSilently(p, k) == /\ session[p][k].stopped
                     /\ session' = [session EXCEPT ![p][k] = None]
                     /\ UNCHANGED <<current, shown>>

\* Nobody answers, or the server is the wrong one.
OpenFails(p, k) ==
  /\ Connecting(p, k) /\ Welcoming(p, k) = {}
  /\ IF session[p][k].stopped THEN EndSilently(p, k) ELSE EndSession(p, k)
  /\ UNCHANGED <<up, beacon, known, preferred, pairing, round, overlapped, clicks, table>>

\* The socket closes or fails; a stopped session takes closing for its own.
Lose(p, k) ==
  /\ session[p][k] # None /\ session[p][k].to # None
  /\ up[session[p][k].to] = "gone"
  /\ EndSession(p, k) \/ EndSilently(p, k)
  /\ UNCHANGED <<up, beacon, known, preferred, pairing, round, overlapped, clicks, table>>

\* App:endSession, which the App offers while a session is connected, stops the
\* one it knows.  One that is still connecting is not there to be closed: its
\* requests and its wait for the user are not cancelled and its start goes on.
Disconnect(p) ==
  LET k == current[p]
  IN  /\ k # None
      /\ shown[p] = "connected" \/ session[p][k].to # None
      /\ session' = [session EXCEPT ![p][k] = IF @.to # None THEN None
                                               ELSE [@ EXCEPT !.stopped = TRUE]]
      /\ current' = [current EXCEPT ![p] = None]
      /\ shown' = [shown EXCEPT ![p] = "other"]
      /\ UNCHANGED <<up, beacon, known, preferred, pairing, round, overlapped, clicks, table>>

-----------------------------------------------------------------------------
(* Reports on their way.                                                   *)

Deliver(m) ==
  /\ \E s \in Listening(Watched, "localhost") : Info[s].roxo
  /\ RecordVerdict(m)
  /\ net' = net \ {m}
  /\ UNCHANGED <<up, beacon, place>>

\* reportVerdicts: fire and forget.
Lost(m) == /\ net' = net \ {m}
           /\ UNCHANGED <<up, beacon, place, probes, looked>>

-----------------------------------------------------------------------------
(* Servers, as SessionRegistry has them step by step.                      *)

StartServer(s) ==
  /\ up[s] = "new"
  /\ \A t \in Up : PortOf[t] # PortOf[s]
  /\ up' = [up EXCEPT ![s] = "up"]
  /\ beacon' = IF s \in Registered THEN [beacon EXCEPT ![PortOf[s]] = s] ELSE beacon
  /\ IF PortOf[s] = Watched
     THEN probes' = << >> /\ looked' = [p \in Place |-> TTL]
     ELSE UNCHANGED <<probes, looked>>
  /\ UNCHANGED <<place, net>>

\* roxo serve ends by a signal: its beacon stays until it is pruned.
StopServer(s) ==
  /\ up[s] = "up"
  /\ Cardinality({t \in Server : up[t] = "gone"}) < MaxStops
  /\ up' = [up EXCEPT ![s] = "gone"]
  /\ round' = [p \in Place |-> IF round[p] = None THEN None
                               ELSE [round[p] EXCEPT !.steady = @ \ {s}]]
  /\ UNCHANGED <<beacon, known, preferred, pairing, app, clicks, table>>

-----------------------------------------------------------------------------
(* roxo status.                                                            *)

\* fresh_verdict
Fresh(r) == r.verdict # None /\ r.verdict.at <= r.at + Stale

\* diagnose_at: the places the diagnosis may be about.  recent_probes leaves
\* the order of equal times to the map.
Diagnosed(T) ==
  LET fresh == {p \in DOMAIN T : Fresh(T[p])}
      among == IF fresh = {} THEN DOMAIN T ELSE fresh
  IN  {p \in among : \A q \in among : T[q].at >= T[p].at}

\* The server a status request for the watched port gets to: its beacon is
\* there and the server admits the beacon's address.
Resolved == {s \in Up : /\ PortOf[s] = Watched
                        /\ beacon[Watched] = s
                        /\ Info[s].roxo
                        /\ Answers(Info[s], BaseHost(Info[s]))}

\* fetch_session_status: list prunes the beacons of processes that are gone,
\* and recent_probes the table.
Status ==
  /\ beacon' = [n \in Port |-> IF beacon[n] # None /\ up[beacon[n]] = "gone" THEN None
                               ELSE beacon[n]]
  /\ probes' = IF Resolved = {} THEN probes ELSE Pruned(probes)
  /\ UNCHANGED <<up, place, net, looked>>

-----------------------------------------------------------------------------
(* Time passes; and another place looks at the watched port, of which only *)
(* the probe is modelled, as a plugin that predates verdicts leaves it.    *)

Older(age) == IF age < TTL THEN age + 1 ELSE TTL

OlderRecord(r) == [at |-> Older(r.at),
                   verdict |-> IF r.verdict = None THEN None
                               ELSE [r.verdict EXCEPT !.at = Older(@)]]

Tick == /\ probes' = [p \in DOMAIN probes |-> OlderRecord(probes[p])]
        /\ looked' = [p \in Place |-> Older(looked[p])]
        /\ UNCHANGED <<up, beacon, place, net>>

Look(p) == /\ \E s \in Listening(Watched, "localhost") : Info[s].roxo
           /\ RecordProbe(p)
           /\ UNCHANGED <<up, beacon, place, net>>

-----------------------------------------------------------------------------
PluginStep(p) == \/ BeginRound(p)
                 \/ \E n \in Port : AskClosed(p, n) \/ AskOpen(p, n)
                 \/ AskPeers(p) \/ Decline(p) \/ Attach(p)

SessionStep(p, k) == Open(p, k) \/ AskUser(p, k) \/ OpenFails(p, k) \/ Lose(p, k)

UserStep(p) == \/ Accept(p) \/ Abort(p) \/ Disconnect(p)
               \/ \E n \in Port : ConnectByHand(p, n)

Next == \/ \E p \in Searching :
             PluginStep(p) \/ UserStep(p) \/ \E k \in Slot : SessionStep(p, k)
        \/ \E p \in Place \ Searching : Look(p)
        \/ \E m \in net : Deliver(m) \/ Lost(m)
        \/ \E s \in Server : StartServer(s) \/ StopServer(s)
        \/ Status
        \/ Tick

\* The polling thread goes on for as long as the plugin runs, a probe always
\* resolves (each step of a round changes it), and of the sessions that are
\* connecting or whose server is gone some one goes on, if only as far as a question
\* to the user.  Nothing is asked of users, who may leave that question open for
\* ever, of servers or of the reports.
Spec == /\ Init /\ [][Next]_vars
        /\ \A p \in Searching : /\ WF_round(PluginStep(p))
                                /\ WF_session(\E k \in Slot : SessionStep(p, k))

-----------------------------------------------------------------------------
(* Properties.                                                             *)

OrNone(S) == S \union {None}
Round == [asking : SUBSET Port, seen : SUBSET Port, heard : SUBSET Server,
          listed : SUBSET Port, more : BOOLEAN, paired : {Info[s].project : s \in Server} \union {None},
          steady : SUBSET Server]
ServeSession == [port : Port, judged : OrNone(Server), asks : OrNone(Server),
                 to : OrNone(Server), stopped : BOOLEAN]
Page == {"connected", "confirm", "other"}

\* None is not a session.
ASSUME SessionAssumption == None \notin ServeSession

Outcome == {"rejected", "ambiguous"}
Code == {"protocol-mismatch", "blocked-place", "not-in-serve-place-ids", "auto-connect-off",
         "unpublished-place", "always-on-published-place", "no-identity-match", "ambiguous"}
Verdict == [outcome : Outcome, code : Code, of : Server, at : 0..TTL]

\* The types of the state; the App's session is one that exists, the table is
\* within MAX_PROBES, and a report is of a server on the watched port.
TypeOK ==
  /\ up \in [Server -> {"new", "up", "gone"}]
  /\ beacon \in [Port -> OrNone(Registered)]
  /\ known \in [Place -> SUBSET Port] /\ preferred \in [Place -> OrNone(Port)]
  /\ \A p \in Place : round[p] \in OrNone(Round)
  /\ \A p \in Place, k \in Slot : session[p][k] \in OrNone(ServeSession)
  /\ \A p \in Place : current[p] # None => session[p][current[p]] # None
  /\ shown \in [Place -> Page] /\ overlapped \in [Place -> BOOLEAN]
  /\ \A m \in net : /\ m.place \in Place /\ m.outcome \in Outcome /\ m.code \in Code
                    /\ PortOf[m.of] = Watched
  /\ clicks \in 0..MaxClicks
  /\ DOMAIN probes \subseteq Place /\ Cardinality(DOMAIN probes) <= MaxProbes
  /\ \A p \in DOMAIN probes : /\ probes[p].at \in 0..TTL
                              /\ probes[p].verdict \in OrNone(Verdict)
  /\ looked \in [Place -> 0..TTL]

\* A server in the plugin's reach while others run: on a scanned port, or
\* advertised to one of them that is, and is Roxo.
Findable(s, running) ==
  /\ Answers(Info[s], "localhost")
  /\ \/ PortOf[s] \in Scanned
     \/ /\ beacon[PortOf[s]] = s
        /\ \E r \in running \ {s} : /\ PortOf[r] \in Scanned /\ Info[r].roxo
                                    /\ Answers(Info[r], "localhost")

\* "Two matches connects to neither": when a place attaches by itself, the
\* server it judged claims it, and no other server that ran in its reach
\* throughout the round does, wherever its port was learned; nor does the place
\* have another session, unless Connect was pressed during a round or, in a
\* reminder, while there was a session (AutoConnect.lua discover, collectPeerPorts,
\* choose; App tryAutoConnect, startSession).
AloneWhenChosen ==
  [][\A p \in Place, k \in Slot :
       session[p][k] = None /\ session'[p][k] # None /\ session'[p][k].judged # None =>
         LET s == session'[p][k].judged
         IN  /\ Claims(Info[s], p, round[p].paired)
             /\ \A t \in round[p].steady \ {s} :
                  Findable(t, round[p].steady) => ~Claims(Info[t], p, round[p].paired)
             /\ overlapped[p] \/ \A j \in Slot : session[p][j] = None]_vars

\* What roxo status says of a server that Studio is not attached to: nobody
\* looked at it only if nobody did for as long as a probe is kept, whichever record
\* was evicted and whatever was pruned; and the project file change it suggests on
\* a fresh verdict of this run of the server would let the place in, but for
\* auto-connect being off too.  Left out are an unpublished place whose code is not
\* about that, for which apply_fix has no id to add, and a verdict about an earlier
\* server of the port
\* (client_registry.rs probe_entry, prune_probes; diagnose.rs apply_fix).
DiagnosisIsSound ==
  LET T == Pruned(probes)
  IN  \A s \in Resolved :
        /\ \A p \in Place : looked[p] < TTL => \E q \in DOMAIN T : T[q].at <= looked[p]
        /\ \A p \in Diagnosed(T) :
             LET v == T[p].verdict
                 fixed == Fixed(Info[s], p, v.code)
             IN  /\ Fresh(T[p]) /\ v.of = s
                 /\ PlaceId[p] # 0 \/ v.code = "unpublished-place"
                 /\ fixed # None /\ Policy(fixed) # "off"
                 => Claims(fixed, p, None)

\* The App's session waits for the user's answer, and polling for the session.
AwaitsUser(p) == current[p] # None /\ session[p][current[p]].asks # None

\* One running server claims the place, and Studio can find it.
SoleClaimant(p) ==
  LET claimants == {s \in Up : Claims(Info[s], p, pairing[p])}
  IN  Cardinality(claimants) = 1 /\ \A s \in claimants : Findable(s, Up)

\* An agent that starts the only server for an open place gets it connected: if
\* from some time on one server that Studio can find is the only one to claim a
\* place, the place is syncing again and again, whatever failed or was stopped
\* before and however often the user disconnects; unless it was connected by hand
\* and waits for the user to confirm the patch, which stops polling for as long as
\* the user takes (App startAutoConnectPolling, tryAutoConnect, startSession).
SoleClaimantIsFound ==
  \A p \in Searching :
    <>[]SoleClaimant(p) =>
      []<>(AwaitsUser(p) \/ \E k \in Slot : session[p][k] # None /\ session[p][k].to # None)
=============================================================================
