--------------------------- MODULE DiscoveryProofs ---------------------------
(***************************************************************************)
(* What holds of auto-connect's decisions for every place and every server *)
(* info, which are taken in different files and have to agree; and of      *)
(* discovery for any number of places, servers and ports: the types of the *)
(* state, what roxo status says of a server that nobody is attached to,    *)
(* and that a place attaches only to the one server that claims it.        *)
(***************************************************************************)
EXTENDS Discovery, FiniteSetTheorems, TLAPS

-----------------------------------------------------------------------------
(* The decisions.                                                          *)

\* A match comes only after the protocol, the block list, the list of served
\* places and the policy have been passed (AutoConnect.lua evaluate).
LEMMA ClaimsFacts ==
  ASSUME NEW info, NEW p, NEW paired, Claims(info, p, paired)
  PROVE  /\ info.protocol
         /\ PlaceId[p] \notin info.blocked
         /\ info.serve # None => Listed(info, p)
         /\ Policy(info) # "off"
         /\ Evaluate(info, p, paired) = "declared" =>
              PlaceId[p] = 0 /\ Policy(info) = "always"
<1> DEFINE e == Evaluate(info, p, paired)
<1>1. e \in Matches
  BY DEF Claims
<1>2. /\ e # "protocol-mismatch" /\ e # "blocked-place" /\ e # "not-in-serve-place-ids"
      /\ e # "auto-connect-off"
  BY <1>1 DEF Matches
<1>3. info.protocol
  BY <1>2 DEF Evaluate
<1>4. PlaceId[p] \notin info.blocked
  BY <1>2, <1>3 DEF Evaluate
<1>5. info.serve # None => Listed(info, p)
  BY <1>2, <1>3, <1>4 DEF Evaluate
<1>6. Policy(info) # "off"
  BY <1>2, <1>3, <1>4, <1>5 DEF Evaluate
<1>7. e = "declared" => PlaceId[p] = 0 /\ Policy(info) = "always"
  BY DEF Evaluate
<1> QED BY <1>3, <1>4, <1>5, <1>6, <1>7

\* The handshake of a session that discovery started refuses nothing that
\* discovery accepted: rejectWrongProtocolVersion and rejectWrongPlaceId
\* (ApiContext.lua) are implied by evaluate (AutoConnect.lua).
THEOREM ClaimIsAccepted ==
  ASSUME NEW info, NEW p, NEW paired, Claims(info, p, paired)
  PROVE  Accepts(info, p)
BY ClaimsFacts DEF Accepts

\* "always" opens a project to unpublished places only: a published place is
\* let in by an identity, whatever the policy (AutoConnect.lua evaluate).
THEOREM AlwaysNeverOverridesIdentity ==
  ASSUME NEW info, NEW p, NEW paired, Claims(info, p, paired), PlaceId[p] # 0
  PROVE  \/ Listed(info, p)
         \/ GameId[p] # 0 /\ info.game = GameId[p]
         \/ info.project # None /\ paired = info.project
<1> DEFINE e == Evaluate(info, p, paired)
<1>1. e \in Matches
  BY DEF Claims
<1>2. e # "unpublished-place" /\ e # "always-on-published-place" /\ e # "no-identity-match"
  BY <1>1 DEF Matches
<1>3. /\ info.protocol /\ PlaceId[p] \notin info.blocked
      /\ ~(info.serve # None /\ ~Listed(info, p)) /\ Policy(info) # "off"
  BY ClaimsFacts
<1> QED BY <1>2, <1>3 DEF Evaluate

\* The advice works: the edit suggested to a published place that was declined, and
\* to one that was declined because it is not published,
\* lets it in, without a pairing and without taking a place out of the list;
\* unless auto-connect is off as well, which the next diagnosis then says and
\* gives another edit for (diagnose.rs apply_fix against AutoConnect.lua
\* evaluate).
THEOREM AdviceWorks ==
  ASSUME NEW Ids, NEW Projects, NEW info \in Infos(Ids, Projects), NEW p, NEW paired,
         None \notin {"off", "matching", "always"},
         {PlaceId[p]} \union (IF info.serve = None THEN {} ELSE info.serve) # None,
         PlaceId[p] # 0 \/ Evaluate(info, p, paired) = "unpublished-place",
         Fixed(info, p, Evaluate(info, p, paired)) # None
  PROVE  LET fixed == Fixed(info, p, Evaluate(info, p, paired))
         IN  /\ Policy(fixed) # "off" => Claims(fixed, p, None)
             /\ info.serve # None => info.serve \subseteq fixed.serve
<1> DEFINE code == Evaluate(info, p, paired)
           fixed == Fixed(info, p, code)
           served == {PlaceId[p]} \union (IF info.serve = None THEN {} ELSE info.serve)
           Listing == {"not-in-serve-place-ids", "no-identity-match",
                       "always-on-published-place"}
<1>1. CASE code = "unpublished-place"
  <2>1. /\ info.protocol /\ PlaceId[p] \notin info.blocked
        /\ ~(info.serve # None /\ ~Listed(info, p)) /\ PlaceId[p] = 0
        /\ ~(GameId[p] # 0 /\ info.game = GameId[p])
    BY <1>1 DEF Evaluate
  <2>2. fixed = [info EXCEPT !.policy = "always"]
    BY <1>1 DEF Fixed
  <2>3. /\ fixed.protocol /\ fixed.blocked = info.blocked /\ fixed.serve = info.serve
        /\ fixed.policy = "always" /\ fixed.game = info.game
    BY <2>1, <2>2 DEF Infos
  <2>4. Policy(fixed) = "always" /\ (fixed.serve # None => Listed(fixed, p))
    BY <2>1, <2>3 DEF Policy, Listed
  <2>5. Evaluate(fixed, p, None) = "declared"
    BY <2>1, <2>3, <2>4 DEF Evaluate
  <2> QED BY <2>3, <2>5 DEF Claims, Matches
<1> SUFFICES ASSUME code # "unpublished-place"
             PROVE  /\ Policy(fixed) # "off" => Claims(fixed, p, None)
                    /\ info.serve # None => info.serve \subseteq fixed.serve
  BY <1>1
<1>2. code \in Listing \/ code = "auto-connect-off"
  BY DEF Fixed
<1>3. info.protocol /\ PlaceId[p] \notin info.blocked
  BY <1>2 DEF Evaluate
<1>4. code = "not-in-serve-place-ids" \/ info.serve = None \/ Listed(info, p)
  BY <1>2, <1>3 DEF Evaluate
<1>5. served # None /\ PlaceId[p] \in served /\ (info.serve # None => info.serve \subseteq served)
  BY DEF Infos
<1>6. CASE code = "auto-connect-off"
  <2>1. fixed = [[info EXCEPT !.policy = "matching"] EXCEPT !.serve = served]
    BY <1>6 DEF Fixed, ServePlace, Infos
  <2>2. /\ fixed.protocol /\ fixed.blocked = info.blocked
        /\ fixed.serve = served /\ fixed.policy = "matching"
    BY <2>1, <1>3 DEF Infos
  <2>3. Listed(fixed, p) /\ Policy(fixed) = "matching"
    BY <2>2, <1>5 DEF Listed, Policy
  <2>4. Evaluate(fixed, p, None) = "serve-place-ids"
    BY <1>3, <2>2, <2>3 DEF Evaluate
  <2> QED BY <2>2, <2>4, <1>5 DEF Claims, Matches
<1>7. CASE code \in Listing
  <2>1. fixed = [info EXCEPT !.serve = served]
    BY <1>7 DEF Fixed, ServePlace, Infos
  <2>2. /\ fixed.protocol /\ fixed.blocked = info.blocked
        /\ fixed.serve = served /\ fixed.policy = info.policy
    BY <2>1, <1>3 DEF Infos
  <2>3. Listed(fixed, p)
    BY <2>2, <1>5 DEF Listed
  <2>4. ASSUME Policy(fixed) # "off"
        PROVE  Evaluate(fixed, p, None) = "serve-place-ids"
    BY <1>3, <2>2, <2>3, <2>4 DEF Evaluate
  <2> QED BY <2>2, <2>4, <1>5 DEF Claims, Matches
<1> QED BY <1>2, <1>6, <1>7

\* Who asks a server by the address it advertised gets an answer, but for two kinds
\* of server: one bound to an IPv6 address, whose advertised address is no URL;
\* and one bound to every address that has a list of hosts, which holds no address
\* that the beacon could name (session_registry.rs base_url against web/origin.rs
\* allowed_hosts).
THEOREM AdvertisedAddressAnswers ==
  ASSUME NEW info, info.bind \in {"loopback", "lan", "any", "public"},
         None \notin {"loopback", "lan", "any", "public"},
         \A ip, extra : [ip |-> ip, extra |-> extra] # None
  PROVE  Answers(info, BaseHost(info)) <=>
           /\ ~info.ipv6
           /\ info.bind # "any" \/ info.hosts = {} \/ "any" \in info.hosts
<1> DEFINE host == BaseHost(info)
           ip == IF info.bind \in {"loopback", "any"} THEN None ELSE info.bind
           allowed == [ip |-> ip, extra |-> info.hosts]
<1>0. CASE info.ipv6
  BY <1>0 DEF BaseHost, Answers, Reaches
<1> SUFFICES ASSUME ~info.ipv6
             PROVE  Answers(info, host) <=> info.bind # "any" \/ info.hosts = {}
                                            \/ "any" \in info.hosts
  BY <1>0
<1>1. host = info.bind /\ Reaches(host, info.bind)
  BY DEF BaseHost, Reaches
<1>2. CASE info.bind \in {"any", "public"} /\ info.hosts = {}
  BY <1>1, <1>2 DEF Answers, Admits, AllowedHosts
<1>3. CASE ~(info.bind \in {"any", "public"} /\ info.hosts = {})
  <2>1. AllowedHosts(info) = allowed /\ allowed # None
    BY <1>3 DEF AllowedHosts
  <2>2. Answers(info, host) <=> host \in {"localhost", "loopback", ip} \union info.hosts
    BY <1>1, <2>1 DEF Answers, Admits, Allows
  <2>3. CASE info.bind = "any"
    BY <1>1, <1>3, <2>2, <2>3
  <2>4. CASE info.bind # "any"
    BY <1>1, <2>2, <2>4
  <2> QED BY <2>3, <2>4
<1> QED BY <1>2, <1>3

-----------------------------------------------------------------------------
(* The types.                                                              *)

Project == {None} \union {Info[s].project : s \in Server}

ServersOK == /\ up \in [Server -> {"new", "up", "gone"}]
             /\ beacon \in [Port -> OrNone(Registered)]

PlacesOK == /\ known \in [Place -> SUBSET Port]
            /\ preferred \in [Place -> OrNone(Port)]
            /\ pairing \in [Place -> Project]
            /\ round \in [Place -> OrNone(Round)]

\* The App's session exists and nobody has stopped it.
AppOK == /\ session \in [Place -> [Slot -> OrNone(ServeSession)]]
         /\ current \in [Place -> OrNone(Slot)]
         /\ \A p \in Place : current[p] # None => /\ session[p][current[p]] # None
                                                  /\ ~session[p][current[p]].stopped
         /\ shown \in [Place -> Page] /\ overlapped \in [Place -> BOOLEAN]
         /\ clicks \in 0..MaxClicks

Report == [place : Place, of : Server, outcome : Outcome, code : Code]
Record == [at : 0..TTL, verdict : OrNone(Verdict)]

\* A probe table, and one with room for any of its entries.
IsTable(T) == /\ DOMAIN T \subseteq Place /\ T \in [DOMAIN T -> Record]
              /\ IsFiniteSet(DOMAIN T) /\ Cardinality(DOMAIN T) <= MaxProbes

TableOK == /\ net \subseteq Report
           /\ \A m \in net : PortOf[m.of] = Watched
           /\ IsTable(probes)
           /\ looked \in [Place -> 0..TTL]

TypeInv == ServersOK /\ PlacesOK /\ AppOK /\ TableOK

\* A verdict that is not a match is one of the codes (AutoConnect.lua evaluate).
LEMMA EvaluateType ==
  ASSUME NEW info, NEW p, NEW paired
  PROVE  Evaluate(info, p, paired) \in Code \union Matches
BY DEF Evaluate, Code, Matches

\* Ages run from 0 to TTL.
LEMMA Numbers == /\ TTL \in Nat /\ 0 \in 0..TTL /\ TTL \in 0..TTL /\ TTL > 0
                 /\ \A a \in 0..TTL : Older(a) \in 0..TTL
<1>1. TTL \in Nat /\ TTL > 0
  BY DiscoveryAssumption
<1>2. QED BY <1>1 DEF Older

\* prune_probes keeps the records with a recent probe, and adds nothing.
LEMMA PrunedIs ==
  ASSUME NEW T, IsTable(T)
  PROVE  /\ IsTable(Pruned(T)) /\ DOMAIN Pruned(T) = Recent(T)
         /\ Recent(T) \subseteq DOMAIN T
         /\ \A p \in Recent(T) : Pruned(T)[p] = T[p]
         /\ \A p \in DOMAIN T : T[p].at < TTL => p \in Recent(T)
<1>1. Recent(T) \subseteq DOMAIN T
  BY DEF Recent
<1>2. DOMAIN Pruned(T) = Recent(T) /\ \A p \in Recent(T) : Pruned(T)[p] = T[p]
  BY DEF Pruned
<1>3. Pruned(T) \in [Recent(T) -> Record]
  BY <1>1 DEF Pruned, IsTable
<1>4. IsFiniteSet(Recent(T)) /\ Cardinality(Recent(T)) <= MaxProbes
  <2>1. /\ IsFiniteSet(Recent(T)) /\ Cardinality(Recent(T)) <= Cardinality(DOMAIN T)
        /\ Cardinality(Recent(T)) \in Nat /\ Cardinality(DOMAIN T) \in Nat
    BY <1>1, FS_Subset, FS_CardinalityType DEF IsTable
  <2>2. QED BY <2>1, DiscoveryAssumption DEF IsTable
<1>5. ASSUME NEW p \in DOMAIN T, T[p].at < TTL PROVE p \in Recent(T)
  <2>1. T[p] \in Record
    BY DEF IsTable
  <2>2. T[p].at \in Nat /\ (T[p].verdict # None => T[p].verdict.at \in Nat)
    BY <2>1, Numbers DEF Record, OrNone, Verdict
  <2>3. LastSign(T[p]) < TTL
    BY <1>5, <2>2, Numbers DEF LastSign
  <2>4. QED BY <2>3 DEF Recent
<1>6. QED BY <1>1, <1>2, <1>3, <1>4, <1>5 DEF IsTable

\* probe_entry: the record is there, and the table within MAX_PROBES.
LEMMA EntryIs ==
  ASSUME NEW T, IsTable(T), NEW p \in Place, NEW E \in ProbeEntry(T, p)
  PROVE  /\ IsTable(E) /\ p \in DOMAIN E
         /\ \A q \in DOMAIN E : \/ q \in DOMAIN T /\ E[q] = T[q]
                                \/ q = p /\ E[q] = [at |-> 0, verdict |-> None]
         /\ p \in DOMAIN T => DOMAIN E = DOMAIN T
         /\ p \notin DOMAIN T => E[p] = [at |-> 0, verdict |-> None]
<1> DEFINE new == [at |-> 0, verdict |-> None]
<1>1. new \in Record
  BY Numbers DEF Record, OrNone
<1>2. Cardinality(DOMAIN T) \in Nat /\ MaxProbes \in Nat /\ MaxProbes > 0
  BY DiscoveryAssumption, FS_CardinalityType DEF IsTable
<1>3. PICK D \in SUBSET DOMAIN T :
        /\ E = [q \in D \union {p} |-> IF q \in D THEN T[q] ELSE new]
        /\ IsFiniteSet(D)
        /\ p \in DOMAIN T => D = DOMAIN T
        /\ p \notin DOMAIN T => Cardinality(D) \in Nat /\ Cardinality(D) < MaxProbes
  <2>1. CASE p \notin DOMAIN T /\ Cardinality(DOMAIN T) >= MaxProbes
    <3>1. PICK old \in Oldest(T) : E = WithEntry(Restricted(T, DOMAIN T \ {old}), p)
      BY <2>1 DEF ProbeEntry
    <3> DEFINE D == DOMAIN T \ {old}
               R == Restricted(T, D)
    <3>2. DOMAIN R = D /\ \A q \in D : R[q] = T[q]
      BY DEF Restricted
    <3>3. E = [q \in DOMAIN R \union {p} |-> IF q \in DOMAIN R THEN R[q] ELSE new]
      BY <3>1 DEF WithEntry
    <3> HIDE DEF R
    <3>4. E = [q \in D \union {p} |-> IF q \in D THEN T[q] ELSE new]
      BY <3>2, <3>3
    <3>5. old \in DOMAIN T
      BY DEF Oldest
    <3>6. IsFiniteSet(D) /\ Cardinality(D) = Cardinality(DOMAIN T) - 1
      BY <3>5, FS_RemoveElement DEF IsTable
    <3>7. QED BY <1>2, <2>1, <3>4, <3>6 DEF IsTable
  <2>2. CASE ~(p \notin DOMAIN T /\ Cardinality(DOMAIN T) >= MaxProbes)
    <3>1. E = [q \in DOMAIN T \union {p} |-> IF q \in DOMAIN T THEN T[q] ELSE new]
      BY <2>2 DEF ProbeEntry, WithEntry
    <3>2. p \notin DOMAIN T => Cardinality(DOMAIN T) < MaxProbes
      BY <1>2, <2>2
    <3>3. QED BY <1>2, <3>1, <3>2 DEF IsTable
  <2>3. QED BY <2>1, <2>2
<1> HIDE DEF new
<1>4. DOMAIN E = D \union {p} /\ D \union {p} \subseteq Place
  BY <1>3 DEF IsTable
<1>5. E \in [D \union {p} -> Record]
  BY <1>1, <1>3 DEF IsTable
<1>6. IsFiniteSet(D \union {p}) /\ Cardinality(D \union {p}) <= MaxProbes
  <2>1. CASE p \in DOMAIN T
    <3>1. D \union {p} = DOMAIN T
      BY <1>3, <2>1
    <3>2. QED BY <3>1 DEF IsTable
  <2>2. CASE p \notin DOMAIN T
    <3>1. p \notin D
      BY <1>3, <2>2
    <3>2. IsFiniteSet(D \union {p}) /\ Cardinality(D \union {p}) = Cardinality(D) + 1
      BY <1>3, <3>1, FS_AddElement
    <3>3. QED BY <1>2, <1>3, <2>2, <3>2
  <2>3. QED BY <2>1, <2>2
<1>7. \A q \in DOMAIN E : (q \in DOMAIN T /\ E[q] = T[q]) \/ (q = p /\ E[q] = new)
  BY <1>3, <1>4
<1>8. p \notin DOMAIN T => E[p] = new
  BY <1>3, <1>4
<1>9. p \in DOMAIN T => DOMAIN E = DOMAIN T
  BY <1>3, <1>4
<1>10. QED BY <1>4, <1>5, <1>6, <1>7, <1>8, <1>9 DEF IsTable, new

\* What a probe and a verdict leave of the table (client_registry.rs).
LEMMA RecordProbeIs ==
  ASSUME TableOK, NEW p \in Place, RecordProbe(p)
  PROVE  /\ IsTable(probes') /\ looked' \in [Place -> 0..TTL]
         /\ p \in DOMAIN probes' /\ probes'[p].at = 0
         /\ \A q \in DOMAIN probes' :
              probes'[q].verdict # None => /\ q \in DOMAIN probes
                                           /\ probes'[q].verdict = probes[q].verdict
<1> DEFINE T == Pruned(probes)
<1>1. /\ IsTable(T) /\ DOMAIN T \subseteq DOMAIN probes
      /\ \A q \in DOMAIN T : T[q] = probes[q]
  BY PrunedIs DEF TableOK
<1> HIDE DEF T
<1>2. PICK E \in ProbeEntry(T, p) : probes' = [E EXCEPT ![p].at = 0]
  BY DEF RecordProbe, T
<1>3. /\ IsTable(E) /\ p \in DOMAIN E
      /\ \A q \in DOMAIN E : \/ q \in DOMAIN T /\ E[q] = T[q]
                             \/ q = p /\ E[q] = [at |-> 0, verdict |-> None]
  BY <1>1, EntryIs
<1> DEFINE e == [E[p] EXCEPT !.at = 0]
<1>4. e \in Record /\ e.at = 0 /\ e.verdict = E[p].verdict
  <2>1. E[p] \in Record
    BY <1>3 DEF IsTable
  <2>2. QED BY <2>1, Numbers DEF Record
<1>5. probes' = [E EXCEPT ![p] = e]
  BY <1>2
<1> HIDE DEF e
<1>6. /\ DOMAIN probes' = DOMAIN E /\ probes'[p] = e
      /\ \A q \in DOMAIN E : q # p => probes'[q] = E[q]
  BY <1>3, <1>5 DEF IsTable
<1>7. probes' \in [DOMAIN E -> Record]
  BY <1>3, <1>4, <1>5 DEF IsTable
<1>8. IsTable(probes')
  BY <1>3, <1>6, <1>7 DEF IsTable
<1>9. looked' \in [Place -> 0..TTL]
  BY Numbers DEF RecordProbe, TableOK
<1>10. \A q \in DOMAIN E : E[q].verdict # None => q \in DOMAIN probes /\ E[q].verdict = probes[q].verdict
  BY <1>1, <1>3
<1>11. \A q \in DOMAIN E : probes'[q].verdict = E[q].verdict
  BY <1>4, <1>6
<1>12. QED BY <1>3, <1>4, <1>6, <1>8, <1>9, <1>10, <1>11

\* A verdict changes one record, and makes one only where none was recent.
LEMMA RecordVerdictIs ==
  ASSUME TableOK, NEW m \in Report, RecordVerdict(m)
  PROVE  LET v == [outcome |-> m.outcome, code |-> m.code, of |-> m.of, at |-> 0]
         IN  /\ IsTable(probes') /\ looked' \in [Place -> 0..TTL]
             /\ \A q \in DOMAIN probes' :
                  \/ q = m.place /\ probes'[q].verdict = v
                  \/ /\ q \in DOMAIN probes
                     /\ probes'[q].verdict = probes[q].verdict
             /\ \/ /\ looked' = looked /\ DOMAIN probes' = Recent(probes)
                   /\ \A q \in DOMAIN probes' : probes'[q].at = probes[q].at
                \/ m.place \in DOMAIN probes' /\ probes'[m.place].at = 0
<1> DEFINE T == Pruned(probes)
           p == m.place
           v == [outcome |-> m.outcome, code |-> m.code, of |-> m.of, at |-> 0]
<1>1. /\ IsTable(T) /\ DOMAIN T = Recent(probes) /\ DOMAIN T \subseteq DOMAIN probes
      /\ \A q \in DOMAIN T : T[q] = probes[q]
  BY PrunedIs DEF TableOK
<1>2. p \in Place /\ v \in Verdict
  BY Numbers DEF Report, Verdict
<1> HIDE DEF T, v
<1>3. PICK E \in ProbeEntry(T, p) : probes' = [E EXCEPT ![p].verdict = v]
  BY DEF RecordVerdict, T, v
<1>4. /\ IsTable(E) /\ p \in DOMAIN E
      /\ \A q \in DOMAIN E : \/ q \in DOMAIN T /\ E[q] = T[q]
                             \/ q = p /\ E[q] = [at |-> 0, verdict |-> None]
      /\ p \in DOMAIN T => DOMAIN E = DOMAIN T
      /\ p \notin DOMAIN T => E[p] = [at |-> 0, verdict |-> None]
  BY <1>1, <1>2, EntryIs
<1> DEFINE e == [E[p] EXCEPT !.verdict = v]
<1>5. e \in Record /\ e.verdict = v /\ e.at = E[p].at
  <2>1. E[p] \in Record
    BY <1>4 DEF IsTable
  <2>2. QED BY <1>2, <2>1 DEF Record, OrNone
<1>6. probes' = [E EXCEPT ![p] = e]
  BY <1>3
<1> HIDE DEF e, p
<1>7. /\ DOMAIN probes' = DOMAIN E /\ probes'[p] = e
      /\ \A q \in DOMAIN E : q # p => probes'[q] = E[q]
  BY <1>4, <1>6 DEF IsTable
<1>8. probes' \in [DOMAIN E -> Record]
  BY <1>4, <1>5, <1>6 DEF IsTable
<1>9. IsTable(probes')
  BY <1>4, <1>7, <1>8 DEF IsTable
<1>10. looked' \in [Place -> 0..TTL]
  BY <1>2, Numbers DEF RecordVerdict, TableOK, p
<1>11. \A q \in DOMAIN probes' : \/ q = p /\ probes'[q].verdict = v
                                 \/ q \in DOMAIN probes /\ probes'[q].verdict = probes[q].verdict
  BY <1>1, <1>4, <1>5, <1>7
<1>12. CASE p \in DOMAIN T
  <2>1. looked' = looked
    BY <1>1, <1>12 DEF RecordVerdict, p
  <2>2. DOMAIN probes' = Recent(probes)
    BY <1>1, <1>4, <1>7, <1>12
  <2>3. \A q \in DOMAIN E : E[q].at = T[q].at \/ E[q].at = 0
    BY <1>4
  <2>4. CASE E[p].at = T[p].at
    <3>1. \A q \in DOMAIN probes' : probes'[q].at = E[q].at
      BY <1>5, <1>7
    <3>2. \A q \in DOMAIN E : E[q].at = T[q].at
      BY <1>4, <2>4
    <3>3. QED BY <1>1, <1>4, <1>7, <1>9, <1>10, <1>11, <1>12, <2>1, <2>2, <3>1, <3>2 DEF v, p
  <2>5. CASE E[p].at = 0
    BY <1>4, <1>5, <1>7, <1>9, <1>10, <1>11, <2>5 DEF v, p
  <2>6. QED BY <1>4, <2>3, <2>4, <2>5
<1>13. CASE p \notin DOMAIN T
  <2>1. probes'[p].at = 0 /\ p \in DOMAIN probes'
    BY <1>4, <1>5, <1>7, <1>13
  <2>2. QED BY <1>9, <1>10, <1>11, <2>1 DEF v, p
<1>14. QED BY <1>12, <1>13

-----------------------------------------------------------------------------
(* Every step keeps the types.                                             *)

\* Servers start and stop; beacons are of registered servers.
LEMMA ServersStep == ServersOK /\ [Next]_vars => ServersOK'
<1> SUFFICES ASSUME ServersOK, [Next]_vars PROVE ServersOK'
  OBVIOUS
<1>1. ASSUME NEW s \in Server, StartServer(s) PROVE ServersOK'
  <2>1. up' = [up EXCEPT ![s] = "up"] /\ PortOf[s] \in Port
    BY <1>1, DiscoveryAssumption DEF StartServer
  <2>2. beacon' \in [Port -> OrNone(Registered)]
    BY <1>1, <2>1 DEF StartServer, ServersOK, OrNone
  <2>3. QED BY <2>1, <2>2 DEF ServersOK
<1>2. ASSUME NEW s \in Server, StopServer(s) PROVE ServersOK'
  BY <1>2 DEF StopServer, ServersOK
<1>3. ASSUME Status PROVE ServersOK'
  BY <1>3 DEF Status, ServersOK, OrNone
<1>4. CASE UNCHANGED <<up, beacon>>
  BY <1>4 DEF ServersOK
<1>5. ASSUME NEW p \in Place, PluginStep(p) PROVE ServersOK'
  <2>1. UNCHANGED <<up, beacon>>
    BY <1>5 DEF PluginStep, BeginRound, AskClosed, AskOpen, AskPeers, Decline, Attach
  <2>2. QED BY <1>4, <2>1
<1>6. ASSUME NEW p \in Place, NEW k \in Slot, SessionStep(p, k) PROVE ServersOK'
  <2>1. UNCHANGED <<up, beacon>>
    BY <1>6 DEF SessionStep, Open, AskUser, OpenFails, Lose
  <2>2. QED BY <1>4, <2>1
<1>7. ASSUME NEW p \in Place, UserStep(p) \/ Look(p) PROVE ServersOK'
  <2>1. UNCHANGED <<up, beacon>>
    BY <1>7 DEF UserStep, Accept, Abort, Disconnect, ConnectByHand, Look
  <2>2. QED BY <1>4, <2>1
<1>8. ASSUME NEW m \in net, Deliver(m) \/ Lost(m) PROVE ServersOK'
  <2>1. UNCHANGED <<up, beacon>>
    BY <1>8 DEF Deliver, Lost
  <2>2. QED BY <1>4, <2>1
<1>9. ASSUME Tick \/ UNCHANGED vars PROVE ServersOK'
  <2>1. UNCHANGED <<up, beacon>>
    BY <1>9 DEF Tick, vars
  <2>2. QED BY <1>4, <2>1
<1>10. Searching \subseteq Place
  BY DiscoveryAssumption
<1>11. QED BY <1>1, <1>2, <1>3, <1>5, <1>6, <1>7, <1>8, <1>9, <1>10 DEF Next

\* The round of a place, step by step.
LEMMA RoundStep ==
  ASSUME ServersOK, PlacesOK, NEW p \in Place, PluginStep(p)
  PROVE  PlacesOK'
<1>1. /\ known \in [Place -> SUBSET Port] /\ preferred \in [Place -> OrNone(Port)]
      /\ pairing \in [Place -> Project] /\ round \in [Place -> OrNone(Round)]
      /\ (round[p] # None => round[p] \in Round)
      /\ Scanned \subseteq Port
  BY DiscoveryAssumption DEF PlacesOK, OrNone
<1>2. ASSUME NEW r \in OrNone(Round), round' = [round EXCEPT ![p] = r],
             UNCHANGED <<known, preferred, pairing>>
      PROVE  PlacesOK'
  BY <1>1, <1>2 DEF PlacesOK
<1>3. CASE BeginRound(p)
  <2>1. NewRound(p) \in Round
    <3>1. Scanned \union known[p] \union ({preferred[p]} \ {None}) \in SUBSET Port
      BY <1>1 DEF OrNone
    <3>2. Up \in SUBSET Server /\ pairing[p] \in {Info[s].project : s \in Server} \union {None}
      BY <1>1 DEF Up, Project
    <3>3. QED BY <3>1, <3>2 DEF NewRound, Round
  <2>2. NewRound(p) \in OrNone(Round)
    BY <2>1 DEF OrNone
  <2>3. QED BY <1>2, <1>3, <2>2 DEF BeginRound
<1>4. ASSUME NEW n \in Port, AskClosed(p, n) PROVE PlacesOK'
  <2> DEFINE r == [round[p] EXCEPT !.asking = @ \ {n}]
  <2>1. round' = [round EXCEPT ![p] = r] /\ round[p] \in Round
    BY <1>1, <1>4 DEF AskClosed
  <2>2. r \in OrNone(Round)
    BY <2>1 DEF Round, OrNone
  <2> HIDE DEF r
  <2>3. QED BY <1>2, <1>4, <2>1, <2>2 DEF AskClosed
<1>5. ASSUME NEW n \in Port, AskOpen(p, n) PROVE PlacesOK'
  <2>1. PICK s \in Listening(n, "localhost") :
          round' = [round EXCEPT ![p].asking = @ \ {n}, ![p].heard = @ \union {s},
                                 ![p].listed = @ \union Peers(s)]
    BY <1>5 DEF AskOpen
  <2>2. s \in Server /\ Peers(s) \subseteq Port /\ round[p] \in Round
    BY <1>1, <1>5 DEF Listening, Up, Peers, Lowest, AskOpen
  <2> DEFINE r == [round[p] EXCEPT !.asking = @ \ {n}, !.heard = @ \union {s},
                                   !.listed = @ \union Peers(s)]
  <2>3. round' = [round EXCEPT ![p] = r]
    BY <1>1, <2>1
  <2>4. r \in OrNone(Round)
    BY <2>2 DEF Round, OrNone
  <2> HIDE DEF r
  <2>5. QED BY <1>2, <1>5, <2>3, <2>4 DEF AskOpen
<1>6. CASE AskPeers(p)
  <2>1. PICK ports \in Collected(round[p]) :
          round' = [round EXCEPT ![p].asking = ports, ![p].more = TRUE]
    BY <1>6 DEF AskPeers
  <2>2. round[p] \in Round
    BY <1>1, <1>6 DEF AskPeers
  <2>3. ports \subseteq Port
    BY <2>1, <2>2 DEF Collected, Round
  <2> DEFINE r == [round[p] EXCEPT !.asking = ports, !.more = TRUE]
  <2>4. round' = [round EXCEPT ![p] = r]
    BY <1>1, <2>1
  <2>5. r \in OrNone(Round)
    BY <2>2, <2>3 DEF Round, OrNone
  <2> HIDE DEF r
  <2>6. QED BY <1>2, <1>6, <2>4, <2>5 DEF AskPeers
<1>7. ASSUME Remember(p), UNCHANGED pairing, preferred' \in [Place -> OrNone(Port)],
             round[p] # None
      PROVE  PlacesOK'
  <2>1. round[p].listed \in SUBSET Port
    BY <1>1, <1>7 DEF Round
  <2>2. known' \in [Place -> SUBSET Port]
    BY <1>1, <1>7, <2>1 DEF Remember
  <2>3. round' \in [Place -> OrNone(Round)]
    BY <1>1, <1>7 DEF Remember, OrNone
  <2>4. QED BY <1>1, <1>7, <2>2, <2>3 DEF PlacesOK
<1>8. CASE Decline(p)
  BY <1>1, <1>7, <1>8 DEF Decline, RoundIsOver
<1>9. CASE Attach(p)
  <2> DEFINE s == Chosen(Candidates(p))
  <2>1. round[p] # None /\ Remember(p) /\ s # None
        /\ preferred' = [preferred EXCEPT ![p] = PortOf[s]] /\ UNCHANGED pairing
    BY <1>9 DEF Attach, RoundIsOver, StartSession
  <2>2. Candidates(p) \subseteq Server
    BY <1>1, <2>1 DEF Candidates, Round
  <2>3. s \in Server
    <3>1. Cardinality(Candidates(p)) = 1 /\ s = CHOOSE x \in Candidates(p) : TRUE
      BY <2>1 DEF Chosen
    <3>2. Candidates(p) # {}
      BY <3>1, FS_EmptySet
    <3>3. QED BY <2>2, <3>1, <3>2
  <2> HIDE DEF s
  <2>4. PortOf[s] \in OrNone(Port)
    BY <2>3, DiscoveryAssumption DEF OrNone
  <2>5. preferred' \in [Place -> OrNone(Port)]
    BY <1>1, <2>1, <2>4
  <2>6. QED BY <1>7, <2>1, <2>5
<1>10. QED BY <1>3, <1>4, <1>5, <1>6, <1>8, <1>9 DEF PluginStep

\* What a place remembers, and the round it is in.
LEMMA PlacesStep == ServersOK /\ PlacesOK /\ AppOK /\ [Next]_vars => PlacesOK'
<1> SUFFICES ASSUME ServersOK, PlacesOK, AppOK, [Next]_vars PROVE PlacesOK'
  OBVIOUS
<1>1. /\ known \in [Place -> SUBSET Port] /\ preferred \in [Place -> OrNone(Port)]
      /\ pairing \in [Place -> Project] /\ round \in [Place -> OrNone(Round)]
      /\ Searching \subseteq Place
  BY DiscoveryAssumption DEF PlacesOK
<1>2. ASSUME NEW p \in Place, NEW n \in Port, ConnectByHand(p, n) PROVE PlacesOK'
  <2>1. preferred' = [preferred EXCEPT ![p] = n] /\ n \in OrNone(Port)
        /\ UNCHANGED <<known, pairing, round>>
    BY <1>2 DEF ConnectByHand, StartSession, OrNone
  <2>2. QED BY <1>1, <2>1 DEF PlacesOK
<1>3. ASSUME NEW p \in Place, NEW k, Open(p, k) PROVE PlacesOK'
  <2>1. PICK s \in Server : pairing' = Paired(p, s)
    BY <1>3 DEF Open, Welcoming, Listening, Up
  <2>2. Info[s].project \in Project
    BY DEF Project
  <2>3. pairing' \in [Place -> Project]
    BY <1>1, <2>1, <2>2 DEF Paired
  <2>4. QED BY <1>1, <1>3, <2>3 DEF PlacesOK, Open
<1>4. ASSUME NEW p \in Place, Accept(p) PROVE PlacesOK'
  <2>1. PICK k \in Waiting(p) : pairing' = Paired(p, session[p][k].asks)
    BY <1>4 DEF Accept
  <2> DEFINE s == session[p][k].asks
  <2>2. s \in Server
    BY DEF Waiting, AppOK, ServeSession, OrNone
  <2> HIDE DEF s
  <2>3. Info[s].project \in Project
    BY <2>2 DEF Project
  <2>4. pairing' \in [Place -> Project]
    BY <1>1, <2>1, <2>3 DEF Paired, s
  <2>5. QED BY <1>1, <1>4, <2>4 DEF PlacesOK, Accept
<1>5. ASSUME NEW s \in Server, StopServer(s) PROVE PlacesOK'
  <2>1. ASSUME NEW p \in Place
        PROVE  (IF round[p] = None THEN None ELSE [round[p] EXCEPT !.steady = @ \ {s}])
                 \in OrNone(Round)
    BY <1>1 DEF OrNone, Round
  <2>2. round' = [p \in Place |-> IF round[p] = None THEN None
                                  ELSE [round[p] EXCEPT !.steady = @ \ {s}]]
    BY <1>5 DEF StopServer
  <2>3. round' \in [Place -> OrNone(Round)]
    BY <2>1, <2>2
  <2>4. QED BY <1>1, <1>5, <2>3 DEF PlacesOK, StopServer
<1>6. CASE UNCHANGED <<known, preferred, pairing, round>>
  BY <1>6 DEF PlacesOK
<1>7. ASSUME NEW p \in Searching, PluginStep(p) PROVE PlacesOK'
  BY <1>1, <1>7, RoundStep
<1>8. ASSUME NEW p \in Searching, UserStep(p) \/ \E k \in Slot : SessionStep(p, k)
      PROVE  PlacesOK'
  BY <1>1, <1>2, <1>3, <1>4, <1>6, <1>8
  DEF UserStep, SessionStep, AskUser, OpenFails, Lose, Abort, Disconnect
<1>9. QED
  BY <1>5, <1>6, <1>7, <1>8
  DEF Next, Look, Deliver, Lost, StartServer, Status, Tick, vars, place

\* startSession puts the new session where there is none.
LEMMA StartSessionIs ==
  ASSUME AppOK, NEW p \in Place, NEW n \in Port, NEW j \in OrNone(Server), StartSession(p, n, j)
  PROVE  \E k \in Slot :
           LET new == [port |-> n, judged |-> j, asks |-> None, to |-> None, stopped |-> FALSE]
           IN  /\ new \in ServeSession /\ new # None
               /\ session[p][k] = None
               /\ session' = [session EXCEPT ![p] = [session[p] EXCEPT ![k] = new]]
               /\ current' = [current EXCEPT ![p] = k]
               /\ shown' = [shown EXCEPT ![p] = "other"]
<1> DEFINE k == CHOOSE i \in Free(p) : TRUE
           new == [port |-> n, judged |-> j, asks |-> None, to |-> None, stopped |-> FALSE]
<1>1. /\ Free(p) # {}
      /\ session' = [session EXCEPT ![p][k] = new]
      /\ current' = [current EXCEPT ![p] = k]
      /\ shown' = [shown EXCEPT ![p] = "other"]
  BY DEF StartSession
<1>2. k \in Free(p)
  BY <1>1
<1> HIDE DEF k
<1>3. k \in Slot /\ session[p][k] = None
  BY <1>2 DEF Free
<1>4. new \in ServeSession
  BY DEF ServeSession, OrNone
<1> HIDE DEF new
<1>5. session' = [session EXCEPT ![p] = [session[p] EXCEPT ![k] = new]]
  BY <1>1
<1>6. QED BY <1>1, <1>3, <1>4, <1>5, SessionAssumption DEF new

\* A step of one place on one of its slots.
LEMMA SlotKeepsApp ==
  ASSUME AppOK, NEW p \in Place, NEW k \in Slot, NEW new \in OrNone(ServeSession), NEW c \in OrNone(Slot),
         session' = [session EXCEPT ![p] = [session[p] EXCEPT ![k] = new]],
         current' = [current EXCEPT ![p] = c],
         c = k => new # None /\ ~new.stopped,
         c # k /\ c # None => c = current[p],
         shown' \in [Place -> Page], overlapped' \in [Place -> BOOLEAN], clicks' \in 0..MaxClicks
  PROVE  AppOK'
<1>1. /\ session \in [Place -> [Slot -> OrNone(ServeSession)]] /\ current \in [Place -> OrNone(Slot)]
      /\ \A q \in Place : current[q] # None => /\ session[q][current[q]] # None
                                               /\ ~session[q][current[q]].stopped
  BY DEF AppOK
<1>2. session' \in [Place -> [Slot -> OrNone(ServeSession)]]
  BY <1>1
<1>3. current' \in [Place -> OrNone(Slot)]
  BY <1>1
<1>4. ASSUME NEW q \in Place, current'[q] # None
      PROVE  session'[q][current'[q]] # None /\ ~session'[q][current'[q]].stopped
  <2>1. CASE q # p
    BY <1>1, <1>4, <2>1
  <2>2. CASE q = p /\ c = k
    BY <1>1, <2>2
  <2>3. CASE q = p /\ c # k
    <3>1. c = current[p] /\ current'[q] = c /\ c \in Slot
      BY <1>1, <1>4, <2>3 DEF OrNone
    <3>2. session'[q][c] = session[p][c]
      BY <1>1, <2>3, <3>1
    <3>3. QED BY <1>1, <1>4, <2>3, <3>1, <3>2
  <2>4. QED BY <2>1, <2>2, <2>3
<1>5. QED BY <1>2, <1>3, <1>4 DEF AppOK

\* The App's session exists and is not stopped: startSession, Disconnected
\* and endSession keep current and the sessions in step.
LEMMA AppStep == PlacesOK /\ AppOK /\ [Next]_vars => AppOK'
<1> SUFFICES ASSUME PlacesOK, AppOK, [Next]_vars PROVE AppOK'
  OBVIOUS
<1>1. /\ session \in [Place -> [Slot -> OrNone(ServeSession)]] /\ current \in [Place -> OrNone(Slot)]
      /\ shown \in [Place -> Page] /\ overlapped \in [Place -> BOOLEAN]
      /\ clicks \in 0..MaxClicks
      /\ Searching \subseteq Place /\ MaxClicks \in Nat
      /\ "other" \in Page /\ "connected" \in Page /\ "confirm" \in Page
  BY DiscoveryAssumption DEF AppOK, Page
<1>2. ASSUME NEW p \in Place, NEW n \in Port, NEW j \in OrNone(Server), StartSession(p, n, j),
             overlapped' \in [Place -> BOOLEAN], clicks' \in 0..MaxClicks
      PROVE  AppOK'
  <2> DEFINE new == [port |-> n, judged |-> j, asks |-> None, to |-> None, stopped |-> FALSE]
  <2>1. PICK k \in Slot :
           /\ new \in ServeSession /\ new # None
           /\ session' = [session EXCEPT ![p] = [session[p] EXCEPT ![k] = new]]
           /\ current' = [current EXCEPT ![p] = k]
           /\ shown' = [shown EXCEPT ![p] = "other"]
    BY <1>2, StartSessionIs
  <2>2. ~new.stopped
    OBVIOUS
  <2> HIDE DEF new
  <2>3. new \in OrNone(ServeSession) /\ k \in OrNone(Slot)
    BY <2>1 DEF OrNone
  <2>4. shown' \in [Place -> Page]
    BY <1>1, <2>1
  <2>5. QED BY <1>2, <2>1, <2>2, <2>3, <2>4, SlotKeepsApp
<1>3. ASSUME NEW p \in Place, Attach(p) PROVE AppOK'
  <2> DEFINE s == Chosen(Candidates(p))
  <2>1. /\ round[p] # None /\ s # None /\ StartSession(p, PortOf[s], s)
        /\ UNCHANGED <<overlapped, clicks>>
    BY <1>3 DEF Attach, RoundIsOver
  <2>2. s \in Server
    <3>1. Candidates(p) \subseteq Server
      BY <2>1 DEF Candidates, PlacesOK, OrNone, Round
    <3>2. Cardinality(Candidates(p)) = 1 /\ s = CHOOSE x \in Candidates(p) : TRUE
      BY <2>1 DEF Chosen
    <3>3. Candidates(p) # {}
      BY <3>2, FS_EmptySet
    <3>4. QED BY <3>1, <3>2, <3>3
  <2> HIDE DEF s
  <2>3. s \in OrNone(Server) /\ PortOf[s] \in Port
    BY <2>2, DiscoveryAssumption DEF OrNone
  <2>4. QED BY <1>1, <1>2, <2>1, <2>3
<1>4. ASSUME NEW p \in Place, NEW n \in Port, ConnectByHand(p, n) PROVE AppOK'
  <2>1. /\ StartSession(p, n, None) /\ clicks < MaxClicks /\ clicks' = clicks + 1
        /\ overlapped' = [overlapped EXCEPT ![p] = @ \/ round[p] # None \/ current[p] # None]
    BY <1>4 DEF ConnectByHand
  <2>2. clicks' \in 0..MaxClicks
    BY <1>1, <2>1
  <2>3. overlapped' \in [Place -> BOOLEAN]
    BY <1>1, <2>1
  <2>4. None \in OrNone(Server)
    BY DEF OrNone
  <2>5. QED BY <1>2, <2>1, <2>2, <2>3, <2>4
<1>5. ASSUME NEW p \in Place, NEW k \in Slot, Open(p, k) PROVE AppOK'
  <2>1. PICK s \in Server :
          session' = [session EXCEPT ![p][k].to = s, ![p][k].judged = None]
    BY <1>5 DEF Open, Welcoming, Listening, Up
  <2> DEFINE new == [session[p][k] EXCEPT !.to = s, !.judged = None]
  <2>2. session[p][k] \in ServeSession
    BY <1>1, <1>5 DEF Open, Connecting, OrNone
  <2>3. new \in ServeSession /\ new.stopped = session[p][k].stopped
    BY <2>2 DEF ServeSession, OrNone
  <2>4. session' = [session EXCEPT ![p] = [session[p] EXCEPT ![k] = new]]
    BY <1>1, <2>1
  <2> HIDE DEF new
  <2>5. new \in OrNone(ServeSession) /\ new # None
    BY <2>3, SessionAssumption DEF OrNone
  <2>6. current' = [current EXCEPT ![p] = current[p]] /\ current[p] \in OrNone(Slot)
    BY <1>1, <1>5 DEF Open
  <2>7. /\ current[p] = k => ~new.stopped
        /\ shown' \in [Place -> Page] /\ overlapped' \in [Place -> BOOLEAN]
        /\ clicks' \in 0..MaxClicks
    <3>1. current[p] = k => ~new.stopped
      BY <2>3, DiscoveryAssumption DEF AppOK
    <3>2. QED BY <1>1, <1>5, <3>1 DEF Open
  <2>8. QED BY <2>4, <2>5, <2>6, <2>7, SlotKeepsApp
<1>6. ASSUME NEW p \in Place, NEW k \in Slot, EndSession(p, k) \/ EndSilently(p, k),
             UNCHANGED <<overlapped, clicks>>
      PROVE  AppOK'
  <2>1. session' = [session EXCEPT ![p] = [session[p] EXCEPT ![k] = None]]
        /\ None \in OrNone(ServeSession) /\ None \in OrNone(Slot) /\ k # None
    BY <1>6, DiscoveryAssumption DEF EndSession, EndSilently, OrNone
  <2>2. CASE EndSession(p, k)
    <3>1. current' = [current EXCEPT ![p] = None] /\ shown' \in [Place -> Page]
      BY <1>1, <2>2 DEF EndSession
    <3>2. QED BY <1>1, <1>6, <2>1, <3>1, SlotKeepsApp
  <2>3. CASE EndSilently(p, k)
    <3>1. current' = [current EXCEPT ![p] = current[p]] /\ current[p] \in OrNone(Slot)
          /\ shown' \in [Place -> Page]
      BY <1>1, <2>3 DEF EndSilently
    <3>2. current[p] # k
      BY <2>1, <2>3 DEF EndSilently, AppOK
    <3>3. QED BY <1>1, <1>6, <2>1, <3>1, <3>2, SlotKeepsApp
  <2>4. QED BY <1>6, <2>2, <2>3
<1>7. ASSUME NEW p \in Place, Disconnect(p) PROVE AppOK'
  <2> DEFINE k == current[p]
             new == IF session[p][k].to # None THEN None
                    ELSE [session[p][k] EXCEPT !.stopped = TRUE]
  <2>1. k \in Slot /\ k # None
    BY <1>1, <1>7 DEF Disconnect, OrNone
  <2>2. session[p][k] \in ServeSession
    BY <1>1, <2>1 DEF AppOK, OrNone
  <2>3. new \in OrNone(ServeSession)
    BY <2>2 DEF ServeSession, OrNone
  <2>4. session' = [session EXCEPT ![p] = [session[p] EXCEPT ![k] = new]]
    BY <1>1, <1>7 DEF Disconnect
  <2>5. current' = [current EXCEPT ![p] = None] /\ None \in OrNone(Slot)
        /\ shown' \in [Place -> Page] /\ UNCHANGED <<overlapped, clicks>>
    BY <1>1, <1>7 DEF Disconnect, OrNone
  <2> HIDE DEF new, k
  <2>6. QED BY <1>1, <2>1, <2>3, <2>4, <2>5, SlotKeepsApp
<1>8. ASSUME NEW p \in Place, NEW k \in Slot, AskUser(p, k) PROVE AppOK'
  <2>1. PICK s \in Server : session' = [session EXCEPT ![p][k].asks = s]
    BY <1>8 DEF AskUser, Welcoming, Listening, Up
  <2> DEFINE new == [session[p][k] EXCEPT !.asks = s]
  <2>2. session[p][k] \in ServeSession
    BY <1>1, <1>8 DEF AskUser, Connecting, OrNone
  <2>3. new \in ServeSession /\ new.stopped = session[p][k].stopped
    BY <2>2 DEF ServeSession, OrNone
  <2>4. session' = [session EXCEPT ![p] = [session[p] EXCEPT ![k] = new]]
    BY <1>1, <2>1
  <2> HIDE DEF new
  <2>5. new \in OrNone(ServeSession) /\ new # None
    BY <2>3, SessionAssumption DEF OrNone
  <2>6. current' = [current EXCEPT ![p] = current[p]] /\ current[p] \in OrNone(Slot)
    BY <1>1, <1>8 DEF AskUser
  <2>7. /\ current[p] = k => ~new.stopped
        /\ shown' \in [Place -> Page] /\ overlapped' \in [Place -> BOOLEAN]
        /\ clicks' \in 0..MaxClicks
    <3>1. current[p] = k => ~new.stopped
      BY <2>3, DiscoveryAssumption DEF AppOK
    <3>2. QED BY <1>1, <1>8, <3>1 DEF AskUser, Page
  <2>8. QED BY <2>4, <2>5, <2>6, <2>7, SlotKeepsApp
<1>9. ASSUME NEW p \in Place, Accept(p) PROVE AppOK'
  <2> DEFINE To(j) == IF j \in Waiting(p)
                      THEN [session[p][j] EXCEPT !.to = session[p][j].asks, !.asks = None]
                      ELSE session[p][j]
  <2>1. session' = [session EXCEPT ![p] = [j \in Slot |-> To(j)]]
    BY <1>1, <1>9 DEF Accept
  <2>2. ASSUME NEW j \in Slot
        PROVE  /\ To(j) \in OrNone(ServeSession)
               /\ session[p][j] # None => To(j) # None /\ To(j).stopped = session[p][j].stopped
    <3>1. CASE j \in Waiting(p)
      <4>1. session[p][j] \in ServeSession /\ session[p][j].asks \in OrNone(Server)
        BY <1>1, <3>1 DEF Waiting, OrNone, ServeSession
      <4>2. To(j) \in ServeSession /\ To(j).stopped = session[p][j].stopped
        BY <3>1, <4>1 DEF ServeSession, OrNone
      <4>3. QED BY <4>2, SessionAssumption DEF OrNone
    <3>2. CASE j \notin Waiting(p)
      BY <1>1, <3>2
    <3>3. QED BY <3>1, <3>2
  <2> HIDE DEF To
  <2>3. session' \in [Place -> [Slot -> OrNone(ServeSession)]]
    BY <1>1, <2>1, <2>2
  <2>4. \A q \in Place : current[q] # None => current[q] \in Slot
    BY <1>1 DEF OrNone
  <2>5. \A q \in Place : current[q] # None => /\ session[q][current[q]] # None
                                              /\ ~session[q][current[q]].stopped
    BY DEF AppOK
  <2>6. \A q \in Place : current[q] # None => /\ session'[q][current[q]] # None
                                              /\ ~session'[q][current[q]].stopped
    BY <1>1, <2>1, <2>2, <2>4, <2>5
  <2>7. current' = current /\ UNCHANGED <<overlapped, clicks>> /\ shown' \in [Place -> Page]
    BY <1>1, <1>9 DEF Accept, Page
  <2>8. QED BY <1>1, <2>3, <2>6, <2>7 DEF AppOK
<1>10. ASSUME NEW p \in Place, Abort(p) PROVE AppOK'
  <2>1. session' = [session EXCEPT ![p] = [j \in Slot |-> IF j \in Waiting(p) THEN None
                                                         ELSE session[p][j]]]
    BY <1>1, <1>10 DEF Abort
  <2>2. /\ \/ current' = current /\ \A j \in Waiting(p) : session[p][j].stopped
           \/ current' = [current EXCEPT ![p] = None]
        /\ UNCHANGED <<overlapped, clicks>> /\ shown' \in [Place -> Page]
    BY <1>1, <1>10 DEF Abort, Page
  <2>3. None \in OrNone(ServeSession) /\ None \in OrNone(Slot)
    BY DEF OrNone
  <2>4. session' \in [Place -> [Slot -> OrNone(ServeSession)]] /\ current' \in [Place -> OrNone(Slot)]
    BY <1>1, <2>1, <2>2, <2>3
  <2>5. ASSUME NEW q \in Place, current'[q] # None
        PROVE  session'[q][current'[q]] # None /\ ~session'[q][current'[q]].stopped
    <3>1. /\ current'[q] = current[q] /\ current[q] \in Slot
          /\ session[q][current[q]] # None /\ ~session[q][current[q]].stopped
      BY <1>1, <2>2, <2>5 DEF AppOK, OrNone
    <3>2. session'[q][current[q]] = session[q][current[q]]
      <4>1. CASE q # p
        BY <1>1, <2>1, <4>1
      <4>2. CASE q = p
        <5>1. current[p] \notin Waiting(p)
          BY <1>1, <2>2, <2>5, <3>1, <4>2
        <5>2. QED BY <1>1, <2>1, <3>1, <4>2, <5>1
      <4>3. QED BY <4>1, <4>2
    <3>3. QED BY <3>1, <3>2
  <2>6. QED BY <1>1, <2>2, <2>4, <2>5 DEF AppOK
<1>11. CASE UNCHANGED <<app, clicks>>
  BY <1>11 DEF AppOK, app
<1>12. ASSUME NEW p \in Searching, PluginStep(p) PROVE AppOK'
  BY <1>1, <1>3, <1>11, <1>12
  DEF PluginStep, BeginRound, AskClosed, AskOpen, AskPeers, Decline
<1>13. ASSUME NEW p \in Searching, UserStep(p) \/ \E k \in Slot : SessionStep(p, k) PROVE AppOK'
  BY <1>1, <1>4, <1>5, <1>6, <1>7, <1>13, <1>8, <1>9, <1>10
  DEF UserStep, SessionStep, OpenFails, Lose
<1>14. QED
  BY <1>11, <1>12, <1>13
  DEF Next, Look, Deliver, Lost, StartServer, StopServer, Status, Tick, vars, place, app

\* The verdicts of a round (AutoConnect.lua buildVerdicts).
Honest(p, s, code) ==
  code = "ambiguous" \/ \E paired \in Project : code = Evaluate(Info[s], p, paired)

\* A report is about the watched port and says what evaluate said.
LEMMA VerdictsAre ==
  ASSUME PlacesOK, NEW p \in Place, round[p] # None, NEW m \in Verdicts(p)
  PROVE  m \in Report /\ PortOf[m.of] = Watched /\ Honest(m.place, m.of, m.code)
<1> DEFINE paired == round[p].paired
           report(s, o, c) == [place |-> p, of |-> s, outcome |-> o, code |-> c]
<1>1. round[p] \in Round
  BY DEF PlacesOK, OrNone
<1>2. round[p].heard \subseteq Server /\ Candidates(p) \subseteq round[p].heard /\ paired \in Project
  BY <1>1 DEF Round, Candidates, Project
<1>3. \/ \E s \in round[p].heard \ Candidates(p) :
            /\ PortOf[s] = Watched
            /\ m = report(s, "rejected", Evaluate(Info[s], p, paired))
      \/ \E s \in Candidates(p) : PortOf[s] = Watched /\ m = report(s, "ambiguous", "ambiguous")
  BY DEF Verdicts
<1>4. ASSUME NEW s \in Server, NEW o \in Outcome, NEW c \in Code, m = report(s, o, c)
      PROVE  m \in Report /\ m.place = p /\ m.of = s /\ m.code = c
  BY <1>4 DEF Report
<1>5. "rejected" \in Outcome /\ "ambiguous" \in Outcome /\ "ambiguous" \in Code
  BY DEF Outcome, Code
<1> HIDE DEF paired, report
<1>6. ASSUME NEW s \in round[p].heard \ Candidates(p), PortOf[s] = Watched,
             m = report(s, "rejected", Evaluate(Info[s], p, paired))
      PROVE  m \in Report /\ PortOf[m.of] = Watched /\ Honest(m.place, m.of, m.code)
  <2>1. Evaluate(Info[s], p, paired) \notin Matches
    BY <1>6 DEF Candidates, Claims, paired
  <2>2. Evaluate(Info[s], p, paired) \in Code /\ s \in Server
    BY <1>2, <2>1, EvaluateType
  <2>3. QED BY <1>2, <1>4, <1>5, <1>6, <2>2 DEF Honest
<1>7. ASSUME NEW s \in Candidates(p), PortOf[s] = Watched, m = report(s, "ambiguous", "ambiguous")
      PROVE  m \in Report /\ PortOf[m.of] = Watched /\ Honest(m.place, m.of, m.code)
  BY <1>2, <1>4, <1>5, <1>7 DEF Honest
<1>8. QED BY <1>3, <1>6, <1>7

\* Ageing a record.
LEMMA OlderRecordIs ==
  ASSUME NEW r \in Record
  PROVE  /\ OlderRecord(r) \in Record /\ OlderRecord(r).at = Older(r.at)
         /\ r.verdict = None => OlderRecord(r).verdict = None
         /\ r.verdict # None => /\ OlderRecord(r).verdict.of = r.verdict.of
                                /\ OlderRecord(r).verdict.code = r.verdict.code
<1> DEFINE v == IF r.verdict = None THEN None ELSE [r.verdict EXCEPT !.at = Older(@)]
<1>1. r.at \in 0..TTL /\ r.verdict \in OrNone(Verdict)
  BY DEF Record
<1>2. /\ v \in OrNone(Verdict) /\ (r.verdict = None => v = None)
      /\ r.verdict # None => v.of = r.verdict.of /\ v.code = r.verdict.code
  BY <1>1, Numbers DEF Verdict, OrNone
<1>3. OlderRecord(r) = [at |-> Older(r.at), verdict |-> v]
  BY DEF OlderRecord
<1> HIDE DEF v
<1>4. QED BY <1>1, <1>2, <1>3, Numbers DEF Record

\* Ageing leaves the table's keys alone.
LEMMA TickIs ==
  ASSUME TableOK, Tick
  PROVE  /\ IsTable(probes') /\ DOMAIN probes' = DOMAIN probes
         /\ \A q \in DOMAIN probes : probes'[q] = OlderRecord(probes[q])
         /\ looked' = [p \in Place |-> Older(looked[p])] /\ looked' \in [Place -> 0..TTL]
<1>1. /\ probes' = [p \in DOMAIN probes |-> OlderRecord(probes[p])]
      /\ looked' = [p \in Place |-> Older(looked[p])]
  BY DEF Tick
<1>2. DOMAIN probes' = DOMAIN probes /\ \A q \in DOMAIN probes : probes'[q] = OlderRecord(probes[q])
  BY <1>1
<1>3. \A q \in DOMAIN probes : OlderRecord(probes[q]) \in Record
  BY OlderRecordIs DEF TableOK, IsTable
<1>4. probes' \in [DOMAIN probes -> Record]
  BY <1>1, <1>3
<1>5. IsTable(probes')
  BY <1>2, <1>4 DEF TableOK, IsTable
<1>6. looked' \in [Place -> 0..TTL]
  BY <1>1, Numbers DEF TableOK
<1>7. QED BY <1>1, <1>2, <1>5, <1>6

\* What a step may do to the reports and to the table.
TableMoves ==
  \/ UNCHANGED <<probes, looked>>
  \/ /\ \E p \in Place : RecordProbe(p)
     /\ net' = net
  \/ \E m \in net : RecordVerdict(m) /\ net' = net \ {m}
  \/ DOMAIN probes' = {} /\ IsTable(probes') /\ looked' = [p \in Place |-> TTL] /\ net' = net
  \/ probes' = Pruned(probes) /\ UNCHANGED <<looked, net>>
  \/ Tick

NetMoves ==
  \/ net' \subseteq net
  \/ \E p \in Place : round[p] # None /\ net' \subseteq net \union Verdicts(p)

\* Every step changes the table in one of these ways.
LEMMA TableSteps == [Next]_vars => TableMoves /\ NetMoves
<1> SUFFICES ASSUME [Next]_vars PROVE TableMoves /\ NetMoves
  OBVIOUS
<1>1. Searching \subseteq Place
  BY DiscoveryAssumption
<1>2. CASE UNCHANGED table
  BY <1>2 DEF table, TableMoves, NetMoves
<1>3. ASSUME NEW p \in Place, Remember(p), round[p] # None, UNCHANGED <<probes, looked>>
      PROVE  TableMoves /\ NetMoves
  BY <1>3 DEF Remember, TableMoves, NetMoves
<1>4. ASSUME NEW p \in Place, NEW n \in Port, AskOpen(p, n) PROVE TableMoves /\ NetMoves
  BY <1>4 DEF AskOpen, TableMoves, NetMoves
<1>5. ASSUME NEW p \in Searching, PluginStep(p) PROVE TableMoves /\ NetMoves
  BY <1>1, <1>2, <1>3, <1>4, <1>5
  DEF PluginStep, BeginRound, AskClosed, AskPeers, Decline, Attach, RoundIsOver
<1>6. ASSUME NEW p \in Searching, UserStep(p) \/ \E k \in Slot : SessionStep(p, k)
      PROVE  TableMoves /\ NetMoves
  BY <1>2, <1>6 DEF UserStep, Accept, Abort, Disconnect, ConnectByHand, SessionStep, Open, AskUser, OpenFails, Lose
<1>7. ASSUME NEW s \in Server, StartServer(s) PROVE TableMoves /\ NetMoves
  <2>1. net' = net
    BY <1>7 DEF StartServer
  <2>2. CASE probes' = << >> /\ looked' = [p \in Place |-> TTL]
    <3>1. DOMAIN probes' = {}
      BY <2>2
    <3>2. probes' \in [DOMAIN probes' -> Record]
      BY <2>2, <3>1
    <3>3. IsTable(probes')
      BY <3>1, <3>2, FS_EmptySet, DiscoveryAssumption DEF IsTable
    <3>4. QED BY <2>1, <2>2, <3>1, <3>3 DEF TableMoves, NetMoves
  <2>3. CASE UNCHANGED <<probes, looked>>
    BY <2>1, <2>3 DEF TableMoves, NetMoves
  <2>4. QED BY <1>7, <2>2, <2>3 DEF StartServer
<1>8. CASE Status
  BY <1>8 DEF Status, TableMoves, NetMoves
<1>9. CASE Tick
  BY <1>9 DEF Tick, TableMoves, NetMoves
<1>10. ASSUME NEW p \in Place, Look(p) PROVE TableMoves /\ NetMoves
  BY <1>10 DEF Look, TableMoves, NetMoves
<1>11. ASSUME NEW m \in net, Deliver(m) \/ Lost(m) PROVE TableMoves /\ NetMoves
  BY <1>11 DEF Deliver, Lost, TableMoves, NetMoves
<1>12. QED
  BY <1>2, <1>5, <1>6, <1>7, <1>8, <1>9, <1>10, <1>11 DEF Next, StopServer, vars

\* The table stays within MAX_PROBES.
LEMMA TableStep == PlacesOK /\ TableOK /\ [Next]_vars => TableOK'
<1> SUFFICES ASSUME PlacesOK, TableOK, [Next]_vars PROVE TableOK'
  OBVIOUS
<1>1. TableMoves /\ NetMoves
  BY TableSteps
<1>2. \A m \in net' : m \in Report /\ PortOf[m.of] = Watched
  BY <1>1, VerdictsAre DEF NetMoves, TableOK
<1>3. ASSUME NEW m \in net, RecordVerdict(m) PROVE IsTable(probes') /\ looked' \in [Place -> 0..TTL]
  <2>1. m \in Report
    BY DEF TableOK
  <2>2. QED BY <1>3, <2>1, RecordVerdictIs
<1>4. IsTable(probes') /\ looked' \in [Place -> 0..TTL]
  <2>1. IsTable(probes) /\ looked \in [Place -> 0..TTL]
    BY DEF TableOK
  <2>2. CASE \E p \in Place : RecordProbe(p)
    BY <2>2, RecordProbeIs
  <2>3. CASE looked' = [p \in Place |-> TTL] /\ IsTable(probes')
    BY <2>3, Numbers
  <2>4. QED BY <1>1, <1>3, <2>1, <2>2, <2>3, PrunedIs, TickIs DEF TableMoves
<1>5. QED BY <1>2, <1>4 DEF TableOK

\* A machine on which nothing has started yet has its types.
LEMMA TypeInit == Init => TypeInv
<1> SUFFICES ASSUME Init PROVE TypeInv
  OBVIOUS
<1>1. ServersOK
  BY DEF Init, ServersOK, OrNone
<1>2. PlacesOK
  BY DEF Init, PlacesOK, OrNone, Project
<1>3. AppOK
  BY DiscoveryAssumption DEF Init, AppOK, OrNone, Page
<1>4. TableOK
  <2>1. DOMAIN probes = {} /\ probes = << >> /\ net = {}
    BY DEF Init
  <2>2. probes \in [DOMAIN probes -> Record]
    BY <2>1
  <2>3. IsTable(probes)
    BY <2>1, <2>2, FS_EmptySet, DiscoveryAssumption DEF IsTable
  <2>4. looked \in [Place -> 0..TTL]
    BY Numbers DEF Init
  <2>5. QED BY <2>1, <2>3, <2>4 DEF TableOK
<1>5. QED BY <1>1, <1>2, <1>3, <1>4 DEF TypeInv

\* The types are inductive.
LEMMA TypesHold == Spec => []TypeInv
<1>1. TypeInv /\ [Next]_vars => TypeInv'
  BY ServersStep, PlacesStep, AppStep, TableStep DEF TypeInv
<1>2. QED BY <1>1, TypeInit, PTL DEF Spec

\* Every reachable state has its type: the App's session exists, the probe
\* table stays within MAX_PROBES, and a report is about a server on the port it
\* is sent to.
THEOREM TypeCorrect == Spec => []TypeOK
<1>1. TypeInv => TypeOK
  <2> SUFFICES ASSUME TypeInv PROVE TypeOK
    OBVIOUS
  <2>1. \A p \in DOMAIN probes : probes[p].at \in 0..TTL /\ probes[p].verdict \in OrNone(Verdict)
    BY DEF TypeInv, TableOK, IsTable, Record
  <2>2. \A m \in net : m.place \in Place /\ m.outcome \in Outcome /\ m.code \in Code
    BY DEF TypeInv, TableOK, Report
  <2>3. QED
    BY <2>1, <2>2 DEF TypeInv, ServersOK, PlacesOK, AppOK, TableOK, IsTable, TypeOK
<1>2. QED BY <1>1, TypesHold, PTL

-----------------------------------------------------------------------------
(* What roxo status says.                                                  *)

\* A probe that is recent has left a record at least as recent, and every
\* verdict is one that evaluate gave of that server, or of several.
DiagInv ==
  /\ \A p \in Place : looked[p] < TTL => \E q \in DOMAIN probes : probes[q].at <= looked[p]
  /\ \A m \in net : Honest(m.place, m.of, m.code)
  /\ \A p \in DOMAIN probes :
       probes[p].verdict # None => Honest(p, probes[p].verdict.of, probes[p].verdict.code)

\* Whatever makes room in the table goes only after a more recent probe came.
LEMMA LookedStep ==
  ASSUME TypeInv, [Next]_vars, DiagInv, NEW p \in Place, looked'[p] < TTL
  PROVE  \E q \in DOMAIN probes' : probes'[q].at <= looked'[p]
<1>1. TableMoves /\ TableOK
  BY TableSteps DEF TypeInv
<1>2. /\ looked \in [Place -> 0..TTL] /\ TTL \in Nat
      /\ \A q \in DOMAIN probes : probes[q] \in Record /\ probes[q].at \in 0..TTL
  BY <1>1, Numbers DEF TableOK, IsTable, Record
<1>3. looked[p] < TTL => \E q \in DOMAIN probes : probes[q].at <= looked[p]
  BY DEF DiagInv
<1>4. looked[p] \in 0..TTL
  BY <1>2
<1>5. ASSUME looked'[p] = looked[p],
             \A q \in DOMAIN probes : probes[q].at < TTL => /\ q \in DOMAIN probes'
                                                            /\ probes'[q].at = probes[q].at
      PROVE  \E q \in DOMAIN probes' : probes'[q].at <= looked'[p]
  <2>1. PICK q \in DOMAIN probes : probes[q].at <= looked[p]
    BY <1>3, <1>5
  <2>2. probes[q].at < TTL
    BY <1>2, <1>4, <1>5, <2>1
  <2>3. QED BY <1>5, <2>1, <2>2
<1>6. ASSUME NEW q \in DOMAIN probes', probes'[q].at = 0, looked'[p] \in 0..TTL
      PROVE  \E r \in DOMAIN probes' : probes'[r].at <= looked'[p]
  <2>1. 0 <= looked'[p]
    BY <1>2, <1>6
  <2>2. QED BY <1>6, <2>1
<1>7. CASE UNCHANGED <<probes, looked>>
  BY <1>5, <1>7
<1>8. ASSUME NEW o \in Place, RecordProbe(o) PROVE \E q \in DOMAIN probes' : probes'[q].at <= looked'[p]
  BY <1>1, <1>6, <1>8, RecordProbeIs
<1>9. ASSUME NEW m \in net, RecordVerdict(m)
      PROVE  \E q \in DOMAIN probes' : probes'[q].at <= looked'[p]
  <2>1. m \in Report
    BY <1>1 DEF TableOK
  <2>2. /\ looked' \in [Place -> 0..TTL]
        /\ \/ /\ looked' = looked /\ DOMAIN probes' = Recent(probes)
              /\ \A q \in DOMAIN probes' : probes'[q].at = probes[q].at
           \/ m.place \in DOMAIN probes' /\ probes'[m.place].at = 0
    BY <1>1, <1>9, <2>1, RecordVerdictIs
  <2>3. \A q \in DOMAIN probes : probes[q].at < TTL => q \in Recent(probes)
    BY <1>1, PrunedIs DEF TableOK
  <2>4. QED BY <1>5, <1>6, <2>2, <2>3
<1>10. CASE looked' = [o \in Place |-> TTL]
  BY <1>2, <1>10
<1>11. CASE probes' = Pruned(probes) /\ looked' = looked
  BY <1>1, <1>5, <1>11, PrunedIs DEF TableOK
<1>12. CASE Tick
  <2>1. /\ DOMAIN probes' = DOMAIN probes
        /\ \A q \in DOMAIN probes : probes'[q] = OlderRecord(probes[q])
        /\ looked'[p] = Older(looked[p])
    BY <1>1, <1>12, TickIs
  <2>2. looked[p] < TTL /\ looked'[p] = looked[p] + 1
    BY <1>2, <1>4, <2>1 DEF Older
  <2>3. PICK q \in DOMAIN probes : probes[q].at <= looked[p]
    BY <1>3, <2>2
  <2>4. probes'[q].at = Older(probes[q].at)
    BY <1>2, <2>1, OlderRecordIs
  <2>5. Older(probes[q].at) <= looked[p] + 1
    BY <1>2, <1>4, <2>2, <2>3 DEF Older
  <2>6. QED BY <2>1, <2>2, <2>4, <2>5
<1>13. QED BY <1>1, <1>7, <1>8, <1>9, <1>10, <1>11, <1>12 DEF TableMoves

\* No step brings a verdict that evaluate did not give.
LEMMA HonestStep ==
  ASSUME TypeInv, [Next]_vars, DiagInv
  PROVE  /\ \A m \in net' : Honest(m.place, m.of, m.code)
         /\ \A p \in DOMAIN probes' :
              probes'[p].verdict # None => Honest(p, probes'[p].verdict.of, probes'[p].verdict.code)
<1> DEFINE Sound(p, v) == v # None => Honest(p, v.of, v.code)
<1>1. TableMoves /\ NetMoves /\ TableOK /\ PlacesOK
  BY TableSteps DEF TypeInv
<1>2. \A m \in net : Honest(m.place, m.of, m.code)
  BY DEF DiagInv
<1>3. \A p \in DOMAIN probes : Sound(p, probes[p].verdict)
  BY DEF DiagInv
<1>4. \A m \in net' : Honest(m.place, m.of, m.code)
  BY <1>1, <1>2, VerdictsAre DEF NetMoves
<1>5. \A p \in DOMAIN probes' : Sound(p, probes'[p].verdict)
  <2>1. ASSUME NEW o \in Place, RecordProbe(o) PROVE \A p \in DOMAIN probes' : Sound(p, probes'[p].verdict)
    <3>1. \A q \in DOMAIN probes' :
            probes'[q].verdict # None => q \in DOMAIN probes /\ probes'[q].verdict = probes[q].verdict
      BY <1>1, <2>1, RecordProbeIs
    <3>2. QED BY <1>3, <3>1
  <2>2. ASSUME NEW m \in net, RecordVerdict(m) PROVE \A p \in DOMAIN probes' : Sound(p, probes'[p].verdict)
    <3> DEFINE v == [outcome |-> m.outcome, code |-> m.code, of |-> m.of, at |-> 0]
    <3>1. m \in Report
      BY <1>1 DEF TableOK
    <3>2. \A q \in DOMAIN probes' : \/ q = m.place /\ probes'[q].verdict = v
                                    \/ q \in DOMAIN probes /\ probes'[q].verdict = probes[q].verdict
      BY <1>1, <2>2, <3>1, RecordVerdictIs
    <3>3. Honest(m.place, v.of, v.code)
      BY <1>2
    <3> HIDE DEF v
    <3>4. Sound(m.place, v)
      BY <3>3
    <3> HIDE DEF Sound
    <3>5. QED BY <1>3, <3>2, <3>4
  <2>3. CASE probes' = Pruned(probes)
    <3>1. \A q \in DOMAIN probes' : q \in DOMAIN probes /\ probes'[q] = probes[q]
      BY <1>1, <2>3, PrunedIs DEF TableOK
    <3>2. QED BY <1>3, <3>1
  <2>4. CASE Tick
    <3>1. /\ DOMAIN probes' = DOMAIN probes
          /\ \A q \in DOMAIN probes : probes'[q] = OlderRecord(probes[q])
      BY <1>1, <2>4, TickIs
    <3>2. ASSUME NEW q \in DOMAIN probes PROVE Sound(q, OlderRecord(probes[q]).verdict)
      <4>1. probes[q] \in Record
        BY <1>1 DEF TableOK, IsTable
      <4>2. QED BY <1>3, <4>1, OlderRecordIs
    <3>3. QED BY <3>1, <3>2
  <2>5. QED BY <1>1, <1>3, <2>1, <2>2, <2>3, <2>4 DEF TableMoves
<1>6. QED BY <1>4, <1>5

\* The invariant behind the diagnosis.
LEMMA DiagHolds == Spec => []DiagInv
<1>1. Init => DiagInv
  <2> SUFFICES ASSUME Init PROVE DiagInv
    OBVIOUS
  <2>1. DOMAIN probes = {} /\ net = {} /\ \A p \in Place : looked[p] = TTL
    BY DEF Init
  <2>2. QED BY <2>1, Numbers DEF DiagInv
<1>2. TypeInv /\ DiagInv /\ [Next]_vars => DiagInv'
  <2> SUFFICES ASSUME TypeInv, DiagInv, [Next]_vars PROVE DiagInv'
    OBVIOUS
  <2>1. \A p \in Place : looked'[p] < TTL => \E q \in DOMAIN probes' : probes'[q].at <= looked'[p]
    BY LookedStep
  <2>2. QED BY <2>1, HonestStep DEF DiagInv
<1>3. QED BY <1>1, <1>2, TypesHold, PTL DEF Spec

\* roxo status is right for every table size, time to live and number of places:
\* that nobody looked at a server means that nobody did for as long as a probe
\* is kept, whichever record made room; and the project file change that it suggests
\* on a fresh verdict of this very run of the server lets the place in, for the
\* places and codes that DiagnosisIsSound names and with auto-connect not off
\* as well (client_registry.rs, diagnose.rs apply_fix).
THEOREM DiagnosisSound == Spec => []DiagnosisIsSound
<1>1. TypeInv /\ DiagInv => DiagnosisIsSound
  <2> SUFFICES ASSUME TypeInv, DiagInv, NEW s \in Resolved
               PROVE  /\ \A p \in Place : looked[p] < TTL =>
                           \E q \in DOMAIN Pruned(probes) : Pruned(probes)[q].at <= looked[p]
                      /\ \A p \in Diagnosed(Pruned(probes)) :
                           LET v == Pruned(probes)[p].verdict
                               fixed == Fixed(Info[s], p, v.code)
                           IN  /\ Fresh(Pruned(probes)[p]) /\ v.of = s
                               /\ PlaceId[p] # 0 \/ v.code = "unpublished-place"
                               /\ fixed # None /\ Policy(fixed) # "off"
                               => Claims(fixed, p, None)
    BY DEF DiagnosisIsSound
  <2> DEFINE T == Pruned(probes)
  <2>1. /\ IsTable(probes) /\ looked \in [Place -> 0..TTL] /\ TTL \in Nat
        /\ \A q \in DOMAIN probes : probes[q].at \in 0..TTL
    BY Numbers DEF TypeInv, TableOK, IsTable, Record
  <2>2. /\ DOMAIN T = Recent(probes) /\ DOMAIN T \subseteq DOMAIN probes
        /\ \A q \in DOMAIN T : T[q] = probes[q]
        /\ \A q \in DOMAIN probes : probes[q].at < TTL => q \in DOMAIN T
    BY <2>1, PrunedIs
  <2> HIDE DEF T
  <2>3. ASSUME NEW p \in Place, looked[p] < TTL PROVE \E q \in DOMAIN T : T[q].at <= looked[p]
    <3>1. PICK q \in DOMAIN probes : probes[q].at <= looked[p]
      BY <2>3 DEF DiagInv
    <3>2. probes[q].at < TTL
      <4>1. looked[p] \in 0..TTL /\ probes[q].at \in 0..TTL
        BY <2>1
      <4>2. QED BY <2>1, <2>3, <3>1, <4>1
    <3>3. QED BY <2>2, <3>1, <3>2
  <2>4. ASSUME NEW p \in Diagnosed(T), Fresh(T[p]), T[p].verdict.of = s,
               PlaceId[p] # 0 \/ T[p].verdict.code = "unpublished-place",
               Fixed(Info[s], p, T[p].verdict.code) # None,
               Policy(Fixed(Info[s], p, T[p].verdict.code)) # "off"
        PROVE  Claims(Fixed(Info[s], p, T[p].verdict.code), p, None)
    <3> DEFINE code == T[p].verdict.code
    <3>1. p \in DOMAIN T /\ T[p].verdict # None /\ s \in Server
      BY <2>4 DEF Diagnosed, Fresh, Resolved, Up
    <3>2. p \in Place /\ Honest(p, s, code)
      BY <2>1, <2>2, <2>4, <3>1 DEF DiagInv, IsTable
    <3>3. code # "ambiguous"
      BY <2>4 DEF Fixed
    <3>4. PICK paired \in Project : code = Evaluate(Info[s], p, paired)
      BY <3>2, <3>3 DEF Honest
    <3>5. /\ Info[s] \in Infos(Nat, {Info[t].project : t \in Server})
          /\ {PlaceId[p]} \union (IF Info[s].serve = None THEN {} ELSE Info[s].serve) # None
          /\ None \notin {"off", "matching", "always"}
      BY <3>1, <3>2, InfoAssumption
    <3> HIDE DEF code
    <3>6. QED BY <2>4, <3>4, <3>5, AdviceWorks DEF code
  <2>5. QED BY <2>3, <2>4 DEF T
<1>2. QED BY <1>1, TypesHold, DiagHolds, PTL

-----------------------------------------------------------------------------
(* Attaching.  A round is judged with the servers U that run and the       *)
(* beacons b that are there.                                               *)

RegPorts == {PortOf[s] : s \in Registered}

\* The registry is small enough for a server to report all of it and for a
\* round to follow all of that: at most MAX_PEER_PORTS ports.
FewPeers == IsFiniteSet(RegPorts) /\ Cardinality(RegPorts) <= MaxPeerPorts

OnePerPort == \A s \in Up, t \in Up : PortOf[s] = PortOf[t] => s = t
BeaconsAreHome == \A n \in Port : beacon[n] # None => PortOf[beacon[n]] = n

\* Findable, with the beacons as a parameter.
InReach(t, running, b) ==
  /\ Answers(Info[t], "localhost")
  /\ \/ PortOf[t] \in Scanned
     \/ /\ b[PortOf[t]] = t
        /\ \E r \in running \ {t} : /\ PortOf[r] \in Scanned /\ Info[r].roxo
                                    /\ Answers(Info[r], "localhost")

\* The server is still to be asked, or was.
Covered(r, t) == PortOf[t] \in r.asking \/ t \in r.heard

HeardIsFinite(r) == IsFiniteSet(r.heard)
SteadyRuns(r, U) == r.steady \subseteq U
ScannedIsSeen(r) == Scanned \subseteq r.seen
ListedIsRegistered(r) == r.listed \subseteq RegPorts
SeenIsCovered(r) ==
  \A t \in r.steady : Answers(Info[t], "localhost") /\ PortOf[t] \in r.seen => Covered(r, t)
HeardListsPeers(r, b) ==
  \A q \in r.heard \intersect r.steady, t \in r.steady :
    Info[q].roxo /\ t # q /\ b[PortOf[t]] = t => PortOf[t] \in r.listed
ReachIsCovered(r, b) ==
  r.more => \A t \in r.steady : InReach(t, r.steady, b) => Covered(r, t)

RoundInv(r, U, b) ==
  /\ HeardIsFinite(r) /\ SteadyRuns(r, U) /\ ScannedIsSeen(r) /\ ListedIsRegistered(r)
  /\ SeenIsCovered(r) /\ HeardListsPeers(r, b) /\ ReachIsCovered(r, b)

RoundsInv == /\ OnePerPort /\ BeaconsAreHome
             /\ \A p \in Place : round[p] # None => RoundInv(round[p], Up, beacon)

\* Unless Connect was pressed during a round or a session: the only session of a place is
\* the App's, there is none during a round, and the page that is shown is that
\* of a session that is connected.
OneSession(p) ==
  /\ \A k \in Slot : session[p][k] # None => current[p] = k
  /\ round[p] # None => current[p] = None
  /\ shown[p] = "connected" => current[p] # None /\ session[p][current[p]].to # None

SessionsInv == \A p \in Place : overlapped[p] \/ OneSession(p)

\* peer_ports reports every other session's port.
LEMMA PeersAre ==
  ASSUME FewPeers, ServersOK, BeaconsAreHome, NEW s
  PROVE  /\ Peers(s) \subseteq RegPorts
         /\ Info[s].roxo => \A n \in Port : beacon[n] # None /\ beacon[n] # s => n \in Peers(s)
<1> DEFINE ports == {n \in Port : beacon[n] # None /\ beacon[n] # s}
<1>1. ports \subseteq RegPorts
  BY DEF ServersOK, OrNone, BeaconsAreHome, RegPorts
<1>2. IsFiniteSet(RegPorts) /\ Cardinality(RegPorts) <= MaxPeerPorts /\ MaxPeerPorts \in Nat
  BY DiscoveryAssumption DEF FewPeers
<1>3. /\ IsFiniteSet(ports) /\ Cardinality(ports) <= Cardinality(RegPorts)
      /\ Cardinality(ports) \in Nat /\ Cardinality(RegPorts) \in Nat
  BY <1>1, <1>2, FS_Subset, FS_CardinalityType
<1>4. ports \subseteq Nat
  BY DiscoveryAssumption
<1> HIDE DEF ports
<1>5. ASSUME NEW n \in ports PROVE Cardinality({m \in ports : m < n}) < MaxPeerPorts
  <2> DEFINE below == {m \in ports : m < n}
  <2>1. below \in SUBSET ports /\ n \notin below
    BY <1>4
  <2>2. below # ports
    BY <2>1
  <2> HIDE DEF below
  <2>3. /\ IsFiniteSet(below) /\ Cardinality(below) <= Cardinality(ports)
        /\ Cardinality(ports) # Cardinality(below)
    BY <1>3, <2>1, <2>2, FS_Subset
  <2>4. Cardinality(below) \in Nat
    BY <2>3, FS_CardinalityType
  <2>5. Cardinality(below) < MaxPeerPorts
    BY <1>2, <1>3, <2>3, <2>4
  <2>6. QED BY <2>5 DEF below
<1>6. Lowest(ports, MaxPeerPorts) = ports
  BY <1>5 DEF Lowest
<1>7. Peers(s) = IF Info[s].roxo THEN ports ELSE {}
  BY <1>6 DEF Peers, ports
<1>8. QED BY <1>1, <1>7 DEF ports

\* collectPeerPorts follows every port that is new.
LEMMA CollectedIs ==
  ASSUME FewPeers, NEW r, ListedIsRegistered(r)
  PROVE  Collected(r) = {r.listed \ r.seen}
<1> DEFINE new == r.listed \ r.seen
<1>1. new \subseteq RegPorts
  BY DEF ListedIsRegistered
<1>2. IsFiniteSet(RegPorts) /\ Cardinality(RegPorts) <= MaxPeerPorts /\ MaxPeerPorts \in Nat
  BY DiscoveryAssumption DEF FewPeers
<1> HIDE DEF new
<1>3. /\ IsFiniteSet(new) /\ Cardinality(new) <= Cardinality(RegPorts)
      /\ Cardinality(new) \in Nat /\ Cardinality(RegPorts) \in Nat
  BY <1>1, <1>2, FS_Subset, FS_CardinalityType
<1>4. (IF Cardinality(new) < MaxPeerPorts THEN Cardinality(new) ELSE MaxPeerPorts) = Cardinality(new)
  BY <1>2, <1>3
<1>5. Collected(r) = {ports \in SUBSET new : Cardinality(ports) = Cardinality(new)}
  BY <1>4 DEF Collected, new
<1>6. \A ports \in SUBSET new : Cardinality(ports) = Cardinality(new) => ports = new
  BY <1>3, FS_Subset
<1>7. Collected(r) = {new}
  BY <1>5, <1>6
<1>8. QED BY <1>7 DEF new

\* When nothing is left to be asked, a server in reach was heard or its port is
\* one that the next batch will ask.
LEMMA ReachNow ==
  ASSUME NEW r, NEW U, NEW b, RoundInv(r, U, b), r.asking = {},
         NEW t \in r.steady, InReach(t, r.steady, b)
  PROVE  t \in r.heard \/ PortOf[t] \in r.listed \ r.seen
<1>1. ASSUME NEW u \in r.steady, Answers(Info[u], "localhost"), PortOf[u] \in r.seen
      PROVE  u \in r.heard
  BY <1>1 DEF RoundInv, SeenIsCovered, Covered
<1>2. ASSUME NEW u \in r.steady, Answers(Info[u], "localhost"), PortOf[u] \in Scanned
      PROVE  u \in r.heard
  BY <1>1, <1>2 DEF RoundInv, ScannedIsSeen
<1>3. CASE PortOf[t] \in Scanned
  BY <1>2, <1>3 DEF InReach
<1>4. CASE PortOf[t] \notin Scanned
  <2>1. PICK q \in r.steady \ {t} : PortOf[q] \in Scanned /\ Info[q].roxo /\ Answers(Info[q], "localhost")
    BY <1>4 DEF InReach
  <2>2. q \in r.heard /\ b[PortOf[t]] = t
    BY <1>2, <1>4, <2>1 DEF InReach
  <2>3. PortOf[t] \in r.listed
    BY <2>1, <2>2 DEF RoundInv, HeardListsPeers
  <2>4. QED BY <1>1, <2>3 DEF InReach
<1>5. QED BY <1>3, <1>4

\* A round that is over has heard every server in reach.
LEMMA OverHeardAll ==
  ASSUME FewPeers, NEW r, NEW U, NEW b, RoundInv(r, U, b), RoundIsOver(r),
         NEW t \in r.steady, InReach(t, r.steady, b)
  PROVE  t \in r.heard
<1>1. r.asking = {}
  BY DEF RoundIsOver
<1>2. CASE r.more
  BY <1>1, <1>2 DEF RoundInv, ReachIsCovered, Covered
<1>3. CASE ~r.more
  <2>1. {r.listed \ r.seen} = {{}}
    BY <1>3, CollectedIs DEF RoundIsOver, RoundInv
  <2>2. r.listed \ r.seen = {}
    BY <2>1
  <2>3. QED BY <1>1, <2>2, ReachNow
<1>4. QED BY <1>2, <1>3

-----------------------------------------------------------------------------
(* The steps of a round.                                                   *)

\* Servers come and go, and beacons with them.
LEMMA ServersKeepRound ==
  ASSUME NEW r, NEW U, NEW b, RoundInv(r, U, b), NEW r2, NEW U2, NEW b2,
         r2.asking = r.asking, r2.heard = r.heard, r2.seen = r.seen, r2.listed = r.listed,
         r2.more = r.more, r2.steady \subseteq r.steady, r2.steady \subseteq U2,
         \A t \in r2.steady : b2[PortOf[t]] = t => b[PortOf[t]] = t
  PROVE  RoundInv(r2, U2, b2)
<1>1. HeardIsFinite(r2) /\ SteadyRuns(r2, U2) /\ ScannedIsSeen(r2) /\ ListedIsRegistered(r2)
  BY DEF RoundInv, HeardIsFinite, SteadyRuns, ScannedIsSeen, ListedIsRegistered
<1>2. SeenIsCovered(r2)
  BY DEF RoundInv, SeenIsCovered, Covered
<1>3. HeardListsPeers(r2, b2)
  BY DEF RoundInv, HeardListsPeers
<1>4. ReachIsCovered(r2, b2)
  <2> SUFFICES ASSUME r2.more, NEW t \in r2.steady, InReach(t, r2.steady, b2) PROVE Covered(r2, t)
    BY DEF ReachIsCovered
  <2>1. InReach(t, r.steady, b)
    BY DEF InReach
  <2>2. Covered(r, t)
    BY <2>1 DEF RoundInv, ReachIsCovered
  <2>3. QED BY <2>2 DEF Covered
<1>5. QED BY <1>1, <1>2, <1>3, <1>4 DEF RoundInv

\* One port is answered, by a server or by nobody.
LEMMA AnswerKeepsRound ==
  ASSUME NEW r, NEW U, NEW b, RoundInv(r, U, b), NEW r2,
         r2.seen = r.seen, r2.more = r.more, r2.steady = r.steady,
         r.heard \subseteq r2.heard, IsFiniteSet(r2.heard),
         r.listed \subseteq r2.listed, r2.listed \subseteq RegPorts,
         \A t \in r.steady :
           Answers(Info[t], "localhost") /\ PortOf[t] \in r.asking => Covered(r2, t),
         \A q \in r2.heard \ r.heard, t \in U :
           Info[q].roxo /\ t # q /\ b[PortOf[t]] = t => PortOf[t] \in r2.listed
  PROVE  RoundInv(r2, U, b)
<1>1. HeardIsFinite(r2) /\ SteadyRuns(r2, U) /\ ScannedIsSeen(r2) /\ ListedIsRegistered(r2)
  BY DEF RoundInv, HeardIsFinite, SteadyRuns, ScannedIsSeen, ListedIsRegistered
<1>2. ASSUME NEW t \in r.steady, Answers(Info[t], "localhost"), Covered(r, t) PROVE Covered(r2, t)
  BY <1>2 DEF Covered
<1>3. SeenIsCovered(r2)
  BY <1>2 DEF RoundInv, SeenIsCovered
<1>4. HeardListsPeers(r2, b)
  BY DEF RoundInv, HeardListsPeers, SteadyRuns
<1>5. ReachIsCovered(r2, b)
  <2> SUFFICES ASSUME r2.more, NEW t \in r.steady, InReach(t, r.steady, b) PROVE Covered(r2, t)
    BY DEF ReachIsCovered
  <2>1. Covered(r, t)
    BY DEF RoundInv, ReachIsCovered
  <2>2. QED BY <1>2, <2>1 DEF InReach
<1>6. QED BY <1>1, <1>3, <1>4, <1>5 DEF RoundInv

\* A step of discover keeps what a round has to know.
LEMMA PluginKeepsRounds ==
  ASSUME FewPeers, TypeInv, RoundsInv, NEW p \in Place, PluginStep(p)
  PROVE  \E r : /\ round' = [round EXCEPT ![p] = r] /\ UNCHANGED <<up, beacon>>
                /\ r # None => RoundInv(r, Up, beacon)
<1> DEFINE r == round[p]
           Goal == \E new : /\ round' = [round EXCEPT ![p] = new] /\ UNCHANGED <<up, beacon>>
                            /\ new # None => RoundInv(new, Up, beacon)
<1>1. /\ round \in [Place -> OrNone(Round)] /\ (r # None => r \in Round)
      /\ r # None => RoundInv(r, Up, beacon)
  BY DEF TypeInv, PlacesOK, OrNone, RoundsInv
<1>2. Up \subseteq Server /\ PortOf \in [Server -> Port] /\ beacon \in [Port -> OrNone(Registered)]
      /\ OnePerPort /\ BeaconsAreHome /\ None \notin Server
  BY DiscoveryAssumption DEF TypeInv, ServersOK, Up, RoundsInv
<1>3. CASE BeginRound(p)
  <2> DEFINE new == NewRound(p)
  <2>1. /\ new.asking = new.seen /\ Scanned \subseteq new.seen /\ new.heard = {}
        /\ new.listed = {} /\ new.more = FALSE /\ new.steady = Up
    BY DEF NewRound
  <2>2. round' = [round EXCEPT ![p] = new] /\ UNCHANGED <<up, beacon>>
    BY <1>3 DEF BeginRound
  <2> HIDE DEF new
  <2>3. HeardIsFinite(new) /\ SteadyRuns(new, Up) /\ ScannedIsSeen(new) /\ ListedIsRegistered(new)
    BY <2>1, FS_EmptySet DEF HeardIsFinite, SteadyRuns, ScannedIsSeen, ListedIsRegistered
  <2>4. SeenIsCovered(new) /\ HeardListsPeers(new, beacon) /\ ReachIsCovered(new, beacon)
    BY <2>1 DEF SeenIsCovered, HeardListsPeers, ReachIsCovered, Covered
  <2>5. QED BY <2>2, <2>3, <2>4 DEF RoundInv
<1>4. ASSUME NEW n \in Port, AskClosed(p, n) PROVE Goal
  <2> DEFINE new == [r EXCEPT !.asking = @ \ {n}]
  <2>1. /\ round' = [round EXCEPT ![p] = new] /\ UNCHANGED <<up, beacon>>
        /\ r # None /\ Listening(n, "localhost") = {}
    BY <1>1, <1>4 DEF AskClosed
  <2>2. r \in Round /\ RoundInv(r, Up, beacon)
    BY <1>1, <2>1
  <2> HIDE DEF r
  <2>3. /\ new.asking = r.asking \ {n} /\ new.heard = r.heard /\ new.seen = r.seen
        /\ new.listed = r.listed /\ new.more = r.more /\ new.steady = r.steady
    BY <2>2 DEF Round
  <2> HIDE DEF new
  <2>4. \A t \in r.steady :
          Answers(Info[t], "localhost") /\ PortOf[t] \in r.asking => Covered(new, t)
    BY <2>1, <2>2, <2>3 DEF RoundInv, SteadyRuns, Listening, Covered
  <2>5. IsFiniteSet(new.heard) /\ new.listed \subseteq RegPorts
    BY <2>2, <2>3 DEF RoundInv, HeardIsFinite, ListedIsRegistered
  <2>6. RoundInv(new, Up, beacon)
    BY <2>2, <2>3, <2>4, <2>5, AnswerKeepsRound
  <2>7. QED BY <2>1, <2>6
<1>5. ASSUME NEW n \in Port, AskOpen(p, n) PROVE Goal
  <2>1. PICK s \in Listening(n, "localhost") :
          round' = [round EXCEPT ![p].asking = @ \ {n}, ![p].heard = @ \union {s},
                                 ![p].listed = @ \union Peers(s)]
    BY <1>5 DEF AskOpen
  <2> DEFINE new == [r EXCEPT !.asking = @ \ {n}, !.heard = @ \union {s}, !.listed = @ \union Peers(s)]
  <2>2. round' = [round EXCEPT ![p] = new] /\ UNCHANGED <<up, beacon>> /\ r # None
    BY <1>1, <1>5, <2>1 DEF AskOpen
  <2>3. r \in Round /\ RoundInv(r, Up, beacon)
    BY <1>1, <2>2
  <2> HIDE DEF r
  <2>4. /\ new.asking = r.asking \ {n} /\ new.heard = r.heard \union {s} /\ new.seen = r.seen
        /\ new.listed = r.listed \union Peers(s) /\ new.more = r.more /\ new.steady = r.steady
    BY <2>3 DEF Round
  <2> HIDE DEF new
  <2>5. IsFiniteSet(new.heard)
    <3>1. IsFiniteSet(r.heard)
      BY <2>3 DEF RoundInv, HeardIsFinite
    <3>2. QED BY <2>4, <3>1, FS_AddElement
  <2>6. \A t \in r.steady :
          Answers(Info[t], "localhost") /\ PortOf[t] \in r.asking => Covered(new, t)
    BY <1>2, <2>1, <2>3, <2>4 DEF RoundInv, SteadyRuns, Listening, OnePerPort, Covered
  <2>7. new.listed \subseteq RegPorts
    BY <1>2, <2>3, <2>4, PeersAre DEF TypeInv, RoundInv, ListedIsRegistered
  <2>8. \A t \in Up : Info[s].roxo /\ t # s /\ beacon[PortOf[t]] = t => PortOf[t] \in Peers(s)
    <3> SUFFICES ASSUME NEW t \in Up, Info[s].roxo, t # s, beacon[PortOf[t]] = t
                 PROVE  PortOf[t] \in Peers(s)
      OBVIOUS
    <3>1. PortOf[t] \in Port /\ t # None
      BY <1>2
    <3>2. QED BY <1>2, <3>1, PeersAre DEF TypeInv
  <2>9. \A q \in new.heard \ r.heard, t \in Up :
          Info[q].roxo /\ t # q /\ beacon[PortOf[t]] = t => PortOf[t] \in new.listed
    BY <2>4, <2>8
  <2>10. RoundInv(new, Up, beacon)
    <3>1. r.heard \subseteq new.heard /\ r.listed \subseteq new.listed
      BY <2>4
    <3>2. QED BY <2>3, <2>4, <2>5, <2>6, <2>7, <2>9, <3>1, AnswerKeepsRound
  <2>11. QED BY <2>2, <2>10
<1>6. CASE AskPeers(p)
  <2>1. PICK ports \in Collected(r) :
          round' = [round EXCEPT ![p].asking = ports, ![p].more = TRUE]
    BY <1>6 DEF AskPeers
  <2> DEFINE new == [r EXCEPT !.asking = ports, !.more = TRUE]
  <2>2. /\ round' = [round EXCEPT ![p] = new] /\ UNCHANGED <<up, beacon>>
        /\ r # None /\ r.asking = {}
    BY <1>1, <1>6, <2>1 DEF AskPeers
  <2>3. r \in Round /\ RoundInv(r, Up, beacon)
    BY <1>1, <2>2
  <2> HIDE DEF r
  <2>4. /\ new.asking = ports /\ new.heard = r.heard /\ new.seen = r.seen
        /\ new.listed = r.listed /\ new.more = TRUE /\ new.steady = r.steady
    BY <2>3 DEF Round
  <2> HIDE DEF new
  <2>5. ports = r.listed \ r.seen
    BY <2>1, <2>3, CollectedIs DEF RoundInv
  <2>6. /\ HeardIsFinite(new) /\ SteadyRuns(new, Up) /\ ScannedIsSeen(new)
        /\ ListedIsRegistered(new) /\ HeardListsPeers(new, beacon)
    BY <2>3, <2>4
    DEF RoundInv, HeardIsFinite, SteadyRuns, ScannedIsSeen, ListedIsRegistered, HeardListsPeers
  <2>7. SeenIsCovered(new)
    BY <2>2, <2>3, <2>4 DEF RoundInv, SeenIsCovered, Covered
  <2>8. ReachIsCovered(new, beacon)
    BY <2>2, <2>3, <2>4, <2>5, ReachNow DEF ReachIsCovered, Covered
  <2>9. QED BY <2>2, <2>6, <2>7, <2>8 DEF RoundInv
<1>7. CASE Decline(p) \/ Attach(p)
  BY <1>7 DEF Decline, Attach, Remember
<1>8. QED BY <1>3, <1>4, <1>5, <1>6, <1>7 DEF PluginStep

\* So does every other step, servers that come and go among them.
LEMMA RoundsStep ==
  ASSUME FewPeers, TypeInv, RoundsInv, [Next]_vars
  PROVE  RoundsInv'
<1>1. /\ round \in [Place -> OrNone(Round)] /\ up \in [Server -> {"new", "up", "gone"}]
      /\ beacon \in [Port -> OrNone(Registered)] /\ PortOf \in [Server -> Port]
      /\ Searching \subseteq Place /\ None \notin Server /\ Registered \subseteq Server
  BY DiscoveryAssumption DEF TypeInv, PlacesOK, ServersOK
<1>2. /\ OnePerPort /\ BeaconsAreHome
      /\ \A p \in Place : round[p] # None => RoundInv(round[p], Up, beacon)
  BY DEF RoundsInv
<1>3. ASSUME UNCHANGED <<up, beacon>>
      PROVE  Up' = Up /\ OnePerPort' /\ BeaconsAreHome'
  BY <1>2, <1>3 DEF Up, OnePerPort, BeaconsAreHome
<1>4. CASE UNCHANGED <<up, beacon, round>>
  <2>1. Up' = Up /\ OnePerPort' /\ BeaconsAreHome'
    BY <1>3, <1>4
  <2>2. \A p \in Place : round'[p] # None => RoundInv(round'[p], Up', beacon')
    BY <1>2, <1>4, <2>1
  <2>3. QED BY <2>1, <2>2 DEF RoundsInv
<1>5. ASSUME NEW p \in Searching, PluginStep(p) PROVE RoundsInv'
  <2>1. PICK r : /\ round' = [round EXCEPT ![p] = r] /\ UNCHANGED <<up, beacon>>
                 /\ r # None => RoundInv(r, Up, beacon)
    BY <1>1, <1>5, PluginKeepsRounds
  <2>2. Up' = Up /\ OnePerPort' /\ BeaconsAreHome'
    BY <1>3, <2>1
  <2>3. ASSUME NEW q \in Place, round'[q] # None PROVE RoundInv(round'[q], Up', beacon')
    <3>1. round'[q] = IF q = p THEN r ELSE round[q]
      BY <1>1, <2>1
    <3>2. RoundInv(round'[q], Up, beacon)
      BY <1>2, <2>1, <2>3, <3>1
    <3>3. QED BY <2>1, <2>2, <3>2
  <2>4. QED BY <2>2, <2>3 DEF RoundsInv
<1>6. ASSUME NEW s \in Server, StartServer(s) PROVE RoundsInv'
  <2>1. /\ up[s] = "new" /\ up' = [up EXCEPT ![s] = "up"] /\ round' = round
        /\ \A t \in Up : PortOf[t] # PortOf[s]
        /\ beacon' = beacon \/ beacon' = [beacon EXCEPT ![PortOf[s]] = s]
    BY <1>6 DEF StartServer, place
  <2>2. Up' = Up \union {s} /\ s \notin Up /\ Up \subseteq Server
    BY <1>1, <2>1 DEF Up
  <2>3. OnePerPort'
    BY <1>2, <2>1, <2>2 DEF OnePerPort
  <2>4. BeaconsAreHome'
    BY <1>1, <1>2, <2>1 DEF BeaconsAreHome
  <2>5. ASSUME NEW t \in Up, beacon'[PortOf[t]] = t PROVE beacon[PortOf[t]] = t
    BY <1>1, <2>1, <2>2, <2>5
  <2>6. ASSUME NEW p \in Place, round'[p] # None PROVE RoundInv(round'[p], Up', beacon')
    <3> DEFINE r == round[p]
    <3>1. RoundInv(r, Up, beacon) /\ round'[p] = r
      BY <1>2, <2>1, <2>6
    <3> HIDE DEF r
    <3>2. r.steady \subseteq Up /\ r.steady \subseteq Up'
      BY <2>2, <3>1 DEF RoundInv, SteadyRuns
    <3>3. \A t \in r.steady : beacon'[PortOf[t]] = t => beacon[PortOf[t]] = t
      BY <2>5, <3>2
    <3>4. RoundInv(r, Up', beacon')
      BY <3>1, <3>2, <3>3, ServersKeepRound
    <3>5. QED BY <3>1, <3>4
  <2>7. QED BY <2>3, <2>4, <2>6 DEF RoundsInv
<1>7. ASSUME NEW s \in Server, StopServer(s) PROVE RoundsInv'
  <2>1. /\ up' = [up EXCEPT ![s] = "gone"] /\ beacon' = beacon
        /\ round' = [p \in Place |-> IF round[p] = None THEN None
                                     ELSE [round[p] EXCEPT !.steady = @ \ {s}]]
    BY <1>7 DEF StopServer
  <2>2. Up' = Up \ {s}
    BY <1>1, <2>1 DEF Up
  <2>3. OnePerPort' /\ BeaconsAreHome'
    BY <1>2, <2>1, <2>2 DEF OnePerPort, BeaconsAreHome
  <2>4. ASSUME NEW p \in Place, round'[p] # None PROVE RoundInv(round'[p], Up', beacon')
    <3> DEFINE r == round[p]
               new == [r EXCEPT !.steady = @ \ {s}]
    <3>1. r # None /\ round'[p] = new
      BY <2>1, <2>4
    <3>2. RoundInv(r, Up, beacon) /\ r \in Round
      BY <1>1, <1>2, <3>1 DEF OrNone
    <3> HIDE DEF r
    <3>3. /\ new.asking = r.asking /\ new.heard = r.heard /\ new.seen = r.seen
          /\ new.listed = r.listed /\ new.more = r.more /\ new.steady = r.steady \ {s}
      BY <3>2 DEF Round
    <3> HIDE DEF new
    <3>4. r.steady \subseteq Up
      BY <3>2 DEF RoundInv, SteadyRuns
    <3>5. new.steady \subseteq r.steady /\ new.steady \subseteq Up'
      BY <2>2, <3>3, <3>4
    <3>6. RoundInv(new, Up', beacon')
      BY <2>1, <3>2, <3>3, <3>5, ServersKeepRound
    <3>7. QED BY <3>1, <3>6
  <2>5. QED BY <2>3, <2>4 DEF RoundsInv
<1>8. ASSUME Status PROVE RoundsInv'
  <2>1. /\ up' = up /\ round' = round
        /\ beacon' = [n \in Port |-> IF beacon[n] # None /\ up[beacon[n]] = "gone" THEN None
                                     ELSE beacon[n]]
    BY <1>8 DEF Status, place
  <2>2. Up' = Up /\ Up \subseteq Server
    BY <2>1 DEF Up
  <2>3. \A n \in Port : beacon'[n] = None \/ beacon'[n] = beacon[n]
    BY <2>1
  <2>4. OnePerPort' /\ BeaconsAreHome'
    BY <1>2, <2>2, <2>3 DEF OnePerPort, BeaconsAreHome
  <2>5. ASSUME NEW p \in Place, round'[p] # None PROVE RoundInv(round'[p], Up', beacon')
    <3> DEFINE r == round[p]
    <3>1. RoundInv(r, Up, beacon) /\ round'[p] = r
      BY <1>2, <2>1, <2>5
    <3> HIDE DEF r
    <3>2. r.steady \subseteq Up /\ r.steady \subseteq Up'
      BY <2>2, <3>1 DEF RoundInv, SteadyRuns
    <3>3. \A t \in r.steady : beacon'[PortOf[t]] = t => beacon[PortOf[t]] = t
      BY <1>1, <2>2, <2>3, <3>2
    <3>4. RoundInv(r, Up', beacon')
      BY <3>1, <3>2, <3>3, ServersKeepRound
    <3>5. QED BY <3>1, <3>4
  <2>6. QED BY <2>4, <2>5 DEF RoundsInv
<1>9. ASSUME NEW p \in Searching, UserStep(p) \/ \E k \in Slot : SessionStep(p, k)
      PROVE  RoundsInv'
  BY <1>4, <1>9 DEF UserStep, Accept, Abort, Disconnect, ConnectByHand, SessionStep, Open, AskUser, OpenFails, Lose
<1>10. QED
  BY <1>4, <1>5, <1>6, <1>7, <1>8, <1>9 DEF Next, Look, Deliver, Lost, Tick, vars, place

-----------------------------------------------------------------------------
(* The sessions of a place.                                                *)

\* A step of one place on one of its slots.
LEMMA SlotKeepsSessions ==
  ASSUME TypeInv, SessionsInv, NEW p \in Place, NEW k \in Slot, NEW new, NEW c,
         session' = [session EXCEPT ![p] = [session[p] EXCEPT ![k] = new]],
         current' = [current EXCEPT ![p] = c],
         \A q \in Place \ {p} : /\ shown'[q] = shown[q] /\ overlapped'[q] = overlapped[q]
                                /\ (round'[q] = None <=> round[q] = None),
         overlapped[p] => overlapped'[p],
         ~overlapped'[p] => /\ \A j \in Slot : j # k /\ session[p][j] # None => c = j
                            /\ new # None => c = k
                            /\ round'[p] # None => c = None
                            /\ shown'[p] = "connected" => c = k /\ k # None /\ new.to # None
  PROVE  SessionsInv'
<1>1. /\ session \in [Place -> [Slot -> OrNone(ServeSession)]] /\ current \in [Place -> OrNone(Slot)]
  BY DEF TypeInv, AppOK
<1>2. /\ session'[p][k] = new /\ current'[p] = c
      /\ \A j \in Slot : j # k => session'[p][j] = session[p][j]
      /\ \A q \in Place : q # p => session'[q] = session[q] /\ current'[q] = current[q]
  BY <1>1
<1>3. ASSUME NEW q \in Place, q # p, ~overlapped'[q] PROVE OneSession(q)'
  BY <1>2, <1>3 DEF SessionsInv, OneSession
<1>4. ASSUME ~overlapped'[p] PROVE OneSession(p)'
  <2>1. \A j \in Slot : session'[p][j] # None => current'[p] = j
    BY <1>2, <1>4
  <2>2. shown'[p] = "connected" => current'[p] # None /\ session'[p][current'[p]].to # None
    BY <1>2, <1>4
  <2>3. QED BY <1>2, <1>4, <2>1, <2>2 DEF OneSession
<1>5. QED BY <1>3, <1>4 DEF SessionsInv

\* startSession and the handlers of its promises keep one session for a place.
LEMMA SessionsStep ==
  ASSUME TypeInv, SessionsInv, [Next]_vars
  PROVE  SessionsInv'
<1>1. /\ session \in [Place -> [Slot -> OrNone(ServeSession)]] /\ current \in [Place -> OrNone(Slot)]
      /\ shown \in [Place -> Page] /\ overlapped \in [Place -> BOOLEAN]
      /\ round \in [Place -> OrNone(Round)]
      /\ Searching \subseteq Place /\ None \notin Slot /\ AppOK
  BY DiscoveryAssumption DEF TypeInv, AppOK, PlacesOK
<1>2. ASSUME NEW p \in Place, ~overlapped[p]
      PROVE  /\ \A k \in Slot : session[p][k] # None => current[p] = k
             /\ round[p] # None => current[p] = None
             /\ shown[p] = "connected" => current[p] # None /\ session[p][current[p]].to # None
  BY <1>2 DEF SessionsInv, OneSession
<1>3. ASSUME NEW p \in Place, NEW n \in Port, NEW j \in OrNone(Server), StartSession(p, n, j),
             \A q \in Place \ {p} : overlapped'[q] = overlapped[q] /\ round'[q] = round[q],
             overlapped[p] => overlapped'[p],
             ~overlapped'[p] => round'[p] = None /\ current[p] = None
      PROVE  SessionsInv'
  <2> DEFINE new == [port |-> n, judged |-> j, asks |-> None, to |-> None, stopped |-> FALSE]
  <2>a. AppOK
    BY DEF TypeInv
  <2>1. PICK k \in Slot :
          /\ new \in ServeSession /\ new # None
          /\ session[p][k] = None
          /\ session' = [session EXCEPT ![p] = [session[p] EXCEPT ![k] = new]]
          /\ current' = [current EXCEPT ![p] = k]
          /\ shown' = [shown EXCEPT ![p] = "other"]
    BY <1>3, <2>a, StartSessionIs
  <2> HIDE DEF new
  <2>2. \A q \in Place \ {p} : shown'[q] = shown[q]
    BY <1>1, <2>1
  <2>3. shown'[p] # "connected"
    BY <1>1, <2>1
  <2>4. ~overlapped'[p] => \A i \in Slot : session[p][i] = None
    BY <1>1, <1>2, <1>3
  <2>5. /\ \A q \in Place \ {p} : /\ shown'[q] = shown[q] /\ overlapped'[q] = overlapped[q]
                                  /\ (round'[q] = None <=> round[q] = None)
        /\ overlapped[p] => overlapped'[p]
    BY <1>3, <2>2
  <2>6. ~overlapped'[p] => /\ \A j1 \in Slot : j1 # k /\ session[p][j1] # None => k = j1
                           /\ new # None => k = k
                           /\ round'[p] # None => k = None
                           /\ shown'[p] = "connected" => k = k /\ k # None /\ new.to # None
    BY <1>3, <2>3, <2>4
  <2>7. QED BY <2>1, <2>5, <2>6, SlotKeepsSessions
<1>4. ASSUME NEW p \in Place, Attach(p) PROVE SessionsInv'
  <2> DEFINE s == Chosen(Candidates(p))
  <2>1. /\ round[p] # None /\ s # None /\ StartSession(p, PortOf[s], s)
        /\ round' = [round EXCEPT ![p] = None] /\ overlapped' = overlapped
    BY <1>4 DEF Attach, RoundIsOver, Remember
  <2>2. s \in Server
    <3>1. Candidates(p) \subseteq Server
      BY <1>1, <2>1 DEF Candidates, OrNone, Round
    <3>2. Cardinality(Candidates(p)) = 1 /\ s = CHOOSE x \in Candidates(p) : TRUE
      BY <2>1 DEF Chosen
    <3>3. Candidates(p) # {}
      BY <3>2, FS_EmptySet
    <3>4. QED BY <3>1, <3>2, <3>3
  <2> HIDE DEF s
  <2>3. s \in OrNone(Server) /\ PortOf[s] \in Port
    BY <2>2, DiscoveryAssumption DEF OrNone
  <2>4. QED BY <1>1, <1>2, <1>3, <2>1, <2>3
<1>5. ASSUME NEW p \in Place, NEW n \in Port, ConnectByHand(p, n) PROVE SessionsInv'
  <2>1. /\ StartSession(p, n, None) /\ round' = round
        /\ overlapped' = [overlapped EXCEPT ![p] = @ \/ round[p] # None \/ current[p] # None]
    BY <1>5 DEF ConnectByHand
  <2>2. overlapped'[p] = (overlapped[p] \/ round[p] # None \/ current[p] # None)
    BY <1>1, <2>1
  <2>3. \A q \in Place \ {p} : overlapped'[q] = overlapped[q]
    BY <1>1, <2>1
  <2>4. None \in OrNone(Server)
    BY DEF OrNone
  <2>5. QED BY <1>3, <2>1, <2>2, <2>3, <2>4
<1>6. ASSUME NEW p \in Place, NEW k \in Slot, Open(p, k) PROVE SessionsInv'
  <2>1. PICK s \in Server : session' = [session EXCEPT ![p][k].to = s, ![p][k].judged = None]
    BY <1>6 DEF Open, Welcoming, Listening, Up
  <2> DEFINE new == [session[p][k] EXCEPT !.to = s, !.judged = None]
  <2>2. session[p][k] \in ServeSession /\ session[p][k] # None
    BY <1>1, <1>6 DEF Open, Connecting, OrNone
  <2>3. new.to = s
    BY <2>2 DEF ServeSession
  <2>4. session' = [session EXCEPT ![p] = [session[p] EXCEPT ![k] = new]]
    BY <1>1, <2>1
  <2> HIDE DEF new
  <2>5. s # None /\ k # None
    BY DiscoveryAssumption
  <2>6. /\ current' = [current EXCEPT ![p] = current[p]]
        /\ overlapped' = overlapped /\ round' = round
        /\ \A q \in Place \ {p} : shown'[q] = shown[q]
    BY <1>1, <1>6 DEF Open
  <2>7. ~overlapped[p] => /\ current[p] = k /\ round[p] = None
                          /\ \A j \in Slot : session[p][j] # None => j = k
    BY <1>2, <2>2, <2>5
  <2>8. QED BY <2>3, <2>4, <2>5, <2>6, <2>7, SlotKeepsSessions
<1>7. ASSUME NEW p \in Place, NEW k \in Slot, session[p][k] # None,
             EndSession(p, k) \/ EndSilently(p, k), UNCHANGED <<overlapped, round>>
      PROVE  SessionsInv'
  <2>1. session' = [session EXCEPT ![p] = [session[p] EXCEPT ![k] = None]] /\ k # None
    BY <1>7, DiscoveryAssumption DEF EndSession, EndSilently
  <2>2. ~overlapped[p] => /\ current[p] = k
                          /\ \A j \in Slot : session[p][j] # None => j = k
    BY <1>2, <1>7
  <2>3. CASE EndSession(p, k)
    <3>1. /\ current' = [current EXCEPT ![p] = None] /\ shown'[p] # "connected"
          /\ \A q \in Place \ {p} : shown'[q] = shown[q]
      BY <1>1, <2>3 DEF EndSession
    <3>2. QED BY <1>7, <2>1, <2>2, <3>1, SlotKeepsSessions
  <2>4. CASE EndSilently(p, k)
    <3>1. /\ current' = [current EXCEPT ![p] = current[p]]
          /\ \A q \in Place \ {p} : shown'[q] = shown[q]
      BY <1>1, <2>4 DEF EndSilently
    <3>2. overlapped[p]
      BY <1>1, <2>1, <2>2, <2>4 DEF EndSilently, AppOK
    <3>3. QED BY <1>7, <2>1, <3>1, <3>2, SlotKeepsSessions
  <2>5. QED BY <1>7, <2>3, <2>4
<1>8. ASSUME NEW p \in Place, Disconnect(p) PROVE SessionsInv'
  <2> DEFINE k == current[p]
             new == IF session[p][k].to # None THEN None
                    ELSE [session[p][k] EXCEPT !.stopped = TRUE]
  <2>1. k \in Slot /\ k # None /\ (shown[p] = "connected" \/ session[p][k].to # None)
    BY <1>1, <1>8 DEF Disconnect, OrNone
  <2>2. session' = [session EXCEPT ![p] = [session[p] EXCEPT ![k] = new]]
    BY <1>1, <1>8 DEF Disconnect
  <2>3. /\ current' = [current EXCEPT ![p] = None] /\ shown'[p] # "connected"
        /\ \A q \in Place \ {p} : shown'[q] = shown[q]
        /\ UNCHANGED <<overlapped, round>>
    BY <1>1, <1>8 DEF Disconnect
  <2>4. ~overlapped[p] => new = None /\ \A j \in Slot : session[p][j] # None => j = k
    BY <1>2, <2>1
  <2> HIDE DEF new, k
  <2>5. QED BY <2>1, <2>2, <2>3, <2>4, SlotKeepsSessions
<1>9. ASSUME NEW p \in Place, NEW k \in Slot, AskUser(p, k) PROVE SessionsInv'
  <2>1. PICK s \in Server : session' = [session EXCEPT ![p][k].asks = s]
    BY <1>9 DEF AskUser, Welcoming, Listening, Up
  <2> DEFINE new == [session[p][k] EXCEPT !.asks = s]
  <2>2. session[p][k] # None
    BY <1>9 DEF AskUser, Connecting
  <2>3. session' = [session EXCEPT ![p] = [session[p] EXCEPT ![k] = new]]
    BY <1>1, <2>1
  <2> HIDE DEF new
  <2>4. /\ current' = [current EXCEPT ![p] = current[p]]
        /\ overlapped' = overlapped /\ round' = round
        /\ shown'[p] # "connected" /\ \A q \in Place \ {p} : shown'[q] = shown[q]
    BY <1>1, <1>9 DEF AskUser
  <2>5. ~overlapped[p] => /\ current[p] = k /\ round[p] = None
                          /\ \A j \in Slot : session[p][j] # None => j = k
    BY <1>1, <1>2, <2>2
  <2>6. QED BY <2>3, <2>4, <2>5, SlotKeepsSessions
<1>10. ASSUME NEW p \in Place, Accept(p) \/ Abort(p) PROVE SessionsInv'
  <2>1. PICK k \in Slot : session[p][k] # None /\ session[p][k].asks # None
    BY <1>10 DEF Accept, Abort, Waiting
  <2>2. /\ \A q \in Place \ {p} : /\ session'[q] = session[q] /\ current'[q] = current[q]
                                  /\ shown'[q] = shown[q]
        /\ overlapped' = overlapped /\ round' = round
    BY <1>1, <1>10 DEF Accept, Abort
  <2>3. ASSUME NEW q \in Place \ {p}, ~overlapped[q] PROVE OneSession(q)'
    BY <1>2, <2>2, <2>3 DEF OneSession
  <2>4. ASSUME ~overlapped[p] PROVE OneSession(p)'
    <3>1. /\ current[p] = k /\ round[p] = None /\ k # None
          /\ \A j \in Slot : session[p][j] # None => j = k
      BY <1>1, <1>2, <2>1, <2>4
    <3>2. k \in Waiting(p) /\ ~session[p][k].stopped
      BY <1>1, <2>1, <3>1 DEF Waiting, AppOK
    <3>3. CASE Accept(p)
      <4> DEFINE new == [session[p][k] EXCEPT !.to = session[p][k].asks, !.asks = None]
      <4>1. new.to # None
        BY <1>1, <2>1 DEF ServeSession, OrNone
      <4> HIDE DEF new
      <4>2. /\ session'[p][k] = new /\ current'[p] = k
            /\ \A j \in Slot : session'[p][j] # None => j = k
        BY <1>1, <3>1, <3>2, <3>3 DEF Accept, Waiting, new
      <4>3. QED BY <2>2, <3>1, <4>1, <4>2 DEF OneSession
    <3>4. CASE Abort(p)
      <4>1. /\ current'[p] = None /\ shown'[p] # "connected"
            /\ \A j \in Slot : session'[p][j] = None
        BY <1>1, <3>1, <3>2, <3>4 DEF Abort, Waiting
      <4>2. QED BY <2>2, <3>1, <4>1 DEF OneSession
    <3>5. QED BY <1>10, <3>3, <3>4
  <2>5. QED BY <2>2, <2>3, <2>4 DEF SessionsInv
<1>11. ASSUME UNCHANGED <<app>>,
             \A p \in Place : round'[p] # None => round[p] # None \/ current[p] = None
      PROVE  SessionsInv'
  BY <1>11 DEF SessionsInv, OneSession, app
<1>12. ASSUME NEW p \in Searching, PluginStep(p) PROVE SessionsInv'
  <2>1. CASE Attach(p)
    BY <1>1, <1>4, <2>1
  <2>2. CASE BeginRound(p)
    <3>1. UNCHANGED <<app>> /\ current[p] = None /\ \A q \in Place \ {p} : round'[q] = round[q]
      BY <1>1, <2>2 DEF BeginRound
    <3>2. QED BY <1>11, <3>1
  <2>3. CASE \/ \E n \in Port : AskClosed(p, n) \/ AskOpen(p, n)
             \/ AskPeers(p) \/ Decline(p)
    <3>1. UNCHANGED <<app>> /\ round[p] # None /\ \A q \in Place \ {p} : round'[q] = round[q]
      BY <1>1, <2>3 DEF AskClosed, AskOpen, AskPeers, Decline, Remember, RoundIsOver
    <3>2. QED BY <1>11, <3>1
  <2>4. QED BY <1>12, <2>1, <2>2, <2>3 DEF PluginStep
<1>13. ASSUME NEW p \in Searching, UserStep(p) \/ \E k \in Slot : SessionStep(p, k)
       PROVE  SessionsInv'
  BY <1>1, <1>5, <1>6, <1>7, <1>8, <1>13, <1>9, <1>10
  DEF UserStep, SessionStep, OpenFails, Lose, Connecting
<1>14. ASSUME NEW s \in Server, StopServer(s) PROVE SessionsInv'
  <2>1. UNCHANGED <<app>> /\ \A p \in Place : round[p] = None => round'[p] = None
    BY <1>14 DEF StopServer
  <2>2. QED BY <1>11, <2>1
<1>15. CASE UNCHANGED <<app, round>>
  BY <1>11, <1>15
<1>16. QED
  BY <1>12, <1>13, <1>14, <1>15
  DEF Next, Look, Deliver, Lost, StartServer, Status, Tick, vars, place

\* Only attaching starts a session that discovery judged.
LEMMA OnlyAttachJudges ==
  ASSUME TypeInv, [Next]_vars, NEW p \in Place, NEW k \in Slot,
         session[p][k] = None, session'[p][k] # None, session'[p][k].judged # None
  PROVE  Attach(p) /\ session'[p][k].judged = Chosen(Candidates(p))
<1>1. /\ session \in [Place -> [Slot -> OrNone(ServeSession)]]
      /\ Searching \subseteq Place /\ PortOf \in [Server -> Port]
  BY DiscoveryAssumption DEF TypeInv, AppOK
<1>2. ASSUME NEW q \in Place, NEW j \in Slot, NEW new,
             session' = [session EXCEPT ![q] = [session[q] EXCEPT ![j] = new]]
      PROVE  q = p /\ j = k /\ session'[p][k] = new
  <2>1. session'[p][k] = IF q = p /\ j = k THEN new ELSE session[p][k]
    BY <1>1, <1>2
  <2>2. QED BY <2>1
<1>3. ASSUME session' = session PROVE FALSE
  BY <1>3
<1>4. ASSUME NEW q \in Place, NEW n, NEW judged, StartSession(q, n, judged)
      PROVE  q = p /\ session'[p][k].judged = judged
  <2> DEFINE j == CHOOSE i \in Free(q) : TRUE
             new == [port |-> n, judged |-> judged, asks |-> None, to |-> None, stopped |-> FALSE]
  <2>1. Free(q) # {} /\ session' = [session EXCEPT ![q][j] = new]
    BY <1>4 DEF StartSession
  <2>2. j \in Free(q)
    BY <2>1
  <2> HIDE DEF j
  <2>3. j \in Slot
    BY <2>2 DEF Free
  <2>4. new.judged = judged
    OBVIOUS
  <2> HIDE DEF new
  <2>5. session' = [session EXCEPT ![q] = [session[q] EXCEPT ![j] = new]]
    BY <2>1
  <2>6. QED BY <1>2, <2>3, <2>4, <2>5
<1>5. ASSUME NEW q \in Place, Attach(q)
      PROVE  Attach(p) /\ session'[p][k].judged = Chosen(Candidates(p))
  <2>1. StartSession(q, PortOf[Chosen(Candidates(q))], Chosen(Candidates(q)))
    BY <1>5 DEF Attach
  <2>2. q = p /\ session'[p][k].judged = Chosen(Candidates(q))
    BY <1>4, <2>1
  <2>3. QED BY <1>5, <2>2
<1>6. ASSUME NEW q \in Place, NEW n \in Port, ConnectByHand(q, n) PROVE FALSE
  <2>1. StartSession(q, n, None)
    BY <1>6 DEF ConnectByHand
  <2>2. QED BY <1>4, <2>1
<1>7. ASSUME NEW q \in Place, NEW j \in Slot, Open(q, j) PROVE FALSE
  <2>1. PICK s : session' = [session EXCEPT ![q][j].to = s, ![q][j].judged = None]
    BY <1>7 DEF Open
  <2> DEFINE new == [session[q][j] EXCEPT !.to = s, !.judged = None]
  <2>2. session' = [session EXCEPT ![q] = [session[q] EXCEPT ![j] = new]] /\ session[q][j] # None
    BY <1>1, <1>7, <2>1 DEF Open, Connecting
  <2> HIDE DEF new
  <2>3. QED BY <1>2, <2>2
<1>8. ASSUME NEW q \in Place, NEW j \in Slot, AskUser(q, j) PROVE FALSE
  <2>1. PICK s : session' = [session EXCEPT ![q][j].asks = s]
    BY <1>8 DEF AskUser
  <2> DEFINE new == [session[q][j] EXCEPT !.asks = s]
  <2>2. session' = [session EXCEPT ![q] = [session[q] EXCEPT ![j] = new]] /\ session[q][j] # None
    BY <1>1, <1>8, <2>1 DEF AskUser, Connecting
  <2> HIDE DEF new
  <2>3. QED BY <1>2, <2>2
<1>9. ASSUME NEW q \in Place, Accept(q) \/ Abort(q) PROVE FALSE
  <2>1. CASE q # p
    BY <1>1, <1>9, <2>1 DEF Accept, Abort
  <2>2. CASE q = p
    <3>1. k \notin Waiting(p)
      BY DEF Waiting
    <3>2. CASE Accept(p)
      BY <1>1, <3>1, <3>2 DEF Accept
    <3>3. CASE Abort(p)
      BY <1>1, <3>1, <3>3 DEF Abort
    <3>4. QED BY <1>9, <2>2, <3>2, <3>3
  <2>3. QED BY <2>1, <2>2
<1>10. ASSUME NEW q \in Place, NEW j \in Slot, EndSession(q, j) \/ EndSilently(q, j) PROVE FALSE
  <2>1. session' = [session EXCEPT ![q] = [session[q] EXCEPT ![j] = None]]
    BY <1>10 DEF EndSession, EndSilently
  <2>2. QED BY <1>2, <2>1
<1>11. ASSUME NEW q \in Place, Disconnect(q) PROVE FALSE
  <2> DEFINE j == current[q]
             new == IF session[q][j].to # None THEN None
                    ELSE [session[q][j] EXCEPT !.stopped = TRUE]
  <2>1. j \in Slot /\ session[q][j] # None
    BY <1>11 DEF Disconnect, TypeInv, AppOK, OrNone
  <2>2. session' = [session EXCEPT ![q] = [session[q] EXCEPT ![j] = new]]
    BY <1>1, <1>11 DEF Disconnect
  <2> HIDE DEF new, j
  <2>3. QED BY <1>2, <2>1, <2>2
<1>12. ASSUME NEW q \in Searching, PluginStep(q)
       PROVE  Attach(p) /\ session'[p][k].judged = Chosen(Candidates(p))
  BY <1>1, <1>3, <1>5, <1>12
  DEF PluginStep, BeginRound, AskClosed, AskOpen, AskPeers, Decline, app
<1>13. ASSUME NEW q \in Searching, UserStep(q) \/ \E j \in Slot : SessionStep(q, j) PROVE FALSE
  BY <1>1, <1>6, <1>7, <1>10, <1>11, <1>13, <1>8, <1>9 DEF UserStep, SessionStep, OpenFails, Lose
<1>14. QED
  BY <1>3, <1>12, <1>13
  DEF Next, Look, Deliver, Lost, StartServer, StopServer, Status, Tick, vars, place, app

\* What one step of attaching has seen.
Alone(p, k) ==
  session[p][k] = None /\ session'[p][k] # None /\ session'[p][k].judged # None =>
    LET s == session'[p][k].judged
    IN  /\ Claims(Info[s], p, round[p].paired)
        /\ \A t \in round[p].steady \ {s} :
             Findable(t, round[p].steady) => ~Claims(Info[t], p, round[p].paired)
        /\ overlapped[p] \/ \A j \in Slot : session[p][j] = None

\* A round that is over has one candidate when it attaches.
LEMMA AloneStep ==
  ASSUME FewPeers, TypeInv, RoundsInv, SessionsInv, [Next]_vars, NEW p \in Place, NEW k \in Slot
  PROVE  Alone(p, k)
<1> SUFFICES ASSUME session[p][k] = None, session'[p][k] # None, session'[p][k].judged # None
             PROVE  LET s == session'[p][k].judged
                    IN  /\ Claims(Info[s], p, round[p].paired)
                        /\ \A t \in round[p].steady \ {s} :
                             Findable(t, round[p].steady) => ~Claims(Info[t], p, round[p].paired)
                        /\ overlapped[p] \/ \A j \in Slot : session[p][j] = None
  BY DEF Alone
<1> DEFINE s == session'[p][k].judged
           r == round[p]
<1>1. Attach(p) /\ s = Chosen(Candidates(p)) /\ s # None
  BY OnlyAttachJudges
<1>2. RoundIsOver(r) /\ r # None /\ RoundInv(r, Up, beacon)
  BY <1>1 DEF Attach, RoundIsOver, RoundsInv
<1>3. Candidates(p) = {u \in r.heard : Claims(Info[u], p, r.paired)}
  BY DEF Candidates
<1>4. overlapped[p] \/ \A j \in Slot : session[p][j] = None
  <2>1. None \notin Slot
    BY DiscoveryAssumption
  <2>2. QED BY <1>2, <2>1 DEF SessionsInv, OneSession
<1> HIDE DEF s, r
<1>5. Candidates(p) = {s}
  <2>1. Cardinality(Candidates(p)) = 1 /\ s = CHOOSE x \in Candidates(p) : TRUE
    BY <1>1 DEF Chosen
  <2>2. IsFiniteSet(r.heard) /\ Candidates(p) \in SUBSET r.heard
    BY <1>2, <1>3 DEF RoundInv, HeardIsFinite
  <2>3. IsFiniteSet(Candidates(p))
    BY <2>2, FS_Subset
  <2>4. PICK x : Candidates(p) = {x}
    BY <2>1, <2>3, FS_Singleton
  <2>5. s \in Candidates(p)
    BY <2>1, <2>4
  <2>6. QED BY <2>4, <2>5
<1>6. Claims(Info[s], p, r.paired)
  BY <1>3, <1>5
<1>7. ASSUME NEW t \in r.steady \ {s}, Findable(t, r.steady) PROVE ~Claims(Info[t], p, r.paired)
  <2>1. InReach(t, r.steady, beacon)
    BY <1>7 DEF Findable, InReach
  <2>2. t \in r.heard
    BY <1>2, <2>1, OverHeardAll
  <2>3. QED BY <1>3, <1>5, <1>7, <2>2
<1>8. QED BY <1>4, <1>6, <1>7 DEF s, r

\* "Two matches connects to neither", whatever the number of places, servers and
\* ports, as long as the registered sessions fit in one report of peers: a place
\* that attaches by itself does so to the one server that claims it of all that
\* ran in its reach during the round, and has no other session, unless Connect
\* was pressed meanwhile (AutoConnect.lua discover, App tryAutoConnect).
THEOREM AttachesAlone ==
  ASSUME FewPeers
  PROVE  Spec => AloneWhenChosen
<1>1. Init => RoundsInv /\ SessionsInv
  <2> SUFFICES ASSUME Init PROVE RoundsInv /\ SessionsInv
    OBVIOUS
  <2>1. Up = {} /\ \A n \in Port : beacon[n] = None
    BY DEF Init, Up
  <2>2. \A p \in Place : round[p] = None /\ shown[p] # "connected" /\ \A k \in Slot : session[p][k] = None
    BY DEF Init
  <2>3. QED BY <2>1, <2>2 DEF RoundsInv, OnePerPort, BeaconsAreHome, SessionsInv, OneSession
<1>2. TypeInv /\ RoundsInv /\ SessionsInv /\ [Next]_vars => RoundsInv' /\ SessionsInv'
  BY RoundsStep, SessionsStep
<1>3. TypeInv /\ RoundsInv /\ SessionsInv /\ [Next]_vars =>
        [\A p \in Place, k \in Slot : Alone(p, k)]_vars
  BY AloneStep
<1>4. Spec => [][\A p \in Place, k \in Slot : Alone(p, k)]_vars
  BY <1>1, <1>2, <1>3, TypesHold, PTL DEF Spec
<1>5. QED BY <1>4 DEF AloneWhenChosen, Alone
=============================================================================
