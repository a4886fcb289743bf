---------------------------- MODULE AutoConnect ----------------------------
(* What a serve session says of itself, which requests it answers, and     *)
(* whether a Studio place may attach to it unattended: evaluate and choose *)
(* in the plugin's AutoConnect.lua, the policy of auto_connect.rs, the     *)
(* request origin check of web/origin.rs, and the advice of                *)
(* cli/diagnose.rs.                                                        *)
(*                                                                         *)
(* A server's info is a record                                             *)
(*   roxo      whether it is Roxo: policy, project id, peers, capabilities *)
(*   protocol  whether it speaks the plugin's protocol version             *)
(*   serve, blocked  servePlaceIds (None or a set) and blockedPlaceIds     *)
(*   policy, game, project                                                 *)
(*   bind, ipv6, hosts  the kind of its bind address, whether it is an     *)
(*                   IPv6 one, and the allowed hosts                       *)
(* Addresses are kinds: "loopback", "lan" (private or link-local), "any"   *)
(* (unspecified) and "public"; the machine has one of each, and other      *)
(* hosts are names.                                                        *)
EXTENDS Integers, FiniteSets

CONSTANTS None, Place, PlaceId, GameId

\* What a server can report of itself.
Infos(Ids, Projects) ==
  [roxo : BOOLEAN, protocol : BOOLEAN,
   serve : {None} \union SUBSET Ids, blocked : SUBSET Ids,
   policy : {"off", "matching", "always", None},
   game : {None} \union Ids, project : {None} \union Projects,
   bind : {"loopback", "lan", "any", "public"}, ipv6 : BOOLEAN, hosts : SUBSET STRING]

-----------------------------------------------------------------------------
(* Requests.                                                               *)

\* allowed_hosts: None where every host is taken.
AllowedHosts(info) ==
  IF info.bind \in {"any", "public"} /\ info.hosts = {}
  THEN None
  ELSE [ip |-> IF info.bind \in {"loopback", "any"} THEN None ELSE info.bind,
        extra |-> info.hosts]

\* AllowedHosts::allows, for a request with the server's port or none.
Allows(allowed, host) == host \in {"localhost", "loopback", allowed.ip} \union allowed.extra

\* check_request_origin.  Neither the plugin nor roxo sends an Origin.
Admits(info, host) == AllowedHosts(info) = None \/ Allows(AllowedHosts(info), host)

\* Whether a connection to the host from this machine reaches the listener; None
\* is what is no host.
Reaches(host, bind) == /\ host # None
                       /\ \/ bind = "any"
                          \/ host = bind
                          \/ host = "localhost" /\ bind = "loopback"

Answers(info, host) == Reaches(host, info.bind) /\ Admits(info, host)

\* The host of SessionBeacon::base_url: the bind address; but an IPv6 address is
\* written without brackets, which is no URL.
BaseHost(info) == IF info.ipv6 THEN None ELSE info.bind

-----------------------------------------------------------------------------
(* Identity.                                                               *)

Matches == {"serve-place-ids", "game-id", "paired", "declared"}

\* A server that reports no policy is taken to say "matching".
Policy(info) == IF info.policy = None THEN "matching" ELSE info.policy

Listed(info, p) == info.serve # None /\ PlaceId[p] \in info.serve

\* evaluate: why the place may attach, or the code of why not.  paired is the
\* project this place was last connected with.
Evaluate(info, p, paired) ==
  IF ~info.protocol THEN "protocol-mismatch"
  ELSE IF PlaceId[p] \in info.blocked THEN "blocked-place"
  ELSE IF info.serve # None /\ ~Listed(info, p) THEN "not-in-serve-place-ids"
  ELSE IF Policy(info) = "off" THEN "auto-connect-off"
  ELSE IF PlaceId[p] # 0 /\ Listed(info, p) THEN "serve-place-ids"
  ELSE IF GameId[p] # 0 /\ info.game = GameId[p] THEN "game-id"
  ELSE IF PlaceId[p] # 0 /\ info.project # None /\ paired = info.project THEN "paired"
  ELSE IF PlaceId[p] = 0
       THEN IF Policy(info) = "always" THEN "declared" ELSE "unpublished-place"
  ELSE IF Policy(info) = "always" THEN "always-on-published-place"
  ELSE "no-identity-match"

Claims(info, p, paired) == Evaluate(info, p, paired) \in Matches

\* choose: a candidate only if it is the only one.
Chosen(candidates) ==
  IF Cardinality(candidates) = 1 THEN CHOOSE s \in candidates : TRUE ELSE None

\* What a session that was asked for checks again: rejectWrongProtocolVersion
\* and rejectWrongPlaceId, and nothing else.
Accepts(info, p) == /\ info.protocol
                    /\ info.serve # None => Listed(info, p)
                    /\ PlaceId[p] \notin info.blocked

-----------------------------------------------------------------------------
(* Advice.                                                                 *)

ServePlace(info, p) ==
  IF PlaceId[p] = 0 THEN info
  ELSE [info EXCEPT !.serve = {PlaceId[p]} \union (IF @ = None THEN {} ELSE @)]

\* As if the policy could let a published place in.
FixedByPolicy(info, p, code) ==
  IF code \in {"auto-connect-off", "unpublished-place", "no-identity-match"}
  THEN [info EXCEPT !.policy = "always"]
  ELSE ServePlace(info, p)

\* apply_fix: the server's info after the suggested edit of its project file
\* and a restart; None where no edit is suggested.
Fixed(info, p, code) ==
  IF code \in {"not-in-serve-place-ids", "no-identity-match", "always-on-published-place"}
  THEN ServePlace(info, p)
  ELSE IF code = "auto-connect-off" THEN ServePlace([info EXCEPT !.policy = "matching"], p)
  ELSE IF code = "unpublished-place" THEN [info EXCEPT !.policy = "always"]
  ELSE None
=============================================================================
