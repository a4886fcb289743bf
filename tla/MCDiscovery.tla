---------------------------- MODULE MCDiscovery ----------------------------
(* Discovery for TLC: a place that searches and one that only looks; a     *)
(* server on the scanned port that lists the place, one on another port    *)
(* that has its game, and a third, which a connection by hand pairs with   *)
(* it, that takes the scanned port before or after the first.              *)
EXTENDS Discovery, TLC

CONSTANTS p, q, a, b, c

MCPlaceId == [x \in Place |-> IF x = p THEN 11 ELSE 12]
MCGameId == [x \in Place |-> IF x = p THEN 7 ELSE 0]
MCPortOf == [s \in Server |-> IF s = b THEN 2 ELSE 1]

Server0 == [roxo |-> TRUE, protocol |-> TRUE, serve |-> None, blocked |-> {},
            policy |-> "matching", game |-> None, project |-> None,
            bind |-> "loopback", ipv6 |-> FALSE, hosts |-> {}]
MCInfo ==
  [s \in Server |->
     IF s = a THEN [Server0 EXCEPT !.serve = {11}]
     ELSE IF s = b THEN [Server0 EXCEPT !.game = 7, !.bind = "any", !.hosts = {"box"}]
     ELSE [Server0 EXCEPT !.project = c]]
=============================================================================
