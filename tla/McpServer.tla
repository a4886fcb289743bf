------------------------------ MODULE McpServer ------------------------------
(***************************************************************************)
(* The MCP server's session tools (roxo_serve_start, roxo_serve_stop and   *)
(* the clean-up at the end) over the session registry: the MCP server      *)
(* starts `roxo serve` as a child and polls list() until the child's       *)
(* beacon appears or the deadline passes.  It is single-threaded: while a  *)
(* start is under way it answers nothing else and does not see its input   *)
(* close.                                                                  *)
(***************************************************************************)
EXTENDS SessionRegistry

CONSTANT MaxPolls   \* SERVE_START_TIMEOUT, in polls

ASSUME PollsAssumption == MaxPolls \in Nat

VARIABLES
  mcp,       \* "idle", "starting", "exited" or "crashed"
  child,     \* the process a start waits for
  polls,     \* how many polls it has made
  spawned,   \* McpServer.spawned
  children,  \* history: every process the MCP server started
  unheard    \* history: children whose start ended because list() failed

mcpVars == <<mcp, child, polls, spawned, children, unheard>>
vars == <<registryVars, mcpVars>>

Init == /\ RegistryInit
        /\ mcp = "idle" /\ child = None /\ polls = 0
        /\ spawned = [n \in Port |-> None]
        /\ children = {} /\ unheard = {}

-----------------------------------------------------------------------------
\* tool_serve_start spawns the child ...
ServeStart(p, n) == /\ mcp = "idle"
                    /\ Launch(p, n)
                    /\ mcp' = "starting" /\ child' = p /\ polls' = 0
                    /\ children' = children \union {p}
                    /\ UNCHANGED <<spawned, unheard>>

\* list() does not return p: it has no beacon, or is misjudged, also by the
\* MCP server's own listing.
Missed(p) == ~Listed(p) \/ p \in misjudged

\* ... and succeeds when list() has a session with the child's pid, which
\* takes the place of whatever child had its port ...
PollFoundByPort ==
  /\ mcp = "starting"
  /\ \E n \in Port : /\ n = portOf[child]
                     /\ beacon[n] # None /\ beacon[n].holds # Torn
                     /\ spawned' = [spawned EXCEPT ![n] = beacon[n].holds]
  /\ mcp' = "idle" /\ child' = None
  /\ UNCHANGED <<registryVars, polls, children, unheard>>

PollFound ==
  /\ mcp = "starting"
  /\ \E n \in Port : /\ beacon[n] # None /\ beacon[n].holds = child
                     /\ spawned' = [spawned EXCEPT ![n] = child]
  /\ mcp' = "idle" /\ child' = None
  /\ UNCHANGED <<registryVars, polls, children, unheard>>

PollAgainForever == /\ mcp = "starting"
                    /\ Missed(child)
                    /\ polls' = polls + 1
                    /\ UNCHANGED <<registryVars, mcp, child, spawned, children, unheard>>

PollAgainRestartsClock == /\ mcp = "starting"
                          /\ Missed(child)
                          /\ polls' = (polls + 1) % (MaxPolls + 1)
                          /\ UNCHANGED <<registryVars, mcp, child, spawned, children, unheard>>

\* ... tries again before the deadline ...
PollAgain == /\ mcp = "starting"
             /\ Missed(child)
             /\ polls < MaxPolls
             /\ polls' = polls + 1
             /\ UNCHANGED <<registryVars, mcp, child, spawned, children, unheard>>

PollTimeoutLeavesChild == /\ mcp = "starting"
                          /\ Missed(child)
                          /\ polls = MaxPolls
                          /\ mcp' = "idle" /\ child' = None
                          /\ UNCHANGED <<registryVars, polls, spawned, children, unheard>>

\* ... and kills the child and waits for it after that.
PollTimeout == /\ mcp = "starting"
               /\ Missed(child)
               /\ polls = MaxPolls
               /\ Terminate({child}, "dead")
               /\ mcp' = "idle" /\ child' = None
               /\ UNCHANGED <<polls, spawned, children, unheard>>

\* list() returns an error: so does the tool, and the child's handle is gone.
PollFails == /\ mcp = "starting"
             /\ unheard' = unheard \union {child}
             /\ mcp' = "idle" /\ child' = None
             /\ UNCHANGED <<registryVars, polls, spawned, children>>

\* tool_serve_stop: kill and wait, for a session of this MCP server only.
ServeStop(n) == /\ mcp = "idle"
                /\ spawned[n] # None
                /\ Terminate({spawned[n]}, "dead")
                /\ spawned' = [spawned EXCEPT ![n] = None]
                /\ UNCHANGED <<mcp, child, polls, children, unheard>>

\* Standard input has closed: stop_all.
Exit == /\ mcp = "idle"
        /\ mcp' = "exited"
        /\ Terminate({spawned[n] : n \in Port} \ {None}, "dead")
        /\ spawned' = [n \in Port |-> None]
        /\ UNCHANGED <<child, polls, children, unheard>>

\* The MCP server is killed.
Crash == /\ mcp \in {"idle", "starting"}
         /\ mcp' = "crashed"
         /\ UNCHANGED <<registryVars, child, polls, spawned, children, unheard>>

-----------------------------------------------------------------------------
\* Somebody starts a server by hand; the shell waits for its own children,
\* and init for those of an MCP server that is gone.
ByHand == \/ \E p \in Pid, n \in Port : Launch(p, n)
          \/ \E p \in Pid : /\ p \notin children \/ mcp \in {"exited", "crashed"}
                            /\ Reap(p)

Poll == PollFound \/ PollAgain \/ PollTimeout \/ PollFails

Next == \/ RegistryStep /\ UNCHANGED mcpVars
        \/ ByHand /\ UNCHANGED mcpVars
        \/ \E p \in Pid, n \in Port : ServeStart(p, n)
        \/ Poll
        \/ \E n \in Port : ServeStop(n)
        \/ Exit \/ Crash

Spec == Init /\ [][Next]_vars

\* The MCP server's loop sleeps 200 ms between polls and goes on.
FairSpec == Spec /\ WF_vars(Poll)

-----------------------------------------------------------------------------
(* Properties.                                                             *)

TypeOK == /\ RegistryTypeOK
          /\ mcp \in {"idle", "starting", "exited", "crashed"}
          /\ child \in Pid \union {None}
          /\ polls \in 0..MaxPolls
          /\ spawned \in [Port -> Pid \union {None}]
          /\ children \subseteq Pid /\ unheard \subseteq children

\* A server the MCP server started outlives its orderly exit only if another
\* session was started on the same port or list() failed during the start: a
\* start that timed out, a child that died or a beacon that was lost leave
\* nothing behind.
OrphanHasRival ==
  mcp = "exited" =>
    \A p \in children : Running(p) =>
      p \in unheard \/ \E q \in children \ {p} : portOf[q] = portOf[p]

\* "Killing a server this process did not start would let an agent silently
\* take down a developer's own session" (mcp.rs:592): neither stopping nor
\* leaving ends a server that was started by hand, although beacons of the same
\* port overwrite each other.
StrangersAreSafe ==
  [][ Exit \/ (\E n \in Port : ServeStop(n)) =>
        \A p \in Pid \ children : proc'[p] = proc[p] ]_vars

\* roxo_serve_start gives an answer.
StartAnswers == mcp = "starting" ~> mcp # "starting"

\* "kept so they can be stopped and reaped rather than left as orphans when
\* the agent moves on" (mcp.rs:65).
NoOrphans == mcp = "exited" => \A p \in children \ unheard : ~Running(p)
=============================================================================
