--------------------------- MODULE SessionRegistry ---------------------------
(***************************************************************************)
(* The machine-local directory of serve sessions: `roxo serve` processes   *)
(* that write a beacon named after their port, bind the port, and remove   *)
(* the beacon when they return; and the listings that read every beacon    *)
(* and remove the ones that are malformed or whose process is gone.        *)
(*                                                                         *)
(* The operating system's part is external: file creation, truncation and  *)
(* unlinking, ports, signals, zombies.  A process that has died exists for *)
(* kill(pid, 0) until its parent has waited for it.                        *)
(***************************************************************************)
EXTENDS Naturals, FiniteSets

CONSTANTS
  Pid,     \* the serve processes, each started once at most
  Port,
  Torn,    \* what a beacon holds that does not parse
  None

ASSUME NoneAssumption == /\ None \notin Pid \union Port \union {Torn}
                         /\ None \notin [file : Pid, holds : Pid \union {Torn}]
                         /\ Torn \notin Pid

VARIABLES
  proc,       \* how far each serve process is
  portOf,     \* its port
  file,       \* the file it opened for its beacon, named after its creator
  guarded,    \* whether it holds a BeaconGuard
  listening,  \* the process bound to each port
  beacon,     \* the beacon file of each port: which file, and what it holds
  doomed,     \* the port whose beacon a listing has read and will remove
  raced,      \* history: processes that shared their port with another, or wrote
              \* their beacon while a listing was at it
  misjudged   \* history: running processes whose beacon a listing took for dead

registryVars == <<proc, portOf, file, guarded, listening, beacon, doomed, raced, misjudged>>

ProcState == {"unused", "loading", "opened", "published", "serving", "failed",
              "zombie", "dead"}
Running(p) == proc[p] \notin {"unused", "zombie", "dead"}

RegistryInit == /\ proc = [p \in Pid |-> "unused"]
                /\ portOf = [p \in Pid |-> None]
                /\ file = [p \in Pid |-> None]
                /\ guarded = [p \in Pid |-> FALSE]
                /\ listening = [n \in Port |-> None]
                /\ beacon = [n \in Port |-> None]
                /\ doomed = None
                /\ raced = {} /\ misjudged = {}

-----------------------------------------------------------------------------
(* `roxo serve`.                                                           *)

Launch(p, n) ==
  LET rivals == {q \in Pid : Running(q) /\ portOf[q] = n} IN
  /\ proc[p] = "unused"
  /\ proc' = [proc EXCEPT ![p] = "loading"]
  /\ portOf' = [portOf EXCEPT ![p] = n]
  /\ raced' = IF rivals = {} THEN raced ELSE raced \union rivals \union {p}
  /\ UNCHANGED <<file, guarded, listening, beacon, doomed, misjudged>>

\* ServeSession::new returns an error before anything is published.
LoadFails(p) == /\ proc[p] = "loading"
                /\ proc' = [proc EXCEPT ![p] = "zombie"]
                /\ UNCHANGED <<portOf, file, guarded, listening, beacon, doomed, raced, misjudged>>

\* publish: fs::write first creates or truncates the file ...
OpenBeacon(p) ==
  LET n == portOf[p]
      f == IF beacon[n] = None THEN p ELSE beacon[n].file
  IN  /\ proc[p] = "loading"
      /\ proc' = [proc EXCEPT ![p] = "opened"]
      /\ file' = [file EXCEPT ![p] = f]
      /\ beacon' = [beacon EXCEPT ![n] = [file |-> f, holds |-> Torn]]
      /\ raced' = IF doomed = n THEN raced \union {p} ELSE raced
      /\ UNCHANGED <<portOf, guarded, listening, doomed, misjudged>>

\* ... and then writes to it, also if it has been unlinked since.  Two
\* processes that write one after the other into the same file may leave the
\* tail of the longer text.
WriteBeaconGuardDropped(p) ==
  LET n == portOf[p]
      linked == beacon[n] # None /\ beacon[n].file = file[p]
  IN  /\ proc[p] = "opened"
      /\ proc' = [proc EXCEPT ![p] = "published"]
      /\ guarded' = [guarded EXCEPT ![p] = TRUE]
      /\ beacon' = IF linked THEN [beacon EXCEPT ![n] = None] ELSE beacon
      /\ UNCHANGED <<portOf, file, listening, doomed, raced, misjudged>>

WriteBeacon(p) ==
  LET n == portOf[p]
      linked == beacon[n] # None /\ beacon[n].file = file[p]
      results == IF linked /\ beacon[n].holds # Torn THEN {p, Torn} ELSE {p}
  IN  /\ proc[p] = "opened"
      /\ proc' = [proc EXCEPT ![p] = "published"]
      /\ guarded' = [guarded EXCEPT ![p] = TRUE]
      /\ \E r \in results :
           beacon' = IF linked THEN [beacon EXCEPT ![n].holds = r] ELSE beacon
      /\ UNCHANGED <<portOf, file, listening, doomed, raced, misjudged>>

\* --no-registry, or a directory that cannot be written: serve without one.
Unadvertised(p) == /\ proc[p] = "loading"
                   /\ proc' = [proc EXCEPT ![p] = "published"]
                   /\ UNCHANGED <<portOf, file, guarded, listening, beacon, doomed, raced, misjudged>>

\* LiveServer::start
Bind(p) == /\ proc[p] = "published"
           /\ listening[portOf[p]] = None
           /\ proc' = [proc EXCEPT ![p] = "serving"]
           /\ listening' = [listening EXCEPT ![portOf[p]] = p]
           /\ UNCHANGED <<portOf, file, guarded, beacon, doomed, raced, misjudged>>

BindFails(p) == /\ proc[p] = "published"
                /\ listening[portOf[p]] # None
                /\ proc' = [proc EXCEPT ![p] = "failed"]
                /\ UNCHANGED <<portOf, file, guarded, listening, beacon, doomed, raced, misjudged>>

\* BeaconGuard::drop removes whatever file has the name, if it can.
DropGuard(p) ==
  /\ proc[p] = "failed"
  /\ proc' = [proc EXCEPT ![p] = "zombie"]
  /\ \/ beacon' = beacon
     \/ guarded[p] /\ beacon' = [beacon EXCEPT ![portOf[p]] = None]
  /\ UNCHANGED <<portOf, file, guarded, listening, doomed, raced, misjudged>>

\* The processes of S die without running destructors: a signal, or a panic
\* where panic = "abort".
Terminate(S, state) ==
  /\ proc' = [p \in Pid |-> IF p \in S THEN state ELSE proc[p]]
  /\ listening' = [n \in Port |-> IF listening[n] \in S THEN None ELSE listening[n]]
  /\ UNCHANGED <<portOf, file, guarded, beacon, doomed, raced, misjudged>>

Kill(p) == Running(p) /\ Terminate({p}, "zombie")

Reap(p) == /\ proc[p] = "zombie"
           /\ proc' = [proc EXCEPT ![p] = "dead"]
           /\ UNCHANGED <<portOf, file, guarded, listening, beacon, doomed, raced, misjudged>>

-----------------------------------------------------------------------------
(* list(), by whatever process: one beacon at a time, read and then removed. *)

\* The processes that kill(pid, 0) finds, if it may ask.
Alive == {p \in Pid : proc[p] \notin {"unused", "dead"}}

\* The beacon does not parse, or its process is gone.
Prunable(n) == beacon[n] # None /\ beacon[n].holds \notin Alive

ListRead(n) ==
  /\ doomed = None
  /\ Prunable(n)
  /\ doomed' = n
  /\ raced' = raced \union {p \in Pid : proc[p] = "opened" /\ portOf[p] = n}
  /\ UNCHANGED <<proc, portOf, file, guarded, listening, beacon, misjudged>>

\* A beacon that cannot be read just then counts as malformed, and a process
\* that may not be signalled, another user's, as gone.
ListMisjudges(n) ==
  /\ doomed = None
  /\ beacon[n] # None /\ beacon[n].holds \in Alive
  /\ doomed' = n
  /\ misjudged' = misjudged \union {p \in Pid : Running(p) /\ portOf[p] = n}
  /\ UNCHANGED <<proc, portOf, file, guarded, listening, beacon, raced>>

\* Whether the file could be removed is not looked at.
ListRemove == /\ doomed # None
              /\ beacon' \in {beacon, [beacon EXCEPT ![doomed] = None]}
              /\ doomed' = None
              /\ UNCHANGED <<proc, portOf, file, guarded, listening, raced, misjudged>>

\* A session that list() returns.
Listed(p) == \E n \in Port : beacon[n] # None /\ beacon[n].holds = p

ServeStep(p) == \/ LoadFails(p) \/ OpenBeacon(p) \/ WriteBeacon(p) \/ Unadvertised(p)
                \/ Bind(p) \/ BindFails(p) \/ DropGuard(p) \/ Kill(p)

RegistryStep == \/ \E p \in Pid : ServeStep(p)
                \/ \E n \in Port : ListRead(n) \/ ListMisjudges(n)
                \/ ListRemove

-----------------------------------------------------------------------------
(* Properties.                                                             *)

RegistryTypeOK ==
  /\ proc \in [Pid -> ProcState]
  /\ portOf \in [Pid -> Port \union {None}]
  /\ file \in [Pid -> Pid \union {None}]
  /\ guarded \in [Pid -> BOOLEAN]
  /\ listening \in [Port -> Pid \union {None}]
  /\ beacon \in [Port -> [file : Pid, holds : Pid \union {Torn}] \union {None}]
  /\ doomed \in Port \union {None}
  /\ raced \subseteq Pid /\ misjudged \subseteq Pid
  /\ \A p \in Pid : proc[p] # "unused" => portOf[p] \in Port

\* A server that is serving and was advertised leaves the listing for three
\* reasons only: another process ran on its own port at the same time, a listing
\* was at its beacon while it was being written, or a listing could not read
\* its beacon or not signal its process.  What happens on other ports, the
\* exits, crashes and unreaped deaths of those that had its port before, and
\* listings that were at their beacons never cost it its own.
ServingIsListed ==
  \A p \in Pid : proc[p] = "serving" /\ guarded[p] /\ p \notin raced /\ p \notin misjudged
                => Listed(p)
=============================================================================
