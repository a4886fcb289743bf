--------------------------- MODULE McpServerProofs ---------------------------
(***************************************************************************)
(* What the session registry and the MCP server promise, for every number  *)
(* of processes, ports and polls.                                          *)
(***************************************************************************)
EXTENDS McpServer, TLAPS

-----------------------------------------------------------------------------
(* Types.                                                                  *)

\* What TypeOK needs to be inductive: the processes the MCP server refers to
\* are processes it has started.
Known == /\ mcp = "starting" => child \in children
         /\ \A p \in children : proc[p] # "unused"
         /\ \A n \in Port : spawned[n] # None => spawned[n] \in children

TypeInv == TypeOK /\ Known

\* A step of the registry's state, whoever takes it.
RegistryNext ==
  \/ \E p \in Pid, n \in Port : Launch(p, n)
  \/ \E p \in Pid : \/ LoadFails(p) \/ OpenBeacon(p) \/ WriteBeacon(p)
                    \/ Unadvertised(p) \/ Bind(p) \/ BindFails(p) \/ DropGuard(p)
                    \/ Reap(p)
  \/ \E n \in Port : ListRead(n) \/ ListMisjudges(n)
  \/ ListRemove
  \/ \E S \in SUBSET Pid, state \in {"zombie", "dead"} :
       /\ \A p \in S : proc[p] # "unused"
       /\ Terminate(S, state)
  \/ UNCHANGED registryVars

\* Every step of the composition is a step of the registry: the MCP server
\* acts on it only by starting processes and by killing ones that were started.
LEMMA StepOfRegistry == TypeInv /\ [Next]_vars => RegistryNext
<1> SUFFICES ASSUME TypeInv, [Next]_vars PROVE RegistryNext
  OBVIOUS
<1> USE DEF TypeInv, TypeOK, RegistryTypeOK, Known
<1>1. CASE RegistryStep
  <2>1. ASSUME NEW p \in Pid, Kill(p) PROVE RegistryNext
    <3>1. /\ {p} \in SUBSET Pid
          /\ \A q \in {p} : proc[q] # "unused"
          /\ Terminate({p}, "zombie")
      BY <2>1 DEF Kill, Running
    <3>2. QED BY <3>1 DEF RegistryNext
  <2>2. QED BY <1>1, <2>1 DEF RegistryStep, ServeStep, RegistryNext
<1>2. CASE ByHand
  BY <1>2 DEF ByHand, RegistryNext
<1>3. ASSUME NEW p \in Pid, NEW n \in Port, ServeStart(p, n) PROVE RegistryNext
  BY <1>3 DEF ServeStart, RegistryNext
<1>4. CASE PollTimeout
  <2>1. /\ {child} \in SUBSET Pid
        /\ \A p \in {child} : proc[p] # "unused"
        /\ Terminate({child}, "dead")
    BY <1>4 DEF PollTimeout
  <2>2. QED BY <2>1 DEF RegistryNext
<1>5. CASE PollFound \/ PollAgain \/ PollFails \/ Crash \/ UNCHANGED vars
  BY <1>5 DEF PollFound, PollAgain, PollFails, Crash, vars, RegistryNext
<1>6. ASSUME NEW n \in Port, ServeStop(n) PROVE RegistryNext
  <2>1. /\ {spawned[n]} \in SUBSET Pid
        /\ \A p \in {spawned[n]} : proc[p] # "unused"
        /\ Terminate({spawned[n]}, "dead")
    BY <1>6 DEF ServeStop
  <2>2. QED BY <2>1 DEF RegistryNext
<1>7. CASE Exit
  <2> DEFINE S == {spawned[n] : n \in Port} \ {None}
  <2>1. /\ S \in SUBSET Pid
        /\ \A p \in S : proc[p] # "unused"
        /\ Terminate(S, "dead")
    BY <1>7 DEF Exit
  <2>2. QED BY <2>1 DEF RegistryNext
<1>8. QED BY <1>1, <1>2, <1>3, <1>4, <1>5, <1>6, <1>7 DEF Next, Poll

\* The steps of the registry keep its types.
LEMMA RegistryTypes == RegistryTypeOK /\ RegistryNext => RegistryTypeOK'
<1> SUFFICES ASSUME RegistryTypeOK, RegistryNext PROVE RegistryTypeOK'
  OBVIOUS
<1> USE DEF RegistryTypeOK, ProcState
<1>1. ASSUME NEW p \in Pid, NEW n \in Port, Launch(p, n) PROVE RegistryTypeOK'
  <2>1. raced' \subseteq Pid
    BY <1>1 DEF Launch
  <2>2. QED BY <1>1, <2>1 DEF Launch
<1>2. ASSUME NEW p \in Pid, OpenBeacon(p) PROVE RegistryTypeOK'
  <2> DEFINE n == portOf[p]
             f == IF beacon[n] = None THEN p ELSE beacon[n].file
  <2>1. n \in Port /\ f \in Pid
    BY <1>2 DEF OpenBeacon
  <2>2. beacon' \in [Port -> [file : Pid, holds : Pid \union {Torn}] \union {None}]
    <3> HIDE DEF f
    <3>1. beacon' = [beacon EXCEPT ![n] = [file |-> f, holds |-> Torn]]
      BY <1>2 DEF OpenBeacon, f
    <3>2. QED BY <2>1, <3>1
  <2>3. file' \in [Pid -> Pid \union {None}]
    <3> HIDE DEF f
    <3>1. file' = [file EXCEPT ![p] = f]
      BY <1>2 DEF OpenBeacon, f
    <3>2. QED BY <2>1, <3>1
  <2>4. raced' \subseteq Pid
    BY <1>2 DEF OpenBeacon
  <2>5. QED BY <1>2, <2>1, <2>2, <2>3, <2>4 DEF OpenBeacon
<1>3. ASSUME NEW p \in Pid, WriteBeacon(p) PROVE RegistryTypeOK'
  <2> DEFINE n == portOf[p]
  <2>1. PICK r \in Pid \union {Torn} :
          beacon' = IF beacon[n] # None /\ beacon[n].file = file[p]
                    THEN [beacon EXCEPT ![n].holds = r] ELSE beacon
    BY <1>3 DEF WriteBeacon
  <2>2. beacon' \in [Port -> [file : Pid, holds : Pid \union {Torn}] \union {None}]
    <3>1. n \in Port
      BY <1>3 DEF WriteBeacon
    <3>2. CASE beacon[n] # None /\ beacon[n].file = file[p]
      <4>1. [beacon[n] EXCEPT !.holds = r] \in [file : Pid, holds : Pid \union {Torn}]
        BY <3>1, <3>2
      <4>2. beacon' = [beacon EXCEPT ![n] = [beacon[n] EXCEPT !.holds = r]]
        BY <2>1, <3>2
      <4>3. QED BY <4>1, <4>2
    <3>3. QED BY <2>1, <3>2
  <2>3. QED BY <1>3, <2>2 DEF WriteBeacon
<1>4. ASSUME NEW p \in Pid,
             LoadFails(p) \/ Unadvertised(p) \/ Bind(p) \/ BindFails(p) \/ Reap(p)
      PROVE  RegistryTypeOK'
  BY <1>4 DEF LoadFails, Unadvertised, Bind, BindFails, Reap
<1>5. ASSUME NEW p \in Pid, DropGuard(p) PROVE RegistryTypeOK'
  BY <1>5 DEF DropGuard
<1>6. ASSUME NEW n \in Port, ListRead(n) \/ ListMisjudges(n) PROVE RegistryTypeOK'
  BY <1>6 DEF ListRead, ListMisjudges
<1>7. CASE ListRemove
  BY <1>7 DEF ListRemove
<1>8. ASSUME NEW S \in SUBSET Pid, NEW state \in {"zombie", "dead"},
             \A p \in S : proc[p] # "unused", Terminate(S, state)
      PROVE  RegistryTypeOK'
  BY <1>8 DEF Terminate
<1>9. CASE UNCHANGED registryVars
  BY <1>9 DEF registryVars
<1>10. QED
  BY <1>1, <1>2, <1>3, <1>4, <1>5, <1>6, <1>7, <1>8, <1>9 DEF RegistryNext

\* No step forgets a process: it never becomes unused again and keeps its port.
LEMMA ProcessesStay ==
  ASSUME RegistryTypeOK, RegistryNext, NEW p \in Pid, proc[p] # "unused"
  PROVE  proc'[p] # "unused" /\ portOf'[p] = portOf[p]
<1> USE DEF RegistryTypeOK, ProcState
<1>1. ASSUME NEW q \in Pid, NEW n \in Port, Launch(q, n)
      PROVE  proc'[p] # "unused" /\ portOf'[p] = portOf[p]
  BY <1>1 DEF Launch
<1>2. ASSUME NEW q \in Pid,
             \/ LoadFails(q) \/ OpenBeacon(q) \/ WriteBeacon(q) \/ Unadvertised(q)
             \/ Bind(q) \/ BindFails(q) \/ DropGuard(q) \/ Reap(q)
      PROVE  proc'[p] # "unused" /\ portOf'[p] = portOf[p]
  BY <1>2 DEF LoadFails, OpenBeacon, WriteBeacon, Unadvertised, Bind, BindFails,
              DropGuard, Reap
<1>3. ASSUME NEW S \in SUBSET Pid, NEW state \in {"zombie", "dead"}, Terminate(S, state)
      PROVE  proc'[p] # "unused" /\ portOf'[p] = portOf[p]
  BY <1>3 DEF Terminate
<1>4. QED
  BY <1>1, <1>2, <1>3 DEF RegistryNext, ListRead, ListMisjudges, ListRemove, registryVars

\* The strengthened type invariant holds in every reachable state.
LEMMA TypesHold == Spec => []TypeInv
<1>1. Init => TypeInv
  BY NoneAssumption, PollsAssumption
  DEF Init, RegistryInit, TypeInv, TypeOK, RegistryTypeOK, ProcState, Known
<1>2. TypeInv /\ [Next]_vars => TypeInv'
  <2> SUFFICES ASSUME TypeInv, [Next]_vars PROVE TypeInv'
    OBVIOUS
  <2> USE DEF TypeInv, TypeOK, Known
  <2>1. RegistryNext /\ RegistryTypeOK'
    BY StepOfRegistry, RegistryTypes
  <2>2. \A p \in children : proc'[p] # "unused"
    BY <2>1, ProcessesStay
  <2>3. ASSUME NEW p \in Pid, NEW n \in Port, ServeStart(p, n) PROVE TypeInv'
    <3>1. proc'[p] # "unused"
      BY <2>3 DEF ServeStart, Launch, RegistryTypeOK
    <3>2. QED BY <2>1, <2>2, <2>3, <3>1, PollsAssumption DEF ServeStart
  <2>4. CASE PollFound
    BY <2>1, <2>2, <2>4 DEF PollFound
  <2>5. CASE PollAgain
    BY <2>1, <2>2, <2>5, PollsAssumption DEF PollAgain
  <2>6. CASE PollTimeout
    BY <2>1, <2>2, <2>6 DEF PollTimeout
  <2>7. CASE PollFails
    BY <2>1, <2>2, <2>7 DEF PollFails
  <2>8. ASSUME NEW n \in Port, ServeStop(n) PROVE TypeInv'
    BY <2>1, <2>2, <2>8 DEF ServeStop
  <2>9. CASE Exit
    BY <2>1, <2>2, <2>9 DEF Exit
  <2>10. CASE Crash
    BY <2>1, <2>2, <2>10 DEF Crash
  <2>11. CASE UNCHANGED mcpVars
    BY <2>1, <2>2, <2>11 DEF mcpVars
  <2>12. QED
    BY <2>3, <2>4, <2>5, <2>6, <2>7, <2>8, <2>9, <2>10, <2>11 DEF Next, Poll, vars
<1>3. QED BY <1>1, <1>2, PTL DEF Spec

\* Every reachable state has its type: serve processes, beacon files, and what
\* tool_serve_start, tool_serve_stop and stop_all keep of them.
THEOREM TypeCorrect == Spec => []TypeOK
<1>1. TypeInv => TypeOK
  BY DEF TypeInv
<1>2. QED BY <1>1, TypesHold, PTL

-----------------------------------------------------------------------------
(* The registry: an advertised server stays listed.                        *)

\* A process that no other raced is alone on its port.
Alone == \A p, q \in Pid :
           p \notin raced /\ Running(p) /\ Running(q) /\ portOf[p] = portOf[q] => p = q

\* The pid in a beacon is that of a process of the beacon's port.
BeaconsAreHome == \A n \in Port, p \in Pid :
                    beacon[n] # None /\ beacon[n].holds = p =>
                      portOf[p] = n /\ proc[p] # "unused"

\* The beacon guard exists once publish has returned.
GuardsAreLate == \A p \in Pid : guarded[p] => proc[p] \notin {"unused", "loading", "opened"}

\* Between the two halves of its fs::write an undisturbed process has the
\* empty file it opened under its name, and no listing is about to remove it.
OpenIsSafe == \A p \in Pid :
                proc[p] = "opened" /\ p \notin raced /\ p \notin misjudged =>
                  /\ beacon[portOf[p]] # None
                  /\ beacon[portOf[p]].file = file[p]
                  /\ beacon[portOf[p]].holds = Torn
                  /\ doomed # portOf[p]

\* After it the file holds its pid.
PublishedIsSafe == \A p \in Pid :
                     /\ proc[p] \in {"published", "serving"} /\ guarded[p]
                     /\ p \notin raced /\ p \notin misjudged
                     => /\ beacon[portOf[p]] # None
                        /\ beacon[portOf[p]].holds = p
                        /\ doomed # portOf[p]

RegistryInv == Alone /\ BeaconsAreHome /\ GuardsAreLate /\ OpenIsSafe /\ PublishedIsSafe

\* Starting another process makes every process of the port a rival.
LEMMA LaunchKeepsRegistry ==
  ASSUME RegistryTypeOK, RegistryInv, NEW p \in Pid, NEW n \in Port, Launch(p, n)
  PROVE  RegistryInv'
<1> USE DEF RegistryTypeOK, RegistryInv
<1> DEFINE rivals == {q \in Pid : Running(q) /\ portOf[q] = n}
<1>1. /\ proc[p] = "unused"
      /\ proc' = [proc EXCEPT ![p] = "loading"]
      /\ portOf' = [portOf EXCEPT ![p] = n]
      /\ \A q \in Pid \ {p} : q \notin raced' => q \notin raced /\ q \notin rivals
      /\ p \notin raced' => rivals = {}
      /\ raced \subseteq raced'
      /\ UNCHANGED <<file, guarded, listening, beacon, doomed, misjudged>>
  BY DEF Launch
<1>2. Alone'
  BY <1>1 DEF Alone, Running
<1>3. BeaconsAreHome'
  BY <1>1 DEF BeaconsAreHome
<1>4. GuardsAreLate'
  BY <1>1 DEF GuardsAreLate
<1>5. OpenIsSafe'
  BY <1>1 DEF OpenIsSafe
<1>6. PublishedIsSafe'
  BY <1>1 DEF PublishedIsSafe
<1>7. QED BY <1>2, <1>3, <1>4, <1>5, <1>6

\* Opening a beacon leaves the ones of undisturbed processes alone.
LEMMA OpenKeepsRegistry ==
  ASSUME RegistryTypeOK, RegistryInv, NEW p \in Pid, OpenBeacon(p)
  PROVE  RegistryInv'
<1> USE DEF RegistryTypeOK, RegistryInv
<1> DEFINE n == portOf[p]
<1>1. PICK f \in Pid :
        /\ file' = [file EXCEPT ![p] = f]
        /\ beacon' = [beacon EXCEPT ![n] = [file |-> f, holds |-> Torn]]
  BY DEF OpenBeacon
<1>2. /\ proc[p] = "loading"
      /\ proc' = [proc EXCEPT ![p] = "opened"]
      /\ raced \subseteq raced'
      /\ p \notin raced' => doomed # n
      /\ n \in Port
      /\ UNCHANGED <<portOf, guarded, listening, doomed, misjudged>>
  BY DEF OpenBeacon
<1>3. beacon'[n] = [file |-> f, holds |-> Torn] /\ \A m \in Port \ {n} : beacon'[m] = beacon[m]
  BY <1>1, <1>2
<1>4. [file |-> f, holds |-> Torn] # None
  BY <1>1, NoneAssumption
<1>5. Alone'
  BY <1>2 DEF Alone, Running
<1>6. BeaconsAreHome'
  BY <1>2, <1>3, NoneAssumption DEF BeaconsAreHome
<1>7. GuardsAreLate'
  BY <1>2 DEF GuardsAreLate
<1>8. OpenIsSafe'
  <2> SUFFICES ASSUME NEW q \in Pid, proc'[q] = "opened", q \notin raced', q \notin misjudged'
               PROVE  /\ beacon'[portOf[q]] # None
                      /\ beacon'[portOf[q]].file = file'[q]
                      /\ beacon'[portOf[q]].holds = Torn
                      /\ doomed # portOf[q]
    BY <1>2 DEF OpenIsSafe
  <2>1. CASE q = p
    BY <2>1, <1>1, <1>2, <1>3, <1>4
  <2>2. CASE q # p
    <3>1. portOf[q] # n
      BY <2>2, <1>2 DEF Alone, Running
    <3>2. QED BY <2>2, <3>1, <1>1, <1>2, <1>3 DEF OpenIsSafe
  <2>3. QED BY <2>1, <2>2
<1>9. PublishedIsSafe'
  <2> SUFFICES ASSUME NEW q \in Pid, proc'[q] \in {"published", "serving"}, guarded[q],
                      q \notin raced', q \notin misjudged'
               PROVE  /\ beacon'[portOf[q]] # None
                      /\ beacon'[portOf[q]].holds = q
                      /\ doomed # portOf[q]
    BY <1>2 DEF PublishedIsSafe
  <2>1. q # p /\ portOf[q] # n
    BY <1>2 DEF Alone, Running
  <2>2. QED BY <2>1, <1>2, <1>3 DEF PublishedIsSafe
<1>10. QED BY <1>5, <1>6, <1>7, <1>8, <1>9

\* Writing a beacon puts the pid into the file an undisturbed process opened,
\* and into no file of another undisturbed process.
LEMMA WriteKeepsRegistry ==
  ASSUME RegistryTypeOK, RegistryInv, NEW p \in Pid, WriteBeacon(p)
  PROVE  RegistryInv'
<1> USE DEF RegistryTypeOK, RegistryInv
<1> DEFINE n == portOf[p]
           linked == beacon[n] # None /\ beacon[n].file = file[p]
<1>1. /\ proc[p] = "opened"
      /\ proc' = [proc EXCEPT ![p] = "published"]
      /\ guarded' = [guarded EXCEPT ![p] = TRUE]
      /\ n \in Port
      /\ UNCHANGED <<portOf, file, listening, doomed, raced, misjudged>>
  BY DEF WriteBeacon
<1>2. PICK r \in Pid \union {Torn} :
        /\ r \in IF linked /\ beacon[n].holds # Torn THEN {p, Torn} ELSE {p}
        /\ beacon' = IF linked THEN [beacon EXCEPT ![n].holds = r] ELSE beacon
  BY DEF WriteBeacon
<1>3. \A m \in Port \ {n} : beacon'[m] = beacon[m]
  BY <1>2
<1>4. r \in {p, Torn} /\ (~linked => beacon' = beacon)
      /\ (linked => /\ beacon'[n] # None
                    /\ beacon'[n].holds = r
                    /\ beacon'[n].file = beacon[n].file)
  <2>1. CASE linked
    <3>1. beacon[n] \in [file : Pid, holds : Pid \union {Torn}]
      BY <1>1, <2>1
    <3>2. beacon'[n] = [file |-> beacon[n].file, holds |-> r]
      BY <1>1, <1>2, <2>1, <3>1
    <3>3. QED BY <1>2, <2>1, <3>1, <3>2, NoneAssumption
  <2>2. QED BY <1>2, <2>1
<1>5. Alone'
  BY <1>1 DEF Alone, Running
<1>6. BeaconsAreHome'
  <2> SUFFICES ASSUME NEW m \in Port, NEW q \in Pid, beacon'[m] # None, beacon'[m].holds = q
               PROVE  portOf'[q] = m /\ proc'[q] # "unused"
    BY DEF BeaconsAreHome
  <2>1. CASE m # n \/ ~linked
    BY <2>1, <1>1, <1>3, <1>4 DEF BeaconsAreHome
  <2>2. CASE m = n /\ linked
    BY <2>2, <1>1, <1>4, NoneAssumption
  <2>3. QED BY <2>1, <2>2
<1>7. GuardsAreLate'
  BY <1>1 DEF GuardsAreLate
<1>8. ASSUME NEW q \in Pid, q # p, q \notin raced, Running(q) PROVE portOf[q] # n
  BY <1>1, <1>8 DEF Alone, Running
<1>9. OpenIsSafe'
  BY <1>1, <1>3, <1>8 DEF OpenIsSafe, Running
<1>10. PublishedIsSafe'
  <2> SUFFICES ASSUME NEW q \in Pid, proc'[q] \in {"published", "serving"}, guarded'[q],
                      q \notin raced, q \notin misjudged
               PROVE  /\ beacon'[portOf[q]] # None
                      /\ beacon'[portOf[q]].holds = q
                      /\ doomed # portOf[q]
    BY <1>1 DEF PublishedIsSafe
  <2>1. CASE q = p
    BY <2>1, <1>1, <1>2, <1>4 DEF OpenIsSafe
  <2>2. CASE q # p
    BY <2>2, <1>1, <1>3, <1>8 DEF PublishedIsSafe, Running
  <2>3. QED BY <2>1, <2>2
<1>11. QED BY <1>5, <1>6, <1>7, <1>9, <1>10

\* A process that could not bind its port removes a beacon of that port only.
LEMMA DropKeepsRegistry ==
  ASSUME RegistryTypeOK, RegistryInv, NEW p \in Pid, DropGuard(p)
  PROVE  RegistryInv'
<1> USE DEF RegistryTypeOK, RegistryInv
<1> DEFINE n == portOf[p]
<1>1. /\ proc[p] = "failed"
      /\ proc' = [proc EXCEPT ![p] = "zombie"]
      /\ n \in Port
      /\ beacon'[n] \in {None, beacon[n]}
      /\ \A m \in Port \ {n} : beacon'[m] = beacon[m]
      /\ UNCHANGED <<portOf, file, guarded, listening, doomed, raced, misjudged>>
  BY DEF DropGuard
<1>2. Alone'
  BY <1>1 DEF Alone, Running
<1>3. BeaconsAreHome'
  BY <1>1 DEF BeaconsAreHome
<1>4. GuardsAreLate'
  BY <1>1 DEF GuardsAreLate
<1>5. ASSUME NEW q \in Pid, q # p, q \notin raced, Running(q) PROVE portOf[q] # n
  BY <1>1, <1>5 DEF Alone, Running
<1>6. OpenIsSafe'
  BY <1>1, <1>5 DEF OpenIsSafe, Running
<1>7. PublishedIsSafe'
  BY <1>1, <1>5 DEF PublishedIsSafe, Running
<1>8. QED BY <1>2, <1>3, <1>4, <1>6, <1>7

\* A listing removes a beacon whose process is gone or that is being written.
LEMMA ListKeepsRegistry ==
  ASSUME RegistryTypeOK, RegistryInv,
         (\E n \in Port : ListRead(n) \/ ListMisjudges(n)) \/ ListRemove
  PROVE  RegistryInv'
<1> USE DEF RegistryTypeOK, RegistryInv
<1>1. ASSUME NEW n \in Port, ListRead(n) PROVE RegistryInv'
  <2>1. /\ doomed' = n
        /\ raced \subseteq raced'
        /\ \A p \in Pid : proc[p] = "opened" /\ portOf[p] = n => p \in raced'
        /\ \A p \in Pid : beacon[n].holds = p => proc[p] \in {"unused", "dead"}
        /\ UNCHANGED <<proc, portOf, file, guarded, listening, beacon, misjudged>>
    BY <1>1 DEF ListRead, Prunable, Alive
  <2>2. Alone' /\ BeaconsAreHome' /\ GuardsAreLate'
    BY <2>1 DEF Alone, Running, BeaconsAreHome, GuardsAreLate
  <2>3. OpenIsSafe'
    BY <2>1 DEF OpenIsSafe
  <2>4. PublishedIsSafe'
    BY <2>1 DEF PublishedIsSafe
  <2>5. QED BY <2>2, <2>3, <2>4
<1>2. ASSUME NEW n \in Port, ListMisjudges(n) PROVE RegistryInv'
  <2>1. /\ doomed' = n
        /\ misjudged \subseteq misjudged'
        /\ \A p \in Pid : Running(p) /\ portOf[p] = n => p \in misjudged'
        /\ UNCHANGED <<proc, portOf, file, guarded, listening, beacon, raced>>
    BY <1>2 DEF ListMisjudges
  <2>2. Alone' /\ BeaconsAreHome' /\ GuardsAreLate'
    BY <2>1 DEF Alone, Running, BeaconsAreHome, GuardsAreLate
  <2>3. OpenIsSafe'
    BY <2>1 DEF OpenIsSafe, Running
  <2>4. PublishedIsSafe'
    BY <2>1 DEF PublishedIsSafe, Running
  <2>5. QED BY <2>2, <2>3, <2>4
<1>3. CASE ListRemove
  <2>1. /\ doomed \in Port
        /\ doomed' = None
        /\ beacon'[doomed] \in {None, beacon[doomed]}
        /\ \A m \in Port \ {doomed} : beacon'[m] = beacon[m]
        /\ UNCHANGED <<proc, portOf, file, guarded, listening, raced, misjudged>>
    BY <1>3 DEF ListRemove
  <2>2. Alone' /\ GuardsAreLate'
    BY <2>1 DEF Alone, Running, GuardsAreLate
  <2>3. BeaconsAreHome'
    BY <2>1 DEF BeaconsAreHome
  <2>4. OpenIsSafe' /\ PublishedIsSafe'
    BY <2>1, NoneAssumption DEF OpenIsSafe, PublishedIsSafe
  <2>5. QED BY <2>2, <2>3, <2>4
<1>4. QED BY <1>1, <1>2, <1>3

\* The inductive invariant of the registry survives every step of it.
LEMMA RegistryInvStep == RegistryTypeOK /\ RegistryInv /\ RegistryNext => RegistryInv'
<1> SUFFICES ASSUME RegistryTypeOK, RegistryInv, RegistryNext PROVE RegistryInv'
  OBVIOUS
<1>1. ASSUME NEW p \in Pid,
             LoadFails(p) \/ Unadvertised(p) \/ Bind(p) \/ BindFails(p) \/ Reap(p)
      PROVE  RegistryInv'
  BY <1>1
  DEF LoadFails, Unadvertised, Bind, BindFails, Reap, RegistryTypeOK, RegistryInv, Alone,
      Running, BeaconsAreHome, GuardsAreLate, OpenIsSafe, PublishedIsSafe
<1>2. ASSUME NEW S \in SUBSET Pid, NEW state \in {"zombie", "dead"},
             \A p \in S : proc[p] # "unused", Terminate(S, state)
      PROVE  RegistryInv'
  BY <1>2 DEF Terminate, RegistryTypeOK, RegistryInv, Alone, Running, BeaconsAreHome,
              GuardsAreLate, OpenIsSafe, PublishedIsSafe
<1>3. CASE UNCHANGED registryVars
  BY <1>3 DEF registryVars, RegistryInv, Alone, Running, BeaconsAreHome, GuardsAreLate,
              OpenIsSafe, PublishedIsSafe
<1>4. QED
  BY <1>1, <1>2, <1>3, LaunchKeepsRegistry, OpenKeepsRegistry, WriteKeepsRegistry,
     DropKeepsRegistry, ListKeepsRegistry DEF RegistryNext

\* A server that is serving and was advertised stays in the listing (publish,
\* BeaconGuard::drop and list of session_registry.rs), unless a rival ran on
\* its port, a listing met its beacon half written, or a listing could not read
\* its beacon or not signal its process.
THEOREM ServingListed == Spec => []ServingIsListed
<1>1. Init => RegistryInv
  BY NoneAssumption
  DEF Init, RegistryInit, RegistryInv, Alone, Running, BeaconsAreHome, GuardsAreLate,
      OpenIsSafe, PublishedIsSafe
<1>2. TypeInv /\ RegistryInv /\ [Next]_vars => RegistryInv'
  BY StepOfRegistry, RegistryInvStep DEF TypeInv, TypeOK
<1>3. TypeInv /\ RegistryInv => ServingIsListed
  BY DEF TypeInv, TypeOK, RegistryTypeOK, RegistryInv, PublishedIsSafe, ServingIsListed, Listed
<1>4. QED BY <1>1, <1>2, <1>3, TypesHold, PTL DEF Spec

-----------------------------------------------------------------------------
(* The MCP server: whom it kills and whom it leaves behind.                *)

\* Another session of the MCP server has the port of p.
HasRival(p) == \E q \in children \ {p} : portOf[q] = portOf[p]

\* The MCP server accounts for every running child: it waits for it, has it
\* under its port, or lost it to an error or a rival.
Accounted(p) == \/ mcp = "starting" /\ child = p
                \/ spawned[portOf[p]] = p
                \/ p \in unheard
                \/ HasRival(p)

ChildrenInv ==
  /\ \A n \in Port : spawned[n] # None => portOf[spawned[n]] = n
  /\ mcp = "exited" => \A n \in Port : spawned[n] = None
  /\ mcp # "crashed" => \A p \in children : Running(p) => Accounted(p)

\* No step of the registry brings a process that was started back to life.
LEMMA NoRevival ==
  ASSUME RegistryTypeOK, RegistryNext, NEW p \in Pid, proc[p] # "unused", Running(p)'
  PROVE  Running(p)
<1> USE DEF RegistryTypeOK, Running
<1>1. ASSUME NEW q \in Pid, NEW n \in Port, Launch(q, n) PROVE Running(p)
  BY <1>1 DEF Launch
<1>2. ASSUME NEW q \in Pid,
             \/ LoadFails(q) \/ OpenBeacon(q) \/ WriteBeacon(q) \/ Unadvertised(q)
             \/ Bind(q) \/ BindFails(q) \/ DropGuard(q) \/ Reap(q)
      PROVE  Running(p)
  BY <1>2 DEF LoadFails, OpenBeacon, WriteBeacon, Unadvertised, Bind, BindFails,
              DropGuard, Reap
<1>3. ASSUME NEW S \in SUBSET Pid, NEW state \in {"zombie", "dead"}, Terminate(S, state)
      PROVE  Running(p)
  BY <1>3 DEF Terminate
<1>4. QED
  BY <1>1, <1>2, <1>3 DEF RegistryNext, ListRead, ListMisjudges, ListRemove, registryVars

\* The MCP server's account of its children survives every step.
LEMMA ChildrenStep == TypeInv /\ RegistryInv /\ ChildrenInv /\ [Next]_vars => ChildrenInv'
<1> SUFFICES ASSUME TypeInv, RegistryInv, ChildrenInv, [Next]_vars PROVE ChildrenInv'
  OBVIOUS
<1>1. RegistryTypeOK /\ RegistryNext
  BY StepOfRegistry DEF TypeInv, TypeOK
<1>2. /\ children \subseteq Pid
      /\ \A p \in children : proc[p] # "unused"
      /\ \A n \in Port : spawned[n] # None => spawned[n] \in children
      /\ mcp = "starting" => child \in children
      /\ spawned \in [Port -> Pid \union {None}]
  BY DEF TypeInv, TypeOK, Known
<1>3. ASSUME NEW p \in children
      PROVE  /\ portOf'[p] = portOf[p]
             /\ portOf[p] \in Port
             /\ p # None
             /\ Running(p)' => Running(p)
  BY <1>1, <1>2, ProcessesStay, NoRevival, NoneAssumption DEF RegistryTypeOK
<1>4. ASSUME NEW p \in Pid, NEW n \in Port, ServeStart(p, n) PROVE ChildrenInv'
  <2>1. /\ mcp = "idle" /\ mcp' = "starting" /\ child' = p
        /\ children' = children \union {p}
        /\ UNCHANGED <<spawned, unheard>>
    BY <1>4 DEF ServeStart
  <2>2. QED BY <2>1, <1>2, <1>3 DEF ChildrenInv, Accounted, HasRival
<1>5. CASE PollFound
  <2>1. PICK n \in Port : /\ beacon[n] # None /\ beacon[n].holds = child
                          /\ spawned' = [spawned EXCEPT ![n] = child]
    BY <1>5 DEF PollFound
  <2>2. /\ mcp = "starting" /\ mcp' = "idle"
        /\ UNCHANGED <<children, unheard>>
    BY <1>5 DEF PollFound
  <2>3. child \in children /\ portOf[child] = n
    BY <2>1, <2>2, <1>2 DEF RegistryInv, BeaconsAreHome
  <2>4. ASSUME NEW p \in children, Running(p)' PROVE Accounted(p)'
    <3>1. Accounted(p)
      BY <2>2, <2>4, <1>3 DEF ChildrenInv
    <3>2. CASE p = child
      BY <3>2, <2>1, <2>3, <1>2, <1>3 DEF Accounted
    <3>3. CASE p # child /\ portOf[p] = n
      BY <3>3, <2>2, <2>3, <1>3 DEF Accounted, HasRival
    <3>4. CASE p # child /\ portOf[p] # n
      BY <3>1, <3>4, <2>1, <2>2, <1>2, <1>3 DEF Accounted, HasRival
    <3>5. QED BY <3>2, <3>3, <3>4
  <2>5. QED BY <2>1, <2>2, <2>3, <2>4, <1>2, <1>3 DEF ChildrenInv
<1>6. CASE PollTimeout
  <2>1. /\ mcp = "starting" /\ mcp' = "idle"
        /\ proc'[child] = "dead"
        /\ UNCHANGED <<spawned, children, unheard>>
    BY <1>1, <1>2, <1>6 DEF PollTimeout, Terminate
  <2>2. QED BY <2>1, <1>2, <1>3 DEF ChildrenInv, Accounted, HasRival, Running
<1>7. CASE PollFails
  <2>1. /\ mcp = "starting" /\ mcp' = "idle" /\ unheard' = unheard \union {child}
        /\ UNCHANGED <<spawned, children>>
    BY <1>7 DEF PollFails
  <2>2. QED BY <2>1, <1>2, <1>3 DEF ChildrenInv, Accounted, HasRival
<1>8. ASSUME NEW n \in Port, ServeStop(n) PROVE ChildrenInv'
  <2>1. /\ mcp = "idle" /\ mcp' = "idle"
        /\ proc'[spawned[n]] = "dead"
        /\ spawned' = [spawned EXCEPT ![n] = None]
        /\ UNCHANGED <<children, unheard>>
    BY <1>1, <1>2, <1>8 DEF ServeStop, Terminate
  <2>2. QED BY <2>1, <1>2, <1>3 DEF ChildrenInv, Accounted, HasRival, Running
<1>9. CASE Exit
  <2>1. /\ mcp = "idle" /\ mcp' = "exited"
        /\ \A n \in Port : spawned[n] # None => proc'[spawned[n]] = "dead"
        /\ spawned' = [n \in Port |-> None]
        /\ UNCHANGED <<children, unheard>>
    BY <1>1, <1>2, <1>9 DEF Exit, Terminate
  <2>2. QED BY <2>1, <1>2, <1>3 DEF ChildrenInv, Accounted, HasRival, Running
<1>10. CASE Crash
  BY <1>10, <1>2, <1>3 DEF Crash, ChildrenInv
<1>11. CASE PollAgain \/ UNCHANGED mcpVars
  <2>1. UNCHANGED <<mcp, child, spawned, children, unheard>>
    BY <1>11 DEF PollAgain, mcpVars
  <2>2. QED BY <2>1, <1>2, <1>3 DEF ChildrenInv, Accounted, HasRival
<1>12. QED
  BY <1>4, <1>5, <1>6, <1>7, <1>8, <1>9, <1>10, <1>11 DEF Next, Poll, vars

\* stop_all leaves no server behind but those tool_serve_start lost to an error
\* of list() or to another session it started on the same port.
THEOREM OrphansHaveRivals == Spec => []OrphanHasRival
<1>1. Init => RegistryInv /\ ChildrenInv
  BY NoneAssumption
  DEF Init, RegistryInit, RegistryInv, Alone, Running, BeaconsAreHome, GuardsAreLate,
      OpenIsSafe, PublishedIsSafe, ChildrenInv
<1>2. TypeInv /\ RegistryInv /\ [Next]_vars => RegistryInv'
  BY StepOfRegistry, RegistryInvStep DEF TypeInv, TypeOK
<1>3. TypeInv /\ ChildrenInv => OrphanHasRival
  <2> SUFFICES ASSUME TypeInv, ChildrenInv, mcp = "exited", NEW p \in children, Running(p)
               PROVE  p \in unheard \/ HasRival(p)
    BY DEF OrphanHasRival, HasRival
  <2>1. portOf[p] \in Port /\ p # None
    BY NoneAssumption DEF TypeInv, TypeOK, Known, RegistryTypeOK
  <2>2. QED BY <2>1 DEF ChildrenInv, Accounted
<1>4. QED BY <1>1, <1>2, <1>3, ChildrenStep, TypesHold, PTL DEF Spec

\* tool_serve_stop and stop_all kill no server that was started by hand.
THEOREM StrangersSafe == Spec => StrangersAreSafe
<1>1. TypeInv /\ [Next]_vars =>
        [Exit \/ (\E n \in Port : ServeStop(n)) =>
           \A p \in Pid \ children : proc'[p] = proc[p]]_vars
  <2> SUFFICES ASSUME TypeInv, Exit \/ (\E n \in Port : ServeStop(n)), NEW p \in Pid \ children
               PROVE  proc'[p] = proc[p]
    OBVIOUS
  <2>1. CASE Exit
    BY <2>1 DEF Exit, Terminate, TypeInv, Known
  <2>2. ASSUME NEW n \in Port, ServeStop(n) PROVE proc'[p] = proc[p]
    BY <2>2 DEF ServeStop, Terminate, TypeInv, Known
  <2>3. QED BY <2>1, <2>2
<1>2. QED BY <1>1, TypesHold, PTL DEF Spec, StrangersAreSafe
=============================================================================
