------------------------------ MODULE EventLog ------------------------------
(***************************************************************************)
(* What MessageQueue promises, without locks, listeners or channels: an    *)
(* append-only log, and readers that each see a growing window of it.  A   *)
(* reader opens at a position it names, and from then on everything it has *)
(* seen is exactly the part of the log between that position and its       *)
(* current one: nothing lost, nothing repeated, nothing out of order.      *)
(***************************************************************************)
EXTENDS Naturals, Sequences

CONSTANTS Message, Reader

VARIABLES log,     \* every message ever appended
          open,    \* the readers that have opened
          start,   \* where each reader opened
          seen     \* what each reader has been handed so far

vars == <<log, open, start, seen>>

Position(r) == start[r] + Len(seen[r])

Init == /\ log = << >>
        /\ open = {}
        /\ start = [r \in Reader |-> 0]
        /\ seen = [r \in Reader |-> << >>]

\* The log only grows: what was appended stays where it is.
Extend == /\ log' \in Seq(Message)
          /\ Len(log') >= Len(log)
          /\ SubSeq(log', 1, Len(log)) = log
          /\ UNCHANGED <<open, start, seen>>

\* A reader opens wherever it likes, beyond the end of the log too.
Open(r) == /\ r \notin open
           /\ open' = open \union {r}
           /\ start'[r] \in Nat
           /\ start' = [start EXCEPT ![r] = start'[r]]
           /\ UNCHANGED <<log, seen>>

\* The reader is handed everything up to some later position of the log.
Deliver(r, n) == /\ r \in open
                 /\ n > Position(r)
                 /\ n <= Len(log)
                 /\ seen' = [seen EXCEPT ![r] = SubSeq(log, start[r] + 1, n)]
                 /\ UNCHANGED <<log, open, start>>

Next == \/ Extend
        \/ \E r \in Reader : Open(r)
        \/ \E r \in Reader : \E n \in 1..Len(log) : Deliver(r, n)

Spec == Init /\ [][Next]_vars
=============================================================================
