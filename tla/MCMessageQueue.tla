--------------------------- MODULE MCMessageQueue ---------------------------
(* MessageQueue for TLC: two connections, so that one is woken while the    *)
(* other is anywhere in its loop.                                           *)
EXTENDS MessageQueue

CONSTANTS s1, s2, m1, m2

MCSubscriber == {s1, s2}
MCMessage == {m1, m2}

\* An event that changes nothing, one patch, and two.
MCBatch == {<< >>, <<m1>>, <<m2, m1>>}
MCShortBatch == {<< >>, <<m1>>}
=============================================================================
