---------------------------- MODULE MessageQueue ----------------------------
(***************************************************************************)
(* src/src/message_queue.rs and what reads it in src/src/web/api.rs: the   *)
(* websocket task (handle_websocket_subscription) and handle_api_status.   *)
(*                                                                         *)
(* One thread pushes (the ChangeProcessor), any number of websocket tasks  *)
(* subscribe.  push_messages holds both locks from its first write to its  *)
(* last, so it is one step after the time stamp.  subscribe is two: it     *)
(* compares its cursor with the log under the read lock, RELEASES it, and  *)
(* only then takes the listener lock to register.                          *)
(***************************************************************************)
EXTENDS Naturals, Sequences, FiniteSets

CONSTANTS Message,        \* the applied patches that can be pushed
          Subscriber,     \* the websocket connections
          Batch,          \* the slices that are pushed: what apply_patches may return
          MaxMessages,    \* bound: length of the log
          MaxSubscribes,  \* bound: calls of subscribe by one connection
          MaxCursor,      \* bound: the cursors a client may bring, any u32 in the code
          None            \* an empty oneshot channel, no slice being pushed

ASSUME BatchAssumption == Batch \subseteq Seq(Message)

ASSUME BoundsAssumption == /\ MaxMessages \in Nat
                           /\ MaxSubscribes \in Nat
                           /\ MaxCursor \in Nat

VARIABLES
  messages,           \* MessageQueue.messages
  message_listeners,  \* MessageQueue.message_listeners, as a set: chan is unique
  last_push_at,       \* MessageQueue.last_push_at # 0
  batch,              \* the slice push_messages was called with, or None
  pc,                 \* where each websocket task is
  chan,               \* subscribe calls a task has made: names its oneshot channel
  inbox,              \* what has been sent into the task's current channel
  packet,             \* the packet the task is sending
  input,              \* input_cursor of the connection
  cursor,             \* cursor of the task's loop
  sent,               \* history: every message the socket has been given
  missed,             \* history: a push fell between the halves of subscribe
  asked,              \* a status request has read last_push_at, not yet the log
  stamp,              \* ... and this is what it read
  told                \* history: a status answer has said patches_sent > 0

queueVars == <<messages, message_listeners, last_push_at, batch>>
taskVars == <<pc, chan, inbox, packet, input, cursor, sent, missed>>
statusVars == <<asked, stamp, told>>
vars == <<queueVars, taskVars, statusVars>>

PC == {"idle", "subscribe", "register", "select", "send", "closed"}

Listener == [sub : Subscriber, chan : Nat, cursor : Nat]

Delivery == [cursor : Nat, messages : Seq(Message)]

ASSUME NoneAssumption == None \notin Seq(Message) /\ None \notin Delivery

-----------------------------------------------------------------------------
Init == /\ messages = << >>
        /\ message_listeners = {}
        /\ last_push_at = FALSE
        /\ batch = None
        /\ pc = [s \in Subscriber |-> "idle"]
        /\ chan = [s \in Subscriber |-> 0]
        /\ inbox = [s \in Subscriber |-> None]
        /\ packet = [s \in Subscriber |-> None]
        /\ input = [s \in Subscriber |-> 0]
        /\ cursor = [s \in Subscriber |-> 0]
        /\ sent = [s \in Subscriber |-> << >>]
        /\ missed = [s \in Subscriber |-> FALSE]
        /\ asked = FALSE
        /\ stamp = FALSE
        /\ told = FALSE

-----------------------------------------------------------------------------
(* The queue.                                                              *)

\* fire_listener_if_ready: the guard ...
ReadyOffByOne(log, c) == c + 1 < Len(log)
Ready(log, c) == c < Len(log)

\* ... and what it sends.
FiredWithGap(log, c) == [cursor |-> Len(log), messages |-> SubSeq(log, c + 2, Len(log))]
Fired(log, c) == [cursor |-> Len(log), messages |-> SubSeq(log, c + 1, Len(log))]

\* push_messages before it takes a lock: the time stamp.
PushStampNotEmpty(b) ==
  /\ batch = None
  /\ Len(messages) + Len(b) <= MaxMessages
  /\ batch' = b
  /\ last_push_at' = (last_push_at \/ b = << >>)
  /\ UNCHANGED <<messages, message_listeners, taskVars, statusVars>>

PushStamp(b) == /\ batch = None
                /\ Len(messages) + Len(b) <= MaxMessages
                /\ batch' = b
                /\ last_push_at' = (last_push_at \/ b # << >>)
                /\ UNCHANGED <<messages, message_listeners, taskVars, statusVars>>

\* The listener a task registers: its channel's sender and its cursor.
ListenerOf(s) == [sub |-> s, chan |-> chan[s], cursor |-> cursor[s]]

\* The listeners a push takes off the list ...
ReadyListeners(log) == {l \in message_listeners : Ready(log, l.cursor)}

\* ... of which those whose receiver is still awaited get the value; a send
\* into a dropped channel is ignored.
Woken(log, s) == pc[s] = "select" /\ ListenerOf(s) \in ReadyListeners(log)

\* push_messages under both locks.
PushCommitDropsAll ==
  LET log == messages \o batch IN
  /\ batch # None
  /\ messages' = log
  /\ batch' = None
  /\ message_listeners' = {}
  /\ inbox' = [s \in Subscriber |->
                 IF Woken(log, s) THEN Fired(log, cursor[s]) ELSE inbox[s]]
  /\ missed' = [s \in Subscriber |->
                  missed[s] \/ (pc[s] = "register" /\ cursor[s] < Len(log))]
  /\ UNCHANGED <<last_push_at, pc, chan, packet, input, cursor, sent, statusVars>>

PushCommit ==
  LET log == messages \o batch IN
  /\ batch # None
  /\ messages' = log
  /\ batch' = None
  /\ message_listeners' = message_listeners \ ReadyListeners(log)
  /\ inbox' = [s \in Subscriber |->
                 IF Woken(log, s) THEN Fired(log, cursor[s]) ELSE inbox[s]]
  /\ missed' = [s \in Subscriber |->
                  missed[s] \/ (pc[s] = "register" /\ cursor[s] < Len(log))]
  /\ UNCHANGED <<last_push_at, pc, chan, packet, input, cursor, sent, statusVars>>

-----------------------------------------------------------------------------
(* The websocket task.                                                     *)

\* The socket opens with the cursor of its URL: one the client got from an
\* earlier read, or any other number, one beyond the log included.
Connect(s, k) == /\ pc[s] = "idle"
                 /\ pc' = [pc EXCEPT ![s] = "subscribe"]
                 /\ input' = [input EXCEPT ![s] = k]
                 /\ cursor' = [cursor EXCEPT ![s] = k]
                 /\ UNCHANGED <<queueVars, chan, inbox, packet, sent, missed, statusVars>>

\* First half of subscribe, under the read lock of messages.
SubscribeCheck(s) ==
  /\ pc[s] = "subscribe"
  /\ chan' = [chan EXCEPT ![s] = @ + 1]
  /\ missed' = [missed EXCEPT ![s] = FALSE]
  /\ IF Ready(messages, cursor[s])
       THEN /\ inbox' = [inbox EXCEPT ![s] = Fired(messages, cursor[s])]
            /\ pc' = [pc EXCEPT ![s] = "select"]
       ELSE /\ pc' = [pc EXCEPT ![s] = "register"]
            /\ UNCHANGED inbox
  /\ UNCHANGED <<queueVars, packet, input, cursor, sent, statusVars>>

\* Second half, under the listener lock.
SubscribeRegister(s) ==
  /\ pc[s] = "register"
  /\ message_listeners' = message_listeners
                            \union {ListenerOf(s)}
  /\ pc' = [pc EXCEPT ![s] = "select"]
  /\ UNCHANGED <<messages, last_push_at, batch, chan, inbox, packet, input, cursor, sent, missed,
                 statusVars>>

\* select! takes the receiver: the packet is built and the send awaited.
Receive(s) == /\ pc[s] = "select"
              /\ inbox[s] # None
              /\ packet' = [packet EXCEPT ![s] = inbox[s]]
              /\ inbox' = [inbox EXCEPT ![s] = None]
              /\ pc' = [pc EXCEPT ![s] = "send"]
              /\ UNCHANGED <<queueVars, chan, input, cursor, sent, missed, statusVars>>

SendOk(s) == /\ pc[s] = "send"
             /\ sent' = [sent EXCEPT ![s] = @ \o packet[s].messages]
             /\ cursor' = [cursor EXCEPT ![s] = packet[s].cursor]
             /\ packet' = [packet EXCEPT ![s] = None]
             /\ pc' = [pc EXCEPT ![s] = "subscribe"]
             /\ UNCHANGED <<queueVars, chan, inbox, input, missed, statusVars>>

SendFails(s) == /\ pc[s] = "send"
                /\ packet' = [packet EXCEPT ![s] = None]
                /\ pc' = [pc EXCEPT ![s] = "closed"]
                /\ UNCHANGED <<queueVars, chan, inbox, input, cursor, sent, missed, statusVars>>

\* select! takes a ping, pong, text or binary frame instead, even when the
\* receiver is ready too: the receiver and what is in it are dropped, the
\* loop subscribes again from the same cursor, and the abandoned listener
\* stays on the list until a push takes it off.
FrameSkipsAhead(s) ==
  /\ pc[s] = "select"
  /\ chan[s] < MaxSubscribes
  /\ cursor' = [cursor EXCEPT ![s] = IF inbox[s] = None THEN @ ELSE inbox[s].cursor]
  /\ inbox' = [inbox EXCEPT ![s] = None]
  /\ pc' = [pc EXCEPT ![s] = "subscribe"]
  /\ UNCHANGED <<queueVars, chan, packet, input, sent, missed, statusVars>>

FrameKeepsReceiver(s) ==
  /\ pc[s] = "select"
  /\ chan[s] < MaxSubscribes
  /\ pc' = [pc EXCEPT ![s] = "subscribe"]
  /\ UNCHANGED <<queueVars, chan, inbox, packet, input, cursor, sent, missed, statusVars>>

Frame(s) == /\ pc[s] = "select"
            /\ chan[s] < MaxSubscribes
            /\ inbox' = [inbox EXCEPT ![s] = None]
            /\ pc' = [pc EXCEPT ![s] = "subscribe"]
            /\ UNCHANGED <<queueVars, chan, packet, input, cursor, sent, missed, statusVars>>

\* A close frame, a socket error or the end of the stream.
Close(s) == /\ pc[s] = "select"
            /\ inbox' = [inbox EXCEPT ![s] = None]
            /\ pc' = [pc EXCEPT ![s] = "closed"]
            /\ UNCHANGED <<queueVars, chan, packet, input, cursor, sent, missed, statusVars>>

-----------------------------------------------------------------------------
(* The last two fields of a status answer; requests follow one another.    *)

\* last_patch_at comes first, ...
StatusStamp == /\ ~asked
               /\ asked' = TRUE
               /\ stamp' = last_push_at
               /\ UNCHANGED <<queueVars, taskVars, told>>

\* ... then patches_sent, under the read lock of messages, and the answer.
StatusCursor == /\ asked
                /\ asked' = FALSE
                /\ stamp' = FALSE
                /\ told' = (told \/ messages # << >>)
                /\ UNCHANGED <<queueVars, taskVars>>

-----------------------------------------------------------------------------
Task(s) == \/ SubscribeCheck(s) \/ SubscribeRegister(s)
           \/ Receive(s) \/ SendOk(s) \/ SendFails(s)

Next == \/ \E b \in Batch : PushStamp(b)
        \/ PushCommit
        \/ \E s \in Subscriber : \E k \in 0..MaxCursor : Connect(s, k)
        \/ \E s \in Subscriber : Task(s) \/ Frame(s) \/ Close(s)
        \/ StatusStamp \/ StatusCursor

Spec == Init /\ [][Next]_vars

\* The tokio runtime polls every task that is ready and the ChangeProcessor
\* thread finishes a push it has begun.  Nothing makes a file change, a frame
\* arrive, a client connect or leave or anybody ask for the status.
FairSpec == /\ Spec
            /\ WF_vars(PushCommit)
            /\ \A s \in Subscriber : WF_vars(Task(s))

-----------------------------------------------------------------------------
(* Properties.                                                             *)

\* The types.  Values are where their owner is: in a channel only while the
\* task that owns it awaits it, in a packet just while it is sent.
VarTypes ==
          /\ messages \in Seq(Message)
          /\ message_listeners \subseteq Listener
          /\ last_push_at \in BOOLEAN
          /\ batch \in Seq(Message) \union {None}
          /\ pc \in [Subscriber -> PC]
          /\ chan \in [Subscriber -> Nat]
          /\ inbox \in [Subscriber -> Delivery \union {None}]
          /\ packet \in [Subscriber -> Delivery \union {None}]
          /\ input \in [Subscriber -> Nat]
          /\ cursor \in [Subscriber -> Nat]
          /\ sent \in [Subscriber -> Seq(Message)]
          /\ missed \in [Subscriber -> BOOLEAN]
          /\ asked \in BOOLEAN
          /\ stamp \in BOOLEAN
          /\ told \in BOOLEAN

TypeOK == /\ VarTypes
          /\ \A s \in Subscriber : /\ inbox[s] # None => pc[s] = "select"
                                   /\ packet[s] # None <=> pc[s] = "send"

\* What a connection has been sent is exactly the log between the cursor it
\* came with and the cursor it holds: no message lost, repeated or reordered,
\* whatever frames, pushes and dropped receivers came in between.
ExactlyOnceInOrder ==
  \A s \in Subscriber : sent[s] = SubSeq(messages, input[s] + 1, cursor[s])

\* A task waiting on an empty channel has its listener on the list: the only
\* way out of select! for it is a push, never the "Message queue
\* disconnected" branch, which would close a healthy socket.
WaiterIsRegistered ==
  \A s \in Subscriber : pc[s] = "select" /\ inbox[s] = None =>
    ListenerOf(s) \in message_listeners

\* A status answer may say "patches sent, no last patch", since it reads the
\* stamp before the log and a first push may fall in between.  Only once: after
\* an answer that counted a patch, every later request finds a last_patch_at.
StampCatchesUp == told /\ asked => stamp

\* A task that waits although there is something for it has been overtaken
\* by a push between the two halves of its subscribe; nothing else leaves a
\* waiting connection behind.
LagOnlyByRace ==
  \A s \in Subscriber :
    pc[s] = "select" /\ inbox[s] = None /\ cursor[s] < Len(messages) => missed[s]

\* The refinement: the log, and what each connection has been given of it.
Abstract == INSTANCE EventLog
              WITH log <- messages, Reader <- Subscriber,
                   open <- {s \in Subscriber : pc[s] # "idle"},
                   start <- input, seen <- sent

\* Everything the lock-level queue does is something the abstract log may do.
ImplementsEventLog == Abstract!Spec

\* Every message reaches every open connection, unless a push fell between the
\* two halves of its subscribe.
DeliveredUnlessMissed ==
  \A s \in Subscriber : \A n \in 1..MaxMessages :
    (pc[s] # "idle" /\ Len(messages) >= n)
      ~> (cursor[s] >= n \/ pc[s] = "closed" \/ missed[s])

\* "Subscribe to any messages occurring after the given message cursor"
\* (message_queue.rs:64): every message reaches every open connection.
Delivered ==
  \A s \in Subscriber : \A n \in 1..MaxMessages :
    (pc[s] # "idle" /\ Len(messages) >= n) ~> (cursor[s] >= n \/ pc[s] = "closed")
=============================================================================
