------------------------- MODULE MessageQueueProofs -------------------------
(***************************************************************************)
(* What MessageQueue guarantees for every set of connections and messages  *)
(* and every bound.                                                        *)
(*                                                                         *)
(* ExactlyOnceInOrder is not inductive: it says nothing of the values that *)
(* are on their way to the socket.  TaskInv(s) adds that a value in the    *)
(* channel or in the packet is the stretch of the log that begins where    *)
(* the task's cursor stands, which in turn needs the cursor to be inside   *)
(* the log, or where the client put it, and the channel to be empty        *)
(* outside select!.                                                        *)
(***************************************************************************)
EXTENDS MessageQueue, SequenceTheorems, TLAPS

\* d holds the log from the cursor c on.
IsWindow(d, log, c) == /\ d.cursor \in Nat
                       /\ c < d.cursor
                       /\ d.cursor <= Len(log)
                       /\ d.messages = SubSeq(log, c + 1, d.cursor)

TaskInv(s) ==
  /\ input[s] <= cursor[s]
  /\ cursor[s] <= Len(messages) \/ cursor[s] = input[s]
  /\ sent[s] = SubSeq(messages, input[s] + 1, cursor[s])
  /\ pc[s] = "idle" => sent[s] = << >>
  /\ inbox[s] # None => pc[s] = "select" /\ IsWindow(inbox[s], messages, cursor[s])
  /\ pc[s] = "send" => packet[s] # None /\ IsWindow(packet[s], messages, cursor[s])
  /\ packet[s] # None => pc[s] = "send"
  /\ pc[s] = "select" /\ inbox[s] = None => ListenerOf(s) \in message_listeners
  /\ pc[s] \in {"register", "select"} /\ inbox[s] = None /\ cursor[s] < Len(messages)
       => missed[s]

StampInv == /\ messages # << >> => last_push_at
            /\ batch # None /\ batch # << >> => last_push_at
            /\ told => messages # << >>
            /\ told /\ asked => stamp

IndInv == VarTypes /\ StampInv /\ \A s \in Subscriber : TaskInv(s)

-----------------------------------------------------------------------------
(* Facts about the log.                                                    *)

\* Extending the log changes no window of it (messages.extend_from_slice).
LEMMA WindowOfExtension ==
  ASSUME NEW S, NEW log \in Seq(S), NEW more \in Seq(S),
         NEW a \in Nat, NEW b \in Nat, a <= b, b <= Len(log)
  PROVE  SubSeq(log \o more, a + 1, b) = SubSeq(log, a + 1, b)
<1>1. CASE a = b
  BY <1>1, SubSeqEmpty
<1>2. CASE a < b
  <2>1. a + 1 \in 1..Len(log) /\ b \in 1..Len(log)
    BY <1>2, LenProperties
  <2> QED  BY <2>1, SubSeqOfConcat1
<1> QED  BY <1>1, <1>2

\* What a window is made of (messages[cursor..].to_vec()).
LEMMA WindowType ==
  ASSUME NEW S, NEW log \in Seq(S), NEW a \in Nat, NEW b \in Nat, a <= b, b <= Len(log)
  PROVE  /\ SubSeq(log, a + 1, b) \in Seq(S)
         /\ Len(SubSeq(log, a + 1, b)) = b - a
<1>1. \A i \in (a + 1)..b : log[i] \in S
  BY ElementOfSeq, LenProperties
<1> QED  BY <1>1, SubSeqProperties

\* Two windows that meet make one: the socket's next packet continues what it
\* was sent before.
LEMMA WindowsMeet ==
  ASSUME NEW S, NEW log \in Seq(S), NEW a \in Nat, NEW b \in Nat, NEW c \in Nat,
         a <= b, b <= c, c <= Len(log)
  PROVE  SubSeq(log, a + 1, b) \o SubSeq(log, b + 1, c) = SubSeq(log, a + 1, c)
<1>1. a + 1 \in 1..(Len(log) + 1) /\ b \in (a + 1 - 1)..Len(log) /\ c \in b..Len(log)
  BY LenProperties
<1> QED  BY <1>1, ConcatAdjacentSubSeq

\* A value fired from the cursor c is a window of the log that starts there
\* (fire_listener_if_ready).
LEMMA FiredIsWindow ==
  ASSUME NEW log \in Seq(Message), NEW c \in Nat, Ready(log, c)
  PROVE  /\ Fired(log, c) \in Delivery
         /\ Fired(log, c) # None
         /\ IsWindow(Fired(log, c), log, c)
<1>1. Len(log) \in Nat /\ c <= Len(log) /\ c < Len(log)
  BY LenProperties DEF Ready
<1>2. SubSeq(log, c + 1, Len(log)) \in Seq(Message)
  BY <1>1, WindowType
<1>3. Fired(log, c) \in Delivery
  BY <1>1, <1>2 DEF Fired, Delivery
<1>4. Fired(log, c) # None
  BY <1>3, NoneAssumption
<1>5. IsWindow(Fired(log, c), log, c)
  BY <1>1 DEF Fired, IsWindow
<1> QED  BY <1>3, <1>4, <1>5

-----------------------------------------------------------------------------
(* The inductive invariant.                                                *)

\* A step of one task that leaves the log alone and takes no listener off the
\* list disturbs nothing of another task.
LEMMA OtherTask ==
  ASSUME NEW t \in Subscriber, TaskInv(t),
         messages' = messages,
         message_listeners \subseteq message_listeners',
         pc'[t] = pc[t], chan'[t] = chan[t], inbox'[t] = inbox[t],
         packet'[t] = packet[t], input'[t] = input[t], cursor'[t] = cursor[t],
         sent'[t] = sent[t], missed'[t] = missed[t]
  PROVE  TaskInv(t)'
BY DEF TaskInv, IsWindow, ListenerOf

\* The empty queue, before any connection.
LEMMA InitInv == Init => IndInv
<1> SUFFICES ASSUME Init PROVE IndInv
  OBVIOUS
<1>1. VarTypes
  BY EmptySeq DEF Init, VarTypes, PC
<1>2. StampInv
  BY DEF Init, StampInv
<1>3. ASSUME NEW s \in Subscriber PROVE TaskInv(s)
  <2>1. SubSeq(<< >>, 0 + 1, 0) = << >>
    BY SubSeqEmpty
  <2>2. Len(messages) = 0
    BY EmptySeq DEF Init
  <2> QED  BY <2>1, <2>2 DEF Init, TaskInv
<1> QED  BY <1>1, <1>2, <1>3 DEF IndInv

\* push_messages up to the locks: only the slice in hand and the stamp change.
LEMMA PushStampInv ==
  ASSUME IndInv, NEW b \in Batch, PushStamp(b)
  PROVE  IndInv'
<1>1. VarTypes'
  BY BatchAssumption DEF IndInv, VarTypes, PushStamp, taskVars, statusVars
<1>2. StampInv'
  BY DEF IndInv, StampInv, VarTypes, PushStamp, statusVars
<1>3. ASSUME NEW t \in Subscriber PROVE TaskInv(t)'
  BY OtherTask DEF IndInv, PushStamp, taskVars
<1> QED  BY <1>1, <1>2, <1>3 DEF IndInv

\* push_messages under the locks: every window stays one, every ready listener
\* gets the window it waits for, and a task between the halves of subscribe is
\* recorded as missed.
LEMMA PushCommitInv ==
  ASSUME IndInv, PushCommit
  PROVE  IndInv'
<1> DEFINE log == messages \o batch
<1>1. /\ messages \in Seq(Message) /\ batch \in Seq(Message)
      /\ log \in Seq(Message)
      /\ Len(messages) \in Nat /\ Len(log) \in Nat
      /\ Len(messages) <= Len(log)
  <2>1. messages \in Seq(Message) /\ batch \in Seq(Message)
    BY DEF IndInv, VarTypes, PushCommit
  <2> QED  BY <2>1, ConcatProperties, LenProperties
<1>2. /\ messages' = log /\ batch' = None
      /\ message_listeners' = message_listeners \ ReadyListeners(log)
      /\ inbox' = [s \in Subscriber |->
                     IF Woken(log, s) THEN Fired(log, cursor[s]) ELSE inbox[s]]
      /\ missed' = [s \in Subscriber |->
                      missed[s] \/ (pc[s] = "register" /\ cursor[s] < Len(log))]
      /\ UNCHANGED <<last_push_at, pc, chan, packet, input, cursor, sent, asked, stamp, told>>
  BY DEF PushCommit, statusVars
<1> HIDE DEF log
<1>3. ASSUME NEW s \in Subscriber, Woken(log, s)
      PROVE  /\ Fired(log, cursor[s]) \in Delivery
             /\ Fired(log, cursor[s]) # None
             /\ IsWindow(Fired(log, cursor[s]), log, cursor[s])
             /\ pc[s] = "select"
  <2>1. cursor[s] \in Nat /\ Ready(log, cursor[s]) /\ pc[s] = "select"
    BY <1>3 DEF Woken, ReadyListeners, ListenerOf, IndInv, VarTypes
  <2> QED  BY <1>1, <2>1, FiredIsWindow
<1>4. VarTypes'
  <2>1. inbox' \in [Subscriber -> Delivery \union {None}]
    BY <1>2, <1>3 DEF IndInv, VarTypes
  <2>2. missed' \in [Subscriber -> BOOLEAN]
    BY <1>2 DEF IndInv, VarTypes
  <2>3. message_listeners' \subseteq Listener
    BY <1>2 DEF IndInv, VarTypes
  <2> QED  BY <1>1, <1>2, <2>1, <2>2, <2>3 DEF IndInv, VarTypes
<1>5. StampInv'
  <2>1. CASE batch = << >>
    BY <1>1, <1>2, <2>1, ConcatEmptySeq DEF IndInv, StampInv, log
  <2>2. CASE batch # << >>
    <3>1. log # << >>
      <4>1. Len(batch) \in Nat /\ Len(batch) # 0
        BY <1>1, <2>2, EmptySeq, LenProperties
      <4>2. Len(log) = Len(messages) + Len(batch)
        BY <1>1, ConcatProperties DEF log
      <4>3. Len(log) # 0
        BY <1>1, <4>1, <4>2
      <4> QED  BY <4>3, EmptySeq
    <3> QED  BY <1>1, <1>2, <2>2, <3>1, NoneAssumption DEF IndInv, StampInv
  <2> QED  BY <2>1, <2>2
<1>6. ASSUME NEW s \in Subscriber PROVE TaskInv(s)'
  <2>1. TaskInv(s) /\ cursor[s] \in Nat /\ input[s] \in Nat
    BY DEF IndInv, VarTypes
  <2>2. ASSUME NEW a \in Nat, NEW b \in Nat, a <= b, b <= Len(messages)
        PROVE  SubSeq(log, a + 1, b) = SubSeq(messages, a + 1, b)
    BY <1>1, <2>2, WindowOfExtension DEF log
  <2>3. ASSUME NEW d, IsWindow(d, messages, cursor[s])
        PROVE  IsWindow(d, log, cursor[s])
    <3>1. /\ d.cursor \in Nat /\ cursor[s] < d.cursor /\ d.cursor <= Len(messages)
          /\ d.messages = SubSeq(messages, cursor[s] + 1, d.cursor)
      BY <2>3 DEF IsWindow
    <3>2. cursor[s] <= d.cursor /\ d.cursor <= Len(log)
      BY <1>1, <2>1, <3>1
    <3>3. SubSeq(log, cursor[s] + 1, d.cursor) = SubSeq(messages, cursor[s] + 1, d.cursor)
      BY <2>1, <2>2, <3>1, <3>2
    <3> QED  BY <3>1, <3>2, <3>3 DEF IsWindow
  <2>4. sent[s] = SubSeq(log, input[s] + 1, cursor[s])
    <3>1. CASE cursor[s] <= Len(messages)
      BY <2>1, <2>2, <3>1 DEF TaskInv
    <3>2. CASE cursor[s] = input[s]
      BY <2>1, <3>2, SubSeqEmpty DEF TaskInv
    <3> QED  BY <2>1, <3>1, <3>2 DEF TaskInv
  <2>5. inbox'[s] = IF Woken(log, s) THEN Fired(log, cursor[s]) ELSE inbox[s]
    BY <1>2
  <2>6. inbox'[s] # None => pc[s] = "select" /\ IsWindow(inbox'[s], log, cursor[s])
    BY <1>3, <2>1, <2>3, <2>5 DEF TaskInv
  <2>7. pc[s] = "send" => packet[s] # None /\ IsWindow(packet[s], log, cursor[s])
    BY <2>1, <2>3 DEF TaskInv
  <2>8. ASSUME pc[s] = "select", inbox'[s] = None
        PROVE  /\ ListenerOf(s) \in message_listeners'
               /\ ~(cursor[s] < Len(log))
    <3>1. inbox[s] = None /\ ~Woken(log, s)
      BY <1>3, <2>5, <2>8
    <3>2. ListenerOf(s) \in message_listeners
      BY <2>1, <2>8, <3>1 DEF TaskInv
    <3>3. ListenerOf(s) \notin ReadyListeners(log)
      BY <2>8, <3>1 DEF Woken
    <3> QED  BY <1>2, <3>2, <3>3 DEF ReadyListeners, Ready, ListenerOf
  <2>9. ListenerOf(s)' = ListenerOf(s)
    BY <1>2 DEF ListenerOf
  <2>10. pc[s] = "register" /\ cursor[s] < Len(log) => missed'[s]
    BY <1>2
  <2>11. /\ input[s] <= cursor[s]
         /\ cursor[s] <= Len(log) \/ cursor[s] = input[s]
         /\ pc[s] = "idle" => sent[s] = << >>
         /\ packet[s] # None => pc[s] = "send"
    BY <1>1, <2>1 DEF TaskInv
  <2> QED  BY <1>2, <2>4, <2>6, <2>7, <2>8, <2>9, <2>10, <2>11 DEF TaskInv, IsWindow
<1> QED  BY <1>4, <1>5, <1>6 DEF IndInv

\* A connection opens with nothing sent, whatever its cursor.
LEMMA ConnectInv ==
  ASSUME IndInv, NEW s \in Subscriber, NEW k \in 0..MaxCursor, Connect(s, k)
  PROVE  IndInv'
<1>0. TaskInv(s)
  BY DEF IndInv
<1>1. VarTypes'
  BY BoundsAssumption DEF IndInv, VarTypes, PC, Connect, queueVars, statusVars
<1>2. StampInv'
  BY DEF IndInv, StampInv, Connect, queueVars, statusVars
<1>3. TaskInv(s)'
  <2>1. k \in Nat
    BY BoundsAssumption
  <2>2. SubSeq(messages, k + 1, k) = << >>
    BY <2>1, SubSeqEmpty
  <2>3. pc[s] = "idle" /\ sent[s] = << >> /\ inbox[s] = None /\ packet[s] = None
    BY <1>0 DEF TaskInv, Connect
  <2> QED  BY <2>1, <2>2, <2>3 DEF TaskInv, Connect, IndInv, VarTypes, queueVars, statusVars
<1>4. ASSUME NEW t \in Subscriber, t # s PROVE TaskInv(t)'
  <2>1. TaskInv(t)
    BY DEF IndInv
  <2> QED  BY <1>4, <2>1, OtherTask DEF IndInv, VarTypes, Connect, queueVars, statusVars
<1> QED  BY <1>1, <1>2, <1>3, <1>4 DEF IndInv

\* The check: what is there is fired, otherwise there is nothing to miss yet.
LEMMA SubscribeCheckInv ==
  ASSUME IndInv, NEW s \in Subscriber, SubscribeCheck(s)
  PROVE  IndInv'
<1>0. TaskInv(s)
  BY DEF IndInv
<1>1. VarTypes'
  <2>1. messages \in Seq(Message) /\ cursor[s] \in Nat
    BY DEF IndInv, VarTypes
  <2>2. Ready(messages, cursor[s]) => Fired(messages, cursor[s]) \in Delivery
    BY <2>1, FiredIsWindow
  <2>3. inbox' \in [Subscriber -> Delivery \union {None}] /\ pc' \in [Subscriber -> PC]
    <3>1. CASE Ready(messages, cursor[s])
      BY <2>2, <3>1 DEF IndInv, VarTypes, PC, SubscribeCheck
    <3>2. CASE ~Ready(messages, cursor[s])
      BY <3>2 DEF IndInv, VarTypes, PC, SubscribeCheck
    <3> QED  BY <3>1, <3>2
  <2> QED  BY <2>3 DEF IndInv, VarTypes, SubscribeCheck, queueVars, statusVars
<1>2. StampInv'
  BY DEF IndInv, StampInv, SubscribeCheck, queueVars, statusVars
<1>3. TaskInv(s)'
  <2>1. /\ messages \in Seq(Message) /\ cursor[s] \in Nat /\ Len(messages) \in Nat
        /\ pc[s] = "subscribe" /\ inbox[s] = None
    BY <1>0, LenProperties DEF IndInv, VarTypes, SubscribeCheck, TaskInv
  <2>2. CASE Ready(messages, cursor[s])
    <3>1. /\ inbox'[s] = Fired(messages, cursor[s]) /\ pc'[s] = "select"
          /\ UNCHANGED <<messages, cursor, input, sent, packet>>
      BY <2>2 DEF SubscribeCheck, IndInv, VarTypes, queueVars, statusVars
    <3>2. inbox'[s] # None /\ IsWindow(inbox'[s], messages, cursor[s])
      BY <2>1, <2>2, <3>1, FiredIsWindow
    <3> QED  BY <1>0, <2>1, <3>1, <3>2 DEF TaskInv, IsWindow
  <2>3. CASE ~Ready(messages, cursor[s])
    <3>1. /\ inbox'[s] = None /\ pc'[s] = "register"
          /\ UNCHANGED <<messages, cursor, input, sent, packet>>
      BY <2>1, <2>3 DEF SubscribeCheck, IndInv, VarTypes, queueVars, statusVars
    <3>2. ~(cursor[s] < Len(messages))
      BY <2>3 DEF Ready
    <3> QED  BY <1>0, <2>1, <3>1, <3>2 DEF TaskInv
  <2> QED  BY <2>2, <2>3
<1>4. ASSUME NEW t \in Subscriber, t # s PROVE TaskInv(t)'
  <2>1. TaskInv(t)
    BY DEF IndInv
  <2> QED  BY <1>4, <2>1, OtherTask DEF IndInv, VarTypes, SubscribeCheck, queueVars, statusVars
<1> QED  BY <1>1, <1>2, <1>3, <1>4 DEF IndInv

\* The registration: the listener carries the task's channel and cursor.
LEMMA SubscribeRegisterInv ==
  ASSUME IndInv, NEW s \in Subscriber, SubscribeRegister(s)
  PROVE  IndInv'
<1>0. TaskInv(s)
  BY DEF IndInv
<1>1. VarTypes'
  <2>1. ListenerOf(s) \in Listener
    BY DEF ListenerOf, Listener, IndInv, VarTypes
  <2> QED  BY <2>1 DEF IndInv, VarTypes, PC, SubscribeRegister, statusVars
<1>2. StampInv'
  BY DEF IndInv, StampInv, SubscribeRegister, queueVars, statusVars
<1>3. TaskInv(s)'
  <2>1. ListenerOf(s)' = ListenerOf(s) /\ ListenerOf(s) \in message_listeners'
    BY DEF ListenerOf, SubscribeRegister
  <2>2. /\ pc[s] = "register" /\ pc'[s] = "select"
        /\ UNCHANGED <<messages, chan, inbox, packet, input, cursor, sent, missed>>
    BY DEF SubscribeRegister, IndInv, VarTypes
  <2> QED  BY <1>0, <2>1, <2>2 DEF TaskInv
<1>4. ASSUME NEW t \in Subscriber, t # s PROVE TaskInv(t)'
  <2>1. TaskInv(t)
    BY DEF IndInv
  <2> QED  BY <1>4, <2>1, OtherTask DEF IndInv, VarTypes, SubscribeRegister, queueVars, statusVars
<1> QED  BY <1>1, <1>2, <1>3, <1>4 DEF IndInv

\* The value leaves the channel for the packet as it is.
LEMMA ReceiveInv ==
  ASSUME IndInv, NEW s \in Subscriber, Receive(s)
  PROVE  IndInv'
<1>0. TaskInv(s)
  BY DEF IndInv
<1>1. VarTypes'
  BY DEF IndInv, VarTypes, PC, Receive, queueVars, statusVars
<1>2. StampInv'
  BY DEF IndInv, StampInv, Receive, queueVars, statusVars
<1>3. TaskInv(s)'
  <2>1. /\ inbox[s] # None /\ packet'[s] = inbox[s] /\ inbox'[s] = None /\ pc'[s] = "send"
        /\ UNCHANGED <<messages, cursor, input, sent>>
    BY DEF Receive, IndInv, VarTypes, queueVars, statusVars
  <2> QED  BY <1>0, <2>1 DEF TaskInv, IsWindow
<1>4. ASSUME NEW t \in Subscriber, t # s PROVE TaskInv(t)'
  <2>1. TaskInv(t)
    BY DEF IndInv
  <2> QED  BY <1>4, <2>1, OtherTask DEF IndInv, VarTypes, Receive, queueVars, statusVars
<1> QED  BY <1>1, <1>2, <1>3, <1>4 DEF IndInv

\* The socket took the packet: sent and cursor move together.
LEMMA SendOkInv ==
  ASSUME IndInv, NEW s \in Subscriber, SendOk(s)
  PROVE  IndInv'
<1>0. TaskInv(s)
  BY DEF IndInv
<1>1. VarTypes'
  <2>1. packet[s] \in Delivery
    BY <1>0 DEF IndInv, VarTypes, TaskInv, SendOk
  <2>2. packet[s].cursor \in Nat /\ packet[s].messages \in Seq(Message)
    BY <2>1 DEF Delivery
  <2>3. sent[s] \o packet[s].messages \in Seq(Message)
    BY <2>2, ConcatProperties DEF IndInv, VarTypes
  <2> QED  BY <2>2, <2>3 DEF IndInv, VarTypes, PC, SendOk, queueVars, statusVars
<1>2. StampInv'
  BY DEF IndInv, StampInv, SendOk, queueVars, statusVars
<1>3. TaskInv(s)'
  <2> DEFINE n == packet[s].cursor
  <2>1. /\ pc[s] = "send" /\ pc'[s] = "subscribe" /\ inbox[s] = None
        /\ sent'[s] = sent[s] \o packet[s].messages /\ cursor'[s] = n /\ packet'[s] = None
        /\ UNCHANGED <<messages, inbox, input>>
    BY <1>0 DEF SendOk, IndInv, VarTypes, TaskInv, queueVars, statusVars
  <2>2. /\ n \in Nat /\ cursor[s] < n /\ n <= Len(messages)
        /\ packet[s].messages = SubSeq(messages, cursor[s] + 1, n)
        /\ sent[s] = SubSeq(messages, input[s] + 1, cursor[s])
        /\ input[s] <= cursor[s]
    BY <1>0, <2>1 DEF TaskInv, IsWindow
  <2>3. messages \in Seq(Message) /\ input[s] \in Nat /\ cursor[s] \in Nat
    BY DEF IndInv, VarTypes
  <2>4. input[s] <= n /\ cursor[s] <= n
    BY <2>2, <2>3
  <2> HIDE DEF n
  <2>5. SubSeq(messages, input[s] + 1, cursor[s]) \o SubSeq(messages, cursor[s] + 1, n)
          = SubSeq(messages, input[s] + 1, n)
    BY <2>2, <2>3, <2>4, WindowsMeet
  <2>6. sent'[s] = SubSeq(messages, input[s] + 1, n)
    BY <2>1, <2>2, <2>5
  <2> QED  BY <2>1, <2>2, <2>4, <2>6 DEF TaskInv
<1>4. ASSUME NEW t \in Subscriber, t # s PROVE TaskInv(t)'
  <2>1. TaskInv(t)
    BY DEF IndInv
  <2> QED  BY <1>4, <2>1, OtherTask DEF IndInv, VarTypes, SendOk, queueVars, statusVars
<1> QED  BY <1>1, <1>2, <1>3, <1>4 DEF IndInv

\* The client is gone while a packet is on its way to it.
LEMMA SendFailsInv ==
  ASSUME IndInv, NEW s \in Subscriber, SendFails(s)
  PROVE  IndInv'
<1>0. TaskInv(s)
  BY DEF IndInv
<1>1. VarTypes'
  BY DEF IndInv, VarTypes, PC, SendFails, queueVars, statusVars
<1>2. StampInv'
  BY DEF IndInv, StampInv, SendFails, queueVars, statusVars
<1>3. TaskInv(s)'
  <2>1. /\ inbox'[s] = None /\ packet'[s] = None /\ pc'[s] \in {"subscribe", "closed"}
        /\ UNCHANGED <<messages, cursor, input, sent>>
    BY <1>0 DEF SendFails, IndInv, VarTypes, TaskInv, queueVars, statusVars
  <2> QED  BY <1>0, <2>1 DEF TaskInv
<1>4. ASSUME NEW t \in Subscriber, t # s PROVE TaskInv(t)'
  <2>1. TaskInv(t)
    BY DEF IndInv
  <2> QED  BY <1>4, <2>1, OtherTask DEF IndInv, VarTypes, SendFails, queueVars, statusVars
<1> QED  BY <1>1, <1>2, <1>3, <1>4 DEF IndInv

\* A frame wins the select: the value in the channel is dropped, the cursor stays.
LEMMA FrameInv ==
  ASSUME IndInv, NEW s \in Subscriber, Frame(s)
  PROVE  IndInv'
<1>0. TaskInv(s)
  BY DEF IndInv
<1>1. VarTypes'
  BY DEF IndInv, VarTypes, PC, Frame, queueVars, statusVars
<1>2. StampInv'
  BY DEF IndInv, StampInv, Frame, queueVars, statusVars
<1>3. TaskInv(s)'
  <2>1. /\ inbox'[s] = None /\ packet'[s] = None /\ pc'[s] \in {"subscribe", "closed"}
        /\ UNCHANGED <<messages, cursor, input, sent>>
    BY <1>0 DEF Frame, IndInv, VarTypes, TaskInv, queueVars, statusVars
  <2> QED  BY <1>0, <2>1 DEF TaskInv
<1>4. ASSUME NEW t \in Subscriber, t # s PROVE TaskInv(t)'
  <2>1. TaskInv(t)
    BY DEF IndInv
  <2> QED  BY <1>4, <2>1, OtherTask DEF IndInv, VarTypes, Frame, queueVars, statusVars
<1> QED  BY <1>1, <1>2, <1>3, <1>4 DEF IndInv

\* The socket closes while the task waits.
LEMMA CloseInv ==
  ASSUME IndInv, NEW s \in Subscriber, Close(s)
  PROVE  IndInv'
<1>0. TaskInv(s)
  BY DEF IndInv
<1>1. VarTypes'
  BY DEF IndInv, VarTypes, PC, Close, queueVars, statusVars
<1>2. StampInv'
  BY DEF IndInv, StampInv, Close, queueVars, statusVars
<1>3. TaskInv(s)'
  <2>1. /\ inbox'[s] = None /\ packet'[s] = None /\ pc'[s] \in {"subscribe", "closed"}
        /\ UNCHANGED <<messages, cursor, input, sent>>
    BY <1>0 DEF Close, IndInv, VarTypes, TaskInv, queueVars, statusVars
  <2> QED  BY <1>0, <2>1 DEF TaskInv
<1>4. ASSUME NEW t \in Subscriber, t # s PROVE TaskInv(t)'
  <2>1. TaskInv(t)
    BY DEF IndInv
  <2> QED  BY <1>4, <2>1, OtherTask DEF IndInv, VarTypes, Close, queueVars, statusVars
<1> QED  BY <1>1, <1>2, <1>3, <1>4 DEF IndInv

\* A status request between its two reads, and its answer: by the time an
\* answer has counted a patch the stamp is there.
LEMMA StatusInv ==
  ASSUME IndInv, StatusStamp \/ StatusCursor
  PROVE  IndInv'
<1>1. UNCHANGED <<queueVars, taskVars>>
  BY DEF StatusStamp, StatusCursor
<1>2. VarTypes'
  BY <1>1 DEF IndInv, VarTypes, StatusStamp, StatusCursor, queueVars, taskVars
<1>3. StampInv'
  BY DEF IndInv, StampInv, VarTypes, StatusStamp, StatusCursor, queueVars
<1>4. ASSUME NEW t \in Subscriber PROVE TaskInv(t)'
  BY <1>1, OtherTask DEF IndInv, queueVars, taskVars
<1> QED  BY <1>2, <1>3, <1>4 DEF IndInv

\* Every step keeps the inductive invariant.
LEMMA NextInv == IndInv /\ [Next]_vars => IndInv'
<1> SUFFICES ASSUME IndInv, [Next]_vars PROVE IndInv'
  OBVIOUS
<1>1. ASSUME NEW b \in Batch, PushStamp(b) PROVE IndInv'
  BY <1>1, PushStampInv
<1>2. CASE PushCommit
  BY <1>2, PushCommitInv
<1>3. ASSUME NEW s \in Subscriber, NEW k \in 0..MaxCursor, Connect(s, k) PROVE IndInv'
  BY <1>3, ConnectInv
<1>4. ASSUME NEW s \in Subscriber, Task(s) \/ Frame(s) \/ Close(s) PROVE IndInv'
  BY <1>4, SubscribeCheckInv, SubscribeRegisterInv, ReceiveInv, SendOkInv, SendFailsInv,
     FrameInv, CloseInv DEF Task
<1>5. CASE StatusStamp \/ StatusCursor
  BY <1>5, StatusInv
<1>6. CASE UNCHANGED vars
  <2>1. VarTypes' /\ StampInv'
    BY <1>6 DEF IndInv, VarTypes, StampInv, vars, queueVars, statusVars, taskVars
  <2>2. ASSUME NEW t \in Subscriber PROVE TaskInv(t)'
    BY <1>6, OtherTask DEF IndInv, vars, queueVars, statusVars, taskVars
  <2> QED  BY <2>1, <2>2 DEF IndInv
<1> QED  BY <1>1, <1>2, <1>3, <1>4, <1>5, <1>6 DEF Next

-----------------------------------------------------------------------------
(* The theorems.                                                           *)

\* Every variable of the queue and of the websocket tasks keeps its type.
THEOREM TypeCorrect == Spec => []TypeOK
<1>1. IndInv => TypeOK
  BY DEF IndInv, TaskInv, TypeOK
<1> QED  BY <1>1, InitInv, NextInv, PTL DEF Spec

\* A connection has been sent exactly the log between its first cursor and its
\* current one (handle_websocket_subscription over MessageQueue::subscribe).
THEOREM DeliveryIsExact == Spec => []ExactlyOnceInOrder
<1>1. IndInv => ExactlyOnceInOrder
  BY DEF IndInv, TaskInv, ExactlyOnceInOrder
<1> QED  BY <1>1, InitInv, NextInv, PTL DEF Spec

\* A task that waits on an empty channel is on the listener list, so the
\* "Message queue disconnected" branch of the loop is dead.
THEOREM WaitersAreRegistered == Spec => []WaiterIsRegistered
<1>1. IndInv => WaiterIsRegistered
  BY DEF IndInv, TaskInv, WaiterIsRegistered
<1> QED  BY <1>1, InitInv, NextInv, PTL DEF Spec

\* The window between the two halves of subscribe is the only way for a
\* connection to wait although there is a message for it.
THEOREM OnlyTheRaceStrands == Spec => []LagOnlyByRace
<1>1. IndInv => LagOnlyByRace
  BY DEF IndInv, TaskInv, LagOnlyByRace
<1> QED  BY <1>1, InitInv, NextInv, PTL DEF Spec

\* A status answer may miss the stamp of the first push once, never again
\* (handle_api_status reads last_push_at before the log).
THEOREM StampIsSeen == Spec => []StampCatchesUp
<1>1. IndInv => StampCatchesUp
  BY DEF IndInv, StampInv, StampCatchesUp
<1> QED  BY <1>1, InitInv, NextInv, PTL DEF Spec

-----------------------------------------------------------------------------
(* The refinement.                                                         *)

OpenSet == {s \in Subscriber : pc[s] # "idle"}

\* Steps that show in the abstract log as nothing at all.
LEMMA Stutter ==
  ASSUME messages' = messages, input' = input, sent' = sent, OpenSet' = OpenSet
  PROVE  UNCHANGED Abstract!vars
BY DEF Abstract!vars, OpenSet

\* push_messages extends the abstract log and shows nothing to anyone yet.
LEMMA PushRefines ==
  ASSUME IndInv, PushCommit
  PROVE  Abstract!Extend
<1>1. messages \in Seq(Message) /\ batch \in Seq(Message)
  BY DEF IndInv, VarTypes, PushCommit
<1>2. messages' = messages \o batch /\ UNCHANGED <<pc, input, sent>>
  BY DEF PushCommit
<1>3. /\ messages' \in Seq(Message)
      /\ Len(messages') >= Len(messages)
  BY <1>1, <1>2, ConcatProperties, LenProperties
<1>4. SubSeq(messages', 1, Len(messages)) = messages
  <2>1. /\ 0 \in Nat /\ Len(messages) \in Nat /\ 0 <= Len(messages)
        /\ Len(messages) <= Len(messages)
    BY <1>1, LenProperties
  <2>2. SubSeq(messages \o batch, 0 + 1, Len(messages)) = SubSeq(messages, 0 + 1, Len(messages))
    BY <1>1, <2>1, WindowOfExtension
  <2>3. SubSeq(messages, 1, Len(messages)) = messages
    BY <1>1, SubSeqFull
  <2> QED  BY <1>2, <2>2, <2>3
<1> QED  BY <1>2, <1>3, <1>4 DEF Abstract!Extend

\* A connection opens its window at the cursor it came with.
LEMMA ConnectRefines ==
  ASSUME IndInv, NEW s \in Subscriber, NEW k \in 0..MaxCursor, Connect(s, k)
  PROVE  Abstract!Open(s)
<1>1. s \notin OpenSet /\ OpenSet' = OpenSet \union {s}
  BY DEF IndInv, VarTypes, PC, Connect, OpenSet
<1>2. k \in Nat /\ input' = [input EXCEPT ![s] = k] /\ input'[s] = k
  BY BoundsAssumption DEF IndInv, VarTypes, Connect
<1> QED  BY <1>1, <1>2 DEF Connect, queueVars, Abstract!Open, OpenSet

\* A packet on the socket is a delivery: the window grows to the new cursor.
LEMMA SendRefines ==
  ASSUME IndInv, NEW s \in Subscriber, SendOk(s)
  PROVE  \E n \in 1..Len(messages) : Abstract!Deliver(s, n)
<1> DEFINE n == packet[s].cursor
<1>1. TaskInv(s) /\ messages \in Seq(Message) /\ input[s] \in Nat /\ cursor[s] \in Nat
  BY DEF IndInv, VarTypes
<1>2. /\ n \in Nat /\ cursor[s] < n /\ n <= Len(messages) /\ Len(messages) \in Nat
      /\ sent[s] = SubSeq(messages, input[s] + 1, cursor[s])
      /\ input[s] <= cursor[s] /\ cursor[s] <= Len(messages)
  BY <1>1, LenProperties DEF SendOk, TaskInv, IsWindow
<1>3. Len(sent[s]) = cursor[s] - input[s]
  BY <1>1, <1>2, WindowType
<1>4. input[s] + Len(sent[s]) < n
  BY <1>1, <1>2, <1>3
<1>5. TaskInv(s)'
  BY SendOkInv DEF IndInv
<1>6. sent'[s] = SubSeq(messages, input[s] + 1, n)
  BY <1>5 DEF TaskInv, SendOk, IndInv, VarTypes, queueVars, statusVars
<1>7. sent' = [sent EXCEPT ![s] = SubSeq(messages, input[s] + 1, n)]
  BY <1>6 DEF SendOk, IndInv, VarTypes
<1>8. s \in OpenSet /\ OpenSet' = OpenSet
  BY DEF SendOk, IndInv, VarTypes, OpenSet
<1>9. n \in 1..Len(messages)
  BY <1>1, <1>2
<1> HIDE DEF n
<1>10. Abstract!Deliver(s, n)
  BY <1>2, <1>4, <1>7, <1>8 DEF SendOk, queueVars, statusVars, Abstract!Deliver, Abstract!Position, OpenSet
<1> QED  BY <1>9, <1>10

\* Every step of the queue is a step of the log or invisible in it.
LEMMA StepRefines == IndInv /\ [Next]_vars => [Abstract!Next]_(Abstract!vars)
<1> SUFFICES ASSUME IndInv, [Next]_vars PROVE [Abstract!Next]_(Abstract!vars)
  OBVIOUS
<1>1. ASSUME NEW b \in Batch, PushStamp(b) PROVE UNCHANGED Abstract!vars
  BY <1>1, Stutter DEF PushStamp, taskVars, OpenSet
<1>2. CASE PushCommit
  BY <1>2, PushRefines DEF Abstract!Next
<1>3. ASSUME NEW s \in Subscriber, NEW k \in 0..MaxCursor, Connect(s, k)
      PROVE  Abstract!Next
  BY <1>3, ConnectRefines DEF Abstract!Next
<1>4. ASSUME NEW s \in Subscriber, SendOk(s) PROVE Abstract!Next
  BY <1>4, SendRefines DEF Abstract!Next
<1>5. ASSUME NEW s \in Subscriber,
             \/ SubscribeCheck(s) \/ SubscribeRegister(s) \/ Receive(s)
             \/ SendFails(s) \/ Frame(s) \/ Close(s)
      PROVE  UNCHANGED Abstract!vars
  <2>1. OpenSet' = OpenSet
    BY <1>5 DEF IndInv, VarTypes, OpenSet, SubscribeCheck, SubscribeRegister, Receive,
                SendFails, Frame, Close
  <2>2. UNCHANGED <<messages, input, sent>>
    BY <1>5 DEF queueVars, statusVars, SubscribeCheck, SubscribeRegister, Receive, SendFails, Frame, Close
  <2> QED  BY <2>1, <2>2, Stutter
<1>6. CASE StatusStamp \/ StatusCursor
  BY <1>6, Stutter DEF StatusStamp, StatusCursor, queueVars, taskVars, OpenSet
<1>7. CASE UNCHANGED vars
  BY <1>7, Stutter DEF vars, queueVars, taskVars, OpenSet
<1> QED  BY <1>1, <1>2, <1>3, <1>4, <1>5, <1>6, <1>7 DEF Next, Task

\* The queue with its locks, listeners and channels implements the abstract
\* log (message_queue.rs with the websocket loop of web/api.rs).
THEOREM Refinement == Spec => ImplementsEventLog
<1>1. Init => Abstract!Init
  BY DEF Init, Abstract!Init
<1> QED  BY <1>1, StepRefines, InitInv, NextInv, PTL DEF Spec, ImplementsEventLog, Abstract!Spec
=============================================================================
