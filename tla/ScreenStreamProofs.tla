---------------------------- MODULE ScreenStreamProofs ----------------------------
(***************************************************************************)
(* What the screen stream keeps for any number of viewers, capacity of its *)
(* queues and depth of its encoder: its types, and that a viewer is sent   *)
(* nothing it cannot decode.                                               *)
(***************************************************************************)
EXTENDS ScreenStream, TLAPS

-----------------------------------------------------------------------------
(* Types.                                                                   *)

TypeInv == TypeOK /\ clean \in BOOLEAN

\* At the start nothing is connected.
LEMMA InitTypes == Init => TypeInv
<1>. SUFFICES ASSUME Init PROVE TypeInv
  OBVIOUS
<1>1. screen \in Nat /\ ring \in Seq(Nat) /\ Len(ring) <= RingSize
  BY StreamAssumption DEF Init
<1>2. encoder \in [force : BOOLEAN, since : Nat, buffer : Seq(Packet)]
  BY DEF Init
<1>3. Loop("off") \in LoopState
  BY DEF Loop, NoPacket, Nothing, LoopState, Packet
<1>4. stream \in [Viewer -> LoopState]
  BY <1>3 DEF Init
<1>5. queue \in [Viewer -> Seq(FrameState)] /\ \A v \in Viewer : Len(queue[v]) <= QueueSize
  BY StreamAssumption DEF Init
<1>6. \A v \in Viewer : Running(v) <=> holder = v
  BY ViewerAssumption DEF Init, Running, Loop
<1>. QED
  BY <1>1, <1>2, <1>4, <1>5, <1>6 DEF TypeInv, TypeOK, Init

\* The screen changes, and the oldest frame makes room.
LEMMA ChangeTypes == TypeInv /\ Change => TypeInv'
<1>. SUFFICES ASSUME TypeInv, Change PROVE TypeInv'
  OBVIOUS
<1>1. screen' \in Nat /\ screen + 1 \in Nat
  BY DEF TypeInv, TypeOK, Change
<1>2. ring \in Seq(Nat) /\ Len(ring) <= RingSize /\ RingSize \in Nat \ {0}
  BY StreamAssumption DEF TypeInv, TypeOK
<1>3. PushOverwrite(ring, screen + 1) \in Seq(Nat) /\ Len(PushOverwrite(ring, screen + 1)) <= RingSize
  <2>1. CASE Len(ring) = RingSize
    <3>1. ring # <<>>
      BY <1>2, <2>1
    <3>2. Tail(ring) \in Seq(Nat) /\ Len(Tail(ring)) = Len(ring) - 1
      BY <1>2, <3>1
    <3>. QED
      BY <1>1, <1>2, <2>1, <3>2 DEF PushOverwrite
  <2>2. CASE Len(ring) # RingSize
    BY <1>1, <1>2, <2>2 DEF PushOverwrite
  <2>. QED
    BY <2>1, <2>2
<1>4. ring' \in Seq(Nat) /\ Len(ring') <= RingSize
  BY <1>2, <1>3 DEF Change
<1>5. UNCHANGED <<encoder, stream, queue, holder, clean>>
  BY DEF Change
<1>. QED
  BY <1>1, <1>4, <1>5 DEF TypeInv, TypeOK, Running

\* A loop begins and ends with the locks.
LEMMA TurnTypes ==
  ASSUME NEW v \in Viewer
  PROVE  TypeInv /\ (Connect(v) \/ Begin(v) \/ Close(v)) => TypeInv'
<1>. SUFFICES ASSUME TypeInv, Connect(v) \/ Begin(v) \/ Close(v) PROVE TypeInv'
  OBVIOUS
<1>1. \A s \in {"waiting", "due", "ended"} : Loop(s) \in LoopState /\ Loop(s).pc = s
  BY DEF Loop, NoPacket, Nothing, LoopState, Packet
<1>2. stream \in [Viewer -> LoopState] /\ \A w \in Viewer : Running(w) <=> holder = w
  BY DEF TypeInv, TypeOK
<1>3. CASE Connect(v)
  <2>1. stream' = [stream EXCEPT ![v] = Loop("waiting")] /\ holder' = holder /\ holder # v
    BY <1>2, <1>3 DEF Connect, Running
  <2>2. stream' \in [Viewer -> LoopState] /\ \A w \in Viewer : Running(w)' <=> holder' = w
    BY <1>1, <1>2, <2>1 DEF Running
  <2>. QED
    BY <1>3, <2>2 DEF Connect, TypeInv, TypeOK
<1>4. CASE Begin(v)
  <2>1. stream' = [stream EXCEPT ![v] = Loop("due")] /\ holder' = v /\ holder = Nobody
    BY <1>4 DEF Begin
  <2>2. stream' \in [Viewer -> LoopState] /\ \A w \in Viewer : Running(w)' <=> holder' = w
    BY <1>1, <1>2, <2>1, ViewerAssumption DEF Running
  <2>3. encoder' \in [force : BOOLEAN, since : Nat, buffer : Seq(Packet)]
    BY <1>4 DEF Begin, TypeInv, TypeOK
  <2>. QED
    BY <1>4, <2>1, <2>2, <2>3 DEF Begin, TypeInv, TypeOK
<1>5. CASE Close(v)
  <2>1. stream' = [stream EXCEPT ![v] = Loop("ended")] /\ holder' = Nobody /\ holder = v
    BY <1>2, <1>5 DEF Close, End, Running
  <2>2. stream' \in [Viewer -> LoopState] /\ \A w \in Viewer : Running(w)' <=> holder' = w
    BY <1>1, <1>2, <2>1, ViewerAssumption DEF Running
  <2>. QED
    BY <1>5, <2>1, <2>2 DEF Close, End, TypeInv, TypeOK
<1>. QED
  BY <1>3, <1>4, <1>5

\* A step of v's loop after which it still runs.
LEMMA GoesOn ==
  ASSUME NEW v \in Viewer, TypeOK, Running(v), holder' = holder, NEW s \in LoopState,
         s.pc \in {"due", "captured", "encoded"}, stream' = [stream EXCEPT ![v] = s]
  PROVE  stream' \in [Viewer -> LoopState] /\ \A w \in Viewer : Running(w)' <=> holder' = w
  BY DEF TypeOK, Running

\* A tick takes a frame from the backend, or repeats the one of before.
LEMMA CaptureTypes ==
  ASSUME NEW v \in Viewer
  PROVE  TypeInv /\ Capture(v) => TypeInv'
<1>. SUFFICES ASSUME TypeInv, Capture(v) PROVE TypeInv'
  OBVIOUS
<1>. DEFINE new  == IF backend = "x11" THEN screen ELSE IF ring = <<>> THEN Nothing ELSE Head(ring)
            last == IF new = Nothing THEN stream[v].last ELSE new
            idle == IF new = Nothing THEN Idler(stream[v].idle) ELSE 0
            step == IF last = Nothing \/ Resting(idle) THEN "due" ELSE "captured"
            s    == [stream[v] EXCEPT !.last = last, !.idle = idle, !.pc = step]
<1>1. stream \in [Viewer -> LoopState] /\ stream[v] \in LoopState /\ stream[v].pc = "due"
  BY DEF TypeInv, TypeOK, Capture
<1>2. ring \in Seq(Nat) /\ Len(ring) <= RingSize /\ screen \in Nat
  BY DEF TypeInv, TypeOK
<1>3. new \in Nat
  BY <1>2 DEF Nothing
<1>4. last \in Nat
  BY <1>1, <1>3 DEF LoopState
<1>5. idle \in Nat
  BY <1>1, StreamAssumption DEF Idler, LoopState
<1>6. step \in {"due", "captured"}
  OBVIOUS
<1>7. stream' = [stream EXCEPT ![v].last = last, ![v].idle = idle, ![v].pc = step]
  BY DEF Capture
<1>. HIDE DEF new, last, idle, step
<1>8. s \in LoopState /\ s.pc = step
  BY <1>1, <1>4, <1>5, <1>6 DEF LoopState
<1>9. stream' = [stream EXCEPT ![v] = s]
  BY <1>1, <1>7 DEF LoopState
<1>10. ring' \in Seq(Nat) /\ Len(ring') <= RingSize
  <2>1. ring' = IF backend = "pipewire" /\ ring # <<>> THEN Tail(ring) ELSE ring
    BY Zenon DEF Capture
  <2>2. ring # <<>> => Tail(ring) \in Seq(Nat) /\ Len(Tail(ring)) = Len(ring) - 1
    BY <1>2
  <2>. QED
    BY <1>2, <2>1, <2>2, StreamAssumption
<1>11. UNCHANGED <<screen, encoder, holder, queue, clean>>
  BY DEF Capture
<1>12. Running(v)
  BY <1>1 DEF Running
<1>. HIDE DEF s
<1>13. stream' \in [Viewer -> LoopState] /\ \A w \in Viewer : Running(w)' <=> holder' = w
  BY <1>6, <1>8, <1>9, <1>11, <1>12, GoesOn DEF TypeInv
<1>. QED
  BY <1>2, <1>10, <1>11, <1>13 DEF TypeInv, TypeOK

\* What the encoder holds, and what it gives back of it.
LEMMA TakenTypes ==
  ASSUME NEW v \in Viewer, TypeOK
  PROVE  /\ NextPacket(v) \in Packet
         /\ Taken(v) \in [force : BOOLEAN, since : Nat, buffer : Seq(Packet)]
         /\ Head(Append(encoder.buffer, NextPacket(v))) \in Packet
<1>1. stream[v] \in LoopState /\ encoder \in [force : BOOLEAN, since : Nat, buffer : Seq(Packet)]
  BY DEF TypeOK
<1>2. stream[v].last \in Nat /\ encoder.force \in BOOLEAN /\ encoder.since \in Nat
      /\ encoder.buffer \in Seq(Packet)
  BY <1>1 DEF LoopState
<1>3. NextPacket(v) \in Packet /\ NextPacket(v).key \in BOOLEAN
  BY <1>2 DEF NextPacket, Packet
<1>. DEFINE all == Append(encoder.buffer, NextPacket(v))
<1>4. all \in Seq(Packet) /\ all # <<>> /\ Head(all) \in Packet /\ Tail(all) \in Seq(Packet)
  BY <1>2, <1>3
<1>5. Taken(v) = [force |-> FALSE, since |-> IF NextPacket(v).key THEN 0 ELSE encoder.since + 1,
                  buffer |-> IF Len(all) > Buffered THEN Tail(all) ELSE all]
  BY DEF Taken
<1>. HIDE DEF all
<1>6. Taken(v) \in [force : BOOLEAN, since : Nat, buffer : Seq(Packet)]
  BY <1>2, <1>4, <1>5
<1>. QED
  BY <1>3, <1>4, <1>6 DEF all

\* A frame becomes a packet, now or later, or fails to.
LEMMA EncodeTypes ==
  ASSUME NEW v \in Viewer
  PROVE  TypeInv /\ (Encode(v) \/ EncodeFails(v)) => TypeInv'
<1>. SUFFICES ASSUME TypeInv, Encode(v) \/ EncodeFails(v) PROVE TypeInv'
  OBVIOUS
<1>1. /\ stream \in [Viewer -> LoopState] /\ stream[v] \in LoopState
      /\ stream[v].pc = "captured" /\ Running(v)
  BY DEF TypeInv, TypeOK, Encode, EncodeFails, Running
<1>2. UNCHANGED <<screen, ring, holder, queue>> /\ clean' \in BOOLEAN
  BY DEF Encode, EncodeFails, TypeInv
<1>3. encoder' \in [force : BOOLEAN, since : Nat, buffer : Seq(Packet)]
  <2>1. CASE Encode(v)
    BY <2>1, TakenTypes DEF Encode, TypeInv
  <2>2. CASE EncodeFails(v)
    <3>1. encoder' \in {encoder, [encoder EXCEPT !.force = FALSE], Taken(v)}
      BY <2>2 DEF EncodeFails
    <3>2. encoder \in [force : BOOLEAN, since : Nat, buffer : Seq(Packet)]
      BY DEF TypeInv, TypeOK
    <3>. QED
      BY <3>1, <3>2, TakenTypes DEF TypeInv
  <2>. QED
    BY <2>1, <2>2
<1>4. \E s \in LoopState : s.pc \in {"due", "encoded"} /\ stream' = [stream EXCEPT ![v] = s]
  <2>. DEFINE p    == Head(Append(encoder.buffer, NextPacket(v)))
              ends == [stream[v] EXCEPT !.pc = "encoded", !.packet = p]
              goes == [stream[v] EXCEPT !.pc = "due"]
  <2>1. p \in Packet
    BY TakenTypes DEF TypeInv
  <2>2. stream' = [stream EXCEPT ![v] = ends] \/ stream' = [stream EXCEPT ![v] = goes]
    <3>1. CASE Encode(v)
      BY <3>1, Zenon DEF Encode
    <3>2. CASE EncodeFails(v)
      BY <1>1, <3>2 DEF EncodeFails, Set
    <3>. QED
      BY <3>1, <3>2
  <2>. HIDE DEF p
  <2>3. ends \in LoopState /\ ends.pc = "encoded" /\ goes \in LoopState /\ goes.pc = "due"
    BY <1>1, <2>1 DEF LoopState
  <2>. HIDE DEF ends, goes
  <2>. QED
    BY <2>2, <2>3
<1>5. stream' \in [Viewer -> LoopState] /\ \A w \in Viewer : Running(w)' <=> holder' = w
  BY <1>1, <1>2, <1>4, GoesOn DEF TypeInv
<1>. QED
  BY <1>2, <1>3, <1>5 DEF TypeInv, TypeOK

\* A packet is sent, or dropped, or the loop ends.
LEMMA SendTypes ==
  ASSUME NEW v \in Viewer
  PROVE  TypeInv /\ Send(v) => TypeInv'
<1>. SUFFICES ASSUME TypeInv, Send(v) PROVE TypeInv'
  OBVIOUS
<1>. DEFINE p == stream[v].packet
<1>1. /\ stream \in [Viewer -> LoopState] /\ stream[v] \in LoopState
      /\ stream[v].pc = "encoded" /\ Running(v) /\ holder = v
  BY DEF TypeInv, TypeOK, Send, Running
<1>2. p \in Packet
  BY <1>1 DEF LoopState
<1>3. UNCHANGED <<screen, ring>> /\ clean' \in BOOLEAN
  BY DEF Send, End, TypeInv
<1>4. encoder' \in [force : BOOLEAN, since : Nat, buffer : Seq(Packet)]
  <2>1. encoder' \in {encoder, [encoder EXCEPT !.force = TRUE]}
    BY DEF Send
  <2>2. encoder \in [force : BOOLEAN, since : Nat, buffer : Seq(Packet)]
    BY DEF TypeInv, TypeOK
  <2>. QED
    BY <2>1, <2>2
<1>5. /\ queue' \in [Viewer -> Seq(FrameState)]
      /\ \A w \in Viewer : Len(queue'[w]) <= QueueSize
  <2>1. queue \in [Viewer -> Seq(FrameState)] /\ \A w \in Viewer : Len(queue[w]) <= QueueSize
    BY DEF TypeInv, TypeOK
  <2>2. Frame(v, p) \in FrameState
    BY <1>2 DEF Frame, FrameState, Packet
  <2>3. queue' = queue \/ (Len(queue[v]) < QueueSize
                            /\ queue' = [queue EXCEPT ![v] = Append(@, Frame(v, p))])
    BY DEF Send
  <2>. DEFINE q == Append(queue[v], Frame(v, p))
  <2>4. q \in Seq(FrameState) /\ Len(q) = Len(queue[v]) + 1
    BY <2>1, <2>2
  <2>5. queue' = queue \/ (Len(queue[v]) < QueueSize /\ queue' = [queue EXCEPT ![v] = q])
    BY <2>3
  <2>. HIDE DEF q
  <2>6. QueueSize \in Nat /\ Len(queue[v]) \in Nat
    BY <2>1, StreamAssumption
  <2>7. CASE queue' = queue
    BY <2>1, <2>7
  <2>8. CASE Len(queue[v]) < QueueSize /\ queue' = [queue EXCEPT ![v] = q]
    <3>1. queue' \in [Viewer -> Seq(FrameState)]
      BY <2>1, <2>4, <2>8
    <3>2. \A w \in Viewer : queue'[w] = IF w = v THEN q ELSE queue[w]
      BY <2>1, <2>8
    <3>3. Len(q) <= QueueSize
      BY <2>4, <2>6, <2>8
    <3>. QED
      BY <2>1, <3>1, <3>2, <3>3
  <2>. QED
    BY <2>5, <2>7, <2>8
<1>6. stream' \in [Viewer -> LoopState] /\ \A w \in Viewer : Running(w)' <=> holder' = w
  <2>1. CASE End(v)
    <3>1. Loop("ended") \in LoopState /\ Loop("ended").pc = "ended"
      BY DEF Loop, NoPacket, Nothing, LoopState, Packet
    <3>2. \A w \in Viewer : Running(w) <=> holder = w
      BY DEF TypeInv, TypeOK
    <3>. QED
      BY <1>1, <2>1, <3>1, <3>2, ViewerAssumption DEF End, Running
  <2>2. CASE holder' = holder
    <3>. DEFINE still   == [stream[v] EXCEPT !.pc = "due"]
                sent1   == [stream[v] EXCEPT !.pc = "due", !.awaiting = FALSE]
                dropped == [stream[v] EXCEPT !.pc = "due", !.awaiting = TRUE]
    <3>1. \/ End(v)
          \/ stream' = [stream EXCEPT ![v].pc = "due"]
          \/ stream' = [stream EXCEPT ![v].pc = "due", ![v].awaiting = FALSE]
          \/ stream' = [stream EXCEPT ![v].pc = "due", ![v].awaiting = TRUE]
      BY <1>1 DEF Send, Set
    <3>2. \/ End(v)
          \/ stream' = [stream EXCEPT ![v] = still]
          \/ stream' = [stream EXCEPT ![v] = sent1]
          \/ stream' = [stream EXCEPT ![v] = dropped]
      BY <1>1, <3>1 DEF LoopState
    <3>3. /\ still \in LoopState /\ still.pc = "due"
          /\ sent1 \in LoopState /\ sent1.pc = "due"
          /\ dropped \in LoopState /\ dropped.pc = "due"
      BY <1>1 DEF LoopState
    <3>. HIDE DEF still, sent1, dropped
    <3>4. ~End(v)
      BY <1>1, <2>2, ViewerAssumption DEF End
    <3>5. \E s \in LoopState : s.pc = "due" /\ stream' = [stream EXCEPT ![v] = s]
      BY <3>2, <3>3, <3>4
    <3>. QED
      BY <1>1, <2>2, <3>5, GoesOn DEF TypeInv
  <2>. QED
    BY <2>1, <2>2 DEF Send
<1>7. holder' \in Viewer \cup {Nobody}
  BY <1>1 DEF Send, End
<1>. QED
  BY <1>3, <1>4, <1>5, <1>6, <1>7 DEF TypeInv, TypeOK

\* What a viewer does empties its queue or takes a frame of it.
LEMMA ViewerTypes ==
  ASSUME NEW v \in Viewer
  PROVE  /\ TypeInv /\ (Receive(v) \/ Disconnect(v)) => TypeInv'
         /\ TypeInv /\ (Type(v) \/ CloseWindow(v) \/ Inject(v) \/ InjectFails(v)) => TypeInv'
<1>1. ASSUME TypeInv, Receive(v) \/ Disconnect(v) PROVE TypeInv'
  <2>1. UNCHANGED <<screen, ring, holder, encoder, stream, clean>>
    BY <1>1 DEF Receive, Disconnect, Leave
  <2>2. queue \in [Viewer -> Seq(FrameState)] /\ \A w \in Viewer : Len(queue[w]) <= QueueSize
    BY <1>1 DEF TypeInv, TypeOK
  <2>3. \/ queue' = [queue EXCEPT ![v] = <<>>]
        \/ queue[v] # <<>> /\ queue' = [queue EXCEPT ![v] = Tail(@)]
    BY <1>1 DEF Receive, Disconnect, Leave
  <2>4. /\ queue' \in [Viewer -> Seq(FrameState)]
        /\ \A w \in Viewer : Len(queue'[w]) <= QueueSize
    <3>1. CASE queue' = [queue EXCEPT ![v] = <<>>]
      BY <2>2, <3>1, StreamAssumption
    <3>2. CASE queue[v] # <<>> /\ queue' = [queue EXCEPT ![v] = Tail(@)]
      <4>1. Tail(queue[v]) \in Seq(FrameState) /\ Len(Tail(queue[v])) = Len(queue[v]) - 1
        BY <2>2, <3>2
      <4>. QED
        BY <2>2, <3>2, <4>1, StreamAssumption
    <3>. QED
      BY <2>3, <3>1, <3>2
  <2>. QED
    BY <1>1, <2>1, <2>4 DEF TypeInv, TypeOK, Running
<1>2. ASSUME TypeInv, Type(v) \/ CloseWindow(v) \/ Inject(v) \/ InjectFails(v) PROVE TypeInv'
  <2>1. UNCHANGED <<screen, ring, holder, encoder, stream, queue, clean>>
    BY <1>2 DEF Type, CloseWindow, Inject, InjectFails, host
  <2>. QED
    BY <1>2, <2>1 DEF TypeInv, TypeOK, Running
<1>. QED
  BY <1>1, <1>2

\* Every step keeps the types.
LEMMA NextTypes == TypeInv /\ [Next]_vars => TypeInv'
<1>1. TypeInv /\ UNCHANGED vars => TypeInv'
  BY DEF vars, host, viewer, TypeInv, TypeOK, Running
<1>. QED
  BY <1>1, ChangeTypes, TurnTypes, CaptureTypes, EncodeTypes, SendTypes, ViewerTypes
  DEF Next, Turn

-----------------------------------------------------------------------------
(* What can be decoded.                                                     *)

\* The packets on the way to v's viewer, in their order: the one the loop has,
\* and what the encoder buffers.
NextIsKey(v) ==
  IF stream[v].pc = "encoded" THEN stream[v].packet.key
  ELSE IF encoder.buffer # <<>> THEN Head(encoder.buffer).key
  ELSE encoder.force

\* A viewer that misses a frame, and whose loop does not wait for a keyframe,
\* gets one next; the encoder is handed over empty.
Resumes ==
  clean => /\ holder = Nobody => encoder.buffer = <<>>
           /\ \A v \in Viewer :
                holder = v /\ v \in broken /\ ~stream[v].awaiting => NextIsKey(v)

StreamInv == TypeInv /\ Resumes /\ WholeOnly

\* A loop begins with a request for a keyframe and an encoder that is empty.
LEMMA ResumesTurn ==
  ASSUME NEW v \in Viewer, StreamInv, Connect(v) \/ Begin(v) \/ Close(v)
  PROVE  Resumes'
<1>1. /\ stream \in [Viewer -> LoopState] /\ clean \in BOOLEAN
      /\ \A w \in Viewer : Running(w) <=> holder = w
      /\ encoder \in [force : BOOLEAN, since : Nat, buffer : Seq(Packet)]
  BY DEF StreamInv, TypeInv, TypeOK
<1>2. CASE Connect(v)
  <2>1. holder # v /\ UNCHANGED <<holder, encoder, broken, clean>>
    BY <1>1, <1>2 DEF Connect, Running
  <2>2. \A w \in Viewer : w # v => stream'[w] = stream[w]
    BY <1>1, <1>2 DEF Connect
  <2>. QED
    BY <2>1, <2>2 DEF StreamInv, Resumes, NextIsKey
<1>3. CASE Begin(v)
  <2>1. /\ holder = Nobody /\ holder' = v /\ UNCHANGED <<broken, clean>>
        /\ encoder'.force /\ encoder'.buffer = encoder.buffer
    BY <1>1, <1>3 DEF Begin
  <2>2. stream'[v].pc = "due"
    BY <1>1, <1>3 DEF Begin, Loop
  <2>3. clean' => encoder'.buffer = <<>>
    BY <2>1 DEF StreamInv, Resumes
  <2>. QED
    BY <2>1, <2>2, <2>3, ViewerAssumption DEF Resumes, NextIsKey
<1>4. CASE Close(v)
  BY <1>4, ViewerAssumption DEF Close, End, Resumes
<1>. QED
  BY <1>2, <1>3, <1>4

\* The packets on their way stay in their order, and after none the next is
\* what the encoder was asked for.
LEMMA ResumesEncode ==
  ASSUME NEW v \in Viewer, StreamInv, Encode(v)
  PROVE  Resumes'
<1>1. /\ stream \in [Viewer -> LoopState] /\ stream[v] \in LoopState
      /\ stream[v].pc = "captured" /\ holder = v
      /\ encoder \in [force : BOOLEAN, since : Nat, buffer : Seq(Packet)]
      /\ encoder.buffer \in Seq(Packet)
  BY DEF StreamInv, TypeInv, TypeOK, Encode, Running
<1>2. UNCHANGED <<holder, broken, clean>>
  BY DEF Encode
<1>. DEFINE all == Append(encoder.buffer, NextPacket(v))
            old == IF encoder.buffer # <<>> THEN Head(encoder.buffer).key ELSE encoder.force
<1>3. NextPacket(v) \in Packet /\ (encoder.force => NextPacket(v).key)
  BY TakenTypes DEF StreamInv, TypeInv, NextPacket
<1>4. old => Head(all).key
  <2>1. CASE encoder.buffer = <<>>
    BY <1>3, <2>1
  <2>2. CASE encoder.buffer # <<>>
    <3>1. Head(all) = Head(encoder.buffer)
      BY <1>1, <1>3, <2>2
    <3>. QED
      BY <2>2, <3>1
  <2>. QED
    BY <2>1, <2>2
<1>5. all # <<>>
  BY <1>1, <1>3
<1>6. /\ stream' = [stream EXCEPT ![v] = IF Len(all) > Buffered
                                        THEN [@ EXCEPT !.pc = "encoded", !.packet = Head(all)]
                                        ELSE [@ EXCEPT !.pc = "due"]]
      /\ encoder'.buffer = IF Len(all) > Buffered THEN Tail(all) ELSE all
  BY DEF Encode, Taken
<1>7. NextIsKey(v) <=> old
  BY <1>1 DEF NextIsKey
<1>. HIDE DEF all, old
<1>8. stream'[v].awaiting = stream[v].awaiting
  BY <1>1, <1>6 DEF LoopState
<1>9. Head(all).key => NextIsKey(v)'
  <2>1. CASE Len(all) > Buffered
    <3>1. stream'[v].pc = "encoded" /\ stream'[v].packet = Head(all)
      BY <1>1, <1>6, <2>1 DEF LoopState
    <3>. QED
      BY <3>1 DEF NextIsKey
  <2>2. CASE ~(Len(all) > Buffered)
    <3>1. stream'[v].pc = "due" /\ encoder'.buffer = all
      BY <1>1, <1>6, <2>2 DEF LoopState
    <3>. QED
      BY <1>5, <3>1 DEF NextIsKey
  <2>. QED
    BY <2>1, <2>2
<1>. QED
  BY <1>1, <1>2, <1>4, <1>7, <1>8, <1>9, ViewerAssumption DEF StreamInv, Resumes

\* A dropped frame makes the loop wait, and a frame that goes out is whole.
LEMMA WholeSend ==
  ASSUME NEW v \in Viewer, StreamInv, Send(v)
  PROVE  Resumes' /\ WholeOnly'
<1>. DEFINE p == stream[v].packet
<1>1. /\ stream \in [Viewer -> LoopState] /\ stream[v] \in LoopState
      /\ stream[v].pc = "encoded" /\ holder = v /\ clean \in BOOLEAN
      /\ queue \in [Viewer -> Seq(FrameState)]
  BY DEF StreamInv, TypeInv, TypeOK, Send, Running
<1>2. p \in Packet /\ p.key \in BOOLEAN /\ stream[v].awaiting \in BOOLEAN
  BY <1>1 DEF LoopState, Packet
<1>3. clean /\ ~Gated(v, p) => p.key \/ v \notin broken
  BY <1>1, <1>2 DEF StreamInv, Resumes, NextIsKey, Gated
<1>4. CASE End(v)
  BY <1>1, <1>4, ViewerAssumption DEF Send, End, StreamInv, Resumes, WholeOnly
<1>5. CASE /\ Gated(v, p) /\ stream' = Set(v, "pc", "due") /\ broken' = broken \cup {v}
           /\ UNCHANGED <<encoder, queue, holder, clean>>
  <2>1. stream'[v].awaiting
    BY <1>1, <1>2, <1>5 DEF Set, Gated, LoopState
  <2>. QED
    BY <1>1, <1>5, <2>1, ViewerAssumption DEF StreamInv, Resumes, WholeOnly
<1>6. CASE /\ ~Gated(v, p) /\ queue' = [queue EXCEPT ![v] = Append(@, Frame(v, p))]
           /\ broken' = IF p.key THEN broken \ {v} ELSE broken
           /\ UNCHANGED <<encoder, holder, clean>>
  <2>. DEFINE fr == Frame(v, p)
  <2>1. clean => v \notin broken'
    BY <1>3, <1>6
  <2>2. Resumes'
    BY <1>1, <1>6, <2>1, ViewerAssumption DEF Resumes
  <2>3. fr \in FrameState /\ (clean => fr.whole)
    BY <1>2, <1>3, <1>6 DEF Frame, FrameState, Packet
  <2>4. queue' = [queue EXCEPT ![v] = Append(queue[v], fr)] /\ clean' = clean
    BY <1>6
  <2>. HIDE DEF fr, p
  <2>5. clean => \A i \in DOMAIN Append(queue[v], fr) : Append(queue[v], fr)[i].whole
    <3>1. queue[v] \in Seq(FrameState)
      BY <1>1
    <3>2. clean => \A i \in DOMAIN queue[v] : queue[v][i].whole
      BY DEF StreamInv, WholeOnly
    <3>3. DOMAIN Append(queue[v], fr) = DOMAIN queue[v] \cup {Len(queue[v]) + 1}
      BY <2>3, <3>1
    <3>4. /\ \A i \in DOMAIN queue[v] : Append(queue[v], fr)[i] = queue[v][i]
          /\ Append(queue[v], fr)[Len(queue[v]) + 1] = fr
      BY <2>3, <3>1
    <3>. QED
      BY <2>3, <3>2, <3>3, <3>4
  <2>6. WholeOnly'
    <3>1. \A w \in Viewer : queue'[w] = IF w = v THEN Append(queue[v], fr) ELSE queue[w]
      BY <1>1, <2>4
    <3>. QED
      BY <2>4, <2>5, <3>1 DEF StreamInv, WholeOnly
  <2>. QED
    BY <2>2, <2>6
<1>7. CASE /\ stream' = [stream EXCEPT ![v].pc = "due", ![v].awaiting = TRUE]
           /\ UNCHANGED <<queue, holder, clean>>
  <2>1. stream'[v].awaiting
    BY <1>1, <1>7 DEF LoopState
  <2>. QED
    BY <1>1, <1>7, <2>1, ViewerAssumption DEF StreamInv, Resumes, WholeOnly
<1>. QED
  BY <1>4, <1>5, <1>6, <1>7 DEF Send

\* The other steps of the host leave what is on its way as it is.
LEMMA WholeFrame ==
  ASSUME StreamInv, clean' => clean, UNCHANGED <<holder, encoder, broken>>,
         \A v \in Viewer : holder = v =>
           /\ stream'[v].awaiting = stream[v].awaiting
           /\ stream'[v].packet = stream[v].packet
           /\ stream'[v].pc = "encoded" <=> stream[v].pc = "encoded"
  PROVE  Resumes'
  BY DEF StreamInv, Resumes, NextIsKey

\* A viewer takes the first frame of its queue, or all of them.
LEMMA WholeReceive ==
  ASSUME NEW v \in Viewer, StreamInv, Receive(v) \/ Disconnect(v)
  PROVE  Resumes' /\ WholeOnly'
<1>1. UNCHANGED <<holder, encoder, stream, broken, clean>>
  BY DEF Receive, Disconnect, Leave
<1>2. Resumes'
  BY <1>1, WholeFrame
<1>3. \/ queue' = [queue EXCEPT ![v] = <<>>]
      \/ queue[v] # <<>> /\ queue' = [queue EXCEPT ![v] = Tail(@)]
  BY DEF Receive, Disconnect, Leave
<1>4. queue \in [Viewer -> Seq(FrameState)]
  BY DEF StreamInv, TypeInv, TypeOK
<1>5. \A w \in Viewer : w # v => queue'[w] = queue[w]
  BY <1>3, <1>4
<1>6. clean => \A i \in DOMAIN queue'[v] : queue'[v][i].whole
  <2>1. CASE queue'[v] = <<>>
    BY <2>1
  <2>2. CASE queue[v] # <<>> /\ queue'[v] = Tail(queue[v])
    <3>1. queue[v] \in Seq(FrameState)
      BY <1>4
    <3>2. \A i \in DOMAIN Tail(queue[v]) : i + 1 \in DOMAIN queue[v]
                                          /\ Tail(queue[v])[i] = queue[v][i + 1]
      BY <2>2, <3>1
    <3>. QED
      BY <2>2, <3>2 DEF StreamInv, WholeOnly
  <2>. QED
    BY <1>3, <1>4, <2>1, <2>2
<1>7. WholeOnly'
  BY <1>1, <1>5, <1>6 DEF StreamInv, WholeOnly
<1>. QED
  BY <1>2, <1>7

\* Every step keeps the invariant.
LEMMA NextWhole == StreamInv /\ [Next]_vars => StreamInv'
<1>. SUFFICES ASSUME StreamInv, [Next]_vars PROVE Resumes' /\ WholeOnly'
  BY NextTypes DEF StreamInv
<1>1. CASE Change \/ UNCHANGED vars
  <2>1. UNCHANGED <<holder, encoder, stream, broken, clean, queue>>
    BY <1>1 DEF Change, vars, host, viewer
  <2>. QED
    BY <2>1, WholeFrame DEF StreamInv, WholeOnly
<1>2. ASSUME NEW v \in Viewer, Connect(v) \/ Begin(v) \/ Close(v) PROVE Resumes' /\ WholeOnly'
  <2>1. queue' = queue /\ (clean' => clean)
    BY <1>2 DEF Connect, Begin, Close, End, StreamInv, TypeInv
  <2>. QED
    BY <1>2, <2>1, ResumesTurn DEF StreamInv, WholeOnly
<1>3. ASSUME NEW v \in Viewer, Capture(v) PROVE Resumes' /\ WholeOnly'
  <2>1. UNCHANGED <<holder, encoder, broken, clean, queue>>
    BY <1>3 DEF Capture
  <2>2. stream \in [Viewer -> LoopState]
    BY DEF StreamInv, TypeInv, TypeOK
  <2>3. /\ stream[v].pc = "due" /\ stream'[v].pc # "encoded"
        /\ stream'[v].awaiting = stream[v].awaiting /\ stream'[v].packet = stream[v].packet
        /\ \A w \in Viewer : w # v => stream'[w] = stream[w]
    BY <1>3, <2>2 DEF Capture, LoopState
  <2>4. \A w \in Viewer :
          /\ stream'[w].awaiting = stream[w].awaiting
          /\ stream'[w].packet = stream[w].packet
          /\ stream'[w].pc = "encoded" <=> stream[w].pc = "encoded"
    BY <2>3
  <2>. QED
    BY <2>1, <2>4, WholeFrame DEF StreamInv, WholeOnly
<1>4. ASSUME NEW v \in Viewer, Encode(v) PROVE Resumes' /\ WholeOnly'
  <2>1. UNCHANGED <<queue, clean>>
    BY <1>4 DEF Encode
  <2>. QED
    BY <1>4, <2>1, ResumesEncode DEF StreamInv, WholeOnly
<1>5. ASSUME NEW v \in Viewer, EncodeFails(v) PROVE Resumes' /\ WholeOnly'
  BY <1>5 DEF EncodeFails, Resumes, WholeOnly
<1>6. ASSUME NEW v \in Viewer, Type(v) \/ CloseWindow(v) \/ Inject(v) \/ InjectFails(v)
      PROVE  Resumes' /\ WholeOnly'
  <2>1. UNCHANGED <<holder, encoder, stream, broken, clean, queue>>
    BY <1>6 DEF Type, CloseWindow, Inject, InjectFails, host
  <2>. QED
    BY <2>1, WholeFrame DEF StreamInv, WholeOnly
<1>. QED
  BY <1>1, <1>2, <1>3, <1>4, <1>5, <1>6, WholeSend, WholeReceive DEF Next, Turn

\* Nothing is on its way at first.
LEMMA InitWhole == Init => StreamInv
  BY InitTypes DEF Init, StreamInv, Resumes, WholeOnly, NextIsKey, Loop

\* The types; the queues keep to their capacity, and the loop that runs is the
\* one with the locks of the encoder and the capture, for any number of viewers.
THEOREM StreamTypes == Spec => []TypeOK
<1>1. TypeInv => TypeOK
  BY DEF TypeInv
<1>. QED
  BY <1>1, InitTypes, NextTypes, PTL DEF Spec

\* No frame on its way to a viewer misses one that it depends on, for every
\* capacity of the queues, depth of the encoder and distance of keyframes.
THEOREM FramesAreWhole == Spec => []WholeOnly
<1>1. StreamInv => WholeOnly
  BY DEF StreamInv
<1>. QED
  BY <1>1, InitWhole, NextWhole, PTL DEF Spec
===============================================================================
