----------------------------- MODULE ScreenStream -----------------------------
(***************************************************************************)
(* The screen stream (crates/stream): one host that captures, encodes and  *)
(* sends its screen, and the desktop viewers that show it and send back    *)
(* the input of their user.                                                *)
(*                                                                         *)
(* A stream's loop runs on a thread of its own, which keeps the locks of   *)
(* the encoder and of the capture until the stream ends: a second viewer   *)
(* is connected and waits.  A picture is a number, the screen's state.     *)
(* Delta frames can be decoded only after all the frames since the last    *)
(* keyframe; `whole' records whether a frame can.                          *)
(***************************************************************************)
EXTENDS Naturals, Sequences

CONSTANTS
  Viewer,      \* each connects once
  Backends,    \* the capture backends of the host: "pipewire", "x11"
  Codecs,      \* the encoders it may have: "libx264", "h264_qsv"
  RingSize,    \* capacity of the PipeWire frame queue
  QueueSize,   \* SEND_QUEUE_FRAMES
  Depth,       \* the frames that h264_qsv buffers (external)
  Gop,         \* keyint
  IdleTicks,   \* IDLE_FULL_RATE_TICKS, a multiple of 3
  MaxPictures, \* bound on the changes of the screen
  MaxInputs    \* bound on the inputs of a user

ASSUME StreamAssumption ==
  /\ Backends \subseteq {"pipewire", "x11"} /\ Codecs \subseteq {"libx264", "h264_qsv"}
  /\ {RingSize, QueueSize, Gop, IdleTicks} \subseteq Nat \ {0} /\ IdleTicks % 3 = 0
  /\ {Depth, MaxPictures, MaxInputs} \subseteq Nat

Nobody  == "nobody"
Nothing == 0           \* no picture; the screen's first is 1
Garbage == MaxPictures + 1

ASSUME ViewerAssumption == Nobody \notin Viewer

VARIABLES
  backend, codec,  \* what the host found when it started
  screen,          \* the picture on the host's screen
  ring,            \* frame_ring: captured by PipeWire, not yet taken
  holder,          \* the stream with the locks of the encoder and the capture
  encoder,         \* force_keyframe, frames since a keyframe, buffered packets
  stream,          \* the loop of each viewer's stream
  queue,           \* tx: the frames on their way to the viewer
  gone,            \* the viewers that are no longer connected
  window,          \* the display of each viewer: open, and what it shows
  typed,           \* the inputs the window has queued for the viewer
  sent,            \* the inputs on their way to the injector
  held,            \* per viewer: the key is down at the viewer
  down,            \* the keys that are down at the host's virtual device
  inputs,          \* history: how many inputs each user has made
  missed,          \* history: the viewers whose latest input did not reach the device
  broken,          \* history: the viewers that miss a frame they need
  clean            \* history: no call failed, and no stream left frames in the encoder

host    == <<backend, codec, screen, ring, holder, encoder, stream, queue, down>>
viewer  == <<gone, window, typed, sent, held, inputs, missed>>
vars    == <<host, viewer, broken, clean>>

NoPacket == [pic |-> Nothing, key |-> FALSE]

\* What a stream's loop keeps from one tick to the next.
Loop(pc) == [pc |-> pc, last |-> Nothing, idle |-> 0, awaiting |-> FALSE, packet |-> NoPacket]

Set(v, f, x) == [stream EXCEPT ![v] = [@ EXCEPT ![f] = x]]

-----------------------------------------------------------------------------
(* Capturing.                                                               *)

\* A bug: a full queue drops what is new.
PushKeepingOldest(s, x) == IF Len(s) < RingSize THEN Append(s, x) ELSE s

\* A bug: nothing makes room.
PushGrowing(s, x) == Append(s, x)

\* push_overwrite: the oldest frame makes room.
PushOverwrite(s, x) == Append(IF Len(s) = RingSize THEN Tail(s) ELSE s, x)

\* The screen changes; PipeWire sends a frame only then, from its own thread.
Change ==
  /\ screen < MaxPictures
  /\ screen' = screen + 1
  /\ ring' = IF backend = "pipewire" THEN PushOverwrite(ring, screen + 1) ELSE ring
  /\ UNCHANGED <<backend, codec, holder, encoder, stream, queue, down, viewer, broken, clean>>

\* idle_ticks; from IdleTicks on only its remainder by 3 matters.
Idler(n) == IF n = IdleTicks + 2 THEN IdleTicks ELSE n + 1

Resting(n) == n >= IdleTicks /\ n % 3 # 0

-----------------------------------------------------------------------------
(* The loop of a stream.                                                    *)

\* remote_control: the loop's thread is started, and waits for its turn.
Connect(v) ==
  /\ stream[v].pc = "off" /\ v \notin gone
  /\ stream' = [stream EXCEPT ![v] = Loop("waiting")]
  /\ window' = [window EXCEPT ![v].open = TRUE]
  /\ UNCHANGED <<backend, codec, screen, ring, holder, encoder, queue, down,
                 gone, typed, sent, held, inputs, missed, broken, clean>>

Begin(v) ==
  /\ stream[v].pc = "waiting" /\ holder = Nobody
  /\ holder' = v
  /\ encoder' = [encoder EXCEPT !.force = TRUE]
  /\ stream' = [stream EXCEPT ![v] = Loop("due")]
  /\ UNCHANGED <<backend, codec, screen, ring, queue, down, viewer, broken, clean>>

End(v) ==
  /\ holder' = Nobody /\ stream' = [stream EXCEPT ![v] = Loop("ended")]
  /\ clean' = (clean /\ encoder.buffer = <<>>)

\* A bug: the loop finds out that its viewer has left when it sends a frame.
Unnoticed(v) == FALSE

\* tx.is_closed
Closed(v) == v \in gone

\* A tick that is late is skipped before anything else: nothing changes.
Close(v) ==
  /\ stream[v].pc = "due" /\ Closed(v)
  /\ End(v)
  /\ UNCHANGED <<backend, codec, screen, ring, encoder, queue, down, viewer, broken>>

\* capture_frame of the backend, and what is to be sent of it: the picture of
\* before, if there is no new one, and at a third of the rate after a while.  A
\* tick whose capture fails changes nothing.
Capture(v) ==
  LET new  == IF backend = "x11" THEN screen ELSE IF ring = <<>> THEN Nothing ELSE Head(ring)
      last == IF new = Nothing THEN stream[v].last ELSE new
      idle == IF new = Nothing THEN Idler(stream[v].idle) ELSE 0
  IN /\ stream[v].pc = "due" /\ ~Closed(v)
     /\ ring' = IF backend = "pipewire" /\ ring # <<>> THEN Tail(ring) ELSE ring
     /\ stream' = [stream EXCEPT ![v].last = last, ![v].idle = idle,
                     ![v].pc = IF last = Nothing \/ Resting(idle) THEN "due" ELSE "captured"]
     /\ UNCHANGED <<backend, codec, screen, holder, encoder, queue, down, viewer, broken, clean>>

\* The encoder's next packet, a keyframe if it was asked for or is due.
NextPacket(v) ==
  [pic |-> stream[v].last, key |-> encoder.force \/ encoder.since = Gop - 1]

Buffered == IF codec = "h264_qsv" THEN Depth ELSE 0

\* encode: the encoder takes the frame, and returns a packet or nothing yet.
Taken(v) ==
  LET all == Append(encoder.buffer, NextPacket(v)) IN
  [force |-> FALSE, since |-> IF NextPacket(v).key THEN 0 ELSE encoder.since + 1,
   buffer |-> IF Len(all) > Buffered THEN Tail(all) ELSE all]

Encode(v) ==
  LET all == Append(encoder.buffer, NextPacket(v)) IN
  /\ stream[v].pc = "captured"
  /\ encoder' = Taken(v)
  /\ stream' = [stream EXCEPT ![v] = IF Len(all) > Buffered
                                     THEN [@ EXCEPT !.pc = "encoded", !.packet = Head(all)]
                                     ELSE [@ EXCEPT !.pc = "due"]]
  /\ UNCHANGED <<backend, codec, screen, ring, holder, queue, down, viewer, broken, clean>>

\* The scaler fails; send_frame fails, and the request for a keyframe is spent;
\* receive_packet fails, and the packet is lost.
EncodeFails(v) ==
  /\ stream[v].pc = "captured"
  /\ \/ encoder' = encoder /\ broken' = broken
     \/ encoder' = [encoder EXCEPT !.force = FALSE] /\ broken' = broken
     \/ encoder' = Taken(v) /\ broken' = broken \cup {v}
  /\ stream' = Set(v, "pc", "due")
  /\ clean' = FALSE
  /\ UNCHANGED <<backend, codec, screen, ring, holder, queue, down, viewer>>

Frame(v, p) == [pic |-> p.pic, key |-> p.key, whole |-> p.key \/ v \notin broken]

\* A bug: frames are sent again as soon as there is room.
NoGate(v, p) == FALSE

\* After a frame was dropped nothing is sent before a keyframe.
Gated(v, p) == stream[v].awaiting /\ ~p.key

\* try_send, which never waits.
Send(v) ==
  LET p == stream[v].packet IN
  /\ stream[v].pc = "encoded"
  /\ \/ /\ Gated(v, p)
        /\ stream' = Set(v, "pc", "due")
        /\ broken' = broken \cup {v}
        /\ UNCHANGED <<encoder, queue, holder, clean>>
     \/ /\ ~Gated(v, p) /\ v \in gone
        /\ End(v)
        /\ UNCHANGED <<encoder, queue, broken>>
     \/ /\ ~Gated(v, p) /\ v \notin gone /\ Len(queue[v]) < QueueSize
        /\ queue' = [queue EXCEPT ![v] = Append(@, Frame(v, p))]
        /\ broken' = IF p.key THEN broken \ {v} ELSE broken
        /\ stream' = [stream EXCEPT ![v].pc = "due", ![v].awaiting = FALSE]
        /\ UNCHANGED <<encoder, holder, clean>>
     \/ /\ ~Gated(v, p) /\ v \notin gone /\ Len(queue[v]) = QueueSize
        /\ broken' = broken \cup {v}
        /\ encoder' = [encoder EXCEPT !.force = TRUE]
        /\ stream' = [stream EXCEPT ![v].pc = "due", ![v].awaiting = TRUE]
        /\ UNCHANGED <<queue, holder, clean>>
  /\ UNCHANGED <<backend, codec, screen, ring, down, viewer>>

-----------------------------------------------------------------------------
(* The viewer.                                                              *)

Leave(v) ==
  /\ gone' = gone \cup {v}
  /\ queue' = [queue EXCEPT ![v] = <<>>]

\* A bug: of what is queued one input is sent for a frame.
ForwardLast(v) ==
  /\ sent' = [sent EXCEPT ![v] = IF typed[v] = <<>> THEN @ ELSE Append(@, Head(typed[v]))]
  /\ typed' = [typed EXCEPT ![v] = <<>>]

\* What the window has queued is sent, after a frame.
Forward(v) ==
  /\ sent' = [sent EXCEPT ![v] = @ \o typed[v]]
  /\ typed' = [typed EXCEPT ![v] = <<>>]

\* run: a frame is decoded and shown, inputs are sent, and a window that was
\* closed is noticed.  A frame that is not whole is an error, which ends the
\* viewer, or a picture with artifacts; the black picture of a decoder that wants
\* more data first is taken as the frame's own (external).
Receive(v) ==
  LET f == Head(queue[v]) IN
  /\ v \notin gone /\ queue[v] # <<>>
  /\ \/ /\ ~f.whole
        /\ Leave(v)
        /\ UNCHANGED <<window, sent, typed>>
     \/ /\ window' = [window EXCEPT ![v].shows = IF f.whole THEN f.pic ELSE Garbage]
        /\ Forward(v)
        /\ IF window[v].open
           THEN queue' = [queue EXCEPT ![v] = Tail(@)] /\ gone' = gone
           ELSE Leave(v)
  /\ UNCHANGED <<backend, codec, screen, ring, holder, encoder, stream, down, held, inputs,
                 missed, broken, clean>>

\* The user presses or releases a key of the window.
Type(v) ==
  /\ window[v].open /\ v \notin gone /\ inputs[v] < MaxInputs
  /\ inputs' = [inputs EXCEPT ![v] = @ + 1]
  /\ held' = [held EXCEPT ![v] = ~@]
  /\ typed' = [typed EXCEPT ![v] = Append(@, held'[v])]
  /\ UNCHANGED <<host, gone, window, sent, missed, broken, clean>>

CloseWindow(v) ==
  /\ window[v].open
  /\ window' = [window EXCEPT ![v].open = FALSE]
  /\ UNCHANGED <<host, gone, typed, sent, held, inputs, missed, broken, clean>>

\* The viewer dies, or its connection.
Disconnect(v) ==
  /\ v \notin gone
  /\ Leave(v)
  /\ UNCHANGED <<backend, codec, screen, ring, holder, encoder, stream, down,
                 window, typed, sent, held, inputs, missed, broken, clean>>

\* The keys that are down when the first of v's inputs was written.
Written(v) == IF Head(sent[v]) THEN down \cup {v} ELSE down \ {v}

\* The task of a stream's inputs, which runs while the stream waits, too.
Inject(v) ==
  /\ sent[v] # <<>>
  /\ down' = Written(v)
  /\ sent' = [sent EXCEPT ![v] = Tail(@)]
  /\ missed' = missed \ {v}
  /\ UNCHANGED <<backend, codec, screen, ring, holder, encoder, stream, queue,
                 gone, window, typed, held, inputs, broken, clean>>

\* There is no virtual device, or the write of the event or of its report fails:
\* the task goes on with the next input.
InjectFails(v) ==
  /\ sent[v] # <<>>
  /\ down' \in {down, Written(v)}
  /\ sent' = [sent EXCEPT ![v] = Tail(@)]
  /\ missed' = missed \cup {v}
  /\ UNCHANGED <<backend, codec, screen, ring, holder, encoder, stream, queue,
                 gone, window, typed, held, inputs, broken, clean>>

-----------------------------------------------------------------------------

Init ==
  /\ backend \in Backends /\ codec \in Codecs
  /\ screen = 1 /\ ring = IF backend = "pipewire" THEN <<1>> ELSE <<>>
  /\ holder = Nobody
  /\ encoder = [force |-> TRUE, since |-> 0, buffer |-> <<>>]
  /\ stream = [v \in Viewer |-> Loop("off")]
  /\ queue = [v \in Viewer |-> <<>>]
  /\ gone = {} /\ down = {}
  /\ window = [v \in Viewer |-> [open |-> FALSE, shows |-> Nothing]]
  /\ typed = [v \in Viewer |-> <<>>] /\ sent = [v \in Viewer |-> <<>>]
  /\ held = [v \in Viewer |-> FALSE] /\ inputs = [v \in Viewer |-> 0]
  /\ missed = {} /\ broken = Viewer /\ clean = TRUE

Turn(v) == Begin(v) \/ Close(v) \/ Capture(v) \/ Encode(v) \/ Send(v)

Next ==
  \/ Change
  \/ \E v \in Viewer :
       \/ Connect(v) \/ Turn(v) \/ EncodeFails(v)
       \/ Receive(v) \/ Type(v) \/ CloseWindow(v) \/ Disconnect(v) \/ Inject(v) \/ InjectFails(v)

\* The threads of the host and the tasks of the viewers go on; a capture or an
\* injection does not fail for ever.
Fairness ==
  \A v \in Viewer :
    WF_vars(Begin(v)) /\ WF_vars(Close(v)) /\ WF_vars(Capture(v)) /\ WF_vars(Encode(v))
      /\ WF_vars(Send(v)) /\ WF_vars(Receive(v)) /\ WF_vars(Inject(v))

Spec == Init /\ [][Next]_vars /\ Fairness

-----------------------------------------------------------------------------
(* Properties.                                                              *)

Packet     == [pic : Nat, key : BOOLEAN]
FrameState == [pic : Nat, key : BOOLEAN, whole : BOOLEAN]
LoopState  == [pc : {"off", "waiting", "due", "captured", "encoded", "ended"},
               last : Nat, idle : Nat, awaiting : BOOLEAN, packet : Packet]

Running(v) == stream[v].pc \in {"due", "captured", "encoded"}

\* The types; the queues keep to their capacity, and the loop that runs is the
\* one of the stream that has the locks.
TypeOK ==
  /\ screen \in Nat /\ ring \in Seq(Nat) /\ Len(ring) <= RingSize
  /\ encoder \in [force : BOOLEAN, since : Nat, buffer : Seq(Packet)]
  /\ stream \in [Viewer -> LoopState]
  /\ queue \in [Viewer -> Seq(FrameState)] /\ \A v \in Viewer : Len(queue[v]) <= QueueSize
  /\ holder \in Viewer \cup {Nobody}
  /\ \A v \in Viewer : Running(v) <=> holder = v

\* No frame on its way to a viewer misses a frame that it depends on, whatever
\* was dropped, when the encoder does not fail and starts afresh with the
\* stream (remote_control: "after a drop we do not send delta frames at all").
WholeOnly ==
  clean => \A v \in Viewer : \A i \in DOMAIN queue[v] : queue[v][i].whole

\* What is being served: the viewer is there, and the loop has had a picture.
Served(v) == v \notin gone /\ holder = v /\ stream[v].last # Nothing

\* When the screen rests, a viewer that is served comes to show it, whatever
\* the queues dropped on the way and however late the change was.
CatchesUp == \A v \in Viewer : <>[](Served(v) => window[v].shows = screen)

\* The host's keys come to be as the user left them, as long as the viewer is
\* served, its window is open and its latest input was written to the device.
InputsArrive ==
  \A v \in Viewer :
    <>[](Served(v) /\ window[v].open /\ v \notin missed => (v \in down <=> held[v]))

\* A viewer that has left frees the host for the next: whether it waits, has
\* never been sent anything, or is in the middle.
LeavingFrees == \A v \in Viewer : [](v \in gone => <>(holder # v))

\* Every viewer that holds the stream gets to see something (remote_control:
\* "Unchanged screen: keep showing the previous picture (never black)").
EveryViewerSees ==
  \A v \in Viewer : [](holder = v => <>(holder # v \/ v \in gone \/ window[v].shows # Nothing))
===============================================================================
