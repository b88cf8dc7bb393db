---------------------------- MODULE LoopbackCapture ----------------------------
(***************************************************************************)
(* WasapiLoopbackCapture (src/src/infrastructure/windows/                  *)
(* wasapi_loopback.cpp): the thread that reads a playback device's mix,    *)
(* brings it to the sample rate of the effects with a StreamingResampler,  *)
(* and hands it with its capture time to the plug-in.                      *)
(*                                                                         *)
(* Time is the device's: `device` frames have been played since Start, so  *)
(* a packet's timestamp is the number of its first frame, or a later one   *)
(* when the device reports a timestamp error and the time of arrival is    *)
(* taken.  A step of this module is one call of the code on the device or  *)
(* on the resampler; any call on the device may fail.                      *)
(***************************************************************************)
EXTENDS StreamingResampler

CONSTANTS
  InRates,      \* sample rates the device may have
  OutRates,     \* sample rates of the effects (48 kHz in the code)
  HalfWidths,   \* half_filter_width
  Packets,      \* lengths of the packets the device may deliver: GetBuffer
                \* is only called when GetNextPacketSize is not 0
  Gaps,         \* frames it may lose before a discontinuity
  MaxFrames,    \* bound: frames played in one run
  MaxStarts     \* bound: calls of start()

ASSUME LoopbackAssumption ==
  /\ InRates \subseteq Nat \ {0}
  /\ OutRates \subseteq Nat \ {0}
  /\ HalfWidths \subseteq Nat \ {0, 1, 2, 3}
  /\ Packets \subseteq Nat \ {0}
  /\ Gaps \subseteq Nat
  /\ MaxFrames \in Nat /\ MaxStarts \in Nat

VARIABLES
  owner,          \* the thread that calls start() and stop()
  stop_requested,
  starts,
  pc,             \* the capture thread
  ready, failed,  \* state_
  resampler,
  device,         \* frames played so far
  signal,         \* the device's event (auto-reset)
  packet,         \* the packet in work
  delivered,      \* what the handler was given for the last packet, if called
  origin,         \* history: the device's number of resampler frame 0
  emitted         \* history: output frames since the last reset

ownerVars == <<owner, stop_requested, starts>>
pushVars  == <<resampler, packet, delivered, origin, emitted>>
vars == <<ownerVars, pc, ready, failed, device, signal, pushVars>>

\* A packet: its number of frames, the device's number of its first one, how
\* much later its timestamp is, packet_start_frame, and the output frame its
\* conversion starts with: its position, and its number since the last reset.
NewPacket(n, first, late) ==
  [frames |-> n, first |-> first, late |-> late, start_frame |-> 0,
   first_input |-> 0, first_output |-> 0]
NoPacket == NewPacket(0, 0, 0)
NoBlock == [time |-> 0, late |-> 0, first_output |-> 0, samples |-> 0,
            origin |-> 0]

Running == {"loop", "wait", "next", "push", "interpolate", "deliver"}

Init ==
  /\ owner = "idle" /\ stop_requested = FALSE /\ starts = 0
  /\ pc = "none"
  /\ ready = FALSE /\ failed = FALSE
  /\ \E in \in InRates, out \in OutRates, half \in HalfWidths :
       resampler = New(in, out, half)
  /\ device = 0 /\ signal = FALSE
  /\ packet = NoPacket /\ delivered = NoBlock
  /\ origin = 0 /\ emitted = 0

-----------------------------------------------------------------------------
(* The owner.                                                              *)

Join == owner = "stopping" /\ pc \in {"none", "exited"}

\* start() has stopped the thread before, if there was one.
Start ==
  /\ owner = "idle" /\ pc = "none" /\ starts < MaxStarts
  /\ starts' = starts + 1
  /\ stop_requested' = FALSE
  /\ ready' = FALSE /\ failed' = FALSE
  /\ pc' = "open"
  /\ UNCHANGED <<owner, device, signal, pushVars>>

Stop ==
  /\ owner = "idle"
  /\ starts > 0
  /\ owner' = "stopping"
  /\ stop_requested' = TRUE
  /\ UNCHANGED <<starts, pc, ready, failed, device, signal, pushVars>>

Joined ==
  /\ Join
  /\ owner' = "idle"
  /\ pc' = "none"
  /\ UNCHANGED <<stop_requested, starts, ready, failed, device, signal,
                 pushVars>>

-----------------------------------------------------------------------------
(* The device plays, whoever listens.                                      *)

Play ==
  /\ pc \in Running
  /\ device < MaxFrames
  /\ signal' = TRUE
  /\ UNCHANGED <<ownerVars, pc, ready, failed, device, pushVars>>

-----------------------------------------------------------------------------
(* The capture thread.                                                     *)

\* The device is opened, the resampler made, the client started.
Open ==
  /\ pc = "open"
  /\ resampler' = Reset(resampler)
  /\ device' = 0 /\ signal' = FALSE
  /\ packet' = NoPacket /\ delivered' = NoBlock
  /\ origin' = 0 /\ emitted' = 0
  /\ ready' = TRUE /\ failed' = FALSE
  /\ pc' = "loop"
  /\ UNCHANGED ownerVars

\* A call on the device fails, whichever it is, or an allocation does.
Fail ==
  /\ pc \in Running \cup {"open"}
  /\ ready' = FALSE /\ failed' = TRUE
  /\ pc' = "exited"
  /\ UNCHANGED <<ownerVars, device, signal, pushVars>>

\* The loop condition.
Loop ==
  /\ pc = "loop"
  /\ ~stop_requested
  /\ pc' = "wait"
  /\ UNCHANGED <<ownerVars, ready, failed, device, signal, pushVars>>

Leave ==
  /\ pc = "loop"
  /\ stop_requested
  /\ ready' = FALSE
  /\ pc' = "exited"
  /\ UNCHANGED <<ownerVars, failed, device, signal, pushVars>>

\* Mutation of TimeOut: the wait has no limit.
TimeOut_Never == FALSE

\* Nothing is signalled for 100 ms; stop() does not set the event either.
TimeOut ==
  /\ pc = "wait"
  /\ pc' = "loop"
  /\ UNCHANGED <<ownerVars, ready, failed, device, signal, pushVars>>

Wake ==
  /\ pc = "wait"
  /\ signal
  /\ signal' = FALSE
  /\ pc' = "next"
  /\ UNCHANGED <<ownerVars, ready, failed, device, pushVars>>

NoMorePackets ==
  /\ pc = "next"
  /\ pc' = "loop"
  /\ UNCHANGED <<ownerVars, ready, failed, device, signal, pushVars>>

\* The next packet: a discontinuity resets the resampler.  A silent packet is
\* as long as another.
GetBuffer(n, gap, late, discontinuity) ==
  /\ pc = "next"
  /\ gap # 0 => discontinuity
  /\ device + gap + n <= MaxFrames
  /\ packet' = NewPacket(n, device + gap, late)
  /\ device' = device + gap + n
  /\ IF discontinuity
     THEN /\ resampler' = Reset(resampler)
          /\ origin' = device + gap
          /\ emitted' = 0
     ELSE UNCHANGED <<resampler, origin, emitted>>
  /\ delivered' = NoBlock
  /\ pc' = "push"
  /\ UNCHANGED <<ownerVars, ready, failed, signal>>

\* push_into takes the packet in.
Push ==
  /\ pc = "push"
  /\ packet' = [frames |-> packet.frames, first |-> packet.first,
                late |-> packet.late, start_frame |-> resampler.received,
                first_input |-> Position(resampler), first_output |-> emitted]
  /\ resampler' = Insert(resampler, packet.frames)
  /\ emitted' = IF Passthrough(resampler) THEN emitted + packet.frames
                ELSE emitted
  /\ pc' = "interpolate"
  /\ UNCHANGED <<ownerVars, ready, failed, device, signal, delivered, origin>>

\* One turn of its loop.
Interpolate ==
  /\ pc = "interpolate"
  /\ CanInterpolate(resampler)
  /\ resampler' = Advance(resampler)
  /\ emitted' = emitted + 1
  /\ UNCHANGED <<ownerVars, pc, ready, failed, device, signal, packet,
                 delivered, origin>>

EndPush ==
  /\ pc = "interpolate"
  /\ ~CanInterpolate(resampler)
  /\ resampler' = Discard(resampler)
  /\ pc' = "deliver"
  /\ UNCHANGED <<ownerVars, ready, failed, device, signal, packet, delivered,
                 origin, emitted>>

\* Mutation of ConvertedTimestamp: the frames the resampler still held are
\* forgotten.
ConvertedTimestamp_OfPacket == FrameTime(resampler, packet.first + packet.late)

\* The packet's time, corrected by how far its first output frame lies from
\* its first input frame.
ConvertedTimestamp ==
  FrameTime(resampler, packet.first + packet.late)
    + packet.first_input - FrameTime(resampler, packet.start_frame)

\* The handler is called unless the resampler kept everything; the packet is
\* released in any case.
Deliver ==
  /\ pc = "deliver"
  /\ IF emitted > packet.first_output
     THEN delivered' = [time |-> ConvertedTimestamp, late |-> packet.late,
                        first_output |-> packet.first_output,
                        samples |-> emitted - packet.first_output,
                        origin |-> origin]
     ELSE UNCHANGED delivered
  /\ packet' = NoPacket
  /\ pc' = "next"
  /\ UNCHANGED <<ownerVars, ready, failed, device, signal, resampler, origin,
                 emitted>>

Packet ==
  \E n \in Packets, gap \in Gaps, late \in {0, 1}, d \in BOOLEAN :
    GetBuffer(n, gap, late, d)

Thread ==
  \/ Open \/ Fail \/ Loop \/ Leave \/ TimeOut \/ Wake \/ NoMorePackets
  \/ Packet \/ Push \/ Interpolate \/ EndPush \/ Deliver

Next == Start \/ Stop \/ Joined \/ Play \/ Thread

\* The thread and the join go on; nobody has to start or stop a capture, and
\* the device may fall silent.
Fairness ==
  /\ WF_vars(Open \/ Loop \/ Leave \/ TimeOut \/ NoMorePackets \/ Push
             \/ Interpolate \/ EndPush \/ Deliver)
  /\ WF_vars(Joined)

Spec == Init /\ [][Next]_vars /\ Fairness

-----------------------------------------------------------------------------
(* Properties.                                                             *)

\* Interpolate reads buffer_[frame - buffer_start_frame_] unchecked: every
\* frame its kernel covers is in the buffer, whatever the packets' lengths,
\* the rates, and the resets in between.
TapsAreBuffered ==
  pc = "interpolate" /\ CanInterpolate(resampler) =>
    Taps(resampler) \subseteq Buffered(resampler)

\* What comes out depends on what went in since the last reset and not on how
\* it was cut into packets: output frame k, at position k * in / out, is there
\* as soon as the newest frame of its kernel has been received, and no sooner
\* (the unit test compares two cuts of one signal).
Due(k) ==
  k * resampler.in < (resampler.received - resampler.half) * resampler.out
OutputIsExact ==
  pc \in {"next", "deliver"} =>
    IF Passthrough(resampler) THEN emitted = resampler.received
    ELSE ~Due(emitted) /\ (emitted > 0 => Due(emitted - 1))

\* A delivered block carries the time its first sample was captured at: the
\* time of resampler frame 0 plus what the earlier output frames took, late
\* only by what the device's own timestamp was late.  So blocks between two
\* discontinuities join without a gap, whatever the resampler held back.
TimestampsAreTrue ==
  delivered.samples > 0 =>
    delivered.time = FrameTime(resampler, delivered.origin + delivered.late)
                       + delivered.first_output * resampler.in

\* stop() joins the capture thread; it must come back although nothing wakes
\* the thread and the device may never signal again.
StopReturns == owner = "stopping" ~> owner = "idle"
===============================================================================
