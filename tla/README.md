# A model of rustconsole

rustconsole streams the desktop of a Windows host to a player: video, audio, input and
control over one QUIC connection. This directory holds TLA+ modules translated from its
source, the TLC configurations that check them, and proofs checked by TLAPS. Paths below
are relative to `src/`; `crates/rustconsole-` is left out of crate paths.

## The system

| Part | State | Operations | Where |
|---|---|---|---|
| Session start | slot of the active stream, failure table, one task per connection | accept, authenticate (OPAQUE), negotiate, probe latency and bandwidth, give back | `host-windows/src/service.rs`, `session/src/quic.rs`, `*_probe.rs`, `player-core/src/lib.rs` |
| Media worker process | encoder, stream state, command and event pipes | `StartVideo`, encode loop, keyframe and bitrate commands, stop, desktop switch | `host-windows/src/worker.rs`, `worker_protocol.rs` |
| Capture | WGC helper process, shared texture with a keyed mutex, held and cached image, encoder's metadata | announce, copy, release, restart, freshness monitor | `gpu_encode.rs`, `wgc_helper.rs`, `gpu_bridge/` |
| Session service | one session task, one media thread per stream, response and control channels | forward control, send video and audio, stop, close | `service.rs` |
| Host policies | `LatestQueue`, recovery, resend budget, bitrate, latency and pacing state | `push`, `accept`, `request_due`, `observe`, ... | `host-core/src/` |
| Datagram layer | partial, unseen and held frames; recent chunks; ordered audio packets | `push`, `take_missing`, `expire`, `next_ready`, packetize | `session/src/video_datagram.rs`, `audio_datagram.rs` |
| Host audio | capture thread, Opus encoder, default devices, recovery file | open, read, encode, apply and undo a route | `audio.rs`, `audio_stream.rs`, `audio_encode.rs`, `audio_policy.rs` |
| Stream receiver | assemblers, flags shared with the consumers, queues | datagram, tick, control messages, clean-up | `player-core/src/stream_receiver.rs` |
| Audio playback | decode planner, playback queue, sound device | confirm a gap, conceal, hold, pop | `player-core/src/playback.rs`, `player-linux/src/audio_output.rs` |
| Player process | main loop, session thread, renderer with GPU and presentation tracker | start, restart, retry, stop, present, replace the swapchain | `apps/rustconsole-player/src/main.rs`, `render-vulkan*` |
| Input | pressed keys and buttons, report ring, LED ring | apply, release, publish, drain | `input-windows/src/` |
| Virtual HID driver | device map, manual queue of reads, worker thread | add, remove, read report, pump, output report | `native/windows-input-driver/src/` |
| Discovery and client | candidates, saved machines, prompt queue | announce, probe, expire, prompt | `discovery`, `client-core`, `apps/rustconsole-client` |

How they interact. The worker encodes frames and writes events into a pipe; a reader thread
in the service pushes them into a `LatestQueue` that drops its oldest item; the media thread
(`run_worker_video_stream`) drains control messages, pops events and sends datagrams. The
player's receiver task feeds datagrams to the assembler and pushes finished frames into a
`MediaQueue`, which also drops its oldest; a consumer thread pops them and decodes. Two
atomic flags (`recover`, `request_keyframe`) go from one to the other, and a keyframe
request goes back over the control stream. The session task owns the control stream and the
input session, starts the media thread and waits for its result. Input events become HID
reports in shared memory, which a UMDF driver pairs with the reads of HIDClass. Images come
to the worker from a helper that runs in the user's name, through one texture and two pipes.
Sound comes from a virtual cable, which the worker makes the default device as long as a
stream runs; what it replaced is in a file, from which the service undoes it if the worker
did not.

What is hard here: two queues that drop under load; losses, reordering and repair of
datagrams under deadlines; flags that are swapped in one thread and set in another; a stream
that can end at five places at once, with a reason that must reach the player; two scripts of
a dozen messages each that must stay in step through every offer, refusal and timeout;
processes (worker, helper, service, driver host, player) that die at any point, some leaving
changes of the machine behind; a driver that does parts of one operation outside its lock; a
loop that destroys what the GPU and another thread use. `PROJECT.json` lists these hazards at
their lines.

What makes each part correct:

- Start: one stream at a time, the two sides stay in step, the slot always comes back.
- Frames: the decoder never gets a delta frame whose reference it was not given; frames do
  not overtake one another; the host does not start a frame nobody can decode.
- Recovery: a stream that lost a frame plays again once faults stop; requests stop once it does.
- Assembly: every gap in the output is reported, nothing is reported that is not a gap.
- Repair: a few lost datagrams cost no frame and no report of a loss.
- Capture: the texture is never waited for by both sides, a packet is sent with the time of
  the image it shows, a capture that restarts shows nothing old, one that stalls restarts.
- Host audio: a packet's samples are uninterrupted and its time is that of its first sample;
  what the route changed can be undone; a capture that failed is reported.
- Playback: packets are decoded in order and after a gap only with a reset; samples and
  silence share one line of time; nothing waits for ever.
- Player process: one session, nothing of an old session in a new one, no swapchain destroyed
  in use; a lost stream is taken up again, and a Stop ends everything.
- End of a session: everything ends.
- Input: what the user presses is pressed once and released, whatever comes between.
- HID path: reports reach HIDClass whole, in order, once, and eventually; driver and service
  use the same ring; no LED state stays unnoticed, unless a death
  comes at one of two points.
- Bitrate: one report costs a quarter at most, rises are earned, a session is ended for its
  delay only after that delay lasted, and a link that is good again gets its bitrate back.

## The modules

### Starting a session

**`SessionStart`** is the way of a connection to a stream, both sides. `host[c]` is the task
that `run_service` spawns for a connection and `player[c]` its peer in `stream_host` or one of
the shorter requests (`Jobs`); `at` is the message a side waits for, and a step reads one
message and writes what the code writes before it reads again. `tracked` is
`AuthenticationRateLimiter`, `active` the flag that `compare_exchange` takes and
`ActiveStreamGuard` gives back, `workers` the connections whose task owns a media worker or
is inside its blocking launch. **`Messages`** has the messages of the start. Timeouts may fire whenever the wait they guard is on; the wait
for a selection has none. Offers differ in what the negotiation looks at (`MCOffers`: the
current build, one with fewer features, one with another bandwidth probe).

### Video

**`DecodableStream`** is the abstract specification of a video path: runs of frames, each
started by a keyframe and then without a gap.

**`FrameStream`** is the whole path of one stream, frame by frame. Its steps are single
accesses to shared state. `ReadCommand` and `Encode` are the worker; `TakeControl`,
`ObserveDropsAndRequest`, `SendDeadlineExpired`, `AcceptFrame`, `DiscardStaleCapture` and
`SendChunks` are the parts of one pass of `run_worker_video_stream` in their order
(`serviceAt`); `ReleaseFrame` to `TickClear` are the receiver task; `PopFrame`, `SwapRecover`
and `ConsumeFrame` are the consumer thread. `StillWaiting` is `VideoRecovery::accept`,
`Decodable` is `DecodeContinuity::accept`, `PushLatest` is both queues. `shown` and `handed`
are history. The assembler is abstracted to "released in order or lost"; `VideoAssembler`
models it in full.

**`KeyframeRecovery`** has the same steps, with a frame reduced to "keyframe" and "something
before it went missing". Without sequence numbers the stream runs for ever, so the module can
ask whether it heals. Everything that loses a frame costs one of `MaxFaults` faults.

**`VideoAssembler`** is `VideoFrameAssembler` in both modes (`resend`, negotiated at the
start): started, swallowed and held frames, deadlines that stand still while the link is
silent, the keyframe that ends the wait for older frames. Without resends older frames that
were started stay, and are reported as lost when their deadline passes after a keyframe
(`video_datagram.rs:661`), so `LossesAreReal` is about the mode with resends. Frames differ in
their number of chunks: one of a single chunk can arrive whole with the datagram that finds it
overdue (`Overdue`), and is then handed out and reported as lost at once. What is held
behind a gap has no bound of its own in the code (`docs/latency-control.md:70` speaks of 8
frames; 8 is the bound of what is awaited). A tick is a quarter of the code's frame budget or
so; only the order of deadlines matters.

**`VideoRepair`** extends it with the host's `RecentVideoChunks`, the player's
`take_missing`, the announcement of the last frame before a pause, and datagrams that take
time. One tick stands for about 5 ms: a frame every 10 ms, a delay of up to 5 ms, a budget of
50 ms. **`MCVideoDelivery`** puts the assembler into its two surroundings, of which a
behaviour has one from the start: a network that delivers any chunk at any time, any number of
times, and the repair loop.

**`CaptureHandoff`** is the capture with its two processes, the service at one end and Windows
at the other. `helper.at`, `worker.at` and the three pipes are the protocol; `texture.key` is
the keyed mutex, `capture` is `GpuCapture`, `encoder` what AMF still holds with the metadata
queue of `gpu_encode.rs`, `mirror` is `Av1QualityDiagnostics`, `monitor` is
`CaptureFreshnessMonitor` with the pointer's activity. The time stamps of frames run in a cycle
(`Stamps`) that is longer than what can be under way. A behaviour has one fault: the display
changes, the capture freezes, the helper dies, its answer stalls, the encoder holds a frame
through a restart, the decoder of the diagnostics lags, or the start is refused. The service
launches workers as LocalSystem only, so the path of a worker in the user's name is left out.
The helper that met a change of the display has closed its pipe, so that a restart then fails
instead of leading to a reconfiguration. How often a quality sample is due (200 ms) is
nondeterministic, and its bound of eight waiting sources is not reached.

### Audio

**`AudioRoute`** is `audio_policy.rs`: `defaults` are the default devices of Windows,
`record` the recovery file, `job` the call that is being made role by role. The user changes a
default between the look and the call that replaces it; a call fails; the cable goes and comes
back; the console belongs to somebody else. **`HostAudio`** extends it with `CableCapture`,
`OpusEncoder`, the writer thread and its pipe, and the service, which undoes a route that its
worker left. Samples carry the time and the uninterrupted stretch (`epoch`) they come from.
Time is in half packets, buffers are a frame at most (the code takes 4800 frames), the packets
of a buffer are pushed in one step, and the pipe and its reader's queue are one queue. The
periodic reports of the state (500 ms), the state of a dead worker and the kill of a worker
that does not stop within 5 s are left out; a service starts when the worker before it is gone.

**`DecodableAudio`** is the abstract specification of the receiving side: packets in order,
once, and continued only from their predecessor. **`AudioPlayout`** is that side: `TakeDatagram`,
`HostState` and `ReaderTicks` are the receiver task with `AudioAssembler` and `OrderedAudioPackets`, `Consume` and `Emit`
the consumer thread with `AudioDecodePlanner`, `Turn` and `Pop` the window's loop with `AudioPlaybackQueue` and
the device. Whatever waits may be found old at any time. The loop of `drain` is stated by what it
releases (`Leaving`: the packets up to the first that still has to wait; `Begins`: where a packet or
a gap begins), in the order of **`Ascending`**, which `VideoAssembler` uses as well. The loop takes the reset and the items
under separate locks, as in the code.

### The player process

**`PlayerSession`** is `run_pipe_session`. Each poll of its loop is an action; `loop.todo` is
what it is blocked in (sending input into a full channel, waiting before it drops or replaces
something). `thread` is the session thread that `start_stream_session` spawns, which polls the
stop flag only while it receives; `orphans` counts threads the loop would have lost.
**`Presenter`** is `VulkanRenderer` under it: the GPU executes what was submitted, and the
thread of the `PresentationTracker` waits for the compositor. A frame that is presented again
is not measured and has the owner 0. The loss of the device and a failed import are part of
`Crash`; captured pointers and focus are in `RemoteInput`, not here.

**`SessionEnd`** is the end of a session with its five actors: worker process and its reader
thread, media thread, session task with its response writer, connection, player. Their
program counters are `workerAt`, `serviceAt` and `sessionAt`; `exit` is `WorkerVideoExit`,
`response` and `toPlayer` carry the last message, `reason` is what the player read and
`playerEnd` what `receive_stream` returned.

### Input

**`RemoteInput`** is the way of a key or a button from the window to Windows. `PressKey` to
`Reconnect` are the window's loop, which routes a press to the overlay or to the host and
blocks while the channel is full (`CanSend`); `SendPack`, `Finish` and `ClosePlayer` are the
receiver task; `Accept` to `CloseSession` are `serve_authenticated_video`, with
`InputSession::reliable` in `ApplyTransition` and `VirtualInputState` in `Apply`. `Submit`
gives the three outcomes of a report: taken, refused by a full ring, taken but not signalled.
`device` is what the accepted reports make Windows believe; it outlives every session.
`forwarded` (what the window has sent) and `amounts` (the same after each event) are history.
Movements, positions and the wheel are one event, `Move`, whose only
effect here is the button mask its report carries. The code's `generation` is always 1 in the
player and left out. A key whose SDL scancode is above 0xe7 is sent all the same
(`main.rs:1617`) and makes the host end the session (`UnknownKeys`).

**`InputOwner`** is `VirtualInputOwner::create`, step by step, with what it leaves on the
machine: the pair of devices (one stands for both), their configuration and the token by which
driver and service name their shared memory. The service fails or dies between any two steps
and is started again; the uninstall removes the devices before it stops the service.
**`HidPump`** extends it with one report ring, one LED ring and the driver's pump. `FindRoom` to
`Signal` are `NamedRing::publish` with one step per store to shared memory; `pump[t]` is where
thread t is in `pump_reports`, with a step for every stretch under the device map's lock and
one for every call outside it. The rings survive as long as somebody has them open. LED states
are drained by the thread that publishes, never during a publish. `RemoveDevice` takes the device
from a host process that goes on: its cleanup waits for the lock, and its threads find the device
gone. `DriverDies` is the end of that process, with all its threads wherever they are; the rings
and events stay, since the service has them open too. Two deaths strand an LED state in its
ring (`led.stranded`): the driver's between `PublishLed`, the producer's store (driver `ipc.rs:201`),
and `SignalLed`, its `SetEvent` (`:205`); and the service's in the drain loop, whose event its wait
has spent. No timeout looks for it, so it is read when the next LED state is signalled.
`LedsDrained` excepts such a state up to then, and no other. A removal does not meet a
service that is starting (a bound).

### Bitrate

**`AdaptiveBitrate`** and **`LatencyPolicy`** are the two controllers of the bitrate
(`host-core/src/lib.rs`, `latency.rs`). Each is a record with one operator per method, from
the record to its successor; the many branches of `observe_with_recovery` and of
`LatencyPolicy::observe` are operators of their own (`AnswerSevere`, `AnswerDegraded`,
`AnswerSender`, `Cool`, `Recover`; `AnswerExcess`, `RaiseCeiling`). A unit of time is one
report, 500 ms in the code. Points in time are ages, capped where they no longer matter.
Percentages are truncated as in the code, except that the latency policy divides by 100
before it multiplies. Delays are those the service passes in after the host's own excess was
taken off (`source_delay`). The rise of the round-trip time is left out, because measured
media delay turns it off.

**`BitrateControl`** is `HostVideoStreamPolicy` with both of them sharing one target, as the
media thread uses it: `Report` is a receiver report (`ObserveReceiver` in the order of
`observe_receiver_with_latency`: delay, loss and recovery, the answer to delay),
`IrregularReport` one that comes late or after dropped ones, `QueueDrop` and
`DeadlineExpired` the sender's events between reports. The link is the environment: what a
report says of loss and delay, and which channels are active. `calm` and `overLimit` are
history.

## The runs

| Run | What it shows | Bounds |
|---|---|---|
| `host_session` | `OneStream`, `InStep`, `SlotReturns` | 2 connections from 1 address, 4 jobs, 3 offers, 2 displays, 2 latency samples, a failure limit and a table of 1 |
| `frame_stream` | `SentChain`, refinement of `DecodableStream` | event queue 2, frame queue 1, 3 frames, 2 in flight, 1 request |
| `keyframe_recovery` | `Resumes`, `RequestsEnd` | 3 faults; queues of 1; 2 frames in the pipe before the first fault, 1 after it |
| `video_delivery` | `LossesAreReal`, `LossesReported`, `HostRepairsInTime`, `HostHandsAllOut` | any network: 6 frames of 2 chunks, but one of 1 chunk, 2 keyframes, window and budget 2; with the host: 4 of these frames, 2 losses, a window of 8 |
| `capture_handoff` | `OneHandoff`, `FreshAfterRestart`, `TimesTrue`, `EveryImageShown`, `StallRecovered` | 2 images, 1 frame inside the encoder, one fault of 7 kinds |
| `host_audio` | `Undoable`, `PacketsTrue`, `FailureTold` | 2 roles, 2 devices and the cable, a queue of 2, four scenarios |
| `audio_playout` | `TimeGoesForward`, `WaitsEnd`, refinement of `DecodableAudio` | 2 generations, the first of 4 packets, one of them in 2 datagrams; windows and queues of 2 |
| `player_session` | `OneSession`, `OnlyCurrent`, `NothingInUse`, `StreamResumes`, `StopEnds` | 2 failures or replaced swapchains, 1 command, 1 input, 1 frame per session, 1 tracked presentation |
| `session_end` | `AllEnd` | event queue 2, all other channels 1, crash allowed |
| `remote_input` | `NothingLost`, `OnlyHeldSent`, `ReleasedAtEnd` | 2 keys (one the host refuses), 1 button, 3 actions of the user, channel and pack of 2, 1 pack under way, 2 sessions, 1 fault |
| `hid_pump` | `RingIntact`, `DeliveredInOrder`, `OneRing`, `LedsDrained`, `Delivered` | 2 slots, 3 reports, a callback and the worker, 2 reads, 1 LED slot, 2 LED states, 1 fault |
| `bitrate_control` | `OneCutPerReport`, `RiseEarned`, `FailureJustified`, `Recovers` | bitrates 50 to 120, 6 kinds of link, 2 path capacities, 2 failed probes make a limit, waits of 1 to 4 reports, 2 troubles |

Every property has a mutant, a plausible bug in one definition, that the run finds. The type
invariants of the modules were checked with the same instances, or are proved; they are not
part of the runs.

Why the bounds are enough. The code's queues have a capacity of 2, and with a capacity of 1
every push can already drop a frame; three frames are a keyframe, a lost frame and its
successor, and the proofs cover every other size. Two connections are what a slot needs to be
fought over; with a limit of one failure an attempt can already meet a full table and a limit
that is reached. Three reports in two slots let the ring wrap. Two datagram losses are what
the repair promises: with three, a chunk, its resend and the next resend are gone and the
budget is over. Two keyframes are enough for the assembler because state older than a keyframe
is dropped when it is handed out. Two images are one that is held somewhere and one that
replaces it. An audio generation of four packets is longer than every window, and the second
generation interrupts it anywhere. Two failures of a player let a retry fail as well, or meet
a swapchain that is replaced; a session that a failure has restarted can be stopped or
reconnected. A session has a single terminal event; one message and one command are enough to
race with it.

What the bounds leave out: `BitrateControl` has bitrates of two and three digits, so that a
percentage is rounded more than in the code, and times in reports, in the order of the code's
times (a proven hold is the longest one, a fast attribution the shortest) but not in their
proportion; its troubles are the changes of the link and the irregular events, any number of
reports lies between them, and each kind of link can last. `RemoteInput` has three actions of
the user, enough for a press, a loss of focus or a reconnect, and one more; its proofs cover
every other number. `KeyframeRecovery` has a second frame in the pipe only until the first
fault. The scenarios of `host_audio` keep apart what would be too much together: sound alone,
sound with a device that goes away and comes back, the user's choices and a failing call while
a route changes, and deaths with another user at the console; the clock is wrong by one unit
backwards. A capture has one fault, and its rebuilt encoder is not reached with one frame
inside it.

Deadlock is checked for `KeyframeRecovery`, `CaptureHandoff`, `PlayerSession` (which idles when
it has exited) and `HidPump`. It is not where the system stops: `FrameStream` and
`MCVideoDelivery` at the last frame, `AudioPlayout` at the last packet, `HostAudio` when its
scenario is used up, `SessionStart` when nobody connects any more, `SessionEnd` when the
session is over, `BitrateControl` when it was ended, `RemoteInput` when the user has done
everything and the last session has ended.

### Fairness

Nothing is assumed of faults, removals, crashes and of what the user or the client does; their
number is bounded. Otherwise:

- `SessionStart`: each side of each connection goes on with what it has, on a task of its own.
  Nobody must connect, time out early or stop.
- `KeyframeRecovery`: every step of every thread, since no other one can block it; the retry
  timers elapse.
- `MCVideoDelivery`: with the host, time passes and what is due is done.
- `CaptureHandoff`: helper, worker and service go on; a launched worker is started or told to
  stop; time passes; the service looks at its packets while a movement of the pointer is
  recent. `StallRecovered` assumes that the pointer keeps moving and packets keep coming.
- `HostAudio`: the writer writes, the service takes what the pipe has.
- `AudioPlayout`: the receiver's ticks go on, so that what waits for a predecessor is found old.
- `PlayerSession`: the loop comes to each of its polls, a session thread that connects gets on
  or fails (its timeouts), the GPU executes, the compositor answers. Nothing makes a session
  fail or a client send.
- `SessionEnd`: every actor continues, the connection notices a peer that is gone, the
  kill-on-close job ends the worker (`worker.rs:1171`). No fairness makes the worker fail,
  crash or reconfigure.
- `HidPump`: threads run, the worker's wait times out (`ipc.rs:308`), HIDClass issues reads
  again, a service that stopped is started again (at boot, or by hand), an uninstall that was
  begun is finished.
- `RemoteInput`: the receiver task and the host go on, a report that is retried is taken in the
  end, the player connects again as long as sessions are left.
- `BitrateControl`: reports come as long as the session lasts (`stream_receiver.rs:1041`); the
  link need not get better.

`MCSessionStart`, `AudioPlayout` and `MCBitrateControl` state weak fairness with its `ENABLED`
written out, which TLC evaluates much faster.

## Where code and documents differ

Met while modelling; none of them is stated by a run.

1. A command that arrives after the worker reported a reconfiguration is answered with a
   failure event (`worker.rs:715`); once two of these and the report meet in a queue of two,
   the session fails instead of being reconfigured (the test at `worker.rs:1262` promises it).
2. A control message between the media thread's exit and its join is refused, and the exit
   with its reason is dropped (`service.rs:1386`; `docs/latency-control.md:88` says that the
   player learns the reason).
3. The pump retrieves a read outside the lock (driver `lib.rs:520`). A read that is queued
   after that failed and before `pumping` is cleared is turned away and waits for the
   five-second timeout with its report in the ring
   (`docs/windows-virtual-hid-mouse-keyboard.md:601`). `Delivered` holds because of that timeout.
4. A session that starts under delay pressure never has a healthy report, so its first probe
   stays active however long the bitrate holds; the incident that ends it is charged to that
   probe and lowers the limit (`host-core/src/lib.rs:697`, against `docs/latency-control.md:50`).
5. The first delay cut during a climb after a collapse records no latency limit, because
   `video_stream.rs:156` forgets it (`docs/latency-control.md:46`).
6. When the host closes while the player's clean-up writes, `receive_stream` returns that error
   instead of the reason it has read (`stream_receiver.rs:1068`).
7. A device without configuration, left by a service that died at a certain step of `create`,
   makes every later start fail until an uninstall (`windows_owner.rs:268`, `:351`).
8. `AudioRoute::activate` overwrites a recovery file that is still there with the present
   defaults (`audio_policy.rs:243`). One is left if a recovery failed, which is only logged
   (`service.rs:1533`), or did nothing because another session was at the console
   (`audio_policy.rs:319`). The cable is then what a later recovery restores. `Undoable` is
   therefore about a route that was not activated over a file (`leftover`).
9. A player whose last message is longer than 2048 bytes, or whose diagnostics cannot be
   finished, exits without its terminal event (`main.rs`, `process_protocol.rs`).
10. After `VideoNegotiated` the renderer is replaced and its presentation ids start at 1 again,
    but `pending_presentations` is kept (`main.rs:1436`). The model has no ids.
11. A swallowed frame of one chunk whose deadline has just passed when it arrives is handed out
    and reported as lost by the same call (`video_datagram.rs:417` expires it, `:462` takes it).
    The player then asks for a keyframe although nothing is missing.
12. The renderer destroys an import of a frame's buffer before it waits for the fence of the
    submission that reads it (`render-vulkan/src/lib.rs:517`).

## The proofs

Eight modules hold proofs; each EXTENDS what it is about. Every inductive invariant below
was checked by TLC on the instance of the run before it was proved. The strengthenings are
given with the reason they are needed.

`SessionStartProofs` proves, for any connections, offers, displays and limits:

- `OneStreamAlways`: `Spec => []OneStream`. `SlotInv` adds that a task holds a guard exactly where
  its place says so (`Owning`), that the slot is taken if and only if one task holds a guard, and that a
  worker's task holds it. Without the places a step could give the slot back twice.
- `InStepAlways`: `Spec => []InStep`. `StepInv` says of every open connection that the two scripts are
  at places that go together and that the two streams hold exactly the messages between them
  (`Script`, one operator for each part of the start: authenticating, asking, choosing, pinging,
  probing, opening). `InStep` speaks of the next message only; what follows it decides whether it
  stays true.
- `AgreementAlways`: from the player's confirmation on, both sides stream in the mode the host has
  chosen. It follows from `StepInv`, where both choices and the messages that carry them are tied.

`PlaybackProofs` is about two modules that have no name in common, a stream and the session that
plays it. It proves, for every capacity and bound of `FrameStream`:

- `TypeCorrect`: `Spec => []TypeOK`. `TypeOK` is inductive; its conjuncts are one per actor,
  so a step only has to show the ones of the actors it touches.
- `Ordered`: `Spec => []PipelineOrdered`. The property is its own strengthening: it orders the
  newest frame of each stage below all frames of the stage before it. The lemmas on sorted
  queues (`SortedTail`, `SortedAppend`, `SortedPush`, `SortedRemove`) carry it.
- `HostSendsChains`: `Spec => SentChain`, from `SentInv`, which ties `lastSequence` to the
  frame that was wholly sent as long as the host is not waiting. `SentChain` alone says
  nothing of the state between two frames, so it is not inductive.
- `DecoderGetsChains`: `Spec => ShownChain`, from `ShownInv` (`ready => shown = last`) and
  the order of the pipeline, which makes `shown` grow.
- `Implements`: every step of `FrameStream` is a step or a stutter of `DecodableStream` under
  `chained <- ready`; the history variable `shownKey` tells keyframes from deltas there.

`PlaybackProofs` also proves, for any surfaces, capacities and numbers of failures of `PlayerSession`:

- `OneSessionAlways`: `PlayerSpec => []OneSession`; a retry is awaited only when the thread is gone.
- `OnlyCurrentAlways` and `NothingInUseAlways`: `PlayerSpec => []OnlyCurrent` and `[]NothingInUse`, from
  `CurrentInv`: every event, frame, GPU command, wait and answer is of the session or swapchain
  there is (`LoopOf`, `ScreenOf`), and while a retry is awaited there is nothing left of any
  (`Nothing`), so that the next session may take a new number. `NothingInUse` is about swapchains;
  pictures imported into a frame slot are not covered (12 under "Where code and documents differ").

`CaptureHandoffProofs` proves, for any number of images, held frames and skips and every set of
faults:

- `OneHandoffAlways` and `FreshAlways`: `Spec => []OneHandoff` and `Spec => []FreshAfterRestart`, from
  one invariant, `HandoffInv`. `Turns` follows the key: where it is the worker's, exactly one of the
  pipe, `pending`, the helper about to write and the worker about to copy has the announcement.
  `Renewed` follows a restart: while one is under way, what precedes its answer in the pipe may be
  old and what follows it may not. `Beginning` and `Streamed` pair the places of worker and helper,
  because a restart is only ordered where the helper can answer it. It is claimed while the
  worker lives (`Streaming`); its end leaves everything as it stands.
- `TimesTrueAlways`: `Spec => []TimesTrue`. `ImagesTrue` says that all copies of an announced image are
  the texture's; `CoderTrue` that the encoder's frames carry the last stamps of their cycle one
  after another (`Stamped`), that the notes that wait belong to the last of them (`Noted`) and that
  the diagnostics' picture is the frame before (`Mirrored`). The metadata is found by stamp, so
  the stamps must not repeat among what is under way; the cycle, `Stamps`, is longer than that.

`AudioProofs` is about both ends of the audio path. It proves of `HostAudio`, for any roles, devices and
wishes, any queue and any scenario:

- `UndoableAlways`: `Spec => []Undoable`. `OnRecord` adds that the record is true of a role whose
  default was the cable already, and that a job that is still to save it has read it so;
  `JobOnRecord` and `RouteOnRecord` that a default is changed only by a job, and undone only for a
  capture, that has that very record; `Apart` that worker and service never change defaults at
  the same time.
- `PacketsTrueAlways`: `Spec => []PacketsTrue`. `Sounding` is the encoder between two buffers: less
  than a packet of samples, and a timeline whose every entry gives the times of the samples up
  to the next (`Timed`), the first of which covers the packet to come (`BeginsAt`). Entries have
  different positions and a packet moves on by two, so dropping two entries is
  enough. `Uninterrupted` says that all samples an encoder has seen are of the present stretch
  unless the capture is marked broken, and that without input the encoder is a new one.

And of `AudioPlayout`, for every window, queue and limit, and whatever datagrams are lost, late or
reordered:

- `TimeAlwaysForward`: `AudioSpec => []TimeGoesForward`, from `AudioInv`. It puts all that is under
  way into one line. `OrderOK` says that nothing waits which is older than what is expected;
  `EventsInv` that no two events of the queue cover the same packet (`Follows`), that none covers
  what is still expected from the network and none what the planner is past; `PlannerInv` that the
  planner is not past what is expected, although a generation may begin anywhere on the way. That a
  queue drops its oldest elements (`LatestSuffix`) keeps all of it (`OrderMoves`, `LineShorter`), and
  `ReleasedInOrder` says what a drain adds: events that cover what they release without overlap.
- `AudioDecodable`: `AudioSpec => ImplementsDecodableAudio`. `PlannerInv` says that a decoder with a
  state has just decoded the packet before the one expected. What is decoded on top of it is
  therefore its successor, and every gap, loss, failure and new generation goes through a reset.

`VideoProofs` is about the player's frames on any network and with the host that repairs them. It
proves, for every window, budget, stream, division into chunks and network of `VideoAssembler`:

- `LossesAlwaysReal` and `LossesAlwaysReported`: `Spec => LossesAreReal` and `Spec => LossesReported`,
  from `AssemblerInv`. `Apart` says that what was handed out is older than all that is held or
  awaited, that nothing is both held and awaited, that no keyframe is held, and that a loss which
  is owed is of a frame older than the last one handed out. Without the third a keyframe could be
  released in the middle of a batch, after a loss that it ends; without the last the missing frame
  could still arrive before its loss is reported. `InOrderLists` and `ReleasableReleases` say what
  a batch is: the frames before all that is awaited, each once, in order. The proof is what showed
  that a frame of one chunk needs the exception that `LossIsReal` makes (`Overdue`): TLC had been
  given frames of two chunks only.

And of `VideoRepair`, the loop of host, network and player, for every one of its constants:

- `RepairImplementsAssembler`: `RepairSpec => Spec`, whatever the times are. `OnlySent` says that all that
  is under way is of a frame the host has sent and is what this frame has; so each step is one of
  `VideoAssembler` or leaves its variables alone, and what is proved of every network holds with
  the host (`RepairLossesAlwaysReal`).
- `RepairTypesCorrect`: `RepairSpec => []RepairTypeOK`, with `AllowedFitsCredit`: `take` stops before the
  chunk that the credit does not cover, so the credit is never overdrawn.
- `HostAlwaysRepairs`: under `Timing`, `MCSpec /\ []CreditSuffices => []HostRepairsInTime`: no loss is ever
  reported, whichever datagrams are lost, originals, announcements, requests and repairs alike, up to
  `MaxLosses`. `Timing` is what the constants must satisfy: a datagram is faster than the next frame; a
  repair arrives before it is asked for again; the budget lasts for as many rounds as there are losses
  (`Repairing`), and one more if a frame has more than two chunks, because it may be asked for before
  all of it is known to be sent (`Late`); and no frame is under repair for so long that the window or the
  host leaves it behind (`Longest`). `CreditSuffices` says that no request asks for more than the
  credit; to one that did the host would answer in part, and the rest might come too late.

  `HostInv` follows every missing chunk. `Remaining` is the longest that it can still take: to the
  next request (`ToAsk`), a round for each loss that is still to come (less one for the original and one
  for the repair that are under way already), and the way there and back. `Deadlines` says that this is
  less than what the frame has `Left`. `Links`, `Timed` and `Quiet` tie what is under way to the times the
  player keeps; `Losses` and `Contiguous` say that a frame the player does not know of cost a loss of
  its own, and that the player then asks for all frames between. The frame after such a loss reveals
  it a period later, which `Longest` allows for; `PeriodForRound` is why a lost frame costs no more than
  a lost request. `NothingExpires`, `NothingIsTooOld` and `DeliveryUnbroken` are what follows for the assembler: no
  deadline passes, no chunk is refused, and every batch goes on where the last one ended.

`RemoteInputProofs` proves, for every set of keys and buttons and every bound:

- `TypeCorrect`: `Spec => []TypeOK`, with one lemma for the window, one for the player's task
  and connection and one for the host.
- `OnlyHeldSentAlways`: `Spec => []OnlyHeldSent`. By itself the property is not inductive: a
  release goes to the host only if the press did, and an unfocused window sends none at all.
  `SentIsHeld` adds that a button sent as held is routed to the host, and that a window without
  focus has nothing held.
- `ReleasedAlways`: `Spec => []ReleasedAtEnd`. The property is inductive with `TypeOK`; the
  lemmas `SubmitFaithful`, `SubmitChangeFaithful`, `ReleaseBothFaithful` and `ApplyFaithful`
  say that every call that succeeds leaves session and device together if they were.
- `NothingLostAlways`: `Spec => []NothingLost`. `NumberInv` follows the numbers: the pack that is being
  applied and every pack in the stream go on where the one before ends (`Chain`), up to the number
  the task has given last. `AmountInv` follows the contents, with the history `amounts` of what the
  window had sent after each event: every event under way makes the one amount into the next
  (`Fits`), and the session has the amount of its number.

`HidPumpProofs` proves, for any slots, reads, reports, faults and callbacks:

- `LedsAlwaysDrained`: `Spec => []LedsDrained`, which is inductive with the shape of the state.
  The exception of the property is part of it: a state that the death of the service or of the
  driver's process has stranded is not claimed to be noticed before the next signal.
- `RingAlwaysIntact` and `AlwaysInOrder`: `Spec => []RingIntact` and `[]DeliveredInOrder`, from `PumpInv`.
  `Published` describes the slot that is being written, `OnePump` says that one thread at most is
  inside the pump and that the flag says so while the device is there, `Given` that this thread
  holds the report after the last one consumed, which HIDClass may have been given already.
  Without `OnePump` two threads could consume the same report.
- `OneRingAlways`: `Spec => []OneRing`. `OneToken` adds that a device has the token of the service that
  runs or none yet, wherever `create` is, and `OpenRings` that an open ring is the device's.

`BitrateControlProofs` proves, for every value of the constants (the minimum and maximum, all
thresholds and times, any set of links and any number of troubles):

- `ControllerKept`: `Spec => []IInv`. `IInv` is the type of the controller's record, `ProbeKept`
  (an active probe is one of the current target, and where it came from is at least three
  quarters of it), `PolicyKept` (the latency limit and its wait are in range) and `Balanced`
  (`calm` and the cooldown add up to a cooldown or more).
- `OneCut`: `Spec => OneCutPerReport`. Every answer to trouble is shown to be `Lowered` or, in
  a healthy report, `Calmed`; a rollback is a cut like any other because of `ProbeKept`, and
  the answer to delay starts from the target before the report.
- `Earned`: `Spec => RiseEarned`. `Balanced` is what makes it inductive: the cooldown is
  set in three places (`Cut`, `Rollback`, `SetLatencyTarget`), and none sets less than a full
  cooldown where `calm` starts anew.
- `FailureJustifiedAlways`: `Spec => []FailureJustified`. `ClockInv` bounds every failure clock by the
  time the property counts. A channel without a baseline keeps its clock as it is
  (`latency.rs:138`), so the bound also needs that such a clock stands (`ChannelKept`), and hence
  that a baseline once found is never 0 again: it is the second lowest of a window of positive
  delays (`SecondPositive`).

What is assumed of the constants. `SessionStart`, `CaptureHandoff`, `HidPump`, `FrameStream`,
`RemoteInput`, `AudioRoute`, `HostAudio`, `AudioPlayout`, `Presenter` and `PlayerSession` assume
the types of their constants: capacities are positive, bounds are natural numbers, jobs and faults
are among those the module knows. Besides, the driver's worker is not one of the callbacks, the
cable is not one of the other devices, no key is a button, and the packets that start the sound
device fit into it with the longest silence. `VideoAssembler` assumes that its window, its repair
budget and the silence it tolerates are positive, that its bounds are natural numbers, that
keyframes are frames of the stream, and that every frame has a chunk. `VideoRepair` assumes
besides that the chunks of a frame are numbered from 1 and that the host's frames are among those
of the stream; what `HostAlwaysRepairs` needs of the times is not assumed there but said in the
theorem. The constants of `VideoDelivery.cfg` meet `Timing`: `Repairing` is 9 of a budget of 10,
`Longest` 15 of a window of 16 ticks. With `CreditSuffices` as an invariant of that configuration
TLC finds it true in all of its states. The assumptions of `BitrateControl` are
`BitrateAssumption` (the minimum is positive and not above the maximum; the shortest of each pair
of times is not above the longest; a cooldown is not above the probe interval),
`LatencyAssumption` (the same for the latency policy; a window has two samples or more; a cooldown
is not above its wait) and `LinkAssumption` (what a link is). The code's constants satisfy all of
them.

What is model-checked only. Liveness, which is out of TLAPS's reach: `SlotReturns`, `Resumes`,
`RequestsEnd`, `HostHandsAllOut`, `EveryImageShown`, `StallRecovered`, `FailureTold`, `WaitsEnd`,
`StreamResumes`, `StopEnds`, `AllEnd`, `Delivered`, `Recovers`. All other properties of the runs
are theorems. Three of them are proved of less than the run checks: `HostRepairsInTime` needs
`CreditSuffices`, which no theorem states; and the theorems on `LossesAreReal` and
`LossesReported` are about `VideoAssembler` and `VideoRepair`, while the run has both in one
specification and gives the first smaller windows.

## What is not modelled

`PROJECT.json` lists every part with its status. Left out for good: shaders, codecs and
colour conversion (calls of external interfaces without a protocol of their own), the byte
layout of messages, the cryptography of OPAQUE, installation, measurement tools. Left out
although there would be something to say: discovery and the client's page (its phases, its
prompt queue), certificates and session tickets, the pacer and the estimates that are
displayed, payload digests, the LED state on its way from the service to the player, clock
samples, captured pointers. In the modules: the contents of frames and reports;
`WaitForMultipleObjects` failing, after which the driver's worker ends;
`WdfRequestForwardToIoQueue` and `SetEvent` failing (the driver's for an LED state would strand
it as its death does). A service that starts anew while the
driver has no ring open is taken to find no driver thread in the middle of a pump: its start
takes seconds, the pump microseconds.

## Plan

Theorems: `CreditSuffices` (the chunks that a behaviour can ask for at all, against the credit that has
grown until then).

Models: `SessionEnd` composed with `SessionStart`, so that a stream that ends makes room for
the next one; the LED state up to the player; `Discovery` and the client's phases; pacing with
`SourceDelay`.
