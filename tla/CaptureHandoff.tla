---------------------------- MODULE CaptureHandoff ----------------------------
(***************************************************************************)
(* Screen capture.  On the normal desktop two processes share it: the WGC  *)
(* helper, which runs as the user, takes the newest image of a capture     *)
(* session, converts it into one shared texture and announces it; the      *)
(* media worker takes the texture, copies it, gives it back and encodes    *)
(* the copy.  A keyed mutex says whose turn it is: key 0 lets the helper   *)
(* in, key 1 the worker.  A pipe carries the commands to the helper,       *)
(* another one its frames and answers.  On the secure desktop the worker   *)
(* itself duplicates the output.  The service has a stream prepared and    *)
(* started, sees the packets and orders a restart of a capture that does   *)
(* not answer the pointer.                                                 *)
(***************************************************************************)
EXTENDS Integers, Sequences, FiniteSets, SequencesExt

CONSTANTS
  MaxImages,    \* images that Windows presents
  MaxHeld,      \* frames that the encoder may keep back
  MaxSkips,     \* ticks in a row that the pacer lets pass without an encode
  Recency,      \* age up to which a movement of the pointer counts
  StallLimit,   \* time that an image may outlast a movement
  Faults        \* of which one may happen

ASSUME ConstantsAssumption ==
  /\ {MaxImages, MaxHeld, MaxSkips, Recency, StallLimit} \subseteq Nat
  /\ Faults \subseteq {"refuse", "change", "freeze", "death", "stall", "hold", "lag"}

VARIABLES
  windows,    \* desktop, display configuration, images presented, fault met
  session,    \* the bridge: display configuration read, capture session
  texture,    \* key, owner and content of the shared texture
  helper,     \* where the helper is, and the image it has still to announce
  commands,   \* pipe from the worker to the helper
  responses,  \* pipe from the helper to the worker
  orders,     \* pipe from the service to the worker
  worker,     \* where the worker is, and what the stream came to
  capture,    \* GpuCapture: announced, held and cached image
  encoder,    \* frames inside the encoder, metadata that waits for packets
  mirror,     \* Av1QualityDiagnostics: waiting sources, packets in its decoder
  encoded,    \* packets on the way to the service
  monitor     \* the service: CaptureFreshnessMonitor and the pointer activity

pipes == <<commands, responses>>
coder == <<encoder, mirror>>
workerVars == <<worker, capture, coder, encoded>>
service == <<orders, monitor>>
vars == <<windows, session, texture, helper, pipes, service, workerVars>>

None == 0
Never == -1
Unused == [last |-> None, moved |-> Never, response |-> Never]
MirrorOpened == [sources |-> {}, inside |-> <<>>]
(* A packet: the image inside, the image whose time goes with it, and      *)
(* whether the quality sample that goes with it, if one does, compared an  *)
(* image with itself.                                                      *)
Packet(image, said, alike) == [image |-> image, said |-> said, alike |-> alike]

Init ==
  /\ \E desktop \in {"default", "secure"} :
       windows = [desktop |-> desktop, display |-> 0, shown |-> 0, fault |-> "none"]
  /\ worker = [at |-> "absent", prepared |-> FALSE, skipped |-> 0, outcome |-> "streams"]
  /\ session = [config |-> 0, pool |-> None, frozen |-> FALSE, since |-> Never]
  /\ texture = [key |-> Never, owner |-> "nobody", image |-> None]
  /\ helper = [at |-> "absent", image |-> None]
  /\ commands = <<>> /\ responses = <<>>
  /\ orders = <<>>
  /\ capture = [pending |-> None, held |-> None, cached |-> None, content |-> None]
  /\ encoder = [next |-> 0, inside |-> <<>>, metadata |-> <<>>]
  /\ mirror = MirrorOpened
  /\ encoded = <<>>
  /\ monitor = Unused

Answer(is, result, image) == [is |-> is, result |-> result, image |-> image]
Gone == helper.at = "gone"
Secure == windows.desktop = "secure"

-----------------------------------------------------------------------------
(* Windows: images reach the pool of the session unless it is frozen; the  *)
(* pool is emptied down to its newest image when one is taken.             *)

Streaming == worker.at # "ended"
May(fault) == Streaming /\ fault \in Faults /\ windows.fault = "none"
Meets(fault) == windows' = [windows EXCEPT !.fault = fault]

(* check_configuration: what the bridge has read is still so.              *)
Changed == session.config # windows.display

Present ==
  /\ Streaming /\ session.since # Never /\ windows.shown < MaxImages
  /\ windows' = [windows EXCEPT !.shown = @ + 1]
  /\ session' = IF session.frozen THEN session ELSE [session EXCEPT !.pool = windows.shown + 1]
  /\ UNCHANGED <<texture, helper, pipes, service, workerVars>>

(* Resolution, refresh rate, colours, or the desktop that has the input.   *)
DisplayChanges ==
  /\ May("change") /\ windows' = [windows EXCEPT !.fault = "change", !.display = 1]
  /\ UNCHANGED <<session, texture, helper, pipes, service, workerVars>>

(* The session goes silent although the screen changes.                    *)
SessionFreezes ==
  /\ May("freeze") /\ Meets("freeze") /\ capture.cached # None
  /\ session' = [session EXCEPT !.frozen = TRUE]
  /\ UNCHANGED <<texture, helper, pipes, service, workerVars>>

(* The helper is killed, as the user logs off, or crashes.                 *)
HelperDies ==
  /\ May("death") /\ Meets("death") /\ helper.at \notin {"absent", "gone"}
  /\ helper' = [helper EXCEPT !.at = "gone"]
  /\ UNCHANGED <<session, texture, pipes, service, workerVars>>

-----------------------------------------------------------------------------
(* The helper (wgc_helper_main.cpp, capture_frame).                        *)

(* rustconsole_gpu_bridge_create: the bridge reads the configuration of    *)
(* its display, then builds what it needs step by step; the session        *)
(* captures from the last step on, before the worker hears of it.          *)
Goes(from, to) == Streaming /\ helper.at = from /\ helper' = [helper EXCEPT !.at = to]

ConfigurationRead == [session EXCEPT !.config = windows.display]

HelperConnects ==
  /\ Goes("connect", "connected")
  /\ UNCHANGED <<windows, session, texture, pipes, service, workerVars>>

HelperSelects ==
  /\ Goes("select", "source") /\ session' = ConfigurationRead
  /\ UNCHANGED <<windows, texture, pipes, service, workerVars>>

HelperBuildsSource ==
  /\ Goes("source", "texture")
  /\ UNCHANGED <<windows, session, texture, pipes, service, workerVars>>

HelperSharesTexture ==
  /\ Goes("texture", "shader")
  /\ texture' = [texture EXCEPT !.key = 0]
  /\ UNCHANGED <<windows, session, pipes, service, workerVars>>

HelperBuildsShader ==
  /\ Goes("shader", "processor")
  /\ UNCHANGED <<windows, session, texture, pipes, service, workerVars>>

HelperBuildsProcessor ==
  /\ Goes("processor", "session")
  /\ UNCHANGED <<windows, session, texture, pipes, service, workerVars>>

Restarted == [session EXCEPT !.pool = None, !.frozen = FALSE, !.since = windows.shown]

HelperStartsCapture ==
  /\ Goes("session", "options")
  /\ session' = Restarted
  /\ responses' = Append(responses, Answer("hello", "ok", None))
  /\ UNCHANGED <<windows, texture, commands, service, workerVars>>

HelperRefuses ==
  /\ May("refuse") /\ Meets("refuse")
  /\ helper.at \in {"select", "source", "texture", "shader", "processor", "session"}
  /\ responses' = Append(responses, Answer("hello", "failed", None))
  /\ helper' = [helper EXCEPT !.at = "gone"]
  /\ UNCHANGED <<session, texture, commands, service, workerVars>>

HelperConfigured ==
  /\ Streaming /\ helper.at = "options" /\ commands # <<>>
  /\ commands' = Tail(commands)
  /\ helper' = [helper EXCEPT !.at = "peek"]
  /\ UNCHANGED <<windows, session, texture, responses, service, workerVars>>

HelperRestarts ==
  /\ Streaming /\ helper.at = "peek" /\ commands # <<>>
  /\ commands' = Tail(commands)
  /\ session' = Restarted
  /\ responses' = Append(responses, Answer("restart", "ok", None))
  /\ UNCHANGED <<windows, texture, helper, service, workerVars>>

(* check_configuration, before the capture and while it waits for an image *)
HelperFindsChange ==
  /\ Streaming
  /\ \/ helper.at = "peek" /\ commands = <<>>
     \/ helper.at = "choose" /\ session.pool = None
  /\ Changed
  /\ responses' = Append(responses, Answer("frame", "lost", None))
  /\ helper' = [helper EXCEPT !.at = "gone"]
  /\ UNCHANGED <<windows, session, texture, commands, service, workerVars>>

(* The texture is owned before an image is chosen, and kept over a wait    *)
(* without an image.                                                       *)
HelperCaptures ==
  /\ Streaming /\ helper.at = "peek" /\ commands = <<>> /\ ~Changed
  /\ helper' = [helper EXCEPT !.at = IF texture.owner = "helper" THEN "choose" ELSE "wait"]
  /\ UNCHANGED <<windows, session, texture, pipes, service, workerVars>>

HelperOwns ==
  /\ Streaming /\ helper.at = "wait" /\ texture.key = 0 /\ texture.owner = "nobody"
  /\ texture' = [texture EXCEPT !.owner = "helper"]
  /\ helper' = [helper EXCEPT !.at = "choose"]
  /\ UNCHANGED <<windows, session, pipes, service, workerVars>>

(* Five seconds without the texture, which takes a worker that stalls.     *)
HelperGivesUp ==
  /\ Streaming /\ helper.at = "wait" /\ windows.fault = "stall"
  /\ texture.key = 1 \/ texture.owner # "nobody"
  /\ responses' = Append(responses, Answer("frame", "failed", None))
  /\ helper' = [helper EXCEPT !.at = "gone"]
  /\ UNCHANGED <<windows, session, texture, commands, service, workerVars>>

HelperChooses ==
  /\ Streaming /\ helper.at = "choose" /\ session.pool # None
  /\ session' = [session EXCEPT !.pool = None]
  /\ texture' = [key |-> 1, owner |-> "nobody", image |-> session.pool]
  /\ helper' = [at |-> "write", image |-> session.pool]
  /\ UNCHANGED <<windows, pipes, service, workerVars>>

HelperFindsNothing ==
  /\ Streaming /\ helper.at = "choose" /\ session.pool = None /\ ~Changed
  /\ helper' = [helper EXCEPT !.at = "peek"]
  /\ UNCHANGED <<windows, session, texture, pipes, service, workerVars>>

HelperAnnounces ==
  /\ Streaming /\ helper.at = "write"
  /\ responses' = Append(responses, Answer("frame", "ok", helper.image))
  /\ helper' = [at |-> "peek", image |-> None]
  /\ UNCHANGED <<windows, session, texture, commands, service, workerVars>>

-----------------------------------------------------------------------------
(* The service: CaptureFreshnessMonitor over the packets of the worker.    *)

LaunchSystem ==
  /\ worker.at = "absent" /\ worker' = [worker EXCEPT !.at = "idle"]
  /\ orders' = <<"prepare">>
  /\ UNCHANGED <<windows, session, texture, helper, pipes, monitor, capture, coder, encoded>>

OrderStart ==
  /\ worker.at = "idle" /\ worker.prepared /\ orders = <<>>
  /\ orders' = <<"start">>
  /\ UNCHANGED <<windows, session, texture, helper, pipes, workerVars, monitor>>

(* Once it has ordered the stop, the service listens no more and forgets. *)
Serving == Streaming /\ "stop" \notin ToSet(orders)

OrderStop ==
  /\ Serving /\ worker.at # "absent"
  /\ monitor' = Unused
  /\ orders' = Append(orders, "stop")
  /\ UNCHANGED <<windows, session, texture, helper, pipes, workerVars>>

(* "moved" is the age of a movement that is newer than the last fresh      *)
(* image.  Once a response is awaited, later movements change nothing.     *)
PointerMoves ==
  /\ Serving /\ monitor.response = Never /\ monitor.moved # 0
  /\ monitor' = [monitor EXCEPT !.moved = 0]
  /\ UNCHANGED <<windows, session, texture, helper, pipes, workerVars, orders>>

Older(age, limit) == IF age \in {Never, limit} THEN age ELSE age + 1
TimePasses ==
  /\ Serving
  /\ monitor' = [monitor EXCEPT !.moved = IF @ = Recency THEN Never ELSE Older(@, Recency),
                                !.response = Older(@, StallLimit)]
  /\ monitor' # monitor
  /\ UNCHANGED <<windows, session, texture, helper, pipes, workerVars, orders>>

Response == IF monitor.response = Never THEN monitor.moved ELSE monitor.response
RecentOnly(image) == [monitor EXCEPT !.last = image]
Observed(image) ==
  IF image # monitor.last \/ Response >= StallLimit
  THEN [last |-> image, moved |-> Never, response |-> Never]
  ELSE [last |-> image, moved |-> Never, response |-> Response]

Observe ==
  /\ Serving /\ encoded # <<>>
  /\ LET image == Head(encoded).said
     IN  /\ monitor' = Observed(image)
         /\ orders' = IF image = monitor.last /\ Response >= StallLimit
                      THEN Append(orders, "restart") ELSE orders
  /\ encoded' = Tail(encoded)
  /\ UNCHANGED <<windows, session, texture, helper, pipes, worker, capture, coder>>

-----------------------------------------------------------------------------
(* The worker before the stream: run_files, prepare_nvenc_capture.         *)

Ends(outcome) == worker' = [worker EXCEPT !.at = "ended", !.outcome = outcome]
OutcomeOf(answer) == IF answer.result = "lost" THEN "reconfigured" ELSE "failed"
Ready == [worker EXCEPT !.at = "idle", !.prepared = TRUE]
Ordered(order) == orders # <<>> /\ Head(orders) = order /\ orders' = Tail(orders)

WorkerPrepares ==
  /\ worker.at = "idle" /\ Ordered("prepare")
  /\ worker' = [worker EXCEPT !.at = IF Secure THEN "duplicate" ELSE "launch"]
  /\ UNCHANGED <<windows, session, texture, helper, pipes, monitor, capture, coder, encoded>>

(* The bridge of the secure desktop is the worker's own.                   *)
WorkerBuildsBridge ==
  /\ worker.at = "duplicate"
  /\ session' = [ConfigurationRead EXCEPT !.since = windows.shown]
  /\ worker' = Ready
  /\ UNCHANGED <<windows, texture, helper, pipes, service, capture, coder, encoded>>

LaunchedAsUser == [helper EXCEPT !.at = "connect"]
WorkerLaunchesHelper ==
  /\ worker.at = "launch"
  /\ helper' = LaunchedAsUser
  /\ worker' = [worker EXCEPT !.at = "connect"]
  /\ UNCHANGED <<windows, session, texture, pipes, service, capture, coder, encoded>>

(* The worker waits for the helper on the pipe, as long as CONNECT_TIMEOUT *)
(* lets it, and asks it for a display.                                     *)
WorkerConnects ==
  /\ worker.at = "connect"
  /\ \/ /\ helper.at = "connected" /\ helper' = [helper EXCEPT !.at = "select"]
        /\ worker' = [worker EXCEPT !.at = "hello"]
     \/ Gone /\ Ends("failed") /\ UNCHANGED helper
  /\ UNCHANGED <<windows, session, texture, pipes, service, capture, coder, encoded>>

WorkerHearsHello ==
  /\ worker.at = "hello"
  /\ \/ /\ responses # <<>> /\ responses' = Tail(responses)
        /\ IF Head(responses).result = "ok"
           THEN worker' = [worker EXCEPT !.at = "handle"]
           ELSE Ends("failed")
     \/ /\ responses = <<>> /\ Gone
        /\ Ends("failed") /\ UNCHANGED responses
  /\ UNCHANGED <<windows, session, texture, helper, commands, service, capture, coder, encoded>>

(* The handle of the texture is duplicated out of the helper: a dead one   *)
(* has none to give.                                                       *)
WorkerTakesHandle ==
  /\ worker.at = "handle"
  /\ IF Gone THEN Ends("failed") ELSE worker' = [worker EXCEPT !.at = "open"]
  /\ UNCHANGED <<windows, session, texture, helper, pipes, service, capture, coder, encoded>>

WorkerOpensTexture ==
  /\ worker.at = "open" /\ worker' = Ready
  /\ UNCHANGED <<windows, session, texture, helper, pipes, service, capture, coder, encoded>>

WorkerTakesPrepared ==
  /\ worker.at = "idle" /\ worker.prepared /\ Ordered("start")
  /\ worker' = [worker EXCEPT !.at = "encoder", !.prepared = FALSE]
  /\ UNCHANGED <<windows, session, texture, helper, pipes, monitor, capture, coder, encoded>>

WorkerOpensEncoder ==
  /\ worker.at = "encoder" /\ worker' = [worker EXCEPT !.at = "start"]
  /\ UNCHANGED <<windows, session, texture, helper, pipes, service, capture, coder, encoded>>

(* No session, token or process, no adapter or display, a device that      *)
(* fails, a display slower than the stream, an encoder that does not open. *)
WorkerRefuses ==
  /\ May("refuse") /\ Meets("refuse")
  /\ worker.at \in {"absent", "duplicate", "launch", "handle", "open", "encoder"}
  /\ Ends("failed")
  /\ UNCHANGED <<session, texture, helper, pipes, service, capture, coder, encoded>>

-----------------------------------------------------------------------------
(* The worker: run_video_stream over GpuVideoPipeline and GpuCapture.      *)

(* The cached texture is kept, but nothing says any more what it shows.    *)
Remembered == capture
Forgotten == [capture EXCEPT !.cached = None]

(* Neither is what waits for packets, nor what waits for their pictures.   *)
RestForgotten ==
  /\ encoder' = [encoder EXCEPT !.metadata = <<>>]
  /\ mirror' = [mirror EXCEPT !.sources = {}]

(* A new duplication, unless the display has changed; the old one goes     *)
(* first.                                                                  *)
DuplicatesAnew ==
  /\ Secure
  /\ UNCHANGED <<texture, commands>>
  /\ \/ Changed /\ Ends("reconfigured") /\ UNCHANGED <<session, capture, coder>>
     \/ /\ ~Changed
        /\ session' = Restarted
        /\ capture' = Forgotten
        /\ RestForgotten
        /\ worker' = [worker EXCEPT !.at = "orders"]

(* restart_capture_exchange: an announced frame is given back, the command *)
(* written; the pipe of a helper that is gone refuses it.                  *)
LeftIn == texture
Discarded == [texture EXCEPT !.key = 0]
BeginsRestart ==
  /\ ~Secure /\ UNCHANGED <<session, coder>>
  /\ texture' = IF capture.pending # None THEN Discarded ELSE texture
  /\ capture' = [capture EXCEPT !.pending = None]
  /\ \/ Gone /\ Ends("failed") /\ UNCHANGED commands
     \/ /\ ~Gone
        /\ commands' = commands \o (IF worker.at = "start" THEN <<"options", "restart">> ELSE <<"restart">>)
        /\ worker' = [worker EXCEPT !.at = "restarting"]

RestartsCapture == BeginsRestart \/ DuplicatesAnew

StreamStarts ==
  /\ worker.at = "start" /\ RestartsCapture
  /\ UNCHANGED <<windows, helper, responses, service, encoded>>

WorkerReadsRestart ==
  /\ worker.at = "restarting"
  /\ \/ /\ responses # <<>> /\ responses' = Tail(responses)
        /\ LET answer == Head(responses)
           IN  CASE answer.result # "ok" ->
                      Ends(OutcomeOf(answer)) /\ UNCHANGED <<texture, capture, coder>>
                 [] answer.result = "ok" /\ answer.is = "frame" ->
                      texture' = Discarded /\ UNCHANGED <<worker, capture, coder>>
                 [] answer.result = "ok" /\ answer.is = "restart" ->
                      /\ capture' = Forgotten
                      /\ RestForgotten
                      /\ worker' = [worker EXCEPT !.at = "orders"]
                      /\ UNCHANGED texture
     \/ /\ responses = <<>> /\ Gone
        /\ Ends("failed") /\ UNCHANGED <<responses, texture, capture, coder>>
  /\ UNCHANGED <<windows, session, helper, commands, service, encoded>>

WorkerReadsOrder ==
  /\ \/ /\ worker.at = "orders" /\ Ordered("restart")
        /\ RestartsCapture
     \/ /\ worker.at \in {"idle", "orders"} /\ Ordered("stop") /\ Ends("stopped")
        /\ UNCHANGED <<session, texture, capture, coder, commands>>
  /\ UNCHANGED <<windows, helper, responses, monitor, encoded>>

(* The pacer: a tick without an encode still takes the image.              *)
WorkerTicks ==
  /\ worker.at = "orders" /\ orders = <<>>
  /\ \/ worker' = [worker EXCEPT !.at = "capture", !.skipped = 0]
     \/ /\ worker.skipped < MaxSkips
        /\ worker' = [worker EXCEPT !.at = "capture", !.skipped = @ + 1]
  /\ UNCHANGED <<windows, session, texture, helper, pipes, service, capture, coder, encoded>>

AfterCapture(image) == IF worker.skipped = 0 /\ image # None THEN "encode" ELSE "orders"

(* Desktop Duplication: the image is copied, converted and given back      *)
(* within one call, which may as well find nothing but a moved pointer.    *)
WorkerDuplicates ==
  /\ worker.at = "capture" /\ Secure
  /\ LET image == IF session.pool = None THEN capture.cached ELSE session.pool
     IN  IF Changed THEN Ends("reconfigured") /\ UNCHANGED <<session, capture>>
         ELSE /\ session' = [session EXCEPT !.pool = None]
              /\ capture' = [capture EXCEPT !.cached = image,
                                            !.content = IF session.pool = None THEN @ ELSE image]
              /\ worker' = [worker EXCEPT !.at = AfterCapture(image)]
  /\ UNCHANGED <<windows, texture, helper, pipes, service, coder, encoded>>

WorkerHears ==
  /\ worker.at = "capture" /\ capture.pending = None /\ responses # <<>>
  /\ responses' = Tail(responses)
  /\ LET answer == Head(responses)
     IN  \/ /\ answer.is = "frame" /\ answer.result = "ok"
            /\ capture' = [capture EXCEPT !.pending = answer.image]
            /\ UNCHANGED worker
         \/ /\ answer.is = "restart" \/ answer.result # "ok"
            /\ Ends(IF answer.is = "restart" THEN "failed" ELSE OutcomeOf(answer))
            /\ UNCHANGED capture
  /\ UNCHANGED <<windows, session, texture, helper, commands, service, coder, encoded>>

(* No image in time: the cached one is encoded again, if there is one.     *)
EncodesOnlyNew ==
  /\ worker.at = "capture" /\ ~Secure /\ capture.pending = None /\ responses = <<>>
  /\ IF Gone THEN Ends("failed") ELSE worker' = [worker EXCEPT !.at = "orders"]
  /\ UNCHANGED <<windows, session, texture, helper, pipes, service, capture, coder, encoded>>
WorkerHearsNothing ==
  /\ worker.at = "capture" /\ ~Secure /\ capture.pending = None /\ responses = <<>>
  /\ IF Gone THEN Ends("failed")
     ELSE worker' = [worker EXCEPT !.at = AfterCapture(capture.cached)]
  /\ UNCHANGED <<windows, session, texture, helper, pipes, service, capture, coder, encoded>>

Acquired == [texture EXCEPT !.owner = "worker"]
WorkerAcquires ==
  /\ worker.at = "capture" /\ capture.pending # None
  /\ texture.key = 1 /\ texture.owner = "nobody"
  /\ texture' = Acquired
  /\ capture' = [capture EXCEPT !.pending = None, !.held = capture.pending]
  /\ worker' = [worker EXCEPT !.at = "copy"]
  /\ UNCHANGED <<windows, session, helper, pipes, service, coder, encoded>>

GivenBack == [texture EXCEPT !.key = 0, !.owner = "nobody"]
WorkerCopies ==
  /\ worker.at = "copy"
  /\ texture' = GivenBack
  /\ capture' = [capture EXCEPT !.held = None, !.cached = capture.held, !.content = texture.image]
  /\ worker' = [worker EXCEPT !.at = AfterCapture(capture.held)]
  /\ UNCHANGED <<windows, session, helper, pipes, service, coder, encoded>>

(* encode_next_frame: the encoder may keep the frame back; the events that *)
(* the service has not read are a queue of two (LatestQueue).              *)
AnyMetadata(metadata, packet) == metadata # <<>>
Matches(metadata, packet) == metadata # <<>> /\ Head(metadata).pts = packet.pts
Written(packet, said, alike) ==
  LET queue == Append(encoded, Packet(packet.image, said, alike))
  IN  IF Len(queue) > 2 THEN Tail(queue) ELSE queue
(* Timestamps are only compared: they count modulo more than are in use,   *)
(* and start over when none is.                                            *)
Stamps == MaxHeld + 2
After(frames, waiting, pictures) ==
  [next |-> IF frames \o waiting \o pictures = <<>> THEN 0 ELSE (encoder.next + 1) % Stamps,
   inside |-> frames, metadata |-> waiting]

KeepsBack(frames) == windows.fault = "hold" /\ Len(frames) <= MaxHeld

(* Diagnostics: the texture that is encoded is read as well, and compared  *)
(* with the picture that a decoder makes of its packet.  What the decoder  *)
(* gives back may belong to the packet before, which does not reach the    *)
(* limit of eight sources.  A source is taken each 200 ms.                 *)
Sampled == {None, capture.content}
Waiting(source, packet) ==
  IF source = None THEN mirror.sources
  ELSE {waiting \in mirror.sources : waiting.pts # packet.pts}
         \union {[pts |-> packet.pts, image |-> source]}
Compared(source, packet) ==
  LET sources == Waiting(source, packet)
      inside == Append(mirror.inside, packet)
      picture == Head(inside)
  IN  IF windows.fault = "lag" /\ Len(inside) = 1
      THEN [mirror |-> [sources |-> sources, inside |-> inside], alike |-> TRUE]
      ELSE [mirror |-> [sources |-> {waiting \in sources : waiting.pts # picture.pts},
                        inside |-> Tail(inside)],
            alike |-> \A waiting \in sources :
                        waiting.pts = picture.pts => waiting.image = picture.image]

WorkerEncodes ==
  /\ worker.at = "encode"
  /\ \E source \in Sampled :
     LET pts == encoder.next
         inside == Append(encoder.inside, [pts |-> pts, image |-> capture.content])
         metadata == Append(encoder.metadata, [pts |-> pts, said |-> capture.cached, source |-> source])
         packet == Head(inside)
         compared == Compared(Head(metadata).source, packet)
     IN  \/ /\ KeepsBack(inside)
            /\ \/ /\ Len(metadata) > 2
                  /\ mirror' = MirrorOpened /\ encoder' = After(<<>>, <<>>, <<>>)
               \/ /\ Len(metadata) <= 2
                  /\ encoder' = After(inside, metadata, mirror.inside) /\ UNCHANGED mirror
            /\ worker' = [worker EXCEPT !.at = "orders"] /\ UNCHANGED encoded
         \/ /\ Matches(metadata, packet)
            /\ mirror' = compared.mirror
            /\ encoder' = After(Tail(inside), Tail(metadata), mirror'.inside)
            /\ encoded' = Written(packet, Head(metadata).said, compared.alike)
            /\ worker' = [worker EXCEPT !.at = "orders"]
         \/ ~Matches(metadata, packet) /\ Ends("failed") /\ UNCHANGED <<coder, encoded>>
  /\ UNCHANGED <<windows, session, texture, helper, pipes, service, capture>>

(* The GPU or the event pipe blocks the worker for more than five seconds. *)
WorkerStalls ==
  /\ May("stall") /\ Meets("stall") /\ worker.at \in {"orders", "copy", "encode"}
  /\ UNCHANGED <<session, texture, helper, pipes, service, workerVars>>

(* The encoder, asked for no delay, begins to keep frames back.            *)
EncoderHolds ==
  /\ May("hold") /\ Meets("hold")
  /\ UNCHANGED <<session, texture, helper, pipes, service, workerVars>>

(* The decoder of the diagnostics begins to give its pictures back late.   *)
MirrorLags ==
  /\ May("lag") /\ Meets("lag")
  /\ UNCHANGED <<session, texture, helper, pipes, service, workerVars>>

(* The end of the stream drops the capture and with it the helper.         *)
Ended == worker.at = "ended" /\ UNCHANGED vars

Helper ==
  \/ HelperConnects \/ HelperSelects \/ HelperBuildsSource \/ HelperSharesTexture \/ HelperBuildsShader
  \/ HelperBuildsProcessor \/ HelperStartsCapture \/ HelperConfigured \/ HelperRestarts \/ HelperFindsChange
  \/ HelperCaptures \/ HelperOwns \/ HelperChooses \/ HelperFindsNothing \/ HelperAnnounces
Worker ==
  \/ WorkerPrepares \/ WorkerBuildsBridge \/ WorkerLaunchesHelper \/ WorkerConnects \/ WorkerHearsHello
  \/ WorkerTakesHandle \/ WorkerOpensTexture \/ WorkerTakesPrepared \/ WorkerOpensEncoder \/ StreamStarts \/ WorkerReadsRestart
  \/ WorkerReadsOrder \/ WorkerTicks \/ WorkerDuplicates \/ WorkerHears
  \/ WorkerHearsNothing \/ WorkerAcquires \/ WorkerCopies \/ WorkerEncodes
Windows == Present \/ DisplayChanges \/ SessionFreezes
Service == LaunchSystem \/ OrderStart \/ OrderStop \/ PointerMoves \/ TimePasses \/ Observe
Next ==
  \/ Windows \/ Helper \/ HelperRefuses \/ HelperDies \/ HelperGivesUp
  \/ Worker \/ WorkerRefuses \/ WorkerStalls \/ EncoderHolds \/ MirrorLags \/ Service \/ Ended

(* The processes run, a negotiation ends with a start or a stop, time      *)
(* passes, and a packet reaches the monitor while a movement is recent:    *)
(* packets come at the frame rate, the recency is a quarter of a second.   *)
Fairness ==
  /\ WF_vars(Helper) /\ WF_vars(Worker) /\ WF_vars(LaunchSystem \/ OrderStart) /\ WF_vars(Observe) /\ WF_vars(TimePasses)
  /\ SF_vars(Observe /\ monitor.moved # Never)

Spec == Init /\ [][Next]_vars /\ Fairness

-----------------------------------------------------------------------------
(* Every key that lets the worker into the texture goes with exactly one   *)
(* announcement: being written, on its way, read, or in use.  A frame      *)
(* notification that is lost or counted twice stops one side for good      *)
(* (gpu_encode.rs "the producer waits for this texture's release").        *)
Announcements ==
  Cardinality({i \in DOMAIN responses : responses[i].is = "frame" /\ responses[i].result = "ok"})
  + (IF capture.pending # None THEN 1 ELSE 0) + (IF helper.at = "write" THEN 1 ELSE 0)
  + (IF worker.at = "copy" THEN 1 ELSE 0)
OneHandoff == Streaming /\ ~Gone /\ texture.key # Never => Announcements = texture.key

(* After a restart the worker holds no image of the capture before it      *)
(* (gpu_bridge.cpp "The new capture cannot retain probe-era frames"),      *)
(* wherever such an image was when the restart was ordered.                *)
FreshAfterRestart ==
  worker.at \notin {"restarting", "ended"} => capture.cached \in {None} \union session.since + 1 .. windows.shown

(* A packet shows the image whose time it is sent with, whatever the       *)
(* encoder keeps back and however often the capture restarts meanwhile,    *)
(* and a quality sample compares an image with its own picture.            *)
TimesTrue ==
  \A i \in DOMAIN encoded : encoded[i].image = encoded[i].said /\ encoded[i].alike

(* An image that reached the capture session is seen by the service, or a  *)
(* newer one, unless the capture restarts or the stream ends: the two      *)
(* processes never wait for each other for good.                           *)
EveryImageShown ==
  \A n \in 1 .. MaxImages :
    session.pool = n ~> (monitor.last >= n \/ session.since >= n \/ ~Streaming)

(* A capture that has gone silent is restarted if the pointer keeps moving *)
(* ("continuing movement cannot postpone recovery forever"), that is, if   *)
(* packets come while a movement is recent or its response is awaited.     *)
PointerActive == Response # Never /\ encoded # <<>>
StallRecovered ==
  []<>PointerActive => (session.frozen /\ capture.cached # None ~> ~session.frozen \/ ~Streaming)
=============================================================================
