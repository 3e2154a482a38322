------------------------ MODULE CaptureHandoffProofs ------------------------
(***************************************************************************)
(* Of the screen capture: that the texture is handed over with one         *)
(* announcement, that nothing of a capture outlives its restart, and that  *)
(* a packet shows the image whose time it is sent with, for any number of  *)
(* images, any of the faults, and however many frames the encoder may keep *)
(* back.                                                                   *)
(***************************************************************************)
EXTENDS CaptureHandoff, FiniteSetTheorems, SequenceTheorems, TLAPS

-------------------------------------------------------------------------------
(* The answers of the helper, in the pipe to the worker.                   *)

Answers == [is : {"hello", "frame", "restart"}, result : {"ok", "failed", "lost"}, image : Nat]

IsFrame(answer) == answer.is = "frame" /\ answer.result = "ok"
IsRestart(answer) == answer.is = "restart"
Fresh(image, low, high) == image \in low + 1 .. high /\ image # None

NoFrame(pipe) == \A i \in 1..Len(pipe) : ~IsFrame(pipe[i])
OneFrame(pipe) == \A i, j \in 1..Len(pipe) : IsFrame(pipe[i]) /\ IsFrame(pipe[j]) => i = j
NoRestart(pipe) == \A i \in 1..Len(pipe) : ~IsRestart(pipe[i])
OneRestart(pipe) == \A i, j \in 1..Len(pipe) : IsRestart(pipe[i]) /\ IsRestart(pipe[j]) => i = j
NoHello(pipe) == \A i \in 1..Len(pipe) : pipe[i].is # "hello"

(* All frames show images from low on, or all that follow a restart do.    *)
FramesFresh(pipe, low, high) ==
  \A i \in 1..Len(pipe) : IsFrame(pipe[i]) => Fresh(pipe[i].image, low, high)
RestFresh(pipe, low, high) ==
  \A i, j \in 1..Len(pipe) : i < j /\ IsRestart(pipe[i]) /\ IsFrame(pipe[j]) => Fresh(pipe[j].image, low, high)
Images(pipe) == \A i \in 1..Len(pipe) : IsFrame(pipe[i]) => pipe[i].image # None

-------------------------------------------------------------------------------
(* The inductive invariant.                                                *)

BeforeStart == {"absent", "idle", "duplicate", "launch", "connect", "hello", "handle", "open", "encoder", "start"}
InStream == {"restarting", "orders", "capture", "copy", "encode"}
Starting == {"connect", "connected", "select", "source", "texture", "shader", "processor", "session"}
Unshared == {"absent", "connect", "connected", "select", "source", "texture"}
Looping == {"peek", "wait", "choose", "write"}

(* The types, as far as the proof needs them.                              *)
Typed ==
  /\ DOMAIN windows = {"desktop", "display", "shown", "fault"} /\ windows.shown \in Nat
  /\ DOMAIN worker = {"at", "prepared", "skipped", "outcome"} /\ worker.at \in BeforeStart \union InStream
  /\ worker.prepared \in BOOLEAN /\ (worker.prepared => worker.at = "idle")
  /\ DOMAIN session = {"config", "pool", "frozen", "since"}
  /\ session.since \in Nat \union {Never} /\ session.since <= windows.shown
  /\ session.pool = None \/ Fresh(session.pool, session.since, windows.shown)
  /\ session.since = Never => session.pool = None
  /\ DOMAIN texture = {"key", "owner", "image"} /\ texture.key \in {Never, 0, 1}
  /\ texture.owner \in {"nobody", "helper", "worker"}
  /\ DOMAIN helper = {"at", "image"} /\ helper.at \in {"absent", "options", "gone"} \union Starting \union Looping
  /\ helper.image \in Nat
  /\ DOMAIN capture = {"pending", "held", "cached", "content"} /\ capture.pending \in Nat /\ capture.held \in Nat
  /\ responses \in Seq(Answers) /\ commands \in {<<>>, <<"restart">>, <<"options", "restart">>}
  /\ orders \in Seq({"prepare", "start", "restart", "stop"})

(* How far the worker and the helper have come, each as the other knows.   *)
Unprepared == worker.at \in {"absent", "duplicate", "launch"} \/ (worker.at = "idle" /\ ~worker.prepared)
Greeted == worker.at \in {"handle", "open", "encoder", "start"} \/ (worker.at = "idle" /\ worker.prepared)
Prepare == \A i \in 1..Len(orders) : orders[i] = "prepare" => i = 1 /\ worker.at = "idle" /\ ~worker.prepared
Alone ==
  Secure => /\ helper.at = "absent" /\ responses = <<>> /\ commands = <<>> /\ capture.pending = None
            /\ worker.at \notin {"launch", "connect", "hello", "handle", "open", "restarting", "copy"}
Beginning ==
  /\ ~Secure => worker.at # "duplicate"
  /\ Unprepared => helper.at = "absent" /\ session.since = Never
  /\ worker.at \in {"connect", "hello"} => helper.at \in Starting \union {"options", "gone"}
  /\ Greeted /\ ~Secure => helper.at \in {"options", "gone"}
  /\ worker.at \in BeforeStart =>
       /\ commands = <<>> /\ capture.pending = None /\ capture.cached = None
       /\ \/ responses = <<>>
          \/ /\ worker.at \in {"connect", "hello"} /\ helper.at \in {"options", "gone"}
             /\ Len(responses) = 1 /\ responses[1].is = "hello"
  /\ helper.at \in Unshared => texture.key = Never
Streamed ==
  /\ worker.at \in InStream /\ ~Secure =>
       /\ NoHello(responses)
       /\ IF commands = <<"options", "restart">>
          THEN helper.at \in {"options", "gone"} /\ responses = <<>>
          ELSE helper.at \in Looping \union {"gone"}
  /\ commands # <<>> => worker.at = "restarting"

(* After a restart nothing comes from before it; while one is under way,   *)
(* nothing that follows its answer.                                        *)
Renewed ==
  /\ Images(responses)
  /\ worker.at # "restarting" =>
       /\ capture.cached = None \/ Fresh(capture.cached, session.since, windows.shown)
       /\ capture.pending = None \/ Fresh(capture.pending, session.since, windows.shown)
       /\ worker.at = "copy" => Fresh(capture.held, session.since, windows.shown)
       /\ FramesFresh(responses, session.since, windows.shown)
       /\ NoRestart(responses)
  /\ worker.at = "restarting" =>
       /\ capture.pending = None
       /\ commands # <<>> => NoRestart(responses)
       /\ OneRestart(responses)
       /\ RestFresh(responses, session.since, windows.shown)
  /\ helper.at = "write" =>
       /\ helper.image # None
       /\ commands = <<>> => Fresh(helper.image, session.since, windows.shown)

(* The texture and its announcement.                                       *)
Turns ==
  /\ texture.owner = "helper" => texture.key = 0
  /\ helper.at = "choose" => texture.owner = "helper"
  /\ worker.at = "copy" => texture.key = 1 /\ texture.owner = "worker" /\ capture.pending = None
  /\ texture.key # 1 => NoFrame(responses) /\ capture.pending = None /\ helper.at # "write"
  /\ OneFrame(responses)
  /\ capture.pending # None \/ helper.at = "write" \/ worker.at = "copy" => NoFrame(responses)
  /\ helper.at = "write" => capture.pending = None /\ worker.at # "copy"
  /\ texture.key = 1 /\ ~Gone /\ NoFrame(responses) =>
       capture.pending # None \/ helper.at = "write" \/ worker.at = "copy"

Body == Typed /\ Prepare /\ Alone /\ Beginning /\ Streamed /\ Renewed /\ Turns
HandoffInv == Streaming => Body

-------------------------------------------------------------------------------
(* What is appended to a pipe and taken from it.                           *)

LEMMA AppendPipe ==
  ASSUME NEW pipe \in Seq(Answers), NEW a \in Answers
  PROVE  LET q == Append(pipe, a)
         IN  /\ q \in Seq(Answers) /\ Len(q) = Len(pipe) + 1 /\ q[Len(pipe) + 1] = a
             /\ \A i \in 1..Len(pipe) : q[i] = pipe[i]
OBVIOUS

LEMMA TailPipe ==
  ASSUME NEW pipe \in Seq(Answers), pipe # <<>>
  PROVE  /\ Tail(pipe) \in Seq(Answers) /\ Len(Tail(pipe)) = Len(pipe) - 1 /\ Len(pipe) \in Nat /\ Len(pipe) > 0
         /\ Head(pipe) = pipe[1] /\ Head(pipe) \in Answers
         /\ \A i \in 1..Len(pipe) - 1 : Tail(pipe)[i] = pipe[i + 1]
OBVIOUS

(* An answer that is neither a frame nor a restart.                        *)
LEMMA AppendOther ==
  ASSUME NEW pipe \in Seq(Answers), NEW a \in Answers, ~IsFrame(a), ~IsRestart(a), NEW low, NEW high
  PROVE  LET q == Append(pipe, a)
         IN  /\ q \in Seq(Answers) /\ (NoFrame(pipe) <=> NoFrame(q)) /\ (OneFrame(pipe) => OneFrame(q))
             /\ (Images(pipe) => Images(q)) /\ (NoRestart(pipe) => NoRestart(q)) /\ (OneRestart(pipe) => OneRestart(q))
             /\ (FramesFresh(pipe, low, high) => FramesFresh(q, low, high))
             /\ (RestFresh(pipe, low, high) => RestFresh(q, low, high))
             /\ (a.is # "hello" /\ NoHello(pipe) => NoHello(q))
<1> DEFINE q == Append(pipe, a)
<1>1. /\ q \in Seq(Answers) /\ Len(q) = Len(pipe) + 1 /\ q[Len(pipe) + 1] = a /\ Len(pipe) \in Nat
      /\ \A i \in 1..Len(pipe) : q[i] = pipe[i]
  BY AppendPipe
<1> HIDE DEF q
<1>2. (NoFrame(pipe) <=> NoFrame(q)) /\ (OneFrame(pipe) => OneFrame(q)) /\ (Images(pipe) => Images(q))
  BY <1>1 DEF NoFrame, OneFrame, Images
<1>3. (NoRestart(pipe) => NoRestart(q)) /\ (OneRestart(pipe) => OneRestart(q))
  BY <1>1 DEF NoRestart, OneRestart
<1>4. FramesFresh(pipe, low, high) => FramesFresh(q, low, high)
  BY <1>1 DEF FramesFresh
<1>5. RestFresh(pipe, low, high) => RestFresh(q, low, high)
  BY <1>1 DEF RestFresh
<1>6. a.is # "hello" /\ NoHello(pipe) => NoHello(q)
  BY <1>1 DEF NoHello
<1> QED
  BY <1>1, <1>2, <1>3, <1>4, <1>5, <1>6 DEF q

(* The answer to a restart: nothing follows it yet.                        *)
LEMMA AppendRestart ==
  ASSUME NEW pipe \in Seq(Answers), NEW a \in Answers, IsRestart(a), NEW low, NEW high, NoRestart(pipe)
  PROVE  LET q == Append(pipe, a)
         IN  /\ q \in Seq(Answers) /\ (NoFrame(pipe) <=> NoFrame(q)) /\ (OneFrame(pipe) => OneFrame(q))
             /\ (Images(pipe) => Images(q)) /\ OneRestart(q) /\ RestFresh(q, low, high)
             /\ (NoHello(pipe) => NoHello(q))
<1> DEFINE q == Append(pipe, a)
<1>1. /\ q \in Seq(Answers) /\ Len(q) = Len(pipe) + 1 /\ q[Len(pipe) + 1] = a /\ Len(pipe) \in Nat
      /\ \A i \in 1..Len(pipe) : q[i] = pipe[i]
  BY AppendPipe
<1> HIDE DEF q
<1>2. ~IsFrame(a) /\ a.is # "hello"
  BY DEF IsFrame, IsRestart
<1>3. (NoFrame(pipe) <=> NoFrame(q)) /\ (OneFrame(pipe) => OneFrame(q)) /\ (Images(pipe) => Images(q))
  BY <1>1, <1>2 DEF NoFrame, OneFrame, Images
<1>4. OneRestart(q)
  BY <1>1 DEF NoRestart, OneRestart
<1>5. RestFresh(q, low, high)
  BY <1>1, <1>2 DEF RestFresh, NoRestart
<1>6. NoHello(pipe) => NoHello(q)
  BY <1>1, <1>2 DEF NoHello
<1> QED
  BY <1>1, <1>3, <1>4, <1>5, <1>6 DEF q

LEMMA AppendFrame ==
  ASSUME NEW pipe \in Seq(Answers), NEW a \in Answers, IsFrame(a), a.image # None, NEW low, NEW high, NoFrame(pipe)
  PROVE  LET q == Append(pipe, a)
         IN  /\ q \in Seq(Answers) /\ ~NoFrame(q) /\ OneFrame(q)
             /\ (Images(pipe) => Images(q)) /\ (NoRestart(pipe) => NoRestart(q)) /\ (OneRestart(pipe) => OneRestart(q))
             /\ (Fresh(a.image, low, high) /\ FramesFresh(pipe, low, high) => FramesFresh(q, low, high))
             /\ (Fresh(a.image, low, high) /\ RestFresh(pipe, low, high) => RestFresh(q, low, high))
             /\ (NoRestart(pipe) => RestFresh(q, low, high))
             /\ (NoHello(pipe) => NoHello(q))
<1> DEFINE q == Append(pipe, a)
<1>1. /\ q \in Seq(Answers) /\ Len(q) = Len(pipe) + 1 /\ q[Len(pipe) + 1] = a /\ Len(pipe) \in Nat
      /\ \A i \in 1..Len(pipe) : q[i] = pipe[i]
  BY AppendPipe
<1> HIDE DEF q
<1>2. ~IsRestart(a) /\ a.is # "hello"
  BY DEF IsFrame, IsRestart
<1>3. ~NoFrame(q) /\ OneFrame(q) /\ (Images(pipe) => Images(q))
  BY <1>1 DEF NoFrame, OneFrame, Images
<1>4. (NoRestart(pipe) => NoRestart(q)) /\ (OneRestart(pipe) => OneRestart(q))
  BY <1>1, <1>2 DEF NoRestart, OneRestart
<1>5. Fresh(a.image, low, high) /\ FramesFresh(pipe, low, high) => FramesFresh(q, low, high)
  BY <1>1 DEF FramesFresh
<1>6. Fresh(a.image, low, high) /\ RestFresh(pipe, low, high) => RestFresh(q, low, high)
  BY <1>1, <1>2 DEF RestFresh
<1>7. NoRestart(pipe) => RestFresh(q, low, high)
  BY <1>1, <1>2 DEF RestFresh, NoRestart
<1>8. NoHello(pipe) => NoHello(q)
  BY <1>1, <1>2 DEF NoHello
<1> QED
  BY <1>1, <1>3, <1>4, <1>5, <1>6, <1>7, <1>8 DEF q

LEMMA TakeAnswer ==
  ASSUME NEW pipe \in Seq(Answers), pipe # <<>>, NEW low, NEW high
  PROVE  LET q == Tail(pipe)
             a == Head(pipe)
         IN  /\ q \in Seq(Answers) /\ a \in Answers /\ (NoFrame(pipe) => NoFrame(q)) /\ (OneFrame(pipe) => OneFrame(q))
             /\ (OneFrame(pipe) /\ IsFrame(a) => NoFrame(q) /\ ~NoFrame(pipe))
             /\ (~IsFrame(a) /\ NoFrame(q) => NoFrame(pipe))
             /\ (Images(pipe) => Images(q) /\ (IsFrame(a) => a.image # None))
             /\ (NoRestart(pipe) => NoRestart(q) /\ ~IsRestart(a))
             /\ (OneRestart(pipe) => OneRestart(q) /\ (IsRestart(a) => NoRestart(q)))
             /\ (FramesFresh(pipe, low, high) => FramesFresh(q, low, high) /\ (IsFrame(a) => Fresh(a.image, low, high)))
             /\ (RestFresh(pipe, low, high) => RestFresh(q, low, high) /\ (IsRestart(a) => FramesFresh(q, low, high)))
             /\ (NoHello(pipe) => NoHello(q) /\ a.is # "hello")
<1> DEFINE q == Tail(pipe)
           a == Head(pipe)
<1>1. /\ q \in Seq(Answers) /\ Len(q) = Len(pipe) - 1 /\ Len(pipe) \in Nat /\ Len(pipe) > 0
      /\ a = pipe[1] /\ a \in Answers /\ \A i \in 1..Len(pipe) - 1 : q[i] = pipe[i + 1]
  BY TailPipe
<1> HIDE DEF q, a
<1>2. \A i \in 1..Len(q) : i + 1 \in 1..Len(pipe) /\ q[i] = pipe[i + 1]
  BY <1>1
<1>3. \A i \in 1..Len(pipe) : i = 1 \/ (i - 1 \in 1..Len(q) /\ pipe[i] = q[i - 1])
  BY <1>1
<1>4. 1 \in 1..Len(pipe)
  BY <1>1
<1>5. (NoFrame(pipe) => NoFrame(q)) /\ (OneFrame(pipe) => OneFrame(q))
  BY <1>2 DEF NoFrame, OneFrame
<1>6. OneFrame(pipe) /\ IsFrame(a) => NoFrame(q) /\ ~NoFrame(pipe)
  BY <1>1, <1>2, <1>4 DEF NoFrame, OneFrame
<1>7. ~IsFrame(a) /\ NoFrame(q) => NoFrame(pipe)
  BY <1>1, <1>3 DEF NoFrame
<1>8. Images(pipe) => Images(q) /\ (IsFrame(a) => a.image # None)
  BY <1>1, <1>2, <1>4 DEF Images
<1>9. NoRestart(pipe) => NoRestart(q) /\ ~IsRestart(a)
  BY <1>1, <1>2, <1>4 DEF NoRestart
<1>10. OneRestart(pipe) => OneRestart(q) /\ (IsRestart(a) => NoRestart(q))
  <2> SUFFICES ASSUME OneRestart(pipe) PROVE OneRestart(q) /\ (IsRestart(a) => NoRestart(q))
    OBVIOUS
  <2>1. ASSUME NEW i \in 1..Len(q), NEW j \in 1..Len(q), IsRestart(q[i]), IsRestart(q[j])
        PROVE  i = j
    <3>1. i + 1 \in 1..Len(pipe) /\ j + 1 \in 1..Len(pipe) /\ IsRestart(pipe[i + 1]) /\ IsRestart(pipe[j + 1])
      BY <1>2, <2>1
    <3>2. i + 1 = j + 1
      BY <3>1 DEF OneRestart
    <3> QED
      BY <3>2
  <2>2. ASSUME IsRestart(a), NEW i \in 1..Len(q)
        PROVE  ~IsRestart(q[i])
    <3>1. i + 1 \in 1..Len(pipe) /\ i + 1 # 1 /\ q[i] = pipe[i + 1] /\ IsRestart(pipe[1])
      BY <1>1, <1>2, <2>2
    <3> QED
      BY <3>1, <1>4 DEF OneRestart
  <2> QED
    BY <2>1, <2>2 DEF OneRestart, NoRestart
<1>11. FramesFresh(pipe, low, high) => FramesFresh(q, low, high) /\ (IsFrame(a) => Fresh(a.image, low, high))
  BY <1>1, <1>2, <1>4 DEF FramesFresh
<1>12. RestFresh(pipe, low, high) => RestFresh(q, low, high) /\ (IsRestart(a) => FramesFresh(q, low, high))
  <2> SUFFICES ASSUME RestFresh(pipe, low, high)
               PROVE  RestFresh(q, low, high) /\ (IsRestart(a) => FramesFresh(q, low, high))
    OBVIOUS
  <2>1. ASSUME NEW i \in 1..Len(q), NEW j \in 1..Len(q), i < j, IsRestart(q[i]), IsFrame(q[j])
        PROVE  Fresh(q[j].image, low, high)
    <3>1. /\ i + 1 \in 1..Len(pipe) /\ j + 1 \in 1..Len(pipe) /\ i + 1 < j + 1
          /\ IsRestart(pipe[i + 1]) /\ IsFrame(pipe[j + 1]) /\ q[j] = pipe[j + 1]
      BY <1>2, <2>1
    <3> QED
      BY <3>1 DEF RestFresh
  <2>2. ASSUME IsRestart(a), NEW j \in 1..Len(q), IsFrame(q[j])
        PROVE  Fresh(q[j].image, low, high)
    <3>1. j + 1 \in 1..Len(pipe) /\ 1 < j + 1 /\ q[j] = pipe[j + 1] /\ IsRestart(pipe[1])
      BY <1>1, <1>2, <2>2
    <3> QED
      BY <3>1, <1>4, <2>2 DEF RestFresh
  <2> QED
    BY <2>1, <2>2 DEF RestFresh, FramesFresh
<1>13. NoHello(pipe) => NoHello(q) /\ a.is # "hello"
  BY <1>1, <1>2, <1>4 DEF NoHello
<1> QED
  BY <1>1, <1>5, <1>6, <1>7, <1>8, <1>9, <1>10, <1>11, <1>12, <1>13 DEF q, a

LEMMA EmptyPipe ==
  ASSUME NEW low, NEW high
  PROVE  /\ <<>> \in Seq(Answers) /\ NoFrame(<<>>) /\ OneFrame(<<>>) /\ Images(<<>>) /\ NoRestart(<<>>)
         /\ OneRestart(<<>>) /\ FramesFresh(<<>>, low, high) /\ RestFresh(<<>>, low, high) /\ NoHello(<<>>)
BY DEF NoFrame, OneFrame, Images, NoRestart, OneRestart, FramesFresh, RestFresh, NoHello

-------------------------------------------------------------------------------
(* What leaves the hand-over alone.                                        *)

LEMMA OrderLater ==
  ASSUME NEW pipe \in Seq({"prepare", "start", "restart", "stop"}), NEW order \in {"start", "restart", "stop"}
  PROVE  /\ Append(pipe, order) \in Seq({"prepare", "start", "restart", "stop"})
         /\ \A i \in 1..Len(Append(pipe, order)) :
              Append(pipe, order)[i] = "prepare" => i \in 1..Len(pipe) /\ pipe[i] = "prepare"
OBVIOUS

LEMMA OrderTaken ==
  ASSUME NEW pipe \in Seq({"prepare", "start", "restart", "stop"}), pipe # <<>>
  PROVE  /\ Tail(pipe) \in Seq({"prepare", "start", "restart", "stop"})
         /\ Head(pipe) = pipe[1]
         /\ \A i \in 1..Len(Tail(pipe)) : i + 1 \in 1..Len(pipe) /\ i + 1 # 1 /\ Tail(pipe)[i] = pipe[i + 1]
OBVIOUS

SameWindows == DOMAIN windows' = DOMAIN windows /\ windows'.shown = windows.shown /\ windows'.desktop = windows.desktop
SameSession == DOMAIN session' = DOMAIN session /\ session'.pool = session.pool /\ session'.since = session.since
SameWorker == DOMAIN worker' = DOMAIN worker /\ worker'.at = worker.at /\ worker'.prepared = worker.prepared
SameOrders == orders' \in Seq({"prepare", "start", "restart", "stop"}) /\ (Prepare => Prepare')

LEMMA Unrelated ==
  ASSUME Body, SameWindows, SameSession, SameWorker, SameOrders,
         UNCHANGED <<texture, helper, commands, responses, capture>>
  PROVE  Body'
<1> USE DEF SameWindows, SameSession, SameWorker, SameOrders
<1>1. Typed' /\ Prepare'
  BY DEF Body, Typed
<1>2. Alone' /\ Beginning'
  BY DEF Body, Alone, Beginning, Unprepared, Greeted, Secure
<1>3. Streamed' /\ Renewed'
  BY DEF Body, Streamed, Renewed, Secure
<1>4. Turns'
  BY DEF Body, Turns, Gone
<1> QED
  BY <1>1, <1>2, <1>3, <1>4 DEF Body

-------------------------------------------------------------------------------
(* The steps of the helper.                                                *)

LEMMA WhileStarting ==
  ASSUME Body, helper.at \in Starting
  PROVE  worker.at \in {"connect", "hello"} /\ ~Secure /\ commands = <<>> /\ responses = <<>>
<1>1. ~Secure
  BY DEF Body, Alone, Starting
<1>2. worker.at \in {"connect", "hello"}
  BY <1>1 DEF Body, Typed, Beginning, Streamed, Unprepared, Greeted, Starting, Looping, BeforeStart, InStream
<1> QED
  BY <1>1, <1>2 DEF Body, Beginning, BeforeStart, Starting

LEMMA WhileLooping ==
  ASSUME Body, helper.at \in Looping
  PROVE  worker.at \in InStream /\ ~Secure /\ commands # <<"options", "restart">>
<1>1. ~Secure
  BY DEF Body, Alone, Looping
<1>2. worker.at \in InStream
  BY <1>1 DEF Body, Typed, Beginning, Unprepared, Greeted, Starting, Looping, BeforeStart, InStream
<1> QED
  BY <1>1, <1>2 DEF Body, Streamed, Looping

HelperBegins ==
  HelperConnects \/ HelperSelects \/ HelperBuildsSource \/ HelperSharesTexture \/ HelperBuildsShader \/ HelperBuildsProcessor

LEMMA HelperBeginsKept == Body /\ HelperBegins => Body'
<1> SUFFICES ASSUME Body, HelperBegins PROVE Body'
  OBVIOUS
<1>1. /\ helper.at \in Starting /\ helper'.at \in Starting /\ DOMAIN helper' = DOMAIN helper /\ helper'.image = helper.image
      /\ helper.at \notin Unshared => helper'.at \notin Unshared
      /\ UNCHANGED <<windows, worker, commands, responses, orders, capture>>
      /\ SameSession
  BY DEF Body, Typed, HelperBegins, HelperConnects, HelperSelects, HelperBuildsSource, HelperSharesTexture,
         HelperBuildsShader, HelperBuildsProcessor, Goes, ConfigurationRead, SameSession, Starting, Unshared,
         pipes, service, workerVars
<1>2. /\ DOMAIN texture' = DOMAIN texture /\ texture'.owner = texture.owner
      /\ texture'.key = texture.key \/ (texture.key = Never /\ texture'.key = 0 /\ helper'.at \notin Unshared)
  BY DEF Body, Typed, Beginning, HelperBegins, HelperConnects, HelperSelects, HelperBuildsSource, HelperSharesTexture,
         HelperBuildsShader, HelperBuildsProcessor, Goes, Unshared
<1>3. worker.at \in {"connect", "hello"} /\ ~Secure
  BY <1>1, WhileStarting
<1>4. Typed' /\ Prepare'
  BY <1>1, <1>2 DEF Body, Typed, Prepare, SameSession, Never
<1>5. Alone' /\ Beginning'
  BY <1>1, <1>2, <1>3 DEF Body, Typed, Alone, Beginning, Unprepared, Greeted, Secure, Unshared, Starting
<1>6. Streamed' /\ Renewed'
  BY <1>1, <1>3 DEF Body, Typed, Streamed, Renewed, Secure, Starting, InStream, SameSession
<1>7. Turns'
  BY <1>1, <1>2 DEF Body, Typed, Turns, Gone, Starting, Never
<1> QED
  BY <1>4, <1>5, <1>6, <1>7 DEF Body

LEMMA HelperHellosKept == Body /\ (HelperStartsCapture \/ HelperRefuses) => Body'
<1> SUFFICES ASSUME Body, HelperStartsCapture \/ HelperRefuses PROVE Body'
  OBVIOUS
<1>1. helper.at \in Starting /\ helper.at # "connect"
  BY DEF HelperStartsCapture, HelperRefuses, Goes, Starting
<1>2. worker.at \in {"connect", "hello"} /\ ~Secure /\ commands = <<>> /\ responses = <<>>
  BY <1>1, WhileStarting
<1>3. /\ helper'.at \in {"options", "gone"} /\ DOMAIN helper' = DOMAIN helper /\ helper'.image = helper.image
      /\ UNCHANGED <<worker, texture, commands, orders, capture>> /\ SameWindows
      /\ DOMAIN session' = DOMAIN session
      /\ SameSession \/ (session'.since = windows.shown /\ session'.pool = None)
  BY DEF Body, Typed, HelperStartsCapture, HelperRefuses, Goes, Restarted, May, Meets, SameSession, SameWindows,
         pipes, service, workerVars
<1>4. PICK answer \in Answers : answer.is = "hello" /\ responses' = Append(responses, answer)
  BY DEF HelperStartsCapture, HelperRefuses, Answer, Answers, None
<1>5. Len(responses') = 1 /\ responses'[1].is = "hello" /\ responses' \in Seq(Answers)
  BY <1>2, <1>4
<1>6. /\ NoFrame(responses) <=> NoFrame(responses') 
      /\ OneFrame(responses') /\ Images(responses') /\ NoRestart(responses')
      /\ FramesFresh(responses', session'.since, windows'.shown)
  BY <1>2, <1>5 DEF NoFrame, OneFrame, Images, NoRestart, FramesFresh, IsFrame, IsRestart
<1>7. Typed' /\ Prepare'
  BY <1>3, <1>5 DEF Body, Typed, Prepare, SameSession, SameWindows, Never, None
<1>8. Alone' /\ Beginning'
  BY <1>1, <1>2, <1>3, <1>5 DEF Body, Typed, Alone, Beginning, Unprepared, Greeted, Secure, SameWindows, Unshared, Starting
<1>9. Streamed' /\ Renewed'
  BY <1>2, <1>3, <1>6 DEF Body, Typed, Beginning, Streamed, Renewed, Secure, SameWindows, InStream, BeforeStart
<1>10. Turns'
  BY <1>1, <1>2, <1>3, <1>6 DEF Body, Typed, Turns, Gone, Starting
<1> QED
  BY <1>7, <1>8, <1>9, <1>10 DEF Body

LEMMA HelperConfiguredKept == Body /\ HelperConfigured => Body'
<1> SUFFICES ASSUME Body, HelperConfigured PROVE Body'
  OBVIOUS
<1> USE DEF HelperConfigured, service, workerVars
<1>1. ~Secure /\ worker.at = "restarting" /\ commands = <<"options", "restart">> /\ responses = <<>>
  <2>1. ~Secure
    BY DEF Body, Alone
  <2>2. worker.at = "restarting"
    BY DEF Body, Streamed
  <2> QED
    BY <2>1, <2>2 DEF Body, Streamed, InStream, Looping
<1>2. commands' = <<"restart">> /\ commands' # <<"options", "restart">> /\ helper'.at = "peek"
  BY <1>1 DEF Body, Typed
<1>3. Typed' /\ Prepare'
  BY <1>2 DEF Body, Typed, Prepare, Looping
<1>4. Alone' /\ Beginning'
  BY <1>1, <1>2 DEF Body, Typed, Alone, Beginning, Unprepared, Greeted, Secure, Unshared, BeforeStart
<1>5. Streamed' /\ Renewed'
  BY <1>1, <1>2, EmptyPipe DEF Body, Typed, Streamed, Renewed, Secure, Looping
<1>6. Turns'
  BY <1>1, <1>2 DEF Body, Typed, Turns, Gone
<1> QED
  BY <1>3, <1>4, <1>5, <1>6 DEF Body

LEMMA HelperRestartsKept == Body /\ HelperRestarts => Body'
<1> SUFFICES ASSUME Body, HelperRestarts PROVE Body'
  OBVIOUS
<1> USE DEF HelperRestarts, service, workerVars
<1>1. ~Secure /\ worker.at = "restarting" /\ commands = <<"restart">> /\ NoRestart(responses)
  BY WhileLooping DEF Body, Typed, Streamed, Renewed, Looping
<1>2. commands' = <<>>
  BY <1>1
<1>3. session'.since = windows.shown /\ session'.pool = None /\ DOMAIN session' = DOMAIN session
  BY DEF Body, Typed, Restarted
<1> DEFINE a == Answer("restart", "ok", None)
<1>4. a \in Answers /\ IsRestart(a) /\ responses' = Append(responses, a)
  BY DEF Answers, Answer, IsRestart, None
<1>5. responses \in Seq(Answers)
  BY DEF Body, Typed
<1> HIDE DEF a
<1>6. /\ responses' \in Seq(Answers) /\ (NoFrame(responses) <=> NoFrame(responses'))
      /\ (OneFrame(responses) => OneFrame(responses')) /\ (Images(responses) => Images(responses'))
      /\ OneRestart(responses') /\ RestFresh(responses', session'.since, windows'.shown)
      /\ (NoHello(responses) => NoHello(responses'))
  BY <1>1, <1>4, <1>5, AppendRestart
<1>7. Typed' /\ Prepare'
  BY <1>2, <1>3, <1>6 DEF Body, Typed, Prepare
<1>8. Alone' /\ Beginning'
  BY <1>1, <1>2 DEF Body, Typed, Alone, Beginning, Unprepared, Greeted, Secure, Unshared, BeforeStart
<1>9. Streamed' /\ Renewed'
  BY <1>1, <1>2, <1>6 DEF Body, Typed, Streamed, Renewed, Secure, Looping, InStream
<1>10. Turns'
  BY <1>1, <1>6 DEF Body, Typed, Turns, Gone
<1> QED
  BY <1>7, <1>8, <1>9, <1>10 DEF Body

LEMMA HelperFailsKept == Body /\ (HelperFindsChange \/ HelperGivesUp) => Body'
<1> SUFFICES ASSUME Body, HelperFindsChange \/ HelperGivesUp PROVE Body'
  OBVIOUS
<1>1. helper.at \in {"peek", "choose", "wait"} /\ helper'.at = "gone" /\ DOMAIN helper' = DOMAIN helper
      /\ helper'.image = helper.image /\ UNCHANGED <<windows, session, texture, commands, orders, worker, capture>>
  BY DEF Body, Typed, HelperFindsChange, HelperGivesUp, service, workerVars
<1>2. worker.at \in InStream /\ ~Secure /\ commands # <<"options", "restart">>
  BY <1>1, WhileLooping DEF Looping
<1>3. PICK a \in Answers : a.is = "frame" /\ a.result # "ok" /\ responses' = Append(responses, a)
  BY DEF HelperFindsChange, HelperGivesUp, Answer, Answers, None
<1>4. responses \in Seq(Answers) /\ ~IsFrame(a) /\ ~IsRestart(a)
  BY <1>3 DEF Body, Typed, IsFrame, IsRestart
<1>5. /\ responses' \in Seq(Answers) /\ (NoFrame(responses) <=> NoFrame(responses'))
      /\ (OneFrame(responses) => OneFrame(responses')) /\ (Images(responses) => Images(responses'))
      /\ (NoRestart(responses) => NoRestart(responses')) /\ (OneRestart(responses) => OneRestart(responses'))
      /\ (FramesFresh(responses, session.since, windows.shown) => FramesFresh(responses', session.since, windows.shown))
      /\ (RestFresh(responses, session.since, windows.shown) => RestFresh(responses', session.since, windows.shown))
      /\ (NoHello(responses) => NoHello(responses'))
  BY <1>3, <1>4, AppendOther
<1>6. Typed' /\ Prepare'
  BY <1>1, <1>5 DEF Body, Typed, Prepare
<1>7. Alone' /\ Beginning'
  BY <1>1, <1>2 DEF Body, Typed, Alone, Beginning, Unprepared, Greeted, Secure, Unshared, BeforeStart, InStream
<1>8. Streamed' /\ Renewed'
  BY <1>1, <1>2, <1>5 DEF Body, Typed, Streamed, Renewed, Secure, Looping
<1>9. Turns'
  BY <1>1, <1>5 DEF Body, Typed, Turns, Gone
<1> QED
  BY <1>6, <1>7, <1>8, <1>9 DEF Body

LEMMA HelperLoopsKept == Body /\ (HelperCaptures \/ HelperOwns \/ HelperFindsNothing) => Body'
<1> SUFFICES ASSUME Body, HelperCaptures \/ HelperOwns \/ HelperFindsNothing PROVE Body'
  OBVIOUS
<1>1. /\ helper.at \in {"peek", "wait", "choose"} /\ helper'.at \in {"peek", "wait", "choose"}
      /\ DOMAIN helper' = DOMAIN helper /\ helper'.image = helper.image
      /\ UNCHANGED <<windows, session, commands, responses, orders, worker, capture>>
      /\ DOMAIN texture' = DOMAIN texture /\ texture'.key = texture.key
      /\ texture'.owner = texture.owner \/ (texture'.owner = "helper" /\ texture.key = 0 /\ texture.owner = "nobody")
      /\ helper'.at = "choose" => texture'.owner = "helper"
  BY DEF Body, Typed, HelperCaptures, HelperOwns, HelperFindsNothing, pipes, service, workerVars
<1>2. worker.at \in InStream /\ ~Secure /\ commands # <<"options", "restart">>
  BY <1>1, WhileLooping DEF Looping
<1>3. Typed' /\ Prepare'
  BY <1>1 DEF Body, Typed, Prepare, Looping
<1>4. Alone' /\ Beginning'
  BY <1>1, <1>2 DEF Body, Typed, Alone, Beginning, Unprepared, Greeted, Secure, Unshared, BeforeStart, InStream
<1>5. Streamed' /\ Renewed'
  BY <1>1, <1>2 DEF Body, Typed, Streamed, Renewed, Secure, Looping
<1>6. Turns'
  BY <1>1 DEF Body, Typed, Turns, Gone
<1> QED
  BY <1>3, <1>4, <1>5, <1>6 DEF Body

LEMMA HelperChoosesKept == Body /\ HelperChooses => Body'
<1> SUFFICES ASSUME Body, HelperChooses PROVE Body'
  OBVIOUS
<1> USE DEF HelperChooses, pipes, service, workerVars
<1>1. worker.at \in InStream /\ ~Secure /\ commands # <<"options", "restart">>
  BY WhileLooping DEF Looping
<1>2. texture.key = 0 /\ NoFrame(responses) /\ capture.pending = None /\ worker.at # "copy"
  BY DEF Body, Turns
<1>3. /\ Fresh(session.pool, session.since, windows.shown) /\ session.pool \in Nat /\ session.pool # None
      /\ DOMAIN session' = DOMAIN session /\ session'.since = session.since /\ session'.pool = None
  BY DEF Body, Typed, Fresh, None, Never
<1>4. Typed' /\ Prepare'
  BY <1>3 DEF Body, Typed, Prepare, Looping
<1>5. Alone' /\ Beginning'
  BY <1>1, <1>2 DEF Body, Typed, Alone, Beginning, Unprepared, Greeted, Secure, Unshared, BeforeStart, InStream
<1>6. Streamed' /\ Renewed'
  BY <1>1, <1>3 DEF Body, Typed, Streamed, Renewed, Secure, Looping
<1>7. Turns'
  BY <1>2 DEF Body, Typed, Turns, Gone
<1> QED
  BY <1>4, <1>5, <1>6, <1>7 DEF Body

LEMMA HelperAnnouncesKept == Body /\ HelperAnnounces => Body'
<1> SUFFICES ASSUME Body, HelperAnnounces PROVE Body'
  OBVIOUS
<1> USE DEF HelperAnnounces, service, workerVars
<1>1. worker.at \in InStream /\ ~Secure /\ commands # <<"options", "restart">>
  BY WhileLooping DEF Looping
<1>2. /\ texture.key = 1 /\ NoFrame(responses) /\ capture.pending = None /\ worker.at # "copy"
      /\ helper.image # None /\ helper.image \in Nat /\ responses \in Seq(Answers)
      /\ commands = <<>> => Fresh(helper.image, session.since, windows.shown)
  BY DEF Body, Typed, Turns, Renewed
<1> DEFINE a == Answer("frame", "ok", helper.image)
<1>3. a \in Answers /\ IsFrame(a) /\ a.image = helper.image /\ responses' = Append(responses, a)
  BY <1>2 DEF Answers, Answer, IsFrame, None
<1> HIDE DEF a
<1>4. /\ responses' \in Seq(Answers) /\ ~NoFrame(responses') /\ OneFrame(responses')
      /\ (Images(responses) => Images(responses')) /\ (NoRestart(responses) => NoRestart(responses'))
      /\ (OneRestart(responses) => OneRestart(responses'))
      /\ Fresh(a.image, session.since, windows.shown) /\ FramesFresh(responses, session.since, windows.shown)
         => FramesFresh(responses', session.since, windows.shown)
      /\ Fresh(a.image, session.since, windows.shown) /\ RestFresh(responses, session.since, windows.shown)
         => RestFresh(responses', session.since, windows.shown)
      /\ (NoRestart(responses) => RestFresh(responses', session.since, windows.shown))
      /\ (NoHello(responses) => NoHello(responses'))
  BY <1>2, <1>3, AppendFrame
<1>5. Typed' /\ Prepare'
  BY <1>4 DEF Body, Typed, Prepare, Looping, None
<1>6. Alone' /\ Beginning'
  BY <1>1, <1>2 DEF Body, Typed, Alone, Beginning, Unprepared, Greeted, Secure, Unshared, BeforeStart, InStream
<1>7. Streamed' /\ Renewed'
  BY <1>1, <1>2, <1>3, <1>4 DEF Body, Typed, Streamed, Renewed, Secure, Looping
<1>8. Turns'
  BY <1>2, <1>4 DEF Body, Typed, Turns, Gone
<1> QED
  BY <1>5, <1>6, <1>7, <1>8 DEF Body

LEMMA HelperDiesKept == Body /\ HelperDies => Body'
<1> SUFFICES ASSUME Body, HelperDies PROVE Body'
  OBVIOUS
<1> USE DEF HelperDies, Meets, pipes, service, workerVars
<1>0. SameWindows
  BY DEF Body, Typed, SameWindows
<1>1. Typed' /\ Prepare'
  BY <1>0 DEF Body, Typed, Prepare, SameWindows
<1>2. Alone' /\ Beginning'
  BY <1>0 DEF Body, Typed, Alone, Beginning, Unprepared, Greeted, Secure, Unshared, SameWindows
<1>3. Streamed' /\ Renewed'
  BY <1>0 DEF Body, Typed, Streamed, Renewed, Secure, SameWindows
<1>4. Turns'
  BY DEF Body, Typed, Turns, Gone
<1> QED
  BY <1>1, <1>2, <1>3, <1>4 DEF Body

-------------------------------------------------------------------------------
(* The steps of Windows, of the service, and of what goes wrong.           *)

(* A new image makes none of the others older than the capture.            *)
LEMMA PresentKept == Body /\ Present => Body'
<1> SUFFICES ASSUME Body, Present PROVE Body'
  OBVIOUS
<1> USE DEF Present, pipes, service, workerVars
<1>1. /\ DOMAIN windows' = DOMAIN windows /\ windows'.shown = windows.shown + 1 /\ windows'.desktop = windows.desktop
      /\ windows.shown \in Nat /\ session.since \in Nat
      /\ DOMAIN session' = DOMAIN session /\ session'.since = session.since
      /\ session'.pool = session.pool \/ session'.pool = windows.shown + 1
  BY DEF Body, Typed
<1>2. session.since <= windows.shown /\ (session.pool = None \/ Fresh(session.pool, session.since, windows.shown))
  BY DEF Body, Typed
<1>3. ASSUME NEW image, Fresh(image, session.since, windows.shown)
      PROVE  Fresh(image, session'.since, windows'.shown)
  BY <1>1, <1>3 DEF Fresh
<1>4. Fresh(windows.shown + 1, session'.since, windows'.shown)
  BY <1>1, <1>2 DEF Fresh, None
<1>5. FramesFresh(responses, session.since, windows.shown) => FramesFresh(responses', session'.since, windows'.shown)
  BY <1>3 DEF FramesFresh
<1>6. RestFresh(responses, session.since, windows.shown) => RestFresh(responses', session'.since, windows'.shown)
  BY <1>3 DEF RestFresh
<1>7. Typed' /\ Prepare'
  <2>1. session'.since \in Nat /\ session'.since <= windows'.shown /\ windows'.shown \in Nat
    BY <1>1, <1>2
  <2>2. session'.pool = None \/ Fresh(session'.pool, session'.since, windows'.shown)
    BY <1>1, <1>2, <1>3, <1>4
  <2>3. session'.since # Never
    BY <2>1 DEF Never
  <2> QED
    BY <1>1, <2>1, <2>2, <2>3 DEF Body, Typed, Prepare
<1>8. Alone' /\ Beginning'
  BY <1>1 DEF Body, Alone, Beginning, Unprepared, Greeted, Secure
<1>9. Streamed' /\ Renewed'
  BY <1>1, <1>3, <1>5, <1>6 DEF Body, Streamed, Renewed, Secure
<1>10. Turns'
  BY DEF Body, Turns, Gone
<1> QED
  BY <1>7, <1>8, <1>9, <1>10 DEF Body

LEMMA UnrelatedSteps ==
  ASSUME Body, \/ DisplayChanges \/ SessionFreezes \/ WorkerStalls \/ EncoderHolds \/ MirrorLags
               \/ PointerMoves \/ TimePasses \/ OrderStart \/ OrderStop \/ Observe
  PROVE  Body'
<1>1. SameWindows /\ SameSession /\ SameWorker /\ UNCHANGED <<texture, helper, commands, responses, capture>>
  BY DEF Body, Typed, DisplayChanges, SessionFreezes, WorkerStalls, EncoderHolds, MirrorLags, PointerMoves, TimePasses,
         OrderStart, OrderStop, Observe, May, Meets, SameWindows, SameSession, SameWorker, pipes, service, workerVars
<1>2. \/ UNCHANGED orders
      \/ \E order \in {"start", "restart", "stop"} : orders' = Append(orders, order)
      \/ orders' = <<"start">>
  BY DEF DisplayChanges, SessionFreezes, WorkerStalls, EncoderHolds, MirrorLags, PointerMoves, TimePasses,
         OrderStart, OrderStop, Observe, service, workerVars
<1>3. orders \in Seq({"prepare", "start", "restart", "stop"})
  BY DEF Body, Typed
<1>4. CASE UNCHANGED orders
  BY <1>1, <1>3, <1>4, Unrelated DEF SameOrders, Prepare, SameWorker
<1>5. CASE \E order \in {"start", "restart", "stop"} : orders' = Append(orders, order)
  <2> PICK order \in {"start", "restart", "stop"} : orders' = Append(orders, order)
    BY <1>5
  <2>1. /\ orders' \in Seq({"prepare", "start", "restart", "stop"})
        /\ \A i \in 1..Len(orders') : orders'[i] = "prepare" => i \in 1..Len(orders) /\ orders[i] = "prepare"
    BY <1>3, OrderLater
  <2> QED
    BY <1>1, <2>1, Unrelated DEF SameOrders, Prepare, SameWorker
<1>6. CASE orders' = <<"start">>
  <2>1. orders' \in Seq({"prepare", "start", "restart", "stop"}) /\ \A i \in 1..Len(orders') : orders'[i] # "prepare"
    BY <1>6
  <2> QED
    BY <1>1, <2>1, Unrelated DEF SameOrders, Prepare, SameWorker
<1> QED
  BY <1>2, <1>4, <1>5, <1>6

LEMMA LaunchSystemKept == Body /\ LaunchSystem => Body'
<1> SUFFICES ASSUME Body, LaunchSystem PROVE Body'
  OBVIOUS
<1> USE DEF LaunchSystem, pipes
<1>1. orders' \in Seq({"prepare", "start", "restart", "stop"}) /\ Len(orders') = 1
  OBVIOUS
<1>2. worker'.at = "idle" /\ worker'.prepared = worker.prepared /\ ~worker.prepared /\ DOMAIN worker' = DOMAIN worker
  BY DEF Body, Typed
<1>3. Typed' /\ Prepare'
  BY <1>1, <1>2 DEF Body, Typed, Prepare, BeforeStart
<1>4. Alone' /\ Beginning'
  BY <1>2 DEF Body, Alone, Beginning, Unprepared, Greeted, Secure, BeforeStart
<1>5. Streamed' /\ Renewed'
  BY <1>2 DEF Body, Streamed, Renewed, Secure, InStream
<1>6. Turns'
  BY <1>2 DEF Body, Turns, Gone
<1> QED
  BY <1>3, <1>4, <1>5, <1>6 DEF Body

-------------------------------------------------------------------------------
(* The steps of the worker before the stream.                              *)

LEMMA WorkerPreparesKept == Body /\ WorkerPrepares => Body'
<1> SUFFICES ASSUME Body, WorkerPrepares PROVE Body'
  OBVIOUS
<1> USE DEF WorkerPrepares, Ordered, pipes
<1>1. orders \in Seq({"prepare", "start", "restart", "stop"}) /\ orders # <<>>
  BY DEF Body, Typed
<1>2. /\ orders' \in Seq({"prepare", "start", "restart", "stop"}) /\ orders[1] = "prepare" /\ 1 \in 1..Len(orders)
      /\ \A i \in 1..Len(orders') : i + 1 \in 1..Len(orders) /\ i + 1 # 1 /\ orders'[i] = orders[i + 1]
  BY <1>1, OrderTaken
<1>3. \A i \in 1..Len(orders') : orders'[i] # "prepare"
  BY <1>2 DEF Body, Prepare
<1>4. ~worker.prepared
  BY <1>2 DEF Body, Prepare
<1>5. /\ DOMAIN worker' = DOMAIN worker /\ worker'.prepared = worker.prepared
      /\ (worker'.at = "duplicate" /\ Secure) \/ (worker'.at = "launch" /\ ~Secure)
  BY DEF Body, Typed
<1>6. Typed' /\ Prepare'
  BY <1>2, <1>3, <1>4, <1>5 DEF Body, Typed, Prepare, BeforeStart
<1>7. Alone' /\ Beginning'
  BY <1>4, <1>5 DEF Body, Alone, Beginning, Unprepared, Greeted, Secure, BeforeStart
<1>8. Streamed' /\ Renewed'
  BY <1>5 DEF Body, Streamed, Renewed, Secure, InStream
<1>9. Turns'
  BY <1>5 DEF Body, Turns, Gone
<1> QED
  BY <1>6, <1>7, <1>8, <1>9 DEF Body

(* The bridge of the secure desktop: no helper, and an empty pipe.         *)
LEMMA WorkerBuildsBridgeKept == Body /\ WorkerBuildsBridge => Body'
<1> SUFFICES ASSUME Body, WorkerBuildsBridge PROVE Body'
  OBVIOUS
<1> USE DEF WorkerBuildsBridge, Ready, ConfigurationRead, pipes, service, coder
<1>1. /\ DOMAIN worker' = DOMAIN worker /\ worker'.prepared = TRUE /\ worker'.at = "idle"
      /\ DOMAIN session' = DOMAIN session /\ session'.since = windows.shown /\ session'.pool = session.pool
  BY DEF Body, Typed
<1>2. Secure /\ helper.at = "absent" /\ responses = <<>> /\ session.pool = None /\ capture.cached = None
      /\ capture.pending = None /\ windows.shown \in Nat
  BY DEF Body, Typed, Alone, Beginning, Unprepared, BeforeStart
<1>3. Prepare => Prepare'
  BY DEF Prepare
<1>4. Typed' /\ Prepare'
  BY <1>1, <1>2, <1>3 DEF Body, Typed, BeforeStart
<1>5. Alone' /\ Beginning'
  BY <1>1, <1>2 DEF Body, Alone, Beginning, Unprepared, Greeted, Secure, BeforeStart
<1>6. Streamed' /\ Renewed'
  BY <1>1, <1>2, EmptyPipe DEF Body, Streamed, Renewed, Secure, InStream
<1>7. Turns'
  BY <1>1, <1>2 DEF Body, Turns, Gone
<1> QED
  BY <1>4, <1>5, <1>6, <1>7 DEF Body

LEMMA WorkerLaunchesHelperKept == Body /\ WorkerLaunchesHelper => Body'
<1> SUFFICES ASSUME Body, WorkerLaunchesHelper PROVE Body'
  OBVIOUS
<1> USE DEF WorkerLaunchesHelper, LaunchedAsUser, pipes, service, coder
<1>1. /\ DOMAIN worker' = DOMAIN worker /\ worker'.prepared = worker.prepared /\ worker'.at = "connect"
      /\ DOMAIN helper' = DOMAIN helper /\ helper'.at = "connect" /\ helper'.image = helper.image
      /\ ~Secure /\ helper.at = "absent" /\ responses = <<>>
  BY DEF Body, Typed, Alone, Beginning, Unprepared, BeforeStart
<1>2. Typed' /\ Prepare'
  BY <1>1 DEF Body, Typed, Prepare, BeforeStart, Starting
<1>3. Alone' /\ Beginning'
  BY <1>1 DEF Body, Alone, Beginning, Unprepared, Greeted, Secure, BeforeStart, Starting, Unshared
<1>4. Streamed' /\ Renewed'
  BY <1>1 DEF Body, Streamed, Renewed, Secure, InStream
<1>5. Turns'
  BY <1>1 DEF Body, Turns, Gone
<1> QED
  BY <1>2, <1>3, <1>4, <1>5 DEF Body

LEMMA WorkerConnectsKept == Body /\ WorkerConnects /\ worker'.at # "ended" => Body'
<1> SUFFICES ASSUME Body, WorkerConnects, worker'.at # "ended" PROVE Body'
  OBVIOUS
<1> USE DEF WorkerConnects, Ends, pipes, service, coder
<1>1. /\ DOMAIN worker' = DOMAIN worker /\ worker'.prepared = worker.prepared /\ worker'.at = "hello"
      /\ DOMAIN helper' = DOMAIN helper /\ helper.at = "connected" /\ helper'.at = "select" /\ helper'.image = helper.image
      /\ ~Secure
  BY DEF Body, Typed, Alone
<1>2. Typed' /\ Prepare'
  BY <1>1 DEF Body, Typed, Prepare, BeforeStart, Starting
<1>3. Alone' /\ Beginning'
  BY <1>1 DEF Body, Alone, Beginning, Unprepared, Greeted, Secure, BeforeStart, Starting, Unshared
<1>4. Streamed' /\ Renewed'
  BY <1>1 DEF Body, Streamed, Renewed, Secure, InStream
<1>5. Turns'
  BY <1>1 DEF Body, Turns, Gone
<1> QED
  BY <1>2, <1>3, <1>4, <1>5 DEF Body

(* With the hello taken the pipe is empty again.                           *)
LEMMA WorkerHearsHelloKept == Body /\ WorkerHearsHello /\ worker'.at # "ended" => Body'
<1> SUFFICES ASSUME Body, WorkerHearsHello, worker'.at # "ended" PROVE Body'
  OBVIOUS
<1> USE DEF WorkerHearsHello, Ends, service, coder
<1>1. /\ DOMAIN worker' = DOMAIN worker /\ worker'.prepared = worker.prepared /\ worker'.at = "handle"
      /\ responses # <<>> /\ responses' = Tail(responses)
  BY DEF Body, Typed
<1>2. /\ ~Secure /\ Len(responses) = 1 /\ helper.at \in {"options", "gone"} /\ responses \in Seq(Answers)
      /\ ~worker.prepared
  BY <1>1 DEF Body, Typed, Alone, Beginning, BeforeStart
<1>3. responses' = <<>> /\ responses[1] = Head(responses)
  BY <1>1, <1>2
<1>4. ~IsFrame(responses[1])
  BY <1>1 DEF Body, Beginning, BeforeStart, IsFrame
<1>5. NoFrame(responses)
  BY <1>2, <1>4 DEF NoFrame
<1>6. Typed' /\ Prepare'
  BY <1>1, <1>2, <1>3, EmptyPipe DEF Body, Typed, Prepare, BeforeStart, Starting
<1>7. Alone' /\ Beginning'
  BY <1>1, <1>2, <1>3 DEF Body, Alone, Beginning, Unprepared, Greeted, Secure, BeforeStart, Starting, Unshared
<1>8. Streamed' /\ Renewed'
  <2>1. Images(responses') /\ NoRestart(responses') /\ FramesFresh(responses', session'.since, windows'.shown)
    <3>1. \A low, high : Images(<<>>) /\ NoRestart(<<>>) /\ FramesFresh(<<>>, low, high)
      BY EmptyPipe
    <3> QED
      BY <1>3, <3>1, Zenon
  <2>2. worker'.at \notin InStream
    BY <1>1 DEF InStream
  <2> QED
    BY <1>1, <2>1, <2>2 DEF Body, Streamed, Renewed, InStream
<1>9. Turns'
  BY <1>1, <1>3, <1>5, EmptyPipe DEF Body, Turns, Gone
<1> QED
  BY <1>6, <1>7, <1>8, <1>9 DEF Body

(* From the hello to the encoder only the place of the worker changes.     *)
LEMMA WorkerSetsUpKept ==
  Body /\ (WorkerTakesHandle \/ WorkerOpensTexture \/ WorkerTakesPrepared \/ WorkerOpensEncoder) /\ worker'.at # "ended"
    => Body'
<1> SUFFICES ASSUME Body, WorkerTakesHandle \/ WorkerOpensTexture \/ WorkerTakesPrepared \/ WorkerOpensEncoder,
                    worker'.at # "ended"
             PROVE  Body'
  OBVIOUS
<1> USE DEF WorkerTakesHandle, WorkerOpensTexture, WorkerTakesPrepared, WorkerOpensEncoder, Ready, Ordered,
            pipes, service, coder
<1>1. /\ worker.at \in {"handle", "open", "encoder"} \/ (worker.at = "idle" /\ worker.prepared)
      /\ UNCHANGED <<windows, session, texture, helper, commands, responses, capture>>
      /\ UNCHANGED orders \/ (orders # <<>> /\ orders' = Tail(orders))
  OBVIOUS
<1>2. \/ worker' = [worker EXCEPT !.at = "open"] /\ worker.at = "handle"
      \/ worker' = [worker EXCEPT !.at = "idle", !.prepared = TRUE]
      \/ worker' = [worker EXCEPT !.at = "encoder", !.prepared = FALSE]
      \/ worker' = [worker EXCEPT !.at = "start"] /\ worker.at = "encoder"
  BY DEF Body, Typed, Ends
<1>3. DOMAIN worker' = DOMAIN worker
  BY <1>2
<1>4. \/ worker'.at = "open" /\ worker.at = "handle" /\ worker'.prepared = worker.prepared
      \/ worker'.at = "idle" /\ worker'.prepared = TRUE
      \/ worker'.at = "encoder" /\ worker'.prepared = FALSE
      \/ worker'.at = "start" /\ worker.at = "encoder" /\ worker'.prepared = worker.prepared
  BY <1>2 DEF Body, Typed
<1>5. /\ Greeted /\ Greeted' /\ worker.at \in BeforeStart /\ worker'.at \in BeforeStart
      /\ worker.at \notin {"connect", "hello"} /\ worker'.at \notin {"launch", "connect", "hello", "duplicate"}
      /\ worker'.prepared \in BOOLEAN /\ (worker'.prepared => worker'.at = "idle")
  BY <1>1, <1>4 DEF Body, Typed, Greeted, BeforeStart
<1>6. Secure => worker'.at \notin {"handle", "open"}
  BY <1>4 DEF Body, Alone
<1>7. orders \in Seq({"prepare", "start", "restart", "stop"}) /\ \A i \in 1..Len(orders) : orders[i] # "prepare"
  BY <1>1 DEF Body, Typed, Prepare
<1>8. orders' \in Seq({"prepare", "start", "restart", "stop"}) /\ \A i \in 1..Len(orders') : orders'[i] # "prepare"
  <2>1. CASE UNCHANGED orders
    BY <1>7, <2>1
  <2>2. CASE orders # <<>> /\ orders' = Tail(orders)
    BY <1>7, <2>2, OrderTaken
  <2> QED
    BY <1>1, <2>1, <2>2
<1>9. Typed' /\ Prepare'
  BY <1>1, <1>3, <1>5, <1>8 DEF Body, Typed, Prepare
<1>10. ~Unprepared'
  BY <1>5 DEF Unprepared, Greeted
<1>11. responses = <<>> /\ commands = <<>> /\ capture.cached = None /\ capture.pending = None
  BY <1>5 DEF Body, Beginning
<1>12. Secure' <=> Secure
  BY <1>1 DEF Secure
<1>13. Alone'
  BY <1>1, <1>5, <1>6, <1>12 DEF Body, Alone, BeforeStart
<1>14. Beginning'
  BY <1>1, <1>5, <1>10, <1>11, <1>12 DEF Body, Beginning, BeforeStart
<1>15. Streamed' /\ Renewed'
  BY <1>1, <1>5, <1>11, EmptyPipe DEF Body, Streamed, Renewed, InStream, BeforeStart
<1>16. Turns'
  BY <1>1, <1>5, <1>11 DEF Body, Turns, Gone, BeforeStart
<1> QED
  BY <1>9, <1>13, <1>14, <1>15, <1>16 DEF Body

-------------------------------------------------------------------------------
(* The steps of the worker in the stream.                                  *)

LEMMA NothingFollows ==
  ASSUME NEW pipe \in Seq(Answers), NoRestart(pipe), NEW low, NEW high
  PROVE  OneRestart(pipe) /\ RestFresh(pipe, low, high)
BY DEF NoRestart, OneRestart, RestFresh

(* Once the worker has its preparation, none is ordered any more.          *)
LEMMA OrdersGoOn ==
  ASSUME Body, worker.at \in InStream \/ Greeted, UNCHANGED orders \/ (orders # <<>> /\ orders' = Tail(orders))
  PROVE  orders' \in Seq({"prepare", "start", "restart", "stop"}) /\ \A i \in 1..Len(orders') : orders'[i] # "prepare"
<1>1. orders \in Seq({"prepare", "start", "restart", "stop"}) /\ \A i \in 1..Len(orders) : orders[i] # "prepare"
  BY DEF Body, Typed, Prepare, InStream, Greeted
<1>2. CASE UNCHANGED orders
  BY <1>1, <1>2
<1>3. CASE orders # <<>> /\ orders' = Tail(orders)
  BY <1>1, <1>3, OrderTaken
<1> QED
  BY <1>2, <1>3

LEMMA BeginsRestartKept ==
  ASSUME Body, worker.at \in {"start", "orders"}, BeginsRestart, worker'.at # "ended",
         UNCHANGED orders \/ (orders # <<>> /\ orders' = Tail(orders)),
         UNCHANGED <<windows, helper, responses>>
  PROVE  Body'
<1> USE DEF BeginsRestart, Ends, coder
<1>1. ~Secure /\ ~Gone /\ commands = <<>> /\ UNCHANGED session
  BY DEF Body, Typed, Streamed
<1>2. /\ DOMAIN worker' = DOMAIN worker /\ worker'.at = "restarting" /\ worker'.prepared = worker.prepared
      /\ DOMAIN capture' = DOMAIN capture /\ capture'.pending = None /\ capture'.held = capture.held
      /\ DOMAIN texture' = DOMAIN texture /\ texture'.owner = texture.owner
      /\ texture'.key = IF capture.pending # None THEN 0 ELSE texture.key
  BY DEF Body, Typed, Discarded
<1>3. \/ worker.at = "start" /\ commands' = <<"options", "restart">> /\ helper.at = "options" /\ responses = <<>>
      \/ worker.at = "orders" /\ commands' = <<"restart">> /\ helper.at \in Looping /\ NoHello(responses)
  <2>1. CASE worker.at = "start"
    BY <1>1, <2>1 DEF Body, Beginning, Greeted, BeforeStart, Gone
  <2>2. CASE worker.at = "orders"
    BY <1>1, <2>2 DEF Body, Streamed, InStream, Gone
  <2> QED
    BY <2>1, <2>2
<1>4. worker.at \in InStream \/ Greeted
  BY DEF InStream, Greeted
<1>5. orders' \in Seq({"prepare", "start", "restart", "stop"}) /\ \A i \in 1..Len(orders') : orders'[i] # "prepare"
  BY <1>4, OrdersGoOn
<1>6. responses \in Seq(Answers) /\ NoRestart(responses) /\ Images(responses)
  BY DEF Body, Typed, Renewed
<1>7. OneRestart(responses) /\ RestFresh(responses, session.since, windows.shown)
  BY <1>6, NothingFollows
<1>8. commands' \in {<<"restart">>, <<"options", "restart">>} /\ commands' # <<>>
  BY <1>3
<1>9. Typed' /\ Prepare'
  BY <1>1, <1>2, <1>5, <1>8 DEF Body, Typed, Prepare, InStream, None
<1>10. Alone' /\ Beginning'
  BY <1>1, <1>2, <1>3 DEF Body, Beginning, Alone, Unprepared, Greeted, Secure, BeforeStart, Unshared, Looping
<1>11. Streamed'
  <2>1. commands' = <<"options", "restart">> => NoHello(responses)
    <3>1. NoHello(<<>>)
      BY DEF NoHello
    <3> QED
      BY <1>3, <3>1
  <2> QED
    BY <1>2, <1>3, <2>1 DEF Streamed
<1>12. Renewed'
  BY <1>1, <1>2, <1>6, <1>7, <1>8 DEF Body, Renewed
<1>13. Turns'
  BY <1>1, <1>2 DEF Body, Turns, Gone
<1> QED
  BY <1>9, <1>10, <1>11, <1>12, <1>13 DEF Body

(* On the secure desktop there is no helper whose images could remain.     *)
LEMMA DuplicatesAnewKept ==
  ASSUME Body, worker.at \in {"start", "orders"}, DuplicatesAnew, worker'.at # "ended",
         UNCHANGED orders \/ (orders # <<>> /\ orders' = Tail(orders)),
         UNCHANGED <<windows, helper, responses>>
  PROVE  Body'
<1> USE DEF DuplicatesAnew, Ends
<1>1. Secure /\ helper.at = "absent" /\ commands = <<>> /\ responses = <<>> /\ capture.pending = None
  BY DEF Body, Alone
<1>2. /\ DOMAIN worker' = DOMAIN worker /\ worker'.at = "orders" /\ worker'.prepared = worker.prepared
      /\ DOMAIN capture' = DOMAIN capture /\ capture'.pending = None /\ capture'.held = capture.held
      /\ capture'.cached = None
      /\ DOMAIN session' = DOMAIN session /\ session'.since = windows.shown /\ session'.pool = None
      /\ windows.shown \in Nat
  BY <1>1 DEF Body, Typed, Forgotten, Restarted
<1>3. worker.at \in InStream \/ Greeted
  BY DEF InStream, Greeted
<1>4. orders' \in Seq({"prepare", "start", "restart", "stop"}) /\ \A i \in 1..Len(orders') : orders'[i] # "prepare"
  BY <1>3, OrdersGoOn
<1>5. Images(responses) /\ NoRestart(responses) /\ FramesFresh(responses, session'.since, windows.shown)
  <2>1. \A low, high : Images(<<>>) /\ NoRestart(<<>>) /\ FramesFresh(<<>>, low, high)
    BY EmptyPipe
  <2> QED
    BY <1>1, <2>1, Zenon
<1>6. Typed' /\ Prepare'
  BY <1>2, <1>4 DEF Body, Typed, Prepare, InStream, None
<1>7. Alone' /\ Beginning'
  BY <1>1, <1>2 DEF Body, Beginning, Alone, Unprepared, Greeted, Secure, BeforeStart
<1>8. Streamed' /\ Renewed'
  BY <1>1, <1>2, <1>5 DEF Body, Streamed, Renewed, Secure
<1>9. Turns'
  BY <1>1, <1>2 DEF Body, Turns, Gone
<1> QED
  BY <1>6, <1>7, <1>8, <1>9 DEF Body

LEMMA RestartsKept ==
  Body /\ (StreamStarts \/ WorkerReadsOrder) /\ worker'.at # "ended" => Body'
<1> SUFFICES ASSUME Body, StreamStarts \/ WorkerReadsOrder, worker'.at # "ended"
             PROVE  Body'
  OBVIOUS
<1>1. /\ worker.at \in {"start", "orders"} /\ RestartsCapture
      /\ UNCHANGED orders \/ (orders # <<>> /\ orders' = Tail(orders))
      /\ UNCHANGED <<windows, helper, responses>>
  BY DEF Body, Typed, StreamStarts, WorkerReadsOrder, Ordered, Ends, service
<1> QED
  BY <1>1, BeginsRestartKept, DuplicatesAnewKept DEF RestartsCapture

LEMMA WorkerReadsRestartKept == Body /\ WorkerReadsRestart /\ worker'.at # "ended" => Body'
<1> SUFFICES ASSUME Body, WorkerReadsRestart, worker'.at # "ended" PROVE Body'
  OBVIOUS
<1> DEFINE a == Head(responses)
           q == Tail(responses)
<1>1. /\ worker.at = "restarting" /\ UNCHANGED <<windows, session, helper, commands, orders>>
      /\ responses # <<>> /\ responses' = q
  BY DEF Body, Typed, WorkerReadsRestart, Ends, service
<1>2. ~Secure /\ NoHello(responses) /\ responses \in Seq(Answers) /\ capture.pending = None
  BY <1>1 DEF Body, Typed, Alone, Streamed, Renewed, InStream
<1>3. /\ q \in Seq(Answers) /\ a \in Answers /\ (NoFrame(responses) => NoFrame(q)) /\ OneFrame(q)
      /\ (IsFrame(a) => NoFrame(q) /\ ~NoFrame(responses))
      /\ (~IsFrame(a) /\ NoFrame(q) => NoFrame(responses))
      /\ Images(q)
      /\ (NoRestart(responses) => NoRestart(q) /\ ~IsRestart(a))
      /\ OneRestart(q) /\ (IsRestart(a) => NoRestart(q))
      /\ RestFresh(q, session.since, windows.shown) /\ (IsRestart(a) => FramesFresh(q, session.since, windows.shown))
      /\ NoHello(q) /\ a.is # "hello"
  BY <1>1, <1>2, TakeAnswer DEF Body, Renewed, Turns
<1>4. \/ /\ a.result = "ok" /\ a.is = "frame" /\ texture' = Discarded /\ UNCHANGED <<worker, capture>>
      \/ /\ a.result = "ok" /\ a.is = "restart" /\ capture' = Forgotten /\ UNCHANGED texture
         /\ worker' = [worker EXCEPT !.at = "orders"]
  BY <1>1, <1>3 DEF Body, Typed, WorkerReadsRestart, Ends, Answers
<1> HIDE DEF a, q
<1>5. CASE a.result = "ok" /\ a.is = "frame" /\ texture' = Discarded /\ UNCHANGED <<worker, capture>>
  <2>1. IsFrame(a) /\ NoFrame(q) /\ ~NoFrame(responses)
    BY <1>3, <1>5 DEF IsFrame
  <2>2. helper.at # "write" /\ DOMAIN texture' = DOMAIN texture /\ texture'.key = 0 /\ texture'.owner = texture.owner
    BY <1>5, <2>1 DEF Body, Typed, Turns, Discarded
  <2>3. Typed' /\ Prepare'
    BY <1>1, <1>3, <1>5, <2>2 DEF Body, Typed, Prepare
  <2>4. Alone' /\ Beginning'
    BY <1>1, <1>2, <1>5, <2>2 DEF Body, Beginning, Alone, Unprepared, Greeted, Secure, BeforeStart, Streamed, InStream,
                              Looping, Unshared
  <2>5. Streamed' /\ Renewed'
    BY <1>1, <1>2, <1>3, <1>5 DEF Body, Streamed, Renewed, Secure, InStream
  <2>6. Turns'
    BY <1>1, <1>2, <1>3, <1>5, <2>1, <2>2 DEF Body, Turns, Gone
  <2> QED
    BY <2>3, <2>4, <2>5, <2>6 DEF Body
<1>6. CASE /\ a.result = "ok" /\ a.is = "restart" /\ capture' = Forgotten /\ UNCHANGED texture
           /\ worker' = [worker EXCEPT !.at = "orders"]
  <2>1. IsRestart(a) /\ ~IsFrame(a) /\ commands = <<>>
    BY <1>1, <1>3, <1>6 DEF IsRestart, IsFrame, Body, Renewed
  <2>2. /\ DOMAIN worker' = DOMAIN worker /\ worker'.at = "orders" /\ worker'.prepared = worker.prepared
        /\ DOMAIN capture' = DOMAIN capture /\ capture'.pending = None /\ capture'.held = capture.held
        /\ capture'.cached = None
    BY <1>2, <1>6 DEF Body, Typed, Forgotten
  <2>3. Typed' /\ Prepare'
    BY <1>1, <1>3, <1>6, <2>2 DEF Body, Typed, Prepare, InStream, None
  <2>4. Alone' /\ Beginning'
    BY <1>1, <1>2, <1>6, <2>2 DEF Body, Beginning, Alone, Unprepared, Greeted, Secure, BeforeStart, Unshared
  <2>5. Streamed' /\ Renewed'
    BY <1>1, <1>2, <1>3, <2>1, <2>2 DEF Body, Streamed, Renewed, Secure, InStream
  <2>6. Turns'
    BY <1>1, <1>2, <1>3, <1>6, <2>1, <2>2 DEF Body, Turns, Gone
  <2> QED
    BY <2>3, <2>4, <2>5, <2>6 DEF Body
<1> QED
  BY <1>4, <1>5, <1>6

(* Where nothing but the place of the worker within the stream changes.    *)
LEMMA WorkerGoesOnKept ==
  Body /\ (WorkerTicks \/ WorkerHearsNothing \/ WorkerEncodes) /\ worker'.at # "ended" => Body'
<1> SUFFICES ASSUME Body, WorkerTicks \/ WorkerHearsNothing \/ WorkerEncodes, worker'.at # "ended"
             PROVE  Body'
  OBVIOUS
<1>1. /\ worker.at \in {"orders", "capture", "encode"} /\ worker'.at \in {"orders", "capture", "encode"}
      /\ DOMAIN worker' = DOMAIN worker /\ worker'.prepared = worker.prepared
      /\ UNCHANGED <<windows, session, texture, helper, commands, responses, orders, capture>>
  <2>1. CASE WorkerTicks
    BY <2>1 DEF Body, Typed, WorkerTicks, pipes, service
  <2>2. CASE WorkerHearsNothing
    BY <2>2 DEF Body, Typed, WorkerHearsNothing, Ends, AfterCapture, pipes, service
  <2>3. CASE WorkerEncodes
    <3>1. worker' = [worker EXCEPT !.at = "orders"]
      BY <2>3 DEF Body, Typed, WorkerEncodes, Ends
    <3>2. worker.at = "encode" /\ UNCHANGED <<windows, session, texture, helper, commands, responses, orders, capture>>
      BY <2>3 DEF WorkerEncodes, pipes, service
    <3> QED
      BY <3>1, <3>2 DEF Body, Typed
  <2> QED
    BY <2>1, <2>2, <2>3
<1>2. Typed' /\ Prepare'
  BY <1>1 DEF Body, Typed, Prepare, InStream
<1>3. Alone' /\ Beginning'
  BY <1>1 DEF Body, Beginning, Alone, Unprepared, Greeted, Secure, BeforeStart
<1>4. Streamed' /\ Renewed'
  BY <1>1 DEF Body, Streamed, Renewed, Secure, InStream
<1>5. Turns'
  BY <1>1 DEF Body, Turns, Gone
<1> QED
  BY <1>2, <1>3, <1>4, <1>5 DEF Body

LEMMA WorkerDuplicatesKept == Body /\ WorkerDuplicates /\ worker'.at # "ended" => Body'
<1> SUFFICES ASSUME Body, WorkerDuplicates, worker'.at # "ended" PROVE Body'
  OBVIOUS
<1>1. /\ worker.at = "capture" /\ Secure /\ UNCHANGED <<windows, texture, helper, commands, responses, orders>>
      /\ DOMAIN session' = DOMAIN session /\ session'.pool = None /\ session'.since = session.since
      /\ DOMAIN worker' = DOMAIN worker /\ worker'.at \in {"encode", "orders"} /\ worker'.prepared = worker.prepared
      /\ DOMAIN capture' = DOMAIN capture /\ capture'.pending = capture.pending /\ capture'.held = capture.held
      /\ capture'.cached = IF session.pool = None THEN capture.cached ELSE session.pool
  BY DEF Body, Typed, WorkerDuplicates, Ends, AfterCapture, pipes, service
<1>2. Typed' /\ Prepare'
  BY <1>1 DEF Body, Typed, Prepare, InStream
<1>3. Alone' /\ Beginning'
  BY <1>1 DEF Body, Beginning, Alone, Unprepared, Greeted, Secure, BeforeStart
<1>4. Streamed' /\ Renewed'
  BY <1>1 DEF Body, Typed, Streamed, Renewed, Secure, InStream
<1>5. Turns'
  BY <1>1 DEF Body, Turns, Gone
<1> QED
  BY <1>2, <1>3, <1>4, <1>5 DEF Body

LEMMA WorkerHearsKept == Body /\ WorkerHears /\ worker'.at # "ended" => Body'
<1> SUFFICES ASSUME Body, WorkerHears, worker'.at # "ended" PROVE Body'
  OBVIOUS
<1> DEFINE a == Head(responses)
           q == Tail(responses)
<1>1. /\ worker.at = "capture" /\ capture.pending = None /\ responses # <<>> /\ responses' = q
      /\ UNCHANGED <<windows, session, texture, helper, commands, orders, worker>>
      /\ IsFrame(a) /\ capture' = [capture EXCEPT !.pending = a.image]
  BY DEF Body, Typed, WorkerHears, Ends, IsFrame, service
<1>2. ~Secure /\ NoHello(responses) /\ responses \in Seq(Answers)
  BY <1>1 DEF Body, Typed, Alone, Streamed, InStream
<1>3. /\ q \in Seq(Answers) /\ a \in Answers /\ OneFrame(q) /\ NoFrame(q) /\ ~NoFrame(responses)
      /\ Images(q) /\ a.image # None /\ NoRestart(q) /\ NoHello(q)
      /\ FramesFresh(q, session.since, windows.shown) /\ Fresh(a.image, session.since, windows.shown)
  BY <1>1, <1>2, TakeAnswer DEF Body, Renewed, Turns
<1>4. /\ DOMAIN capture' = DOMAIN capture /\ capture'.pending = a.image /\ capture'.held = capture.held
      /\ capture'.cached = capture.cached /\ a.image \in Nat
  BY <1>1, <1>3 DEF Body, Typed, Answers
<1> HIDE DEF a, q
<1>5. Typed' /\ Prepare'
  BY <1>1, <1>3, <1>4 DEF Body, Typed, Prepare
<1>6. Alone' /\ Beginning'
  BY <1>1, <1>2, <1>4 DEF Body, Beginning, Alone, Unprepared, Greeted, Secure, BeforeStart
<1>7. Streamed' /\ Renewed'
  BY <1>1, <1>2, <1>3, <1>4 DEF Body, Streamed, Renewed, Secure, InStream
<1>8. Turns'
  BY <1>1, <1>3, <1>4 DEF Body, Turns, Gone
<1> QED
  BY <1>5, <1>6, <1>7, <1>8 DEF Body

LEMMA WorkerAcquiresKept == Body /\ WorkerAcquires => Body'
<1> SUFFICES ASSUME Body, WorkerAcquires PROVE Body'
  OBVIOUS
<1>1. /\ worker.at = "capture" /\ capture.pending # None /\ texture.key = 1 /\ texture.owner = "nobody"
      /\ UNCHANGED <<windows, session, helper, commands, responses, orders>>
      /\ DOMAIN texture' = DOMAIN texture /\ texture'.key = 1 /\ texture'.owner = "worker"
      /\ DOMAIN worker' = DOMAIN worker /\ worker'.at = "copy" /\ worker'.prepared = worker.prepared
      /\ DOMAIN capture' = DOMAIN capture /\ capture'.pending = None /\ capture'.held = capture.pending
      /\ capture'.cached = capture.cached
  BY DEF Body, Typed, WorkerAcquires, Acquired, pipes, service
<1>2. ~Secure
  BY <1>1 DEF Body, Alone
<1>3. Typed' /\ Prepare'
  BY <1>1 DEF Body, Typed, Prepare, InStream, None
<1>4. Alone' /\ Beginning'
  BY <1>1, <1>2 DEF Body, Beginning, Alone, Unprepared, Greeted, Secure, BeforeStart
<1>5. Streamed' /\ Renewed'
  BY <1>1, <1>2 DEF Body, Streamed, Renewed, Secure, InStream
<1>6. Turns'
  BY <1>1 DEF Body, Turns, Gone
<1> QED
  BY <1>3, <1>4, <1>5, <1>6 DEF Body

LEMMA WorkerCopiesKept == Body /\ WorkerCopies => Body'
<1> SUFFICES ASSUME Body, WorkerCopies PROVE Body'
  OBVIOUS
<1>1. /\ worker.at = "copy" /\ UNCHANGED <<windows, session, helper, commands, responses, orders>>
      /\ DOMAIN texture' = DOMAIN texture /\ texture'.key = 0 /\ texture'.owner = "nobody"
      /\ DOMAIN worker' = DOMAIN worker /\ worker'.at \in {"encode", "orders"} /\ worker'.prepared = worker.prepared
      /\ DOMAIN capture' = DOMAIN capture /\ capture'.pending = capture.pending /\ capture'.held = None
      /\ capture'.cached = capture.held
  BY DEF Body, Typed, WorkerCopies, GivenBack, AfterCapture, pipes, service
<1>2. ~Secure
  BY <1>1 DEF Body, Alone
<1>3. Typed' /\ Prepare'
  BY <1>1 DEF Body, Typed, Prepare, InStream, None
<1>4. Alone' /\ Beginning'
  BY <1>1, <1>2 DEF Body, Beginning, Alone, Unprepared, Greeted, Secure, BeforeStart, Streamed, InStream, Unshared, Looping
<1>5. Streamed' /\ Renewed'
  BY <1>1, <1>2 DEF Body, Streamed, Renewed, Secure, InStream
<1>6. Turns'
  BY <1>1 DEF Body, Turns, Gone
<1> QED
  BY <1>3, <1>4, <1>5, <1>6 DEF Body

-------------------------------------------------------------------------------
(* The invariant holds from the start on; once the stream has ended, it    *)
(* says nothing, and nothing is done any more.                             *)

LEMMA HandoffAtFirst == Init => HandoffInv
<1> SUFFICES ASSUME Init PROVE Body
  BY DEF HandoffInv
<1> USE DEF Init, None, Never
<1>1. orders = <<>> /\ responses = <<>> /\ commands = <<>>
  OBVIOUS
<1>2. Typed /\ Prepare
  BY <1>1 DEF Typed, Prepare, BeforeStart
<1>3. Alone /\ Beginning
  BY DEF Alone, Beginning, Unprepared, Greeted, Secure, BeforeStart, Starting, Unshared
<1>4. Streamed /\ Renewed
  BY DEF Streamed, Renewed, InStream, Images, FramesFresh, NoRestart, IsFrame
<1>5. Turns
  BY DEF Turns, NoFrame, OneFrame, Gone
<1> QED
  BY <1>2, <1>3, <1>4, <1>5 DEF Body

LEMMA NothingAfterEnd == ~Streaming /\ [Next]_vars => ~Streaming'
<1> SUFFICES ASSUME ~Streaming, [Next]_vars PROVE worker'.at = "ended"
  BY DEF Streaming
<1> USE DEF Streaming
<1>1. CASE Windows
  BY <1>1 DEF Windows, Present, DisplayChanges, SessionFreezes, May
<1>2. CASE Helper \/ HelperRefuses \/ HelperDies \/ HelperGivesUp
  BY <1>2 DEF Helper, HelperConnects, HelperSelects, HelperBuildsSource, HelperSharesTexture, HelperBuildsShader,
              HelperBuildsProcessor, HelperStartsCapture, HelperConfigured, HelperRestarts, HelperFindsChange,
              HelperCaptures, HelperOwns, HelperChooses, HelperFindsNothing, HelperAnnounces, HelperRefuses, HelperDies,
              HelperGivesUp, Goes, May
<1>3. CASE Worker
  BY <1>3 DEF Worker, WorkerPrepares, WorkerBuildsBridge, WorkerLaunchesHelper, WorkerConnects, WorkerHearsHello,
              WorkerTakesHandle, WorkerOpensTexture, WorkerTakesPrepared, WorkerOpensEncoder, StreamStarts,
              WorkerReadsRestart, WorkerReadsOrder, WorkerTicks, WorkerDuplicates, WorkerHears, WorkerHearsNothing,
              WorkerAcquires, WorkerCopies, WorkerEncodes
<1>4. CASE WorkerRefuses \/ WorkerStalls \/ EncoderHolds \/ MirrorLags
  BY <1>4 DEF WorkerRefuses, WorkerStalls, EncoderHolds, MirrorLags, May
<1>5. CASE Service
  BY <1>5 DEF Service, LaunchSystem, OrderStart, OrderStop, PointerMoves, TimePasses, Observe, Serving
<1>6. CASE Ended \/ UNCHANGED vars
  BY <1>6 DEF Ended, vars, workerVars
<1> QED
  BY <1>1, <1>2, <1>3, <1>4, <1>5, <1>6 DEF Next

LEMMA WorkerRefusesEnds == Typed /\ WorkerRefuses => ~Streaming'
BY DEF Typed, WorkerRefuses, Ends, Streaming

LEMMA HandoffInductive == HandoffInv /\ [Next]_vars => HandoffInv'
<1> SUFFICES ASSUME HandoffInv, [Next]_vars, Streaming' PROVE Body'
  BY DEF HandoffInv
<1>1. Body /\ worker'.at # "ended"
  BY NothingAfterEnd DEF HandoffInv, Streaming
<1>2. CASE Windows \/ WorkerStalls \/ EncoderHolds \/ MirrorLags
  BY <1>1, <1>2, PresentKept, UnrelatedSteps DEF Windows
<1>3. CASE Helper
  BY <1>1, <1>3, HelperBeginsKept, HelperHellosKept, HelperConfiguredKept, HelperRestartsKept, HelperFailsKept,
     HelperLoopsKept, HelperChoosesKept, HelperAnnouncesKept DEF Helper, HelperBegins
<1>4. CASE HelperRefuses \/ HelperDies \/ HelperGivesUp
  BY <1>1, <1>4, HelperHellosKept, HelperDiesKept, HelperFailsKept
<1>5. CASE Worker
  BY <1>1, <1>5, WorkerPreparesKept, WorkerBuildsBridgeKept, WorkerLaunchesHelperKept, WorkerConnectsKept,
     WorkerHearsHelloKept, WorkerSetsUpKept, RestartsKept, WorkerReadsRestartKept, WorkerGoesOnKept,
     WorkerDuplicatesKept, WorkerHearsKept, WorkerAcquiresKept, WorkerCopiesKept DEF Worker
<1>6. CASE WorkerRefuses
  BY <1>1, <1>6, WorkerRefusesEnds DEF Body
<1>7. CASE Service
  BY <1>1, <1>7, LaunchSystemKept, UnrelatedSteps DEF Service
<1>8. CASE Ended \/ UNCHANGED vars
  <2>1. SameWindows /\ SameSession /\ SameWorker /\ UNCHANGED <<texture, helper, commands, responses, capture, orders>>
    BY <1>8 DEF Ended, vars, pipes, service, workerVars, SameWindows, SameSession, SameWorker
  <2>2. SameOrders
    BY <1>1, <2>1 DEF Body, Typed, Prepare, SameOrders, SameWorker
  <2> QED
    BY <1>1, <2>1, <2>2, Unrelated
<1> QED
  BY <1>2, <1>3, <1>4, <1>5, <1>6, <1>7, <1>8 DEF Next

-------------------------------------------------------------------------------
(* Every key that lets the worker into the texture goes with exactly one   *)
(* announcement: being written, on its way, read, or in use (gpu_encode.rs *)
(* and wgc_helper_main.cpp, where a lost one stops both sides).            *)
THEOREM OneHandoffAlways == Spec => []OneHandoff
<1>1. HandoffInv => OneHandoff
  <2> SUFFICES ASSUME Body, ~Gone, texture.key # Never PROVE Announcements = texture.key
    BY DEF HandoffInv, OneHandoff
  <2> DEFINE S == {i \in DOMAIN responses : responses[i].is = "frame" /\ responses[i].result = "ok"}
  <2>1. responses \in Seq(Answers) /\ DOMAIN responses = 1..Len(responses)
    BY DEF Body, Typed
  <2>2. NoFrame(responses) => Cardinality(S) = 0
    <3>1. NoFrame(responses) => S = {}
      BY <2>1 DEF NoFrame, IsFrame
    <3> QED
      BY <3>1, FS_EmptySet
  <2>3. ~NoFrame(responses) => Cardinality(S) = 1
    <3> SUFFICES ASSUME ~NoFrame(responses) PROVE Cardinality(S) = 1
      OBVIOUS
    <3>1. PICK i \in 1..Len(responses) : IsFrame(responses[i])
      BY DEF NoFrame
    <3>2. \A j \in 1..Len(responses) : IsFrame(responses[j]) => j = i
      BY <3>1 DEF Body, Turns, OneFrame
    <3>3. S = {i}
      BY <2>1, <3>1, <3>2 DEF IsFrame
    <3> QED
      BY <3>3, FS_Singleton
  <2>4. Announcements = Cardinality(S) + (IF capture.pending # None THEN 1 ELSE 0)
                        + (IF helper.at = "write" THEN 1 ELSE 0) + (IF worker.at = "copy" THEN 1 ELSE 0)
    BY DEF Announcements
  <2> HIDE DEF S
  <2>5. CASE texture.key = 0
    BY <2>2, <2>4, <2>5 DEF Body, Turns
  <2>6. CASE texture.key = 1
    BY <2>2, <2>3, <2>4, <2>6 DEF Body, Turns
  <2> QED
    BY <2>5, <2>6 DEF Body, Typed
<1> QED
  BY <1>1, HandoffAtFirst, HandoffInductive, PTL DEF Spec

(* After a restart the worker holds no image of the capture before it,     *)
(* wherever such an image was when the restart was ordered: read, in the   *)
(* pipe, in the texture, or in the hands of the helper (gpu_bridge.cpp,    *)
(* restart_capture_exchange).                                              *)
THEOREM FreshAlways == Spec => []FreshAfterRestart
<1>1. HandoffInv => FreshAfterRestart
  BY DEF HandoffInv, Streaming, Body, Renewed, FreshAfterRestart, Fresh
<1> QED
  BY <1>1, HandoffAtFirst, HandoffInductive, PTL DEF Spec

-------------------------------------------------------------------------------
(* What a packet shows and the time that goes with it.  First the images:  *)
(* the one that is announced, read or in use is the one in the texture,    *)
(* and the cached one is the one that the worker's own texture shows.      *)

ImagesTrue ==
  /\ texture.image \in Nat /\ capture.cached \in Nat /\ capture.content \in Nat
  /\ DOMAIN capture = {"pending", "held", "cached", "content"}
  /\ helper.at = "write" => helper.image = texture.image
  /\ \A i \in 1..Len(responses) : IsFrame(responses[i]) => responses[i].image = texture.image
  /\ capture.pending # None => capture.pending = texture.image
  /\ worker.at = "copy" => capture.held = texture.image
  /\ capture.cached # None => capture.content = capture.cached
  /\ worker.at = "encode" => capture.cached # None

(* The pipe has the frames that it had, or fewer. *)
FewerFrames(pipe, q) ==
  \A i \in 1..Len(q) : IsFrame(q[i]) => \E j \in 1..Len(pipe) : q[i] = pipe[j]

LEMMA FewerAppend ==
  ASSUME NEW pipe \in Seq(Answers), NEW a \in Answers, ~IsFrame(a)
  PROVE  FewerFrames(pipe, Append(pipe, a))
<1> DEFINE q == Append(pipe, a)
<1>1. /\ Len(q) = Len(pipe) + 1 /\ q[Len(pipe) + 1] = a /\ Len(pipe) \in Nat
      /\ \A i \in 1..Len(pipe) : q[i] = pipe[i]
  BY AppendPipe
<1> HIDE DEF q
<1>2. FewerFrames(pipe, q)
  BY <1>1 DEF FewerFrames
<1> QED
  BY <1>2 DEF q

LEMMA FewerTail ==
  ASSUME NEW pipe \in Seq(Answers), pipe # <<>>
  PROVE  FewerFrames(pipe, Tail(pipe))
<1> DEFINE q == Tail(pipe)
<1>1. /\ Len(q) = Len(pipe) - 1 /\ Len(pipe) \in Nat
      /\ \A i \in 1..Len(pipe) - 1 : q[i] = pipe[i + 1]
  BY TailPipe
<1> HIDE DEF q
<1>2. \A i \in 1..Len(q) : i + 1 \in 1..Len(pipe) /\ q[i] = pipe[i + 1]
  BY <1>1
<1>3. FewerFrames(pipe, q)
  BY <1>2 DEF FewerFrames
<1> QED
  BY <1>3 DEF q

LEMMA FewerSame ==
  ASSUME NEW pipe
  PROVE  FewerFrames(pipe, pipe)
BY DEF FewerFrames

(* Steps that bring no image anywhere.                                     *)
KeepsCapture ==
  /\ DOMAIN capture' = DOMAIN capture
  /\ capture'.pending \in {None, capture.pending} /\ capture'.held = capture.held
  /\ capture'.cached \in {None, capture.cached} /\ capture'.content = capture.content
KeepsPlace ==
  /\ worker'.at = "copy" => worker.at = "copy"
  /\ worker'.at = "encode" =>
       /\ worker.at = "encode" \/ capture.cached # None
       /\ capture'.cached = capture.cached
Unmoved ==
  /\ texture'.image = texture.image
  /\ helper'.at = "write" => helper' = helper
  /\ FewerFrames(responses, responses')
  /\ KeepsCapture /\ KeepsPlace

LEMMA ImagesUnmoved == ImagesTrue /\ Unmoved => ImagesTrue'
<1> SUFFICES ASSUME ImagesTrue, Unmoved PROVE ImagesTrue'
  OBVIOUS
<1>1. \A i \in 1..Len(responses') : IsFrame(responses'[i]) => responses'[i].image = texture'.image
  BY DEF ImagesTrue, Unmoved, FewerFrames
<1>2. /\ texture'.image \in Nat /\ capture'.cached \in Nat /\ capture'.content \in Nat
      /\ DOMAIN capture' = {"pending", "held", "cached", "content"}
  BY DEF ImagesTrue, Unmoved, KeepsCapture, None
<1>3. /\ helper'.at = "write" => helper'.image = texture'.image
      /\ capture'.pending # None => capture'.pending = texture'.image
      /\ worker'.at = "copy" => capture'.held = texture'.image
  BY DEF ImagesTrue, Unmoved, KeepsCapture, KeepsPlace
<1>4. /\ capture'.cached # None => capture'.content = capture'.cached
      /\ worker'.at = "encode" => capture'.cached # None
  BY DEF ImagesTrue, Unmoved, KeepsCapture, KeepsPlace
<1> QED
  BY <1>1, <1>2, <1>3, <1>4 DEF ImagesTrue

LEMMA AroundUnmoved ==
  ASSUME Body, Windows \/ WorkerStalls \/ EncoderHolds \/ MirrorLags \/ Service \/ Ended \/ UNCHANGED vars
  PROVE  Unmoved
<1>1. UNCHANGED <<texture, helper, responses, capture>>
  BY DEF Windows, Present, DisplayChanges, SessionFreezes, WorkerStalls, EncoderHolds, MirrorLags, Service, LaunchSystem,
         OrderStart, OrderStop, PointerMoves, TimePasses, Observe, Ended, vars, pipes, workerVars
<1>2. worker' = worker \/ worker'.at = "idle"
  BY DEF Body, Typed, Windows, Present, DisplayChanges, SessionFreezes, WorkerStalls, EncoderHolds, MirrorLags, Service,
         LaunchSystem, OrderStart, OrderStop, PointerMoves, TimePasses, Observe, Ended, vars, workerVars
<1> QED
  BY <1>1, <1>2, FewerSame DEF Unmoved, KeepsCapture, KeepsPlace, ImagesTrue

(* The steps of the helper besides the choice of an image and its          *)
(* announcement.                                                           *)
HelperElse ==
  \/ HelperBegins \/ HelperStartsCapture \/ HelperRefuses \/ HelperConfigured \/ HelperRestarts \/ HelperFindsChange
  \/ HelperGivesUp \/ HelperCaptures \/ HelperOwns \/ HelperFindsNothing \/ HelperDies

LEMMA HelperUnmoved == Body /\ HelperElse => Unmoved
<1> SUFFICES ASSUME Body, HelperElse PROVE Unmoved
  OBVIOUS
<1> USE DEF HelperElse, HelperBegins, HelperConnects, HelperSelects, HelperBuildsSource, HelperSharesTexture,
            HelperBuildsShader, HelperBuildsProcessor, HelperStartsCapture, HelperRefuses, HelperConfigured, HelperRestarts,
            HelperFindsChange, HelperGivesUp, HelperCaptures, HelperOwns, HelperFindsNothing, HelperDies, Goes, pipes,
            workerVars
<1>1. UNCHANGED <<worker, capture>>
  OBVIOUS
<1>2. texture'.image = texture.image
  BY DEF Body, Typed
<1>3. helper'.at = "write" => helper' = helper
  BY DEF Body, Typed
<1>4. \/ responses' = responses
      \/ responses' = Append(responses, Answer("hello", "ok", None))
      \/ responses' = Append(responses, Answer("hello", "failed", None))
      \/ responses' = Append(responses, Answer("restart", "ok", None))
      \/ responses' = Append(responses, Answer("frame", "lost", None))
      \/ responses' = Append(responses, Answer("frame", "failed", None))
  OBVIOUS
<1>5. \A is \in {"hello", "restart", "frame"}, result \in {"ok", "lost", "failed"} :
        Answer(is, result, None) \in Answers
  BY DEF Answers, Answer, None
<1>6. \A is, result : is # "frame" \/ result # "ok" => ~IsFrame(Answer(is, result, None))
  BY DEF IsFrame, Answer
<1>7. FewerFrames(responses, responses')
  <2>1. responses \in Seq(Answers)
    BY DEF Body, Typed
  <2>2. \/ responses' = responses
        \/ \E a \in Answers : ~IsFrame(a) /\ responses' = Append(responses, a)
    BY <1>4, <1>5, <1>6
  <2> QED
    BY <2>1, <2>2, FewerSame, FewerAppend
<1> QED
  BY <1>1, <1>2, <1>3, <1>7 DEF Unmoved, KeepsCapture, KeepsPlace

(* The worker's steps that take no image from one place to another.        *)
WorkerElse ==
  \/ WorkerPrepares \/ WorkerBuildsBridge \/ WorkerLaunchesHelper \/ WorkerConnects \/ WorkerHearsHello
  \/ WorkerTakesHandle \/ WorkerOpensTexture \/ WorkerTakesPrepared \/ WorkerOpensEncoder \/ StreamStarts
  \/ WorkerReadsRestart \/ WorkerReadsOrder \/ WorkerTicks \/ WorkerHearsNothing \/ WorkerEncodes

LEMMA WorkerUnmoved == Body /\ WorkerElse /\ worker'.at # "ended" => Unmoved
<1> SUFFICES ASSUME Body, WorkerElse, worker'.at # "ended" PROVE Unmoved
  OBVIOUS
<1> USE DEF pipes, service, Ends
<1>1. CASE \/ WorkerPrepares \/ WorkerBuildsBridge \/ WorkerLaunchesHelper \/ WorkerConnects \/ WorkerTakesHandle
           \/ WorkerOpensTexture \/ WorkerTakesPrepared \/ WorkerOpensEncoder
  <2>1. UNCHANGED <<texture, responses, capture>>
    BY <1>1 DEF WorkerPrepares, WorkerBuildsBridge, WorkerLaunchesHelper, WorkerConnects, WorkerTakesHandle,
                WorkerOpensTexture, WorkerTakesPrepared, WorkerOpensEncoder
  <2>2. helper' = helper \/ helper'.at \in {"connect", "select"}
    BY <1>1 DEF Body, Typed, WorkerPrepares, WorkerBuildsBridge, WorkerLaunchesHelper, WorkerConnects, WorkerTakesHandle,
                WorkerOpensTexture, WorkerTakesPrepared, WorkerOpensEncoder, LaunchedAsUser
  <2>3. worker'.at \notin {"copy", "encode"}
    <3>1. CASE WorkerPrepares
      <4>1. \/ worker' = [worker EXCEPT !.at = "duplicate"]
            \/ worker' = [worker EXCEPT !.at = "launch"]
        BY <3>1 DEF WorkerPrepares
      <4> QED
        BY <4>1 DEF Body, Typed
    <3>2. CASE WorkerLaunchesHelper \/ WorkerTakesPrepared \/ WorkerOpensEncoder
      <4>1. \/ worker' = [worker EXCEPT !.at = "connect"]
            \/ worker' = [worker EXCEPT !.at = "encoder", !.prepared = FALSE]
            \/ worker' = [worker EXCEPT !.at = "start"]
        BY <3>2 DEF WorkerLaunchesHelper, WorkerTakesPrepared, WorkerOpensEncoder
      <4> QED
        BY <4>1 DEF Body, Typed
    <3>3. CASE WorkerBuildsBridge \/ WorkerOpensTexture
      BY <3>3 DEF Body, Typed, WorkerBuildsBridge, WorkerOpensTexture, Ready
    <3>4. CASE WorkerConnects \/ WorkerTakesHandle
      BY <3>4 DEF Body, Typed, WorkerConnects, WorkerTakesHandle
    <3> QED
      BY <1>1, <3>1, <3>2, <3>3, <3>4
  <2> QED
    BY <2>1, <2>2, <2>3, FewerSame DEF Unmoved, KeepsCapture, KeepsPlace
<1>2. CASE WorkerHearsHello
  <2>1. /\ UNCHANGED <<texture, helper, capture>> /\ worker'.at = "handle"
        /\ responses # <<>> /\ responses' = Tail(responses)
    BY <1>2 DEF Body, Typed, WorkerHearsHello
  <2> QED
    BY <2>1, FewerTail DEF Body, Typed, Unmoved, KeepsCapture, KeepsPlace
<1>3. CASE StreamStarts \/ WorkerReadsOrder
  <2>1. /\ RestartsCapture /\ UNCHANGED <<helper, responses>>
    BY <1>3 DEF Body, Typed, StreamStarts, WorkerReadsOrder
  <2>2. /\ worker'.at \in {"restarting", "orders"} /\ texture'.image = texture.image
        /\ capture' = Forgotten \/ capture' = [capture EXCEPT !.pending = None]
    BY <2>1 DEF Body, Typed, RestartsCapture, BeginsRestart, DuplicatesAnew, Discarded
  <2> QED
    BY <2>1, <2>2, FewerSame DEF Body, Typed, Unmoved, KeepsCapture, KeepsPlace, Forgotten
<1>4. CASE WorkerReadsRestart
  <2>1. /\ UNCHANGED helper /\ responses # <<>> /\ responses' = Tail(responses)
        /\ worker.at = "restarting"
    BY <1>4 DEF Body, Typed, WorkerReadsRestart
  <2>2. /\ worker' = worker \/ worker'.at = "orders"
        /\ texture' = texture \/ texture' = Discarded
        /\ capture' = capture \/ capture' = Forgotten
    <3> DEFINE a == Head(responses)
    <3>1. ~Secure /\ NoHello(responses) /\ responses \in Seq(Answers)
      BY <2>1 DEF Body, Typed, Alone, Streamed, InStream
    <3>2. a \in Answers /\ a.is # "hello"
      BY <2>1, <3>1, TailPipe DEF NoHello
    <3>3. \/ /\ a.result = "ok" /\ a.is = "frame" /\ texture' = Discarded /\ UNCHANGED <<worker, capture>>
          \/ /\ a.result = "ok" /\ a.is = "restart" /\ capture' = Forgotten /\ UNCHANGED texture
             /\ worker' = [worker EXCEPT !.at = "orders"]
      BY <1>4, <2>1, <3>2 DEF Body, Typed, WorkerReadsRestart, Answers
    <3> HIDE DEF a
    <3> QED
      BY <3>3 DEF Body, Typed
  <2>3. FewerFrames(responses, responses')
    BY <2>1, FewerTail DEF Body, Typed
  <2> QED
    BY <2>1, <2>2, <2>3 DEF Body, Typed, Unmoved, KeepsCapture, KeepsPlace, Forgotten, Discarded
<1>5. CASE WorkerTicks \/ WorkerHearsNothing
  <2>1. UNCHANGED <<texture, helper, responses, capture>>
    BY <1>5 DEF WorkerTicks, WorkerHearsNothing
  <2>2. worker'.at \in {"capture", "orders"} \/ (worker'.at = "encode" /\ capture.cached # None)
    BY <1>5 DEF Body, Typed, WorkerTicks, WorkerHearsNothing, AfterCapture
  <2> QED
    BY <2>1, <2>2, FewerSame DEF Unmoved, KeepsCapture, KeepsPlace
<1>6. CASE WorkerEncodes
  <2>1. UNCHANGED <<texture, helper, responses, capture>>
    BY <1>6 DEF WorkerEncodes
  <2>2. worker' = [worker EXCEPT !.at = "orders"]
    BY <1>6 DEF Body, Typed, WorkerEncodes
  <2>3. worker'.at = "orders"
    BY <2>2 DEF Body, Typed
  <2> QED
    BY <2>1, <2>3, FewerSame DEF Unmoved, KeepsCapture, KeepsPlace
<1> QED
  BY <1>1, <1>2, <1>3, <1>4, <1>5, <1>6 DEF WorkerElse

(* The steps that move an image: from the pool into the texture,           *)
LEMMA HelperChoosesImage == Body /\ ImagesTrue /\ HelperChooses => ImagesTrue'
<1> SUFFICES ASSUME Body, ImagesTrue, HelperChooses PROVE ImagesTrue'
  OBVIOUS
<1>1. /\ texture'.image = session.pool /\ helper'.at = "write" /\ helper'.image = session.pool
      /\ UNCHANGED <<responses, capture, worker>>
  BY DEF HelperChooses, pipes, workerVars
<1>2. texture.key = 0 /\ NoFrame(responses) /\ capture.pending = None /\ worker.at # "copy"
  BY DEF Body, Turns, HelperChooses
<1>3. session.pool \in Nat
  BY DEF Body, Typed, Fresh, None, Never, HelperChooses
<1> QED
  BY <1>1, <1>2, <1>3 DEF ImagesTrue, NoFrame

(* into the pipe,                                                          *)
LEMMA HelperAnnouncesImage == Body /\ ImagesTrue /\ HelperAnnounces => ImagesTrue'
<1> SUFFICES ASSUME Body, ImagesTrue, HelperAnnounces PROVE ImagesTrue'
  OBVIOUS
<1> DEFINE a == Answer("frame", "ok", helper.image)
<1>1. /\ helper.at = "write" /\ helper'.at = "peek" /\ responses' = Append(responses, a)
      /\ UNCHANGED <<texture, capture, worker>>
  BY DEF HelperAnnounces, workerVars
<1>2. a \in Answers /\ a.image = texture.image
  BY <1>1 DEF Body, Typed, ImagesTrue, Answer, Answers
<1>3. responses \in Seq(Answers)
  BY DEF Body, Typed
<1> HIDE DEF a
<1>4. /\ Len(responses') = Len(responses) + 1 /\ responses'[Len(responses) + 1] = a /\ Len(responses) \in Nat
      /\ \A i \in 1..Len(responses) : responses'[i] = responses[i]
  BY <1>1, <1>2, <1>3, AppendPipe
<1>5. \A i \in 1..Len(responses') : IsFrame(responses'[i]) => responses'[i].image = texture'.image
  BY <1>1, <1>2, <1>4 DEF ImagesTrue
<1> QED
  BY <1>1, <1>5 DEF ImagesTrue

(* out of it, into the worker's hands, and into its own texture.           *)
LEMMA WorkerTakesImage ==
  Body /\ Body' /\ ImagesTrue /\ (WorkerHears \/ WorkerAcquires \/ WorkerCopies \/ WorkerDuplicates) /\ worker'.at # "ended"
    => ImagesTrue'
<1> SUFFICES ASSUME Body, ImagesTrue, worker'.at # "ended",
                    WorkerHears \/ WorkerAcquires \/ WorkerCopies \/ WorkerDuplicates
             PROVE  ImagesTrue'
  OBVIOUS
<1> USE DEF pipes, service, Ends
<1>1. CASE WorkerHears
  <2> DEFINE a == Head(responses)
  <2>1. /\ worker.at = "capture" /\ responses # <<>> /\ responses' = Tail(responses)
        /\ UNCHANGED <<texture, helper, worker>>
        /\ IsFrame(a) /\ capture' = [capture EXCEPT !.pending = a.image]
    BY <1>1 DEF Body, Typed, WorkerHears, IsFrame
  <2>2. a = responses[1] /\ 1 \in 1..Len(responses) /\ FewerFrames(responses, responses')
    BY <2>1, TailPipe, FewerTail DEF Body, Typed
  <2>3. a.image = texture.image
    BY <2>1, <2>2 DEF ImagesTrue
  <2> HIDE DEF a
  <2>4. \A i \in 1..Len(responses') : IsFrame(responses'[i]) => responses'[i].image = texture'.image
    BY <2>1, <2>2 DEF ImagesTrue, FewerFrames
  <2> QED
    BY <2>1, <2>3, <2>4 DEF ImagesTrue
<1>2. CASE WorkerAcquires
  <2>1. /\ capture.pending # None /\ UNCHANGED <<helper, responses>>
        /\ texture'.image = texture.image /\ worker'.at = "copy"
        /\ capture' = [capture EXCEPT !.pending = None, !.held = capture.pending]
    BY <1>2 DEF Body, Typed, WorkerAcquires, Acquired
  <2> QED
    BY <2>1 DEF ImagesTrue
<1>3. CASE WorkerCopies
  <2>1. /\ worker.at = "copy" /\ UNCHANGED <<helper, responses>>
        /\ texture'.image = texture.image
        /\ worker'.at = "orders" \/ (worker'.at = "encode" /\ capture.held # None)
        /\ capture' = [capture EXCEPT !.held = None, !.cached = capture.held, !.content = texture.image]
    BY <1>3 DEF Body, Typed, WorkerCopies, GivenBack, AfterCapture
  <2> QED
    BY <2>1 DEF ImagesTrue
<1>4. CASE WorkerDuplicates
  <2> DEFINE image == IF session.pool = None THEN capture.cached ELSE session.pool
  <2>1. /\ UNCHANGED <<texture, helper, responses>>
        /\ capture' = [capture EXCEPT !.cached = image,
                                      !.content = IF session.pool = None THEN @ ELSE image]
        /\ worker'.at = "orders" \/ (worker'.at = "encode" /\ image # None)
    BY <1>4 DEF Body, Typed, WorkerDuplicates, AfterCapture
  <2>2. session.pool \in Nat
    BY DEF Body, Typed, Fresh, None, Never
  <2>3. /\ DOMAIN capture' = DOMAIN capture /\ capture'.pending = capture.pending /\ capture'.held = capture.held
        /\ capture'.cached = image
        /\ capture'.content = IF session.pool = None THEN capture.content ELSE image
    BY <2>1 DEF ImagesTrue
  <2>4. image \in Nat /\ (image # None => capture'.content = image) /\ capture'.content \in Nat
    BY <2>2, <2>3 DEF ImagesTrue
  <2> HIDE DEF image
  <2> QED
    BY <2>1, <2>3, <2>4 DEF ImagesTrue
<1> QED
  BY <1>1, <1>2, <1>3, <1>4

LEMMA ImagesKept == Body /\ Body' /\ ImagesTrue /\ [Next]_vars /\ worker'.at # "ended" => ImagesTrue'
<1> SUFFICES ASSUME Body, Body', ImagesTrue, [Next]_vars, worker'.at # "ended" PROVE ImagesTrue'
  OBVIOUS
<1>1. CASE Windows \/ WorkerStalls \/ EncoderHolds \/ MirrorLags \/ Service \/ Ended \/ UNCHANGED vars
  BY <1>1, AroundUnmoved, ImagesUnmoved
<1>2. CASE Helper \/ HelperRefuses \/ HelperDies \/ HelperGivesUp
  <2>1. HelperElse \/ HelperChooses \/ HelperAnnounces
    BY <1>2 DEF Helper, HelperElse, HelperBegins
  <2> QED
    BY <2>1, HelperUnmoved, ImagesUnmoved, HelperChoosesImage, HelperAnnouncesImage
<1>3. CASE Worker
  <2>1. WorkerElse \/ WorkerHears \/ WorkerAcquires \/ WorkerCopies \/ WorkerDuplicates
    BY <1>3 DEF Worker, WorkerElse
  <2> QED
    BY <2>1, WorkerUnmoved, ImagesUnmoved, WorkerTakesImage
<1>4. CASE WorkerRefuses
  BY <1>4, WorkerRefusesEnds DEF Body, Streaming
<1> QED
  BY <1>1, <1>2, <1>3, <1>4 DEF Next

-------------------------------------------------------------------------------
(* The stamps.  They run in a cycle that is longer than what is under way. *)

(* The stamp that is n before the next one. *)
Ago(next, n) == IF n <= next THEN next - n ELSE next + Stamps - n

LEMMA StampsType == MaxHeld \in Nat /\ Stamps = MaxHeld + 2 /\ Stamps \in Nat
BY ConstantsAssumption DEF Stamps

LEMMA NextStamp ==
  ASSUME NEW next \in 0..Stamps - 1
  PROVE  /\ (next + 1) % Stamps = (IF next + 1 = Stamps THEN 0 ELSE next + 1)
         /\ (next + 1) % Stamps \in 0..Stamps - 1
<1>1. \A s \in Nat : s > 0 => s % s = 0
  OBVIOUS
<1>2. \A s, x \in Nat : x < s => x % s = x
  OBVIOUS
<1>3. next \in Nat /\ next + 1 \in Nat /\ next + 1 <= Stamps /\ Stamps > 0
  BY StampsType
<1>4. CASE next + 1 = Stamps
  BY <1>1, <1>3, <1>4, StampsType
<1>5. CASE next + 1 # Stamps
  BY <1>2, <1>3, <1>5, StampsType
<1> QED
  BY <1>4, <1>5

LEMMA AgoShifts ==
  ASSUME NEW next \in 0..Stamps - 1, NEW n \in 0..Stamps - 1
  PROVE  Ago((next + 1) % Stamps, n + 1) = Ago(next, n)
<1> DEFINE after == (next + 1) % Stamps
<1>1. after = (IF next + 1 = Stamps THEN 0 ELSE next + 1)
  BY NextStamp
<1> HIDE DEF after
<1>2. Ago(after, n + 1) = Ago(next, n)
  BY <1>1, StampsType DEF Ago
<1> QED
  BY <1>2 DEF after

LEMMA AgoDiffers ==
  ASSUME NEW next \in 0..Stamps - 1, NEW n \in 1..Stamps, NEW m \in 1..Stamps, Ago(next, n) = Ago(next, m)
  PROVE  n = m
BY StampsType DEF Ago

(* The frames that are under way carry the last stamps, one after another; *)
(* the notes that wait for packets belong to the last of the frames; the   *)
(* picture that is under way shows the frame before them, and what waits   *)
(* for pictures waits for this one.                                        *)
Frames == [pts : Nat, image : Nat]
Notes == [pts : Nat, said : Nat, source : Nat]

Stamped(next, frames) ==
  \A i \in 1..Len(frames) : frames[i].pts = Ago(next, Len(frames) + 1 - i)
Suits(note, frame) ==
  note.pts = frame.pts /\ note.said = frame.image /\ note.source \in {None, frame.image}
Noted(frames, notes) ==
  /\ Len(notes) <= Len(frames)
  /\ \A j \in 1..Len(notes) : Suits(notes[j], frames[Len(frames) - Len(notes) + j])
Mirrored(next, frames, pictures, sources) ==
  /\ Len(pictures) <= 1
  /\ pictures # <<>> => pictures[1].pts = Ago(next, Len(frames) + 1)
  /\ \A waiting \in sources : pictures # <<>> /\ waiting = pictures[1]

CoderTyped ==
  /\ DOMAIN encoder = {"next", "inside", "metadata"} /\ encoder.next \in 0..Stamps - 1
  /\ encoder.inside \in Seq(Frames) /\ Len(encoder.inside) <= MaxHeld
  /\ encoder.metadata \in Seq(Notes)
  /\ DOMAIN mirror = {"sources", "inside"}
  /\ mirror.sources \subseteq Frames /\ mirror.inside \in Seq(Frames)
CoderTrue ==
  /\ CoderTyped
  /\ Stamped(encoder.next, encoder.inside) /\ Noted(encoder.inside, encoder.metadata)
  /\ Mirrored(encoder.next, encoder.inside, mirror.inside, mirror.sources)

LEMMA StampedAppend ==
  ASSUME NEW next \in 0..Stamps - 1, NEW frames \in Seq(Frames), Len(frames) <= MaxHeld, Stamped(next, frames),
         NEW frame \in Frames, frame.pts = next
  PROVE  Stamped((next + 1) % Stamps, Append(frames, frame))
<1> DEFINE all == Append(frames, frame)
           after == (next + 1) % Stamps
<1>1. /\ Len(frames) \in Nat /\ Len(all) = Len(frames) + 1 /\ all[Len(frames) + 1] = frame
      /\ \A i \in 1..Len(frames) : all[i] = frames[i]
  OBVIOUS
<1>2. \A n \in 0..Stamps - 1 : Ago(after, n + 1) = Ago(next, n)
  BY AgoShifts
<1>3. Ago(next, 0) = next
  BY DEF Ago
<1> HIDE DEF all, after
<1>4. ASSUME NEW i \in 1..Len(all) PROVE all[i].pts = Ago(after, Len(all) + 1 - i)
  <2>1. CASE i = Len(frames) + 1
    <3>1. Len(all) + 1 - i = 0 + 1 /\ 0 \in 0..Stamps - 1
      BY <1>1, <2>1, StampsType
    <3> QED
      BY <1>1, <1>2, <1>3, <2>1, <3>1
  <2>2. CASE i # Len(frames) + 1
    <3>1. /\ i \in 1..Len(frames) /\ Len(all) + 1 - i = (Len(frames) + 1 - i) + 1
          /\ Len(frames) + 1 - i \in 0..Stamps - 1
      BY <1>1, <2>2, StampsType
    <3>2. all[i].pts = Ago(next, Len(frames) + 1 - i)
      BY <1>1, <3>1 DEF Stamped
    <3> QED
      BY <1>2, <3>1, <3>2
  <2> QED
    BY <2>1, <2>2
<1> QED
  BY <1>4 DEF Stamped, all, after

LEMMA NotedAppend ==
  ASSUME NEW frames \in Seq(Frames), NEW notes \in Seq(Notes), Noted(frames, notes),
         NEW frame \in Frames, NEW note \in Notes, Suits(note, frame)
  PROVE  Noted(Append(frames, frame), Append(notes, note))
<1> DEFINE all == Append(frames, frame)
           every == Append(notes, note)
<1>1. /\ Len(frames) \in Nat /\ Len(all) = Len(frames) + 1 /\ all[Len(frames) + 1] = frame
      /\ \A i \in 1..Len(frames) : all[i] = frames[i]
  OBVIOUS
<1>2. /\ Len(notes) \in Nat /\ Len(every) = Len(notes) + 1 /\ every[Len(notes) + 1] = note
      /\ \A j \in 1..Len(notes) : every[j] = notes[j]
  OBVIOUS
<1> HIDE DEF all, every
<1>3. Len(every) <= Len(all)
  BY <1>1, <1>2 DEF Noted
<1>4. ASSUME NEW j \in 1..Len(every) PROVE Suits(every[j], all[Len(all) - Len(every) + j])
  <2>1. CASE j = Len(notes) + 1
    <3>1. Len(all) - Len(every) + j = Len(frames) + 1
      BY <1>1, <1>2, <2>1
    <3> QED
      BY <1>1, <1>2, <2>1, <3>1
  <2>2. CASE j # Len(notes) + 1
    <3>1. /\ j \in 1..Len(notes) /\ Len(all) - Len(every) + j = Len(frames) - Len(notes) + j
          /\ Len(frames) - Len(notes) + j \in 1..Len(frames)
      BY <1>1, <1>2, <2>2 DEF Noted
    <3>2. Suits(notes[j], frames[Len(frames) - Len(notes) + j])
      BY <3>1 DEF Noted
    <3> QED
      BY <1>1, <1>2, <3>1, <3>2
  <2> QED
    BY <2>1, <2>2
<1> QED
  BY <1>3, <1>4 DEF Noted, all, every

(* A note whose stamp is that of the first frame belongs to it.            *)
LEMMA FirstMatches ==
  ASSUME NEW next \in 0..Stamps - 1, NEW frames \in Seq(Frames), frames # <<>>, Len(frames) <= Stamps,
         NEW notes \in Seq(Notes), notes # <<>>, Stamped(next, frames), Noted(frames, notes),
         Head(notes).pts = Head(frames).pts
  PROVE  /\ Head(frames) \in Frames /\ Head(frames).pts = Ago(next, Len(frames))
         /\ Head(notes) \in Notes /\ Suits(Head(notes), Head(frames))
         /\ Tail(frames) \in Seq(Frames) /\ Len(Tail(frames)) = Len(frames) - 1 /\ Len(frames) \in Nat
         /\ Tail(notes) \in Seq(Notes)
         /\ Stamped(next, Tail(frames)) /\ Noted(Tail(frames), Tail(notes))
<1> DEFINE n == Len(frames)
           m == Len(notes)
<1>1. /\ n \in Nat /\ n > 0 /\ Head(frames) = frames[1] /\ Head(frames) \in Frames
      /\ Tail(frames) \in Seq(Frames) /\ Len(Tail(frames)) = n - 1
      /\ \A i \in 1..n - 1 : Tail(frames)[i] = frames[i + 1]
  OBVIOUS
<1>2. /\ m \in Nat /\ m > 0 /\ Head(notes) = notes[1] /\ Head(notes) \in Notes
      /\ Tail(notes) \in Seq(Notes) /\ Len(Tail(notes)) = m - 1
      /\ \A j \in 1..m - 1 : Tail(notes)[j] = notes[j + 1]
  OBVIOUS
<1>3. \A i \in 1..n : frames[i].pts = Ago(next, n + 1 - i)
  BY DEF Stamped
<1>4. m <= n /\ \A j \in 1..m : Suits(notes[j], frames[n - m + j])
  BY DEF Noted
<1> HIDE DEF n, m
<1>5. /\ 1 \in 1..n /\ 1 \in 1..m /\ n - m + 1 \in 1..n /\ n + 1 - 1 = n /\ n + 1 - (n - m + 1) = m
      /\ n \in 1..Stamps /\ m \in 1..Stamps
  BY <1>1, <1>2, <1>4, StampsType DEF n
<1>6. frames[1].pts = Ago(next, n) /\ frames[n - m + 1].pts = Ago(next, m)
  BY <1>3, <1>5
<1>7. n = m
  <2>1. notes[1].pts = frames[n - m + 1].pts
    BY <1>4, <1>5 DEF Suits
  <2>2. Ago(next, n) = Ago(next, m)
    BY <1>1, <1>2, <1>6, <2>1
  <2> QED
    BY <1>5, <2>2, AgoDiffers
<1>8. Suits(notes[1], frames[1])
  <2>1. n - m + 1 = 1
    BY <1>1, <1>7
  <2> QED
    BY <1>4, <1>5, <2>1
<1>9. Stamped(next, Tail(frames))
  <2>1. ASSUME NEW i \in 1..n - 1 PROVE Tail(frames)[i].pts = Ago(next, (n - 1) + 1 - i)
    <3>1. i + 1 \in 1..n /\ n + 1 - (i + 1) = (n - 1) + 1 - i
      BY <1>1
    <3> QED
      BY <1>1, <1>3, <3>1
  <2> QED
    BY <1>1, <2>1 DEF Stamped
<1>10. Noted(Tail(frames), Tail(notes))
  <2>1. ASSUME NEW j \in 1..m - 1 PROVE Suits(Tail(notes)[j], Tail(frames)[(n - 1) - (m - 1) + j])
    <3>1. /\ j + 1 \in 1..m /\ (n - 1) - (m - 1) + j = j /\ n - m + (j + 1) = j + 1 /\ j \in 1..n - 1
      BY <1>1, <1>2, <1>7
    <3>2. Suits(notes[j + 1], frames[j + 1])
      BY <1>4, <3>1
    <3> QED
      BY <1>1, <1>2, <3>1, <3>2
  <2>2. Len(Tail(notes)) <= Len(Tail(frames))
    BY <1>1, <1>2, <1>7
  <2> QED
    BY <1>1, <1>2, <2>1, <2>2 DEF Noted
<1> QED
  BY <1>1, <1>2, <1>6, <1>8, <1>9, <1>10 DEF n

LEMMA OnePicture ==
  ASSUME NEW S, NEW pictures \in Seq(S), pictures # <<>>, Len(pictures) <= 1, NEW packet \in S
  PROVE  LET inside == Append(pictures, packet)
         IN  /\ pictures[1] \in S
             /\ Len(inside) = 2 /\ Head(inside) = pictures[1] /\ Tail(inside) = <<packet>>
<1> DEFINE inside == Append(pictures, packet)
<1>1. Len(pictures) = 1 /\ pictures[1] \in S
  <2>1. Len(pictures) \in Nat /\ Len(pictures) > 0
    OBVIOUS
  <2>2. \A i \in 1..Len(pictures) : pictures[i] \in S
    OBVIOUS
  <2>3. Len(pictures) = 1
    BY <2>1
  <2> QED
    BY <2>2, <2>3
<1>2. Len(inside) = 2 /\ inside[1] = pictures[1] /\ inside[2] = packet /\ inside \in Seq(S)
  <2>1. /\ Len(inside) = Len(pictures) + 1 /\ inside[Len(pictures) + 1] = packet /\ inside \in Seq(S)
        /\ \A i \in 1..Len(pictures) : inside[i] = pictures[i]
    OBVIOUS
  <2> HIDE DEF inside
  <2> QED
    BY <1>1, <2>1
<1> HIDE DEF inside
<1>3. Head(inside) = inside[1] /\ Tail(inside) \in Seq(S) /\ Len(Tail(inside)) = 1 /\ Tail(inside)[1] = packet
  BY <1>2
<1>4. Tail(inside) = <<packet>>
  <2> DEFINE t == Tail(inside)
             one == <<packet>>
  <2>1. one \in Seq(S) /\ Len(one) = 1 /\ one[1] = packet
    OBVIOUS
  <2>2. t \in Seq(S) /\ Len(t) = 1 /\ t[1] = packet
    BY <1>3
  <2> HIDE DEF t, one
  <2>3. \A i \in 1..1 : t[i] = one[i]
    BY <2>1, <2>2
  <2>4. t = one
    BY <2>1, <2>2, <2>3, SeqEqual
  <2> QED
    BY <2>4 DEF t, one
<1> QED
  BY <1>1, <1>2, <1>3, <1>4 DEF inside

Pictured(stamp, pictures, sources) ==
  /\ pictures \in Seq(Frames) /\ sources \subseteq Frames /\ Len(pictures) <= 1
  /\ pictures # <<>> => pictures[1].pts = stamp
  /\ \A waiting \in sources : pictures # <<>> /\ waiting = pictures[1]
Sound(compared, packet) ==
  /\ DOMAIN compared.mirror = {"sources", "inside"}
  /\ compared.mirror.sources \subseteq Frames /\ compared.mirror.inside \in Seq(Frames)
  /\ Len(compared.mirror.inside) <= 1
  /\ compared.mirror.inside # <<>> => compared.mirror.inside[1] = packet
  /\ \A waiting \in compared.mirror.sources : compared.mirror.inside # <<>> /\ waiting = packet
  /\ compared.alike = TRUE

(* The picture that a decoder gives back: it belongs to the packet, or to  *)
(* the one before, and what waits for it waits for this picture.           *)
LEMMA ComparesTrue ==
  ASSUME NEW stamp, NEW packet \in Frames, packet.pts # stamp, NEW source \in {None, packet.image},
         Pictured(stamp, mirror.inside, mirror.sources)
  PROVE  Sound(Compared(source, packet), packet)
<1> DEFINE pictures == mirror.inside
           sources == Waiting(source, packet)
           inside == Append(pictures, packet)
<1>0. /\ pictures \in Seq(Frames) /\ mirror.sources \subseteq Frames /\ Len(pictures) <= 1
      /\ pictures # <<>> => pictures[1].pts = stamp
      /\ \A waiting \in mirror.sources : pictures # <<>> /\ waiting = pictures[1]
      /\ mirror.inside = pictures
  BY DEF Pictured
<1> USE <1>0
<1> HIDE DEF pictures
<1>1. sources \subseteq Frames /\ \A waiting \in sources : waiting \in mirror.sources \/ waiting = packet
  <2>1. source # None => [pts |-> packet.pts, image |-> source] = packet
    BY DEF Frames
  <2> QED
    BY <2>1 DEF Waiting
<1>2. CASE pictures = <<>>
  <2>1. inside = <<packet>> /\ Head(inside) = packet /\ Tail(inside) = <<>> /\ Len(inside) = 1
    BY <1>2
  <2>2. \A waiting \in sources : waiting = packet
    BY <1>1, <1>2
  <2>3. <<packet>> \in Seq(Frames) /\ <<>> \in Seq(Frames) /\ Len(<<packet>>) = 1 /\ <<packet>>[1] = packet
        /\ Len(<<>>) = 0 /\ <<packet>> # <<>>
    OBVIOUS
  <2> HIDE DEF sources, inside
  <2>4. CASE windows.fault = "lag"
    <3>1. Compared(source, packet) = [mirror |-> [sources |-> sources, inside |-> <<packet>>], alike |-> TRUE]
      BY <2>1, <2>4 DEF Compared, sources, inside
    <3> DEFINE c == Compared(source, packet)
    <3>2. /\ c.alike = TRUE /\ DOMAIN c.mirror = {"sources", "inside"}
          /\ c.mirror.sources = sources /\ c.mirror.inside = <<packet>>
      BY <3>1
    <3> HIDE DEF c
    <3>3. /\ c.mirror.sources \subseteq Frames /\ c.mirror.inside \in Seq(Frames) /\ Len(c.mirror.inside) <= 1
          /\ c.mirror.inside[1] = packet /\ c.mirror.inside # <<>>
      BY <1>1, <2>3, <3>2
    <3> QED
      BY <2>2, <3>2, <3>3 DEF c, Sound
  <2>5. CASE windows.fault # "lag"
    <3>1. Compared(source, packet) =
            [mirror |-> [sources |-> {waiting \in sources : waiting.pts # packet.pts}, inside |-> <<>>],
             alike |-> \A waiting \in sources : waiting.pts = packet.pts => waiting.image = packet.image]
      BY <2>1, <2>5 DEF Compared, sources, inside
    <3> DEFINE c == Compared(source, packet)
    <3>2. /\ c.alike = (\A waiting \in sources : waiting.pts = packet.pts => waiting.image = packet.image)
          /\ DOMAIN c.mirror = {"sources", "inside"} /\ c.mirror.inside = <<>>
          /\ c.mirror.sources = {waiting \in sources : waiting.pts # packet.pts}
      BY <3>1
    <3> HIDE DEF c
    <3>3. c.alike = TRUE /\ c.mirror.sources = {}
      BY <2>2, <3>2
    <3> QED
      BY <2>3, <3>2, <3>3 DEF c, Sound
  <2> QED
    BY <2>4, <2>5
<1>3. CASE pictures # <<>>
  <2> DEFINE q == pictures[1]
  <2>1. q \in Frames /\ Len(inside) = 2 /\ Head(inside) = q /\ Tail(inside) = <<packet>>
    BY <1>3, OnePicture
  <2>3. q.pts # packet.pts
    BY <1>3
  <2>4. \A waiting \in sources : waiting = q \/ waiting = packet
    <3> HIDE DEF sources, inside
    <3> QED
      BY <1>1
  <2>5. <<packet>> \in Seq(Frames) /\ Len(<<packet>>) = 1 /\ <<packet>>[1] = packet /\ <<packet>> # <<>>
    OBVIOUS
  <2>6. Compared(source, packet) =
            [mirror |-> [sources |-> {waiting \in sources : waiting.pts # q.pts}, inside |-> <<packet>>],
             alike |-> \A waiting \in sources : waiting.pts = q.pts => waiting.image = q.image]
    <3>1. Append(mirror.inside, packet) = inside /\ Waiting(source, packet) = sources
      OBVIOUS
    <3>2. Len(inside) # 1
      BY <2>1
    <3> HIDE DEF sources, inside, q
    <3> QED
      BY <2>1, <3>1, <3>2, Zenon DEF Compared
  <2> HIDE DEF sources, inside, q
  <2>7. {waiting \in sources : waiting.pts # q.pts} \subseteq {packet}
    BY <2>4
  <2>8. \A waiting \in sources : waiting.pts = q.pts => waiting.image = q.image
    BY <2>3, <2>4
  <2> DEFINE c == Compared(source, packet)
  <2>9. /\ c.alike = (\A waiting \in sources : waiting.pts = q.pts => waiting.image = q.image)
        /\ DOMAIN c.mirror = {"sources", "inside"} /\ c.mirror.inside = <<packet>>
        /\ c.mirror.sources = {waiting \in sources : waiting.pts # q.pts}
    BY <2>6
  <2> HIDE DEF c
  <2>10. c.alike = TRUE /\ c.mirror.sources \subseteq {packet} /\ c.mirror.sources \subseteq Frames
    BY <2>7, <2>8, <2>9
  <2>11. c.mirror.inside \in Seq(Frames) /\ Len(c.mirror.inside) = 1 /\ c.mirror.inside[1] = packet /\ c.mirror.inside # <<>>
    BY <2>5, <2>9
  <2> QED
    BY <2>9, <2>10, <2>11 DEF c, Sound
<1> QED
  BY <1>2, <1>3

(* The stamp that follows. *)
LEMMA AfterFields ==
  ASSUME NEW frames, NEW notes, NEW pictures
  PROVE  LET e == After(frames, notes, pictures)
         IN  /\ DOMAIN e = {"next", "inside", "metadata"} /\ e.inside = frames /\ e.metadata = notes
             /\ e.next = (IF frames \o notes \o pictures = <<>> THEN 0 ELSE (encoder.next + 1) % Stamps)
BY DEF After

LEMMA NothingLeft ==
  ASSUME NEW frames \in Seq(Frames), NEW notes \in Seq(Notes), NEW pictures \in Seq(Frames),
         frames \o notes \o pictures = <<>>
  PROVE  frames = <<>> /\ notes = <<>> /\ pictures = <<>>
<1>1. /\ Len(frames) \in Nat /\ Len(notes) \in Nat /\ Len(pictures) \in Nat
      /\ Len(frames \o notes \o pictures) = Len(frames) + Len(notes) + Len(pictures)
  OBVIOUS
<1>2. Len(frames) = 0 /\ Len(notes) = 0 /\ Len(pictures) = 0
  BY <1>1
<1> QED
  BY <1>2

LEMMA CoderEmpty == Stamped(0, <<>>) /\ Noted(<<>>, <<>>) /\ Mirrored(0, <<>>, <<>>, {})
BY DEF Stamped, Noted, Mirrored

(* A packet says when its image was taken, and its sample is sound.        *)
Packets == [image : Nat, said : Nat, alike : BOOLEAN]
PacketTrue(packet) == packet.image = packet.said /\ packet.alike

LEMMA WrittenTrue ==
  ASSUME TimesTrue, encoded \in Seq(Packets),
         NEW packet, NEW said, packet.image = said, packet.image \in Nat
  PROVE  LET queue == Written(packet, said, TRUE)
         IN  /\ queue \in Seq(Packets)
             /\ \A i \in DOMAIN queue : PacketTrue(queue[i])
<1> DEFINE P == Packets
           p == Packet(packet.image, said, TRUE)
           all == Append(encoded, p)
<1>1. p \in P /\ PacketTrue(p)
  BY DEF Packet, PacketTrue, Packets
<1>2. DOMAIN encoded = 1..Len(encoded) /\ \A i \in 1..Len(encoded) : PacketTrue(encoded[i])
  BY DEF TimesTrue, PacketTrue
<1> HIDE DEF p, P
<1>3. /\ all \in Seq(P) /\ Len(all) = Len(encoded) + 1 /\ Len(encoded) \in Nat /\ all[Len(encoded) + 1] = p
      /\ \A i \in 1..Len(encoded) : all[i] = encoded[i]
  BY <1>1 DEF P
<1> HIDE DEF all
<1>4. \A i \in 1..Len(all) : PacketTrue(all[i])
  BY <1>1, <1>2, <1>3
<1>5. Tail(all) \in Seq(P) /\ \A i \in 1..Len(Tail(all)) : i + 1 \in 1..Len(all) /\ Tail(all)[i] = all[i + 1]
  BY <1>3
<1>6. \A i \in 1..Len(Tail(all)) : PacketTrue(Tail(all)[i])
  BY <1>4, <1>5
<1>7. Written(packet, said, TRUE) = IF Len(all) > 2 THEN Tail(all) ELSE all
  BY DEF Written, all, p
<1>8. \A queue \in Seq(P) : DOMAIN queue = 1..Len(queue)
  OBVIOUS
<1> QED
  BY <1>3, <1>4, <1>5, <1>6, <1>7, <1>8 DEF P

LEMMA LongerByOne ==
  ASSUME NEW S, NEW s \in Seq(S), NEW x \in S
  PROVE  Append(s, x) \in Seq(S) /\ Append(s, x) # <<>> /\ Len(Append(s, x)) = Len(s) + 1 /\ Len(Append(s, x)) \in Nat
OBVIOUS

(* A frame goes in, with its note.                                         *)
LEMMA FrameGoesIn ==
  ASSUME CoderTrue, ImagesTrue, worker.at = "encode", NEW source \in Sampled
  PROVE  LET frame == [pts |-> encoder.next, image |-> capture.content]
             note == [pts |-> encoder.next, said |-> capture.cached, source |-> source]
             all == Append(encoder.inside, frame)
             every == Append(encoder.metadata, note)
             next == (encoder.next + 1) % Stamps
         IN  /\ all \in Seq(Frames) /\ all # <<>> /\ Len(all) = Len(encoder.inside) + 1 /\ Len(all) \in Nat
             /\ every \in Seq(Notes) /\ every # <<>>
             /\ next \in 0..Stamps - 1 /\ Stamped(next, all) /\ Noted(all, every)
             /\ mirror.inside # <<>> => mirror.inside[1].pts = Ago(next, Len(all) + 1)
<1> DEFINE frame == [pts |-> encoder.next, image |-> capture.content]
           note == [pts |-> encoder.next, said |-> capture.cached, source |-> source]
           all == Append(encoder.inside, frame)
           every == Append(encoder.metadata, note)
           next == (encoder.next + 1) % Stamps
<1>1. /\ encoder.next \in 0..Stamps - 1 /\ encoder.inside \in Seq(Frames) /\ Len(encoder.inside) <= MaxHeld
      /\ encoder.metadata \in Seq(Notes) /\ Stamped(encoder.next, encoder.inside)
      /\ Noted(encoder.inside, encoder.metadata)
  BY DEF CoderTrue, CoderTyped
<1>2. capture.content \in Nat /\ capture.cached = capture.content /\ source \in {None, capture.content}
  BY DEF ImagesTrue, Sampled
<1>3. frame \in Frames /\ frame.pts = encoder.next /\ note \in Notes /\ Suits(note, frame)
  <2>1. encoder.next \in Nat /\ source \in Nat
    BY <1>1, <1>2, StampsType DEF None
  <2> QED
    BY <1>2, <2>1 DEF Frames, Notes, Suits
<1> HIDE DEF frame, note
<1>4. /\ all \in Seq(Frames) /\ all # <<>> /\ Len(all) = Len(encoder.inside) + 1 /\ Len(all) \in Nat
  BY <1>1, <1>3, LongerByOne
<1>5. every \in Seq(Notes) /\ every # <<>>
  BY <1>1, <1>3, LongerByOne
<1>6. next \in 0..Stamps - 1
  BY <1>1, NextStamp
<1>7. Stamped(next, all)
  BY <1>1, <1>3, StampedAppend
<1>8. Noted(all, every)
  BY <1>1, <1>3, NotedAppend
<1>9. mirror.inside # <<>> => mirror.inside[1].pts = Ago(next, Len(all) + 1)
  <2>1. Len(encoder.inside) + 1 \in 0..Stamps - 1 /\ Len(all) + 1 = (Len(encoder.inside) + 1) + 1
    BY <1>1, <1>4, StampsType
  <2>2. Ago(next, (Len(encoder.inside) + 1) + 1) = Ago(encoder.next, Len(encoder.inside) + 1)
    BY <1>1, <2>1, AgoShifts
  <2> QED
    BY <2>1, <2>2 DEF CoderTrue, Mirrored
<1> QED
  BY <1>4, <1>5, <1>6, <1>7, <1>8, <1>9 DEF frame, note

(* The encoder keeps it back; with more notes than two it starts over.     *)
LEMMA KeptBack ==
  ASSUME CoderTrue, NEW all \in Seq(Frames), all # <<>>, Len(all) <= MaxHeld, NEW every \in Seq(Notes),
         LET next == (encoder.next + 1) % Stamps
         IN  /\ next \in 0..Stamps - 1 /\ Stamped(next, all) /\ Noted(all, every)
             /\ mirror.inside # <<>> => mirror.inside[1].pts = Ago(next, Len(all) + 1),
         \/ mirror' = MirrorOpened /\ encoder' = After(<<>>, <<>>, <<>>)
         \/ mirror' = mirror /\ encoder' = After(all, every, mirror.inside)
  PROVE  CoderTrue'
<1>1. CASE mirror' = MirrorOpened /\ encoder' = After(<<>>, <<>>, <<>>)
  <2>1. <<>> \o <<>> \o <<>> = <<>> /\ <<>> \in Seq(Frames) /\ <<>> \in Seq(Notes) /\ Len(<<>>) = 0
    OBVIOUS
  <2>2. /\ DOMAIN encoder' = {"next", "inside", "metadata"} /\ encoder'.inside = <<>> /\ encoder'.metadata = <<>>
        /\ encoder'.next = 0
    BY <1>1, <2>1, AfterFields
  <2>3. DOMAIN mirror' = {"sources", "inside"} /\ mirror'.sources = {} /\ mirror'.inside = <<>>
    BY <1>1 DEF MirrorOpened
  <2> QED
    BY <2>1, <2>2, <2>3, CoderEmpty, StampsType DEF CoderTrue, CoderTyped
<1>2. CASE mirror' = mirror /\ encoder' = After(all, every, mirror.inside)
  <2> DEFINE next == (encoder.next + 1) % Stamps
  <2>1. mirror.inside \in Seq(Frames) /\ mirror.sources \subseteq Frames /\ DOMAIN mirror = {"sources", "inside"}
    BY DEF CoderTrue, CoderTyped
  <2>2. all \o every \o mirror.inside # <<>>
    BY <2>1, NothingLeft
  <2>3. /\ DOMAIN encoder' = {"next", "inside", "metadata"} /\ encoder'.inside = all /\ encoder'.metadata = every
        /\ encoder'.next = next
    BY <1>2, <2>2, AfterFields
  <2>4. /\ next \in 0..Stamps - 1 /\ Stamped(next, all) /\ Noted(all, every)
        /\ mirror.inside # <<>> => mirror.inside[1].pts = Ago(next, Len(all) + 1)
    OBVIOUS
  <2> HIDE DEF next
  <2>5. Mirrored(next, all, mirror.inside, mirror.sources)
    BY <2>4 DEF CoderTrue, Mirrored
  <2> QED
    BY <1>2, <2>1, <2>3, <2>4, <2>5 DEF CoderTrue, CoderTyped
<1> QED
  BY <1>1, <1>2

(* The first frame comes out as a packet and takes the first note along.   *)
LEMMA ComesOut ==
  ASSUME CoderTrue, TimesTrue, encoded \in Seq(Packets),
         NEW all \in Seq(Frames), all # <<>>, Len(all) <= MaxHeld + 1, NEW every \in Seq(Notes), every # <<>>,
         NEW packet, packet = Head(all), NEW note, note = Head(every), NEW source, source = note.source,
         LET next == (encoder.next + 1) % Stamps
         IN  /\ next \in 0..Stamps - 1 /\ Stamped(next, all) /\ Noted(all, every)
             /\ mirror.inside # <<>> => mirror.inside[1].pts = Ago(next, Len(all) + 1),
         Head(every).pts = Head(all).pts,
         mirror' = Compared(source, packet).mirror,
         encoder' = After(Tail(all), Tail(every), mirror'.inside),
         encoded' = Written(packet, note.said, Compared(source, packet).alike)
  PROVE  CoderTrue' /\ TimesTrue' /\ encoded' \in Seq(Packets)
<1> DEFINE next == (encoder.next + 1) % Stamps
           frames == Tail(all)
           notes == Tail(every)
<1>1. /\ next \in 0..Stamps - 1 /\ Stamped(next, all) /\ Noted(all, every)
      /\ mirror.inside # <<>> => mirror.inside[1].pts = Ago(next, Len(all) + 1)
  OBVIOUS
<1> HIDE DEF next
<1>2. Len(all) <= Stamps
  <2>1. Len(all) \in Nat
    OBVIOUS
  <2> QED
    BY <2>1, StampsType
<1>3. /\ packet \in Frames /\ packet.pts = Ago(next, Len(all)) /\ note \in Notes /\ Suits(note, packet)
      /\ frames \in Seq(Frames) /\ Len(frames) = Len(all) - 1 /\ Len(all) \in Nat /\ notes \in Seq(Notes)
      /\ Stamped(next, frames) /\ Noted(frames, notes)
  BY <1>1, <1>2, FirstMatches
<1>4. Len(frames) \in 0..MaxHeld /\ Len(all) = Len(frames) + 1 /\ Len(all) + 1 = Len(frames) + 2
  <2>1. Len(frames) \in Nat
    BY <1>3
  <2> QED
    BY <1>3, <2>1, StampsType
<1> HIDE DEF frames, notes
<1>5. /\ source \in {None, packet.image} /\ note.said = packet.image /\ packet.image \in Nat
  BY <1>3 DEF Suits, Frames
<1>6. /\ mirror.inside \in Seq(Frames) /\ mirror.sources \subseteq Frames /\ Len(mirror.inside) <= 1
      /\ \A waiting \in mirror.sources : mirror.inside # <<>> /\ waiting = mirror.inside[1]
  BY DEF CoderTrue, CoderTyped, Mirrored
<1>7. mirror' = Compared(source, packet).mirror
  OBVIOUS
<1>8. /\ DOMAIN mirror' = {"sources", "inside"} /\ mirror'.sources \subseteq Frames /\ mirror'.inside \in Seq(Frames)
      /\ Len(mirror'.inside) <= 1 /\ (mirror'.inside # <<>> => mirror'.inside[1] = packet)
      /\ \A waiting \in mirror'.sources : mirror'.inside # <<>> /\ waiting = packet
      /\ Compared(source, packet).alike = TRUE
  <2>1. packet.pts = Ago(next, Len(frames) + 1)
    BY <1>3, <1>4
  <2>2. mirror.inside # <<>> => mirror.inside[1].pts = Ago(next, Len(frames) + 2)
    BY <1>1, <1>4
  <2> DEFINE stamp == Ago(next, Len(frames) + 2)
             c == Compared(source, packet)
  <2>3. packet.pts # stamp
    <3>1. Len(frames) + 1 \in 1..Stamps /\ Len(frames) + 2 \in 1..Stamps /\ Len(frames) + 1 # Len(frames) + 2
      BY <1>4, StampsType
    <3> QED
      BY <1>1, <2>1, <3>1, AgoDiffers
  <2>4. Pictured(stamp, mirror.inside, mirror.sources)
    BY <1>6, <2>2 DEF Pictured
  <2> HIDE DEF stamp
  <2>5. Sound(c, packet)
    BY <1>3, <1>5, <2>3, <2>4, ComparesTrue
  <2>6. mirror' = c.mirror
    BY <1>7
  <2> HIDE DEF c
  <2> QED
    BY <2>5, <2>6 DEF c, Sound
<1>9. /\ DOMAIN encoder' = {"next", "inside", "metadata"} /\ encoder'.inside = frames /\ encoder'.metadata = notes
      /\ encoder'.next = (IF frames \o notes \o mirror'.inside = <<>> THEN 0 ELSE next)
  <2>1. encoder' = After(frames, notes, mirror'.inside)
    BY DEF frames, notes
  <2> QED
    BY <2>1, AfterFields DEF next
<1>10. Mirrored(next, frames, mirror'.inside, mirror'.sources)
  BY <1>3, <1>4, <1>8 DEF Mirrored
<1>11. /\ encoder'.next \in 0..Stamps - 1 /\ Stamped(encoder'.next, frames) /\ Noted(frames, notes)
       /\ Mirrored(encoder'.next, frames, mirror'.inside, mirror'.sources)
  <2>1. CASE frames \o notes \o mirror'.inside = <<>>
    <3>1. frames = <<>> /\ notes = <<>> /\ mirror'.inside = <<>>
      BY <1>3, <1>8, <2>1, NothingLeft
    <3>2. mirror'.sources = {}
      BY <1>8, <3>1
    <3>3. encoder'.next = 0 /\ 0 \in 0..Stamps - 1
      BY <1>9, <2>1, StampsType
    <3> QED
      BY <3>1, <3>2, <3>3, CoderEmpty
  <2>2. CASE frames \o notes \o mirror'.inside # <<>>
    BY <1>1, <1>3, <1>9, <1>10, <2>2
  <2> QED
    BY <2>1, <2>2
<1>12. CoderTrue'
  <2>1. Len(frames) <= MaxHeld
    BY <1>4, StampsType
  <2>2. CoderTyped'
    BY <1>3, <1>8, <1>9, <1>11, <2>1 DEF CoderTyped
  <2> QED
    BY <1>9, <1>11, <2>2 DEF CoderTrue
<1>13. encoded' = Written(packet, note.said, TRUE)
  BY <1>8
<1>14. encoded' \in Seq(Packets) /\ \A i \in DOMAIN encoded' : PacketTrue(encoded'[i])
  BY <1>5, <1>13, WrittenTrue
<1>15. TimesTrue'
  BY <1>14 DEF TimesTrue, PacketTrue
<1> QED
  BY <1>12, <1>14, <1>15

LEMMA EncodesTrue ==
  ASSUME Typed, CoderTrue, ImagesTrue, TimesTrue, encoded \in Seq(Packets), WorkerEncodes
  PROVE  /\ TimesTrue' /\ encoded' \in Seq(Packets)
         /\ worker'.at # "ended" => CoderTrue'
<1> DEFINE frame == [pts |-> encoder.next, image |-> capture.content]
           note(source) == [pts |-> encoder.next, said |-> capture.cached, source |-> source]
           all == Append(encoder.inside, frame)
           every(source) == Append(encoder.metadata, note(source))
           compared(source) == Compared(Head(every(source)).source, Head(all))
<1>1. PICK source \in Sampled :
        \/ /\ KeepsBack(all) /\ encoded' = encoded
           /\ \/ mirror' = MirrorOpened /\ encoder' = After(<<>>, <<>>, <<>>)
              \/ mirror' = mirror /\ encoder' = After(all, every(source), mirror.inside)
        \/ /\ Matches(every(source), Head(all))
           /\ mirror' = compared(source).mirror
           /\ encoder' = After(Tail(all), Tail(every(source)), mirror'.inside)
           /\ encoded' = Written(Head(all), Head(every(source)).said, compared(source).alike)
        \/ Ends("failed") /\ encoded' = encoded
  BY DEF WorkerEncodes
<1>2. worker.at = "encode"
  BY DEF WorkerEncodes
<1>3. LET next == (encoder.next + 1) % Stamps
      IN  /\ all \in Seq(Frames) /\ all # <<>> /\ Len(all) = Len(encoder.inside) + 1 /\ Len(all) \in Nat
          /\ every(source) \in Seq(Notes) /\ every(source) # <<>>
          /\ next \in 0..Stamps - 1 /\ Stamped(next, all) /\ Noted(all, every(source))
          /\ mirror.inside # <<>> => mirror.inside[1].pts = Ago(next, Len(all) + 1)
  BY <1>2, FrameGoesIn
<1>4. PICK al, ev, packet, first, sample :
        al = all /\ ev = every(source) /\ packet = Head(all) /\ first = Head(every(source)) /\ sample = first.source
  OBVIOUS
<1>5. \/ /\ KeepsBack(al) /\ encoded' = encoded
         /\ \/ mirror' = MirrorOpened /\ encoder' = After(<<>>, <<>>, <<>>)
            \/ mirror' = mirror /\ encoder' = After(al, ev, mirror.inside)
      \/ /\ Matches(ev, packet)
         /\ mirror' = Compared(sample, packet).mirror
         /\ encoder' = After(Tail(al), Tail(ev), mirror'.inside)
         /\ encoded' = Written(packet, first.said, Compared(sample, packet).alike)
      \/ Ends("failed") /\ encoded' = encoded
  BY <1>1, <1>4
<1>6. LET next == (encoder.next + 1) % Stamps
      IN  /\ al \in Seq(Frames) /\ al # <<>> /\ Len(al) <= MaxHeld + 1 /\ ev \in Seq(Notes) /\ ev # <<>>
          /\ next \in 0..Stamps - 1 /\ Stamped(next, al) /\ Noted(al, ev)
          /\ mirror.inside # <<>> => mirror.inside[1].pts = Ago(next, Len(al) + 1)
  <2>1. Len(encoder.inside) <= MaxHeld /\ Len(encoder.inside) \in Nat
    BY DEF CoderTrue, CoderTyped
  <2>2. Len(al) <= MaxHeld + 1
    BY <1>3, <1>4, <2>1, StampsType
  <2> QED
    BY <1>3, <1>4, <2>2
<1>7. packet = Head(al) /\ first = Head(ev) /\ sample = first.source
  BY <1>4
<1> HIDE DEF frame, note, all, every, compared
<1>8. CASE /\ KeepsBack(al) /\ encoded' = encoded
           /\ \/ mirror' = MirrorOpened /\ encoder' = After(<<>>, <<>>, <<>>)
              \/ mirror' = mirror /\ encoder' = After(al, ev, mirror.inside)
  <2>1. Len(al) <= MaxHeld
    BY <1>8 DEF KeepsBack
  <2>2. CoderTrue'
    BY <1>6, <1>8, <2>1, KeptBack
  <2> QED
    BY <1>8, <2>2 DEF TimesTrue
<1>9. CASE /\ Matches(ev, packet)
           /\ mirror' = Compared(sample, packet).mirror
           /\ encoder' = After(Tail(al), Tail(ev), mirror'.inside)
           /\ encoded' = Written(packet, first.said, Compared(sample, packet).alike)
  <2>1. Head(ev).pts = Head(al).pts
    BY <1>7, <1>9 DEF Matches
  <2> QED
    BY <1>6, <1>7, <1>9, <2>1, ComesOut
<1>10. CASE Ends("failed") /\ encoded' = encoded
  <2>1. worker'.at = "ended"
    BY <1>10 DEF Ends, Typed
  <2> QED
    BY <1>10, <2>1 DEF TimesTrue
<1> QED
  BY <1>5, <1>8, <1>9, <1>10

(* The other steps leave the encoder and the diagnostics alone, or forget  *)
(* what waits.                                                             *)
LEMMA CoderElse ==
  ASSUME HandoffInv, [Next]_vars, ~WorkerEncodes
  PROVE  /\ UNCHANGED coder \/ RestForgotten
         /\ encoded' = encoded \/ (encoded # <<>> /\ encoded' = Tail(encoded))
<1> USE DEF workerVars
<1>1. CASE Windows \/ Helper \/ HelperRefuses \/ HelperDies \/ HelperGivesUp
  BY <1>1 DEF Windows, Present, DisplayChanges, SessionFreezes, Helper, HelperConnects, HelperSelects, HelperBuildsSource,
              HelperSharesTexture, HelperBuildsShader, HelperBuildsProcessor, HelperStartsCapture, HelperConfigured,
              HelperRestarts, HelperFindsChange, HelperCaptures, HelperOwns, HelperChooses, HelperFindsNothing,
              HelperAnnounces, HelperRefuses, HelperDies, HelperGivesUp
<1>2. CASE StreamStarts \/ WorkerReadsOrder
  <2>1. RestartsCapture => UNCHANGED coder \/ RestForgotten
    BY DEF RestartsCapture, BeginsRestart, DuplicatesAnew
  <2> QED
    BY <1>2, <2>1 DEF StreamStarts, WorkerReadsOrder
<1>3. CASE WorkerReadsRestart
  <2> DEFINE a == Head(responses)
  <2>1. Body /\ worker.at = "restarting"
    BY <1>3 DEF WorkerReadsRestart, HandoffInv, Streaming
  <2>2. responses = <<>> \/ (a \in Answers /\ a.is # "hello")
    <3>1. responses \in Seq(Answers) /\ NoHello(responses)
      BY <2>1 DEF Body, Typed, Streamed, Alone, InStream
    <3> QED
      BY <3>1, TakeAnswer
  <2>3. responses # <<>> /\ a.result = "ok" => a.is \in {"frame", "restart"}
    BY <2>2 DEF Answers
  <2>4. encoded' = encoded /\ (UNCHANGED coder \/ RestForgotten)
    BY <1>3, <2>3 DEF WorkerReadsRestart
  <2> QED
    BY <2>4
<1>4. CASE Worker /\ ~StreamStarts /\ ~WorkerReadsOrder /\ ~WorkerReadsRestart
  BY <1>4 DEF Worker, WorkerPrepares, WorkerBuildsBridge, WorkerLaunchesHelper, WorkerConnects, WorkerHearsHello,
              WorkerTakesHandle, WorkerOpensTexture, WorkerTakesPrepared, WorkerOpensEncoder, WorkerTicks,
              WorkerDuplicates, WorkerHears, WorkerHearsNothing, WorkerAcquires, WorkerCopies
<1>5. CASE WorkerRefuses \/ WorkerStalls \/ EncoderHolds \/ MirrorLags
  BY <1>5 DEF WorkerRefuses, WorkerStalls, EncoderHolds, MirrorLags
<1>6. CASE Service
  BY <1>6 DEF Service, LaunchSystem, OrderStart, OrderStop, PointerMoves, TimePasses, Observe
<1>7. CASE Ended \/ UNCHANGED vars
  BY <1>7 DEF Ended, vars
<1> QED
  BY <1>1, <1>2, <1>3, <1>4, <1>5, <1>6, <1>7 DEF Next

LEMMA CoderKept ==
  ASSUME CoderTrue, UNCHANGED coder \/ RestForgotten
  PROVE  CoderTrue'
<1>1. CASE UNCHANGED coder
  BY <1>1 DEF coder, CoderTrue, CoderTyped
<1>2. CASE RestForgotten
  <2>1. /\ DOMAIN encoder' = DOMAIN encoder /\ encoder'.next = encoder.next /\ encoder'.inside = encoder.inside
        /\ encoder'.metadata = <<>>
        /\ DOMAIN mirror' = DOMAIN mirror /\ mirror'.inside = mirror.inside /\ mirror'.sources = {}
    BY <1>2 DEF RestForgotten, CoderTrue, CoderTyped
  <2>2. <<>> \in Seq(Notes) /\ Len(<<>>) = 0
    OBVIOUS
  <2>3. CoderTyped'
    BY <2>1, <2>2 DEF CoderTrue, CoderTyped
  <2>4. Noted(encoder.inside, <<>>)
    <3>1. Len(encoder.inside) \in Nat
      BY DEF CoderTrue, CoderTyped
    <3> QED
      BY <2>2, <3>1 DEF Noted
  <2>5. Mirrored(encoder.next, encoder.inside, mirror.inside, {})
    BY DEF CoderTrue, Mirrored
  <2> QED
    BY <2>1, <2>3, <2>4, <2>5 DEF CoderTrue
<1> QED
  BY <1>1, <1>2

LEMMA PacketsKept ==
  ASSUME TimesTrue, encoded \in Seq(Packets), encoded' = encoded \/ (encoded # <<>> /\ encoded' = Tail(encoded))
  PROVE  TimesTrue' /\ encoded' \in Seq(Packets)
<1>1. CASE encoded' = encoded
  BY <1>1 DEF TimesTrue
<1>2. CASE encoded # <<>> /\ encoded' = Tail(encoded)
  <2>1. /\ Tail(encoded) \in Seq(Packets) /\ Len(Tail(encoded)) = Len(encoded) - 1 /\ Len(encoded) \in Nat
        /\ \A i \in 1..Len(encoded) - 1 : Tail(encoded)[i] = encoded[i + 1]
    BY <1>2
  <2>2. DOMAIN encoded = 1..Len(encoded) /\ DOMAIN Tail(encoded) = 1..Len(Tail(encoded))
    BY <2>1
  <2>3. \A i \in DOMAIN Tail(encoded) : i + 1 \in DOMAIN encoded /\ Tail(encoded)[i] = encoded[i + 1]
    BY <2>1, <2>2
  <2>4. \A i \in DOMAIN Tail(encoded) : Tail(encoded)[i].image = Tail(encoded)[i].said /\ Tail(encoded)[i].alike
    BY <2>3 DEF TimesTrue
  <2> QED
    BY <1>2, <2>1, <2>4 DEF TimesTrue
<1> QED
  BY <1>1, <1>2

-------------------------------------------------------------------------------
(* All of it together.                                                     *)

TimesInv ==
  /\ TimesTrue /\ encoded \in Seq(Packets)
  /\ Streaming => ImagesTrue /\ CoderTrue

LEMMA TimesAtFirst == Init => TimesInv
<1> SUFFICES ASSUME Init PROVE TimesInv
  OBVIOUS
<1>1. encoded \in Seq(Packets) /\ TimesTrue
  BY DEF Init, TimesTrue
<1>2. ImagesTrue
  BY DEF Init, ImagesTrue, None
<1>3. /\ DOMAIN encoder = {"next", "inside", "metadata"} /\ encoder.next = 0 /\ encoder.inside = <<>> /\ encoder.metadata = <<>>
      /\ DOMAIN mirror = {"sources", "inside"} /\ mirror.sources = {} /\ mirror.inside = <<>>
  BY DEF Init, MirrorOpened
<1>4. <<>> \in Seq(Frames) /\ <<>> \in Seq(Notes) /\ Len(<<>>) = 0
  OBVIOUS
<1>5. CoderTrue
  BY <1>3, <1>4, CoderEmpty, StampsType DEF CoderTrue, CoderTyped
<1> QED
  BY <1>1, <1>2, <1>5 DEF TimesInv

LEMMA TimesInductive == HandoffInv /\ HandoffInv' /\ TimesInv /\ [Next]_vars => TimesInv'
<1> SUFFICES ASSUME HandoffInv, HandoffInv', TimesInv, [Next]_vars PROVE TimesInv'
  OBVIOUS
<1>1. CASE ~Streaming
  <2>1. ~Streaming'
    BY <1>1, NothingAfterEnd
  <2>2. ~WorkerEncodes
    BY <1>1 DEF WorkerEncodes, Streaming
  <2>3. TimesTrue' /\ encoded' \in Seq(Packets)
    BY <2>2, CoderElse, PacketsKept DEF TimesInv
  <2> QED
    BY <2>1, <2>3 DEF TimesInv
<1>2. CASE Streaming
  <2>1. Body /\ ImagesTrue /\ CoderTrue /\ TimesTrue /\ encoded \in Seq(Packets)
    BY <1>2 DEF HandoffInv, TimesInv
  <2>2. TimesTrue' /\ encoded' \in Seq(Packets) /\ (worker'.at # "ended" => CoderTrue')
    <3>1. CASE WorkerEncodes
      BY <2>1, <3>1, EncodesTrue DEF Body
    <3>2. CASE ~WorkerEncodes
      BY <2>1, <3>2, CoderElse, CoderKept, PacketsKept
    <3> QED
      BY <3>1, <3>2
  <2>3. worker'.at # "ended" => ImagesTrue'
    BY <2>1, ImagesKept DEF HandoffInv, Streaming
  <2> QED
    BY <2>2, <2>3 DEF TimesInv, Streaming
<1> QED
  BY <1>1, <1>2

(* A packet that reaches the service shows the image whose time it is sent *)
(* with, whatever the encoder keeps back and however often the capture     *)
(* restarts meanwhile, and a quality sample compares an image with its own *)
(* picture (gpu_encode.rs, encode_next_frame and the diagnostics), however *)
(* many frames the encoder may keep back.                                  *)
THEOREM TimesTrueAlways == Spec => []TimesTrue
<1>1. TimesInv => TimesTrue
  BY DEF TimesInv
<1> QED
  BY <1>1, HandoffAtFirst, HandoffInductive, TimesAtFirst, TimesInductive, PTL DEF Spec

=============================================================================
