-------------------------- MODULE RemoteInputProofs --------------------------
(* Proofs about RemoteInput, for every set of controls and every bound. *)
EXTENDS RemoteInput, SequenceTheorems, TLAPS

-----------------------------------------------------------------------------
(* Events, reports and packs. *)

LEMMA Bounds ==
  /\ MaxActions \in Nat /\ MaxFaults \in Nat /\ MaxSessions \in Nat \ {0}
  /\ ChannelSize \in Nat \ {0} /\ QueueSize \in Nat \ {0} /\ PackSize \in Nat \ {0}
BY ConstantsAssumption

LEMMA StateFields ==
  ASSUME NEW s \in States
  PROVE  /\ s.keys \subseteq Keys /\ s.buttons \subseteq Buttons
         /\ s = [keys |-> s.keys, buttons |-> s.buttons]
BY DEF States

LEMMA NothingType == Nothing \in States
BY DEF Nothing, States

LEMMA EventsAreEvents ==
  /\ \A c \in Controls : Press(c) \in Events /\ Release(c) \in Events
  /\ Move \in Events /\ ReleaseAll \in Events
BY DEF Events, Press, Release

(* An event's effect is again a state. *)
LEMMA EffectType ==
  ASSUME NEW s \in States, NEW e \in Events
  PROVE  Effect(s, e) \in States
<1>1. CASE e \in [kind : {"press", "release"}, control : Controls]
  <2>1. e.kind \in {"press", "release"} /\ e.control \in Controls
    BY <1>1
  <2>2. CASE e.control \in Keys
    <3>1. [s EXCEPT !["keys"] = @ \union {e.control}] \in States
      BY <2>2 DEF States
    <3>2. [s EXCEPT !["keys"] = @ \ {e.control}] \in States
      BY <2>2 DEF States
    <3> QED
      BY <2>1, <2>2, <3>1, <3>2 DEF Effect, Field
  <2>3. CASE e.control \notin Keys
    <3>0. e.control \in Buttons
      BY <2>1, <2>3 DEF Controls
    <3>1. [s EXCEPT !["buttons"] = @ \union {e.control}] \in States
      BY <3>0 DEF States
    <3>2. [s EXCEPT !["buttons"] = @ \ {e.control}] \in States
      BY <3>0 DEF States
    <3> QED
      BY <2>1, <2>3, <3>1, <3>2 DEF Effect, Field
  <2> QED
    BY <2>2, <2>3
<1>2. CASE e = Move
  BY <1>2 DEF Effect, Move
<1>3. CASE e = ReleaseAll
  BY <1>3, NothingType DEF Effect, ReleaseAll
<1> QED
  BY <1>1, <1>2, <1>3 DEF Events

(* A call that succeeds leaves the device where it leaves the session, if  *)
(* both were together; every outcome is made of states.                    *)
Faithful(s, dev, r) ==
  /\ r.state \in States /\ r.device \in States /\ r.ok \in BOOLEAN
  /\ r.ok /\ dev = s => r.device = r.state

(* A report that is taken, refused, or taken without its signal. *)
LEMMA SubmitFaithful ==
  ASSUME NEW s \in States, NEW dev \in States, NEW after \in States,
         NEW reported \in States, dev = s => reported = after,
         NEW r \in Submit(s, after, dev, reported)
  PROVE  /\ Faithful(s, dev, r)
         /\ r.ok => r.state = after
<1>1. \/ r = Outcome(after, reported, TRUE)
      \/ r = Outcome(s, dev, FALSE)
      \/ r = Outcome(s, reported, FALSE)
  BY DEF Submit
<1>3. CASE r = Outcome(after, reported, TRUE)
  <2>1. r.state = after /\ r.device = reported /\ r.ok = TRUE
    <3>1. r = [state |-> after, device |-> reported, ok |-> TRUE]
      BY <1>3 DEF Outcome
    <3> QED
      BY <3>1
  <2> QED
    BY <2>1 DEF Faithful
<1>4. CASE r = Outcome(s, dev, FALSE)
  <2>1. r.state = s /\ r.device = dev /\ r.ok = FALSE
    <3>1. r = [state |-> s, device |-> dev, ok |-> FALSE]
      BY <1>4 DEF Outcome
    <3> QED
      BY <3>1
  <2> QED
    BY <2>1 DEF Faithful
<1>5. CASE r = Outcome(s, reported, FALSE)
  <2>1. r.state = s /\ r.device = reported /\ r.ok = FALSE
    <3>1. r = [state |-> s, device |-> reported, ok |-> FALSE]
      BY <1>5 DEF Outcome
    <3> QED
      BY <3>1
  <2> QED
    BY <2>1 DEF Faithful
<1> QED
  BY <1>1, <1>3, <1>4, <1>5

LEMMA SubmitChangeFaithful ==
  ASSUME NEW s \in States, NEW dev \in States, NEW field \in {"keys", "buttons"},
         NEW t \in States, NEW r \in SubmitChange(s, dev, field, t[field])
  PROVE  /\ Faithful(s, dev, r)
         /\ r.ok => r.state = [s EXCEPT ![field] = t[field]]
<1>1. /\ [s EXCEPT ![field] = t[field]] \in States
      /\ [dev EXCEPT ![field] = t[field]] \in States
  BY DEF States
<1>2. CASE t[field] = s[field]
  <2>1. r = Outcome(s, dev, TRUE)
    BY <1>2 DEF SubmitChange
  <2>2. s = [s EXCEPT ![field] = t[field]]
    BY <1>2 DEF States
  <2>3. r.state = s /\ r.device = dev /\ r.ok = TRUE
    <3>1. r = [state |-> s, device |-> dev, ok |-> TRUE]
      BY <2>1 DEF Outcome
    <3> QED
      BY <3>1
  <2>4. r.state = [s EXCEPT ![field] = t[field]]
    BY <2>2, <2>3
  <2>5. Faithful(s, dev, r)
    BY <2>3 DEF Faithful
  <2> QED
    BY <2>4, <2>5
<1>3. CASE t[field] # s[field]
  <2> DEFINE after == [s EXCEPT ![field] = t[field]]
             reported == [dev EXCEPT ![field] = t[field]]
  <2>1. r \in Submit(s, after, dev, reported)
    BY <1>3 DEF SubmitChange
  <2>2. after \in States /\ reported \in States /\ (dev = s => reported = after)
    BY <1>1
  <2>3. /\ Faithful(s, dev, r)
        /\ r.ok => r.state = after
    <3> HIDE DEF after, reported
    <3> QED
      BY <2>1, <2>2, SubmitFaithful
  <2> QED
    BY <2>3
<1> QED
  BY <1>2, <1>3

LEMMA ReleaseBothFaithful ==
  ASSUME NEW s \in States, NEW dev \in States, NEW r \in ReleaseBoth(s, dev)
  PROVE  /\ Faithful(s, dev, r)
         /\ r.ok => r.state = Nothing
<1>0. Nothing["keys"] = {} /\ Nothing["buttons"] = {}
  BY DEF Nothing
<1>1. PICK q \in SubmitChange(s, dev, "keys", {}) :
        r \in IF q.ok THEN SubmitChange(q.state, q.device, "buttons", {}) ELSE {q}
  BY DEF ReleaseBoth
<1>2. /\ Faithful(s, dev, q)
      /\ q.ok => q.state = [s EXCEPT !["keys"] = {}]
  <2>1. q \in SubmitChange(s, dev, "keys", Nothing["keys"])
    BY <1>0, <1>1
  <2>2. /\ Faithful(s, dev, q)
        /\ q.ok => q.state = [s EXCEPT !["keys"] = Nothing["keys"]]
    BY <2>1, NothingType, SubmitChangeFaithful
  <2> QED
    BY <2>2, <1>0
<1>3. CASE ~q.ok
  BY <1>1, <1>2, <1>3
<1>4. CASE q.ok
  <2>1. r \in SubmitChange(q.state, q.device, "buttons", Nothing["buttons"])
    BY <1>0, <1>1, <1>4
  <2>2. q.state \in States /\ q.device \in States
    BY <1>2 DEF Faithful
  <2>3. /\ Faithful(q.state, q.device, r)
        /\ r.ok => r.state = [q.state EXCEPT !["buttons"] = {}]
    <3>1. /\ Faithful(q.state, q.device, r)
          /\ r.ok => r.state = [q.state EXCEPT !["buttons"] = Nothing["buttons"]]
      BY <2>1, <2>2, NothingType, SubmitChangeFaithful
    <3> QED
      BY <3>1, <1>0
  <2>4. Faithful(s, dev, r)
    BY <1>2, <1>4, <2>3 DEF Faithful
  <2>5. r.ok => r.state = Nothing
    <3>1. r.ok => r.state = [[s EXCEPT !["keys"] = {}] EXCEPT !["buttons"] = {}]
      BY <2>3, <1>2, <1>4
    <3>2. [[s EXCEPT !["keys"] = {}] EXCEPT !["buttons"] = {}] = Nothing
      <4>1. s = [keys |-> s.keys, buttons |-> s.buttons]
        BY StateFields
      <4>2. [s EXCEPT !["keys"] = {}] = [keys |-> {}, buttons |-> s.buttons]
        <5>1. \A k, b : [[keys |-> k, buttons |-> b] EXCEPT !["keys"] = {}]
                          = [keys |-> {}, buttons |-> b]
          OBVIOUS
        <5>2. [[keys |-> s.keys, buttons |-> s.buttons] EXCEPT !["keys"] = {}]
                = [keys |-> {}, buttons |-> s.buttons]
          BY <5>1
        <5> QED
          BY <4>1, <5>2, Zenon
      <4>3. [[keys |-> {}, buttons |-> s.buttons] EXCEPT !["buttons"] = {}]
              = [keys |-> {}, buttons |-> {}]
        OBVIOUS
      <4> QED
        BY <4>2, <4>3 DEF Nothing
    <3> QED
      BY <3>1, <3>2
  <2> QED
    BY <2>4, <2>5
<1> QED
  BY <1>3, <1>4

LEMMA ApplyFaithful ==
  ASSUME NEW s \in States, NEW dev \in States, NEW e \in Events, NEW r \in Apply(s, dev, e)
  PROVE  Faithful(s, dev, r)
<1>1. CASE e.kind \in {"press", "release"}
  <2>1. Field(e.control) \in {"keys", "buttons"}
    BY DEF Field
  <2>2. r \in SubmitChange(s, dev, Field(e.control), Effect(s, e)[Field(e.control)])
    BY <1>1 DEF Apply
  <2>3. Effect(s, e) \in States
    BY EffectType
  <2> QED
    BY <2>1, <2>2, <2>3, SubmitChangeFaithful
<1>2. CASE e.kind = "move"
  <2> DEFINE reported == [dev EXCEPT !["buttons"] = s.buttons]
  <2>2. r \in Submit(s, s, dev, reported)
    BY <1>2 DEF Apply, MoveMask
  <2>3. reported \in States
    BY DEF States
  <2>4. dev = s => reported = s
    BY DEF States
  <2> HIDE DEF reported
  <2> QED
    BY <2>2, <2>3, <2>4, SubmitFaithful
<1>3. CASE e.kind = "releaseAll"
  BY <1>3, ReleaseBothFaithful DEF Apply
<1> QED
  <2>1. e.kind \in {"press", "release", "move", "releaseAll"}
    BY DEF Events, Move, ReleaseAll
  <2> QED
    BY <2>1, <1>1, <1>2, <1>3

(* A call that succeeds leaves the session where the event puts it. *)
LEMMA ApplyEffect ==
  ASSUME NEW s \in States, NEW dev \in States, NEW e \in Events, NEW r \in Apply(s, dev, e),
         r.ok
  PROVE  r.state = Effect(s, e)
<1>1. CASE e.kind \in {"press", "release"}
  <2> DEFINE field == Field(e.control)
             after == Effect(s, e)
  <2>1. field \in {"keys", "buttons"}
    BY DEF Field
  <2>2. r \in SubmitChange(s, dev, field, after[field])
    BY <1>1 DEF Apply
  <2>3. after \in States
    BY EffectType
  <2>4. after = [s EXCEPT ![field] = after[field]]
    <3>1. e.kind # "move" /\ e.kind # "releaseAll"
      BY <1>1
    <3>2. \E v : after = [s EXCEPT ![field] = v]
      BY <1>1, <3>1 DEF Effect
    <3>3. \A v : [s EXCEPT ![field] = v][field] = v
      BY <2>1 DEF States
    <3> HIDE DEF after, field
    <3> QED
      BY <3>2, <3>3
  <2>5. r.state = [s EXCEPT ![field] = after[field]]
    <3> HIDE DEF after, field
    <3> QED
      BY <2>1, <2>2, <2>3, SubmitChangeFaithful
  <2> QED
    BY <2>4, <2>5
<1>2. CASE e.kind = "move"
  <2> DEFINE reported == [dev EXCEPT !["buttons"] = s.buttons]
  <2>2. r \in Submit(s, s, dev, reported)
    BY <1>2 DEF Apply, MoveMask
  <2>3. reported \in States
    BY DEF States
  <2>4. dev = s => reported = s
    BY DEF States
  <2> HIDE DEF reported
  <2>5. r.state = s
    BY <2>2, <2>3, <2>4, SubmitFaithful
  <2> QED
    BY <1>2, <2>5 DEF Effect
<1>3. CASE e.kind = "releaseAll"
  BY <1>3, ReleaseBothFaithful DEF Apply, Effect
<1> QED
  <2>1. e.kind \in {"press", "release", "move", "releaseAll"}
    BY DEF Events, Move, ReleaseAll
  <2> QED
    BY <2>1, <1>1, <1>2, <1>3

(* Splitting the channel into a pack and what stays. *)
LEMMA PackLengthType ==
  ASSUME TypeOK
  PROVE  /\ PackLength \in 0..PackSize /\ PackLength \in 0..Len(channel)
         /\ PackLength \in Nat
BY ConstantsAssumption DEF TypeOK, LinkTypeOK, PackLength

LEMMA NumberedType ==
  ASSUME TypeOK, NEW es \in Seq(Events), Len(es) <= PackSize
  PROVE  Numbered(es) \in Packs
<1>1. Len(es) \in Nat /\ \A i \in 1..Len(es) : es[i] \in Events
  BY ElementOfSeq, LenProperties
<1>2. Numbered(es) \in [1..Len(es) -> Transitions]
  BY <1>1 DEF Numbered, Transition, Transitions, TypeOK, PlayerTypeOK
<1>3. Numbered(es) \in Seq(Transitions)
  BY <1>1, <1>2, IsASeq
<1>4. Len(Numbered(es)) = Len(es)
  BY <1>1, <1>2, <1>3, LenProperties
<1> QED
  BY <1>3, <1>4 DEF Packs

LEMMA SendType ==
  ASSUME TypeOK, CanSend, NEW e \in Events, Send(e)
  PROVE  /\ channel' \in Seq(Events) /\ Len(channel') <= ChannelSize
         /\ forwarded' \in States /\ amounts' \in Seq(States)
<1>1. CASE Gone
  BY <1>1 DEF Send, sentVars, TypeOK, LinkTypeOK, PlayerTypeOK
<1>2. CASE ~Gone
  <2>1. Len(channel) \in Nat /\ Len(channel) < ChannelSize
    BY <1>2 DEF CanSend, TypeOK, LinkTypeOK
  <2>2. /\ channel' = Append(channel, e) /\ forwarded' = Effect(forwarded, e)
        /\ amounts' = Append(amounts, forwarded')
    BY <1>2 DEF Send
  <2> QED
    BY <2>1, <2>2, EffectType, ConstantsAssumption, AppendProperties
       DEF TypeOK, LinkTypeOK, PlayerTypeOK
<1> QED
  BY <1>1, <1>2

LEMMA NotSentType ==
  ASSUME TypeOK, NotSent
  PROVE  /\ channel' \in Seq(Events) /\ Len(channel') <= ChannelSize
         /\ forwarded' \in States /\ amounts' \in Seq(States)
BY DEF NotSent, sentVars, TypeOK, LinkTypeOK, PlayerTypeOK

(* What the window does is that it sends an event or sends none.           *)
LEMMA WindowSends ==
  ASSUME Window
  PROVE  /\ NotSent \/ \E e \in Events : Send(e)
         /\ UNCHANGED <<playerAt, sequence, stream, open, hostAt, pack, session, outOfOrder>>
<1>1. ASSUME NEW key \in Keys, PressKey(key) \/ ReleaseKey(key)
      PROVE  NotSent \/ \E e \in Events : Send(e)
  <2>1. key \in Controls
    BY DEF Controls
  <2> QED
    BY <1>1, <2>1, EventsAreEvents DEF PressKey, ReleaseKey
<1>2. ASSUME NEW button \in Buttons,
             (\E overGui \in BOOLEAN : PressButton(button, overGui)) \/ ReleaseButton(button)
      PROVE  NotSent \/ \E e \in Events : Send(e)
  <2>1. button \in Controls
    BY DEF Controls
  <2> QED
    BY <1>2, <2>1, EventsAreEvents DEF PressButton, ReleaseButton
<1>3. ASSUME MovePointer \/ LoseFocus \/ GainFocus \/ ReleasePointerCapture \/ Reconnect
      PROVE  NotSent \/ \E e \in Events : Send(e)
  BY <1>3, EventsAreEvents
     DEF MovePointer, LoseFocus, GainFocus, ReleasePointerCapture, Reconnect, ReleaseControls
<1>4. UNCHANGED <<playerAt, sequence, stream, open, hostAt, pack, session, outOfOrder>>
  BY DEF Window, UserActs, Reconnect, PressKey, ReleaseKey, PressButton, ReleaseButton,
         MovePointer, LoseFocus, GainFocus, ReleasePointerCapture, playerVars, hostVars,
         historyVars
<1>5. NotSent \/ \E e \in Events : Send(e)
  BY <1>1, <1>2, <1>3 DEF Window
<1> QED
  BY <1>4, <1>5

(* The window's actions touch the user's variables and send. *)
LEMMA WindowType ==
  ASSUME TypeOK, Window
  PROVE  TypeOK'
<1>1. /\ channel' \in Seq(Events) /\ Len(channel') <= ChannelSize
      /\ forwarded' \in States /\ amounts' \in Seq(States)
  <2>1. CanSend
    BY DEF Window, UserActs, Reconnect, PressKey, ReleaseKey, PressButton, ReleaseButton,
           MovePointer, LoseFocus, GainFocus, ReleasePointerCapture
  <2>2. NotSent \/ \E e \in Events : Send(e)
    BY WindowSends
  <2> QED
    BY <2>1, <2>2, SendType, NotSentType
<1>2. WindowTypeOK'
  <2>1. ASSUME NEW key \in Keys, PressKey(key) \/ ReleaseKey(key)
        PROVE  WindowTypeOK'
    BY <2>1, ConstantsAssumption
       DEF PressKey, ReleaseKey, UserActs, TypeOK, WindowTypeOK, Controls
  <2>2. ASSUME NEW button \in Buttons, NEW overGui \in BOOLEAN, PressButton(button, overGui)
        PROVE  WindowTypeOK'
    <3>1. RoutePress(button, overGui) \in [gui : SUBSET Buttons, host : SUBSET Buttons]
      BY DEF RoutePress, TypeOK, WindowTypeOK
    <3>2. routing' \in [gui : SUBSET Buttons, host : SUBSET Buttons]
      BY <2>2, <3>1 DEF PressButton, TypeOK, WindowTypeOK
    <3>3. /\ pressed' = pressed \union {button} /\ actions' = actions + 1
          /\ actions < MaxActions /\ UNCHANGED focused
      BY <2>2 DEF PressButton, UserActs
    <3>4. pressed' \subseteq Controls /\ actions' \in 0..MaxActions
      BY <3>3, Bounds DEF TypeOK, WindowTypeOK, Controls
    <3>5. focused' \in BOOLEAN
      BY <3>3 DEF TypeOK, WindowTypeOK
    <3> QED
      BY <3>2, <3>4, <3>5 DEF WindowTypeOK
  <2>3. ASSUME NEW button \in Buttons, ReleaseButton(button)
        PROVE  WindowTypeOK'
    BY <2>3, ConstantsAssumption
       DEF ReleaseButton, UserActs, TypeOK, WindowTypeOK, Controls
  <2>4. CASE MovePointer \/ LoseFocus \/ GainFocus \/ ReleasePointerCapture \/ Reconnect
    <3>1. routing' = routing \/ routing' = NoButtons
      BY <2>4 DEF MovePointer, LoseFocus, GainFocus, ReleasePointerCapture, Reconnect,
                  ReleaseControls
    <3>2. \/ actions < MaxActions /\ actions' = actions + 1
          \/ actions' = actions
      BY <2>4 DEF MovePointer, LoseFocus, GainFocus, ReleasePointerCapture, Reconnect, UserActs
    <3>3. /\ pressed' = pressed
          /\ focused' = focused \/ focused' = TRUE \/ focused' = FALSE
      BY <2>4 DEF MovePointer, LoseFocus, GainFocus, ReleasePointerCapture, Reconnect
    <3>4. routing' \in [gui : SUBSET Buttons, host : SUBSET Buttons]
      BY <3>1 DEF TypeOK, WindowTypeOK, NoButtons
    <3>5. actions' \in 0..MaxActions
      BY <3>2, Bounds DEF TypeOK, WindowTypeOK
    <3>6. pressed' \subseteq Controls /\ focused' \in BOOLEAN
      BY <3>3 DEF TypeOK, WindowTypeOK
    <3> QED
      BY <3>4, <3>5, <3>6 DEF WindowTypeOK
  <2> QED
    BY <2>1, <2>2, <2>3, <2>4 DEF Window
<1>3. /\ UNCHANGED <<playerAt, sequence, stopSent, stream, open, hostVars, historyVars,
                     sessions, faults>>
      /\ stopping' \in BOOLEAN
  BY DEF Window, UserActs, Reconnect, PressKey, ReleaseKey, PressButton, ReleaseButton,
         MovePointer, LoseFocus, GainFocus, ReleasePointerCapture, playerVars, TypeOK,
         PlayerTypeOK
<1> QED
  BY <1>1, <1>2, <1>3
     DEF TypeOK, PlayerTypeOK, LinkTypeOK, HostTypeOK, hostVars, historyVars

(* What the host has received of the stream is again a stream. *)
LEMMA PrefixType ==
  ASSUME NEW s \in Seq(Packs), Len(s) <= QueueSize, NEW received \in 0..Len(s)
  PROVE  SubSeq(s, 1, received) \in Seq(Packs) /\ Len(SubSeq(s, 1, received)) <= QueueSize
<1>1. Len(s) \in Nat /\ received \in Int /\ \A i \in 1..received : s[i] \in Packs
  BY ElementOfSeq, LenProperties
<1> QED
  BY <1>1, SubSeqProperties, ConstantsAssumption

LEMMA TaskType ==
  ASSUME TypeOK, Task \/ SeeEnd \/ StartSession \/ Accept \/ LoseConnection
  PROVE  TypeOK'
<1> USE ConstantsAssumption
<1> USE DEF userVars, playerVars, hostVars, historyVars, sentVars
<1>1. CASE SendPack
  <2> DEFINE sent == SubSeq(channel, 1, PackLength)
             kept == SubSeq(channel, PackLength + 1, Len(channel))
  <2>0. /\ channel \in Seq(Events) /\ Len(channel) \in Nat
        /\ \A i \in 1..Len(channel) : channel[i] \in Events
    BY ElementOfSeq, LenProperties DEF TypeOK, LinkTypeOK
  <2>1. sent \in Seq(Events) /\ Len(sent) <= PackSize
    BY <2>0, PackLengthType, SubSeqProperties
  <2>2. kept \in Seq(Events) /\ Len(kept) <= Len(channel)
    BY <2>0, PackLengthType, SubSeqProperties
  <2>3. Numbered(sent) \in Packs
    BY <2>1, NumberedType
  <2>4. stream' \in Seq(Packs) /\ Len(stream') <= QueueSize
    <3> HIDE DEF sent
    <3>1. stream' = Append(stream, Numbered(sent)) /\ Len(stream) < QueueSize
      BY <1>1 DEF SendPack, sent
    <3> QED
      BY <3>1, <2>3, AppendProperties, LenProperties DEF TypeOK, LinkTypeOK
  <2>5. sequence' \in Nat
    BY <1>1, PackLengthType DEF SendPack, TypeOK, PlayerTypeOK
  <2> HIDE DEF sent
  <2>6. LinkTypeOK'
    BY <1>1, <2>0, <2>2, <2>4, LenProperties DEF SendPack, TypeOK, LinkTypeOK
  <2> QED
    BY <1>1, <2>5, <2>6 DEF SendPack, TypeOK, PlayerTypeOK, WindowTypeOK, HostTypeOK
<1>2. CASE Finish
  <2>1. sequence' \in Nat
    BY <1>2 DEF Finish, NextSequence, TypeOK, PlayerTypeOK
  <2>2. stream' \in Seq(Packs) /\ Len(stream') <= QueueSize
    <3> DEFINE last == Transition(sequence', ReleaseAll)
    <3>1. last \in Transitions
      BY <2>1, EventsAreEvents DEF Transition, Transitions
    <3>2. <<last>> \in Packs
      <4>1. <<last>> \in Seq(Transitions) /\ Len(<<last>>) = 1
        BY <3>1
      <4> QED
        BY <4>1 DEF Packs
    <3>3. \/ stream' = Append(stream, <<last>>) /\ Len(stream) < QueueSize
          \/ stream' = stream
      BY <1>2, LenProperties DEF Finish, TypeOK, LinkTypeOK
    <3> HIDE DEF last
    <3>4. CASE stream' = Append(stream, <<last>>) /\ Len(stream) < QueueSize
      <4>1. stream \in Seq(Packs) /\ Len(stream) \in Nat
        BY LenProperties DEF TypeOK, LinkTypeOK
      <4>2. stream' \in Seq(Packs) /\ Len(stream') = Len(stream) + 1
        BY <3>2, <3>4, <4>1, AppendProperties
      <4> QED
        BY <3>4, <4>1, <4>2
    <3>5. CASE stream' = stream
      BY <3>5 DEF TypeOK, LinkTypeOK
    <3> QED
      BY <3>3, <3>4, <3>5
  <2>3. PlayerTypeOK'
    <3>1. /\ stopSent' = TRUE \/ stopSent' = stopSent
          /\ open' = open \/ open' = FALSE
          /\ playerAt' \in {"finishing", "ended"}
          /\ UNCHANGED <<stopping, sessions, faults, sentVars>>
      BY <1>2 DEF Finish
    <3>2. stopSent' \in BOOLEAN /\ open' \in BOOLEAN
      BY <3>1 DEF TypeOK, PlayerTypeOK
    <3> QED
      BY <2>1, <3>1, <3>2 DEF TypeOK, PlayerTypeOK
  <2>4. UNCHANGED <<userVars, channel, hostVars, historyVars>>
    BY <1>2 DEF Finish
  <2> QED
    BY <2>2, <2>3, <2>4 DEF TypeOK, WindowTypeOK, HostTypeOK, LinkTypeOK
<1>3. CASE ClosePlayer \/ LoseConnection
  <2>1. stream' \in Seq(Packs) /\ Len(stream') <= QueueSize
    BY <1>3, PrefixType DEF ClosePlayer, LoseConnection, TypeOK, LinkTypeOK
  <2>2. PlayerTypeOK'
    <3>1. CASE ClosePlayer
      <4>1. /\ playerAt' = "ended" /\ open' = FALSE
            /\ UNCHANGED <<stopping, sequence, stopSent, sentVars, sessions, faults>>
        BY <3>1 DEF ClosePlayer
      <4> QED
        BY <4>1 DEF TypeOK, PlayerTypeOK
    <3>2. CASE LoseConnection
      <4>1. /\ faults < MaxFaults /\ faults' = faults + 1 /\ open' = FALSE
            /\ UNCHANGED <<playerVars, sentVars, sessions>>
        BY <3>2 DEF LoseConnection
      <4>2. faults' \in 0..MaxFaults
        BY <4>1, Bounds DEF TypeOK, PlayerTypeOK
      <4> QED
        BY <4>1, <4>2 DEF TypeOK, PlayerTypeOK
    <3> QED
      BY <1>3, <3>1, <3>2
  <2>3. UNCHANGED <<userVars, channel, hostVars, historyVars>>
    BY <1>3 DEF ClosePlayer, LoseConnection
  <2> QED
    BY <2>1, <2>2, <2>3 DEF TypeOK, WindowTypeOK, HostTypeOK, LinkTypeOK
<1>4. CASE AbandonConnect
  BY <1>4 DEF AbandonConnect, TypeOK, PlayerTypeOK, WindowTypeOK, HostTypeOK, LinkTypeOK
<1>7. CASE SeeEnd
  <2>1. /\ playerAt' = "retrying" /\ routing' = NoButtons
        /\ UNCHANGED <<pressed, focused, actions, stopping, sequence, stopSent, channel, stream,
                       open, hostVars, sentVars, historyVars, sessions, faults>>
    BY <1>7 DEF SeeEnd
  <2>2. WindowTypeOK' /\ PlayerTypeOK'
    BY <2>1 DEF NoButtons, TypeOK, WindowTypeOK, PlayerTypeOK
  <2> QED
    BY <2>1, <2>2 DEF TypeOK, HostTypeOK, LinkTypeOK
<1>5. CASE StartSession
  <2>1. <<>> \in Seq(Events) /\ Len(<<>>) = 0
    OBVIOUS
  <2>2. WindowTypeOK'
    BY <1>5 DEF StartSession, NoButtons, TypeOK, WindowTypeOK
  <2>3. PlayerTypeOK'
    <3>1. /\ sessions < MaxSessions /\ sessions' = sessions + 1
          /\ stopping' = FALSE /\ playerAt' = "connecting" /\ sequence' = 0
          /\ stopSent' = FALSE /\ forwarded' = Nothing /\ amounts' = <<>>
          /\ UNCHANGED <<open, faults>>
      BY <1>5 DEF StartSession
    <3>2. sessions' \in 1..MaxSessions /\ amounts' \in Seq(States)
      BY <3>1, Bounds DEF TypeOK, PlayerTypeOK
    <3> QED
      BY <3>1, <3>2, NothingType DEF TypeOK, PlayerTypeOK
  <2>4. LinkTypeOK'
    BY <1>5, <2>1, Bounds DEF StartSession, TypeOK, LinkTypeOK
  <2>5. HostTypeOK'
    BY <1>5 DEF StartSession, TypeOK, HostTypeOK
  <2> QED
    BY <2>2, <2>3, <2>4, <2>5 DEF TypeOK
<1>6. CASE Accept
  <2>1. <<>> \in Seq(Packs) /\ <<>> \in Seq(Transitions) /\ Len(<<>>) = 0
    OBVIOUS
  <2>2. <<>> \in Packs /\ FreshSession \in [sequence : Nat, state : States]
    BY <2>1, NothingType DEF Packs, FreshSession
  <2> QED
    BY <1>6, <2>1, <2>2
       DEF Accept, TypeOK, PlayerTypeOK, WindowTypeOK, HostTypeOK, LinkTypeOK
<1> QED
  BY <1>1, <1>2, <1>3, <1>4, <1>5, <1>6, <1>7 DEF Task

LEMMA HostType ==
  ASSUME TypeOK, Host
  PROVE  TypeOK'
<1> USE ConstantsAssumption
<1> USE DEF userVars, playerVars, hostVars, historyVars, sentVars
<1>0. /\ <<>> \in Packs
      /\ pack # <<>> => /\ Head(pack) \in Transitions /\ Head(pack).event \in Events
                        /\ Tail(pack) \in Packs
  <2>1. <<>> \in Packs
    <3>1. <<>> \in Seq(Transitions) /\ Len(<<>>) = 0
      OBVIOUS
    <3> QED
      BY <3>1 DEF Packs
  <2>2. pack \in Seq(Transitions) /\ Len(pack) \in Nat /\ Len(pack) <= PackSize
    BY LenProperties DEF TypeOK, HostTypeOK, Packs
  <2>3. ASSUME pack # <<>>
        PROVE  /\ Head(pack) \in Transitions /\ Tail(pack) \in Seq(Transitions)
               /\ Len(Tail(pack)) = Len(pack) - 1
    BY <2>2, <2>3, HeadTailProperties
  <2> QED
    BY <2>1, <2>2, <2>3 DEF Packs, Transitions
<1>1. CASE TakePack
  <2>1. stream \in Seq(Packs) /\ stream # <<>> /\ Len(stream) \in Nat
    BY <1>1, LenProperties DEF TakePack, TypeOK, LinkTypeOK
  <2>2. Head(stream) \in Packs /\ Tail(stream) \in Seq(Packs) /\ Len(Tail(stream)) = Len(stream) - 1
    BY <2>1, HeadTailProperties
  <2> QED
    BY <1>1, <2>1, <2>2
       DEF TakePack, TypeOK, PlayerTypeOK, WindowTypeOK, HostTypeOK, LinkTypeOK
<1>2. CASE ApplyTransition
  <2>1. PICK r \in Apply(session.state, device, Head(pack).event) :
          /\ device' = r.device
          /\ IF r.ok THEN Stay(Head(pack), r) ELSE Fail(r)
    BY <1>2 DEF ApplyTransition
  <2>2. Head(pack) \in Transitions /\ Head(pack).event \in Events /\ Tail(pack) \in Packs
    BY <1>0, <1>2 DEF ApplyTransition
  <2>3. r.state \in States /\ r.device \in States
    BY <2>2, ApplyFaithful DEF Faithful, TypeOK, HostTypeOK
  <2>4. /\ session' \in [sequence : Nat, state : States]
        /\ pack' \in Packs /\ hostAt' \in {"idle", "serving", "releasing", "closing"}
        /\ faults' \in 0..MaxFaults /\ releaseFailed' \in BOOLEAN
    <3>1. CASE r.ok
      <4>1. Stay(Head(pack), r)
        BY <2>1, <3>1
      <4>2. Head(pack).sequence \in Nat
        BY <2>2 DEF Transitions
      <4>3. session' \in [sequence : Nat, state : States]
        BY <4>1, <4>2, <2>3 DEF Stay
      <4> QED
        BY <4>1, <4>3, <2>2 DEF Stay, TypeOK, HostTypeOK, PlayerTypeOK
    <3>2. CASE ~r.ok
      <4>1. Fail(r)
        BY <2>1, <3>2
      <4> QED
        BY <4>1, <2>3, <1>0 DEF Fail, TypeOK, HostTypeOK, PlayerTypeOK
    <3> QED
      BY <3>1, <3>2
  <2> QED
    BY <1>2, <2>1, <2>3, <2>4
       DEF ApplyTransition, TypeOK, PlayerTypeOK, WindowTypeOK, HostTypeOK, LinkTypeOK
<1>3. CASE RefuseTransition
  BY <1>3, <1>0
     DEF RefuseTransition, TypeOK, PlayerTypeOK, WindowTypeOK, HostTypeOK, LinkTypeOK
<1>4. CASE EndSession
  BY <1>4 DEF EndSession, TypeOK, PlayerTypeOK, WindowTypeOK, HostTypeOK, LinkTypeOK
<1>5. CASE ReleaseInput
  <2>1. PICK r \in ReleaseBoth(session.state, device) :
          /\ r.ok \/ faults < MaxFaults
          /\ faults' = IF r.ok THEN faults ELSE faults + 1
          /\ device' = r.device
          /\ session' = [session EXCEPT !.state = r.state]
          /\ releaseFailed' = (releaseFailed \/ ~r.ok)
    BY <1>5 DEF ReleaseInput, CloseOutcomes
  <2>2. r.state \in States /\ r.device \in States
    BY ReleaseBothFaithful DEF Faithful, TypeOK, HostTypeOK
  <2>3. /\ session' \in [sequence : Nat, state : States] /\ device' \in States
        /\ releaseFailed' \in BOOLEAN
    BY <2>1, <2>2 DEF TypeOK, HostTypeOK
  <2>4. faults' \in 0..MaxFaults
    BY <2>1, Bounds DEF TypeOK, PlayerTypeOK
  <2>5. /\ hostAt' = "closing"
        /\ UNCHANGED <<userVars, playerVars, channel, stream, open, pack, sentVars, outOfOrder,
                       sessions>>
    BY <1>5 DEF ReleaseInput
  <2> QED
    BY <2>3, <2>4, <2>5 DEF TypeOK, PlayerTypeOK, WindowTypeOK, HostTypeOK, LinkTypeOK
<1>6. CASE CloseSession
  BY <1>6 DEF CloseSession, TypeOK, PlayerTypeOK, WindowTypeOK, HostTypeOK, LinkTypeOK
<1> QED
  BY <1>1, <1>2, <1>3, <1>4, <1>5, <1>6 DEF Host

LEMMA InitType == Init => TypeOK
<1>1. <<>> \in Seq(Events) /\ <<>> \in Seq(Packs) /\ <<>> \in Seq(Transitions) /\ Len(<<>>) = 0
  OBVIOUS
<1>2. <<>> \in Packs
  BY <1>1, ConstantsAssumption DEF Packs
<1>3. FreshSession \in [sequence : Nat, state : States]
  BY NothingType DEF FreshSession
<1> SUFFICES ASSUME Init PROVE TypeOK
  OBVIOUS
<1>4. WindowTypeOK
  BY ConstantsAssumption DEF Init, WindowTypeOK, NoButtons
<1>5. PlayerTypeOK
  <2>1. sessions \in 1..MaxSessions /\ faults \in 0..MaxFaults /\ sequence \in Nat
    BY Bounds DEF Init
  <2>2. playerAt \in {"connecting", "streaming", "finishing", "ended", "retrying"} /\ forwarded \in States
    BY NothingType DEF Init
  <2>3. stopping \in BOOLEAN /\ stopSent \in BOOLEAN /\ open \in BOOLEAN
    BY DEF Init
  <2>4. <<>> \in Seq(States)
    OBVIOUS
  <2>5. amounts \in Seq(States)
    BY <2>4 DEF Init
  <2> QED
    BY <2>1, <2>2, <2>3, <2>5 DEF PlayerTypeOK
<1>6. LinkTypeOK
  BY <1>1, ConstantsAssumption DEF Init, LinkTypeOK
<1>7. HostTypeOK
  BY <1>2, <1>3, NothingType DEF Init, HostTypeOK
<1> QED
  BY <1>4, <1>5, <1>6, <1>7 DEF TypeOK

LEMMA StutterType == TypeOK /\ UNCHANGED vars => TypeOK'
BY DEF vars, userVars, playerVars, hostVars, historyVars, sentVars, TypeOK, WindowTypeOK, PlayerTypeOK,
       LinkTypeOK, HostTypeOK

(* Type correctness of the window, the task, the stream and the host.      *)
THEOREM TypeCorrect == Spec => []TypeOK
<1>1. TypeOK /\ [Next]_vars => TypeOK'
  BY WindowType, TaskType, HostType, StutterType DEF Next
<1> QED
  BY <1>1, InitType, PTL DEF Spec

-----------------------------------------------------------------------------
(* The device and the session's state. *)

LEMMA ReleasedStep ==
  ASSUME TypeOK, ReleasedAtEnd, [Next]_vars
  PROVE  ReleasedAtEnd'
<1> USE DEF userVars, playerVars, hostVars, historyVars, sentVars
<1>1. CASE UNCHANGED <<hostAt, session, device, releaseFailed>>
  BY <1>1 DEF ReleasedAtEnd
<1>2. CASE Accept
  <2>1. /\ hostAt = "idle" /\ hostAt' = "serving"
        /\ session'.state = Nothing /\ UNCHANGED <<device, releaseFailed>>
    BY <1>2 DEF Accept, FreshSession
  <2> QED
    BY <2>1 DEF ReleasedAtEnd
<1>3. CASE ApplyTransition
  <2>1. PICK r \in Apply(session.state, device, Head(pack).event) :
          /\ device' = r.device
          /\ IF r.ok THEN Stay(Head(pack), r) ELSE Fail(r)
    BY <1>3 DEF ApplyTransition
  <2>2. Head(pack).event \in Events
    <3>1. pack \in Seq(Transitions) /\ pack # <<>>
      BY <1>3 DEF ApplyTransition, TypeOK, HostTypeOK, Packs
    <3>2. Head(pack) \in Transitions
      BY <3>1, HeadTailProperties
    <3> QED
      BY <3>2 DEF Transitions
  <2>3. session.state \in States /\ device \in States
    BY DEF TypeOK, HostTypeOK
  <2>4. Faithful(session.state, device, r)
    BY <2>2, <2>3, ApplyFaithful
  <2>5. CASE r.ok
    <3>1. /\ session'.state = r.state /\ hostAt' = "serving"
          /\ releaseFailed' = releaseFailed /\ device' = r.device
      BY <1>3, <2>1, <2>5 DEF Stay, ApplyTransition
    <3> QED
      BY <2>4, <2>5, <3>1 DEF ReleasedAtEnd, Faithful
  <2>6. CASE ~r.ok
    <3>1. Fail(r) /\ device' = r.device
      BY <2>1, <2>6
    <3>2. session'.state = r.state
      BY <3>1 DEF Fail, TypeOK, HostTypeOK
    <3>3. /\ hostAt' = "releasing"
          /\ releaseFailed' = (releaseFailed \/ r.device # r.state)
      BY <3>1 DEF Fail
    <3> QED
      BY <3>1, <3>2, <3>3 DEF ReleasedAtEnd
  <2> QED
    BY <2>5, <2>6
<1>4. CASE ReleaseInput
  <2>1. PICK r \in ReleaseBoth(session.state, device) :
          /\ device' = r.device
          /\ session' = [session EXCEPT !.state = r.state]
          /\ releaseFailed' = (releaseFailed \/ ~r.ok)
    BY <1>4 DEF ReleaseInput, CloseOutcomes
  <2>2. session.state \in States /\ device \in States
    BY DEF TypeOK, HostTypeOK
  <2>3. Faithful(session.state, device, r) /\ (r.ok => r.state = Nothing)
    BY <2>2, ReleaseBothFaithful
  <2>4. session'.state = r.state
    BY <2>1 DEF TypeOK, HostTypeOK
  <2> QED
    BY <2>1, <2>3, <2>4 DEF ReleasedAtEnd, Faithful
<1>5. CASE RefuseTransition \/ EndSession \/ CloseSession
  <2>1. /\ UNCHANGED <<session, device, releaseFailed>>
        /\ hostAt' = "releasing" \/ hostAt = "closing"
    BY <1>5 DEF RefuseTransition, EndSession, CloseSession
  <2> QED
    BY <2>1 DEF ReleasedAtEnd
<1> QED
  <2>1. Window \/ Task \/ SeeEnd \/ StartSession \/ LoseConnection \/ TakePack \/ UNCHANGED vars
          => UNCHANGED <<hostAt, session, device, releaseFailed>>
    BY DEF Window, UserActs, PressKey, ReleaseKey, PressButton, ReleaseButton, MovePointer,
           LoseFocus, GainFocus, ReleasePointerCapture, Reconnect, Task, SendPack, Finish,
           ClosePlayer, AbandonConnect, SeeEnd, StartSession, LoseConnection, TakePack, vars
  <2> QED
    BY <2>1, <1>1, <1>2, <1>3, <1>4, <1>5 DEF Next, Host

(* As long as no release and no signal has failed, the session's state is  *)
(* what Windows believes and a session that is over leaves nothing held,   *)
(* for any number of sessions, events and refused reports.                 *)
THEOREM ReleasedAlways == Spec => []ReleasedAtEnd
<1>1. Init => ReleasedAtEnd
  BY DEF Init, ReleasedAtEnd, FreshSession
<1>2. TypeOK /\ ReleasedAtEnd /\ [Next]_vars => ReleasedAtEnd'
  BY ReleasedStep
<1> QED
  BY <1>1, <1>2, TypeCorrect, PTL DEF Spec

-----------------------------------------------------------------------------
(* What the window has sent and what the user holds. *)

(* The inductive form: a button is sent as held only while its release is  *)
(* routed to the host, and an unfocused window has released everything.    *)
SentIsHeld ==
  ~Gone => /\ forwarded.keys \subseteq pressed
           /\ forwarded.buttons \subseteq pressed \intersect routing.host
           /\ ~focused => forwarded.keys = {} /\ forwarded.buttons = {}

LEMMA KeyEffect ==
  ASSUME NEW s \in States, NEW key \in Keys
  PROVE  /\ Effect(s, Press(key)).keys = s.keys \union {key}
         /\ Effect(s, Press(key)).buttons = s.buttons
         /\ Effect(s, Release(key)).keys = s.keys \ {key}
         /\ Effect(s, Release(key)).buttons = s.buttons
BY DEF States, Effect, Press, Release, Field

LEMMA ButtonEffect ==
  ASSUME NEW s \in States, NEW button \in Buttons
  PROVE  /\ Effect(s, Press(button)).buttons = s.buttons \union {button}
         /\ Effect(s, Press(button)).keys = s.keys
         /\ Effect(s, Release(button)).buttons = s.buttons \ {button}
         /\ Effect(s, Release(button)).keys = s.keys
<1>1. button \notin Keys
  BY ConstantsAssumption
<1> QED
  BY <1>1 DEF States, Effect, Press, Release, Field

LEMMA SentStep ==
  ASSUME TypeOK, SentIsHeld, [Next]_vars
  PROVE  SentIsHeld'
<1> USE DEF userVars, playerVars, sentVars
<1> SUFFICES ASSUME ~Gone'
             PROVE  /\ forwarded'.keys \subseteq pressed'
                    /\ forwarded'.buttons \subseteq pressed' \intersect routing'.host
                    /\ ~focused' => forwarded'.keys = {} /\ forwarded'.buttons = {}
  BY DEF SentIsHeld
<1>1. /\ forwarded \in States
      /\ forwarded.keys \subseteq Keys /\ forwarded.buttons \subseteq Buttons
      /\ routing \in [gui : SUBSET Buttons, host : SUBSET Buttons]
      /\ focused \in BOOLEAN
  BY StateFields DEF TypeOK, PlayerTypeOK, WindowTypeOK
<1>2. CASE UNCHANGED <<forwarded, pressed, routing, focused>> /\ ~Gone
  BY <1>2 DEF SentIsHeld, Gone
<1>3. CASE StartSession
  BY <1>3 DEF StartSession, Nothing
<1>4. CASE Window
  <2>1. ~Gone
    BY <1>4 DEF Window, UserActs, PressKey, ReleaseKey, PressButton, ReleaseButton,
                MovePointer, LoseFocus, GainFocus, ReleasePointerCapture, Reconnect, Gone
  <2>2. /\ forwarded.keys \subseteq pressed
        /\ forwarded.buttons \subseteq pressed \intersect routing.host
        /\ ~focused => forwarded.keys = {} /\ forwarded.buttons = {}
    BY <2>1 DEF SentIsHeld, Gone
  <2>3. \A e : Send(e) => forwarded' = Effect(forwarded, e)
    BY <2>1 DEF Send
  <2>4. ASSUME NEW key \in Keys, PressKey(key) \/ ReleaseKey(key)
        PROVE  /\ forwarded'.keys \subseteq pressed'
               /\ forwarded'.buttons \subseteq pressed' \intersect routing'.host
               /\ ~focused' => forwarded'.keys = {} /\ forwarded'.buttons = {}
    <3>1. UNCHANGED <<focused, routing>>
      BY <2>4 DEF PressKey, ReleaseKey
    <3>2. key \notin forwarded.buttons
      BY <1>1, ConstantsAssumption
    <3>3. CASE focused /\ PressKey(key)
      <4>1. pressed' = pressed \union {key} /\ forwarded' = Effect(forwarded, Press(key))
        BY <2>3, <3>3 DEF PressKey
      <4> QED
        BY <1>1, <2>2, <3>1, <3>3, <4>1, KeyEffect
    <3>4. CASE focused /\ ReleaseKey(key)
      <4>1. pressed' = pressed \ {key} /\ forwarded' = Effect(forwarded, Release(key))
        BY <2>3, <3>4 DEF ReleaseKey
      <4> QED
        BY <1>1, <2>2, <3>1, <3>2, <3>4, <4>1, KeyEffect
    <3>5. CASE ~focused
      <4>1. forwarded' = forwarded
        BY <2>4, <3>5 DEF PressKey, ReleaseKey, NotSent
      <4> QED
        BY <2>2, <3>1, <3>5, <4>1
    <3> QED
      BY <2>4, <3>3, <3>4, <3>5
  <2>5. ASSUME NEW button \in Buttons, NEW overGui \in BOOLEAN, PressButton(button, overGui)
        PROVE  /\ forwarded'.keys \subseteq pressed'
               /\ forwarded'.buttons \subseteq pressed' \intersect routing'.host
               /\ ~focused' => forwarded'.keys = {} /\ forwarded'.buttons = {}
    <3>1. focused' = focused /\ pressed' = pressed \union {button}
      BY <2>5 DEF PressButton
    <3>2. CASE focused
      <4>1. routing' = RoutePress(button, overGui)
        BY <2>5, <3>2 DEF PressButton
      <4>2. routing.host \subseteq routing'.host
        BY <1>1, <4>1 DEF RoutePress
      <4>3. CASE button \in routing'.host
        <5>1. forwarded' = Effect(forwarded, Press(button))
          BY <2>3, <2>5, <3>2, <4>3 DEF PressButton
        <5> QED
          BY <1>1, <2>2, <3>1, <3>2, <4>2, <4>3, <5>1, ButtonEffect
      <4>4. CASE button \notin routing'.host
        <5>1. forwarded' = forwarded
          BY <2>5, <3>2, <4>4 DEF PressButton, NotSent
        <5> QED
          BY <2>2, <3>1, <3>2, <4>2, <5>1
      <4> QED
        BY <4>3, <4>4
    <3>3. CASE ~focused
      <4>1. forwarded' = forwarded
        BY <2>5, <3>3 DEF PressButton, NotSent
      <4> QED
        BY <2>2, <3>1, <3>3, <4>1
    <3> QED
      BY <3>2, <3>3
  <2>6. ASSUME NEW button \in Buttons, ReleaseButton(button)
        PROVE  /\ forwarded'.keys \subseteq pressed'
               /\ forwarded'.buttons \subseteq pressed' \intersect routing'.host
               /\ ~focused' => forwarded'.keys = {} /\ forwarded'.buttons = {}
    <3>1. focused' = focused /\ pressed' = pressed \ {button} /\ button \notin forwarded.keys
      BY <1>1, <2>6, ConstantsAssumption DEF ReleaseButton
    <3>2. CASE focused
      <4>1. routing'.host = routing.host \ {button}
        BY <2>6, <3>2 DEF ReleaseButton
      <4>2. CASE button \in routing.host
        <5>1. forwarded' = Effect(forwarded, Release(button))
          BY <2>3, <2>6, <3>2, <4>2 DEF ReleaseButton, SentToHost
        <5> QED
          BY <1>1, <2>2, <3>1, <3>2, <4>1, <5>1, ButtonEffect
      <4>3. CASE button \notin routing.host
        <5>1. forwarded' = forwarded
          BY <2>6, <3>2, <4>3 DEF ReleaseButton, SentToHost, NotSent
        <5> QED
          BY <2>2, <3>1, <3>2, <4>1, <4>3, <5>1
      <4> QED
        BY <4>2, <4>3
    <3>3. CASE ~focused
      <4>1. forwarded' = forwarded
        BY <2>6, <3>3 DEF ReleaseButton, NotSent
      <4> QED
        BY <2>2, <3>1, <3>3, <4>1
    <3> QED
      BY <3>2, <3>3
  <2>7. CASE LoseFocus \/ ReleasePointerCapture \/ Reconnect
    <3>1. forwarded' = Nothing
      BY <2>3, <2>7 DEF LoseFocus, ReleasePointerCapture, Reconnect, ReleaseControls, Effect,
                        ReleaseAll
    <3> QED
      BY <3>1 DEF Nothing
  <2>8. CASE MovePointer
    <3>1. forwarded' = forwarded /\ UNCHANGED <<pressed, focused, routing>>
      BY <2>3, <2>8 DEF MovePointer, Effect, Move
    <3> QED
      BY <2>2, <3>1
  <2>9. CASE GainFocus
    <3>1. forwarded' = forwarded /\ UNCHANGED <<pressed, routing>> /\ focused' = TRUE
      BY <2>9 DEF GainFocus, NotSent
    <3> QED
      BY <2>2, <3>1
  <2> QED
    BY <1>4, <2>4, <2>5, <2>6, <2>7, <2>8, <2>9 DEF Window
<1> QED
  <2>1. Task \/ Accept \/ Host \/ LoseConnection \/ UNCHANGED vars
          => UNCHANGED <<forwarded, pressed, routing, focused>> /\ ~Gone
    BY DEF Task, SendPack, Finish, ClosePlayer, AbandonConnect, Accept, Host, TakePack,
           ApplyTransition, RefuseTransition, EndSession, ReleaseInput, CloseSession,
           LoseConnection, vars, Gone
  <2>2. SeeEnd => FALSE
    BY DEF SeeEnd, Gone
  <2> QED
    BY <2>1, <2>2, <1>2, <1>3, <1>4 DEF Next

(* The window has sent nothing as held that the user does not hold,        *)
(* whatever keys, buttons, focus changes and sessions there are.           *)
THEOREM OnlyHeldSentAlways == Spec => []OnlyHeldSent
<1>1. Init => SentIsHeld
  BY DEF Init, SentIsHeld, Nothing, Gone
<1>2. TypeOK /\ SentIsHeld /\ [Next]_vars => SentIsHeld'
  BY SentStep
<1>3. SentIsHeld => OnlyHeldSent
  BY DEF SentIsHeld, OnlyHeldSent, Held, Gone
<1> QED
  BY <1>1, <1>2, <1>3, TypeCorrect, PTL DEF Spec

-----------------------------------------------------------------------------
(* No event is dropped, doubled or overtaken: the numbers.                 *)

(* Transitions numbered without a gap after first.                         *)
RunFrom(first, transitions) ==
  \A i \in 1..Len(transitions) : transitions[i].sequence = first + i

(* The number before the i-th pack, when last precedes them all, and the   *)
(* number that all of them end with.                                       *)
Before(last, packs, i) ==
  IF i = 1 THEN last ELSE packs[i - 1][1].sequence + Len(packs[i - 1]) - 1
EndOf(last, packs) == Before(last, packs, Len(packs) + 1)

(* Packs that go on where the one before them ends. *)
Chain(last, packs) ==
  \A i \in 1..Len(packs) : Len(packs[i]) > 0 /\ RunFrom(Before(last, packs, i), packs[i])

(* The inductive form of ~outOfOrder: what the session has yet to apply    *)
(* continues what it has applied, from the pack through the stream, and    *)
(* while the task sends, its own count is the last number of the stream.   *)
Applied == session.sequence + Len(pack)
Numbers ==
  /\ RunFrom(session.sequence, pack)
  /\ Chain(Applied, stream)
  /\ playerAt = "streaming" /\ open => sequence = EndOf(Applied, stream)

NumberInv ==
  /\ ~outOfOrder
  /\ playerAt = "connecting" => sequence = 0
  /\ open => playerAt \in {"streaming", "finishing"}
  /\ hostAt = "serving" => Numbers

LEMMA PackFields ==
  ASSUME NEW p \in Packs
  PROVE  /\ p \in Seq(Transitions) /\ Len(p) \in Nat
         /\ \A i \in 1..Len(p) : p[i] \in Transitions /\ p[i].sequence \in Nat
<1>1. p \in Seq(Transitions) /\ Len(p) \in Nat
  BY LenProperties DEF Packs
<1>2. \A i \in 1..Len(p) : p[i] \in Transitions
  BY <1>1, ElementOfSeq
<1> QED
  BY <1>1, <1>2 DEF Transitions

(* A pack that starts where the packs end continues them. *)
LEMMA ChainAppend ==
  ASSUME NEW last \in Nat, NEW packs \in Seq(Packs), NEW p \in Packs,
         Chain(last, packs), Len(p) > 0, RunFrom(EndOf(last, packs), p)
  PROVE  /\ Chain(last, Append(packs, p))
         /\ EndOf(last, packs) \in Int
         /\ EndOf(last, Append(packs, p)) = EndOf(last, packs) + Len(p)
<1> DEFINE n == Len(packs)
           more == Append(packs, p)
<1>1. /\ n \in Nat /\ Len(more) = n + 1 /\ more[n + 1] = p
      /\ \A i \in 1..n : more[i] = packs[i] /\ packs[i] \in Packs
  BY ElementOfSeq, LenProperties, AppendProperties
<1>2. Len(p) \in Nat /\ p[1].sequence \in Nat
  BY PackFields
<1> HIDE DEF n, more
<1>3. \A i \in 1..(n + 1) : Before(last, more, i) = Before(last, packs, i)
  <2>1. ASSUME NEW i \in 1..(n + 1) PROVE Before(last, more, i) = Before(last, packs, i)
    <3>1. i # 1 => i - 1 \in 1..n
      BY <1>1
    <3> QED
      BY <1>1, <3>1 DEF Before
  <2> QED
    BY <2>1
<1>4. EndOf(last, packs) = Before(last, packs, n + 1)
  BY DEF EndOf, n
<1>5. EndOf(last, packs) \in Int
  <2>1. CASE n = 0
    BY <1>4, <2>1 DEF Before
  <2>2. CASE n # 0
    <3>1. n \in 1..n /\ packs[n] \in Packs /\ (n + 1) - 1 = n /\ n + 1 # 1
      BY <1>1, <2>2
    <3>2. Len(packs[n]) > 0
      BY <3>1 DEF Chain, n
    <3>3. Len(packs[n]) \in Nat /\ packs[n][1].sequence \in Nat
      BY <3>1, <3>2, PackFields
    <3> QED
      BY <1>4, <3>1, <3>3 DEF Before
  <2> QED
    BY <2>1, <2>2
<1>6. Chain(last, more)
  <2>1. ASSUME NEW i \in 1..Len(more)
        PROVE  Len(more[i]) > 0 /\ RunFrom(Before(last, more, i), more[i])
    <3>1. CASE i = n + 1
      BY <1>1, <1>3, <1>4, <3>1
    <3>2. CASE i # n + 1
      <4>1. i \in 1..n /\ i \in 1..(n + 1)
        BY <1>1, <3>2
      <4>2. Len(packs[i]) > 0 /\ RunFrom(Before(last, packs, i), packs[i])
        BY <4>1 DEF Chain, n
      <4> QED
        BY <1>1, <1>3, <4>1, <4>2
    <3> QED
      BY <3>1, <3>2
  <2> QED
    BY <2>1 DEF Chain
<1>7. EndOf(last, more) = p[1].sequence + Len(p) - 1
  <2>1. (n + 1) + 1 # 1 /\ ((n + 1) + 1) - 1 = n + 1
    BY <1>1
  <2> QED
    BY <1>1, <2>1 DEF EndOf, Before
<1>8. p[1].sequence = EndOf(last, packs) + 1
  BY <1>2, <1>5 DEF RunFrom
<1> QED
  BY <1>2, <1>5, <1>6, <1>7, <1>8 DEF more

(* What has been received of the packs. *)
LEMMA ChainPrefix ==
  ASSUME NEW last \in Nat, NEW packs \in Seq(Packs), NEW received \in 0..Len(packs),
         Chain(last, packs)
  PROVE  Chain(last, SubSeq(packs, 1, received))
<1> DEFINE kept == SubSeq(packs, 1, received)
<1>1. /\ Len(packs) \in Nat /\ received \in Nat /\ Len(kept) = received
      /\ \A i \in 1..received : kept[i] = packs[i]
  <2>1. Len(packs) \in Nat /\ received \in Int /\ \A i \in 1..received : packs[i] \in Packs
    BY ElementOfSeq, LenProperties
  <2> QED
    BY <2>1, SubSeqProperties
<1> HIDE DEF kept
<1>2. ASSUME NEW i \in 1..received
      PROVE  Len(kept[i]) > 0 /\ RunFrom(Before(last, kept, i), kept[i])
  <2>1. i \in 1..Len(packs)
    BY <1>1
  <2>2. Len(packs[i]) > 0 /\ RunFrom(Before(last, packs, i), packs[i])
    BY <2>1 DEF Chain
  <2>3. Before(last, kept, i) = Before(last, packs, i)
    <3>1. i # 1 => i - 1 \in 1..received
      BY <1>1
    <3> QED
      BY <1>1, <3>1 DEF Before
  <2> QED
    BY <1>1, <2>2, <2>3
<1> QED
  BY <1>1, <1>2 DEF Chain, kept

(* Taking the first pack. *)
LEMMA ChainTail ==
  ASSUME NEW last \in Nat, NEW packs \in Seq(Packs), packs # <<>>, Chain(last, packs)
  PROVE  /\ RunFrom(last, Head(packs))
         /\ Chain(last + Len(Head(packs)), Tail(packs))
         /\ EndOf(last + Len(Head(packs)), Tail(packs)) = EndOf(last, packs)
<1> DEFINE n == Len(packs)
           rest == Tail(packs)
<1>1. /\ n \in Nat /\ n > 0 /\ Head(packs) = packs[1] /\ Len(rest) = n - 1
      /\ \A i \in 1..(n - 1) : rest[i] = packs[i + 1]
      /\ packs[1] \in Packs
  <2>1. n \in Nat /\ n > 0
    BY EmptySeq, LenProperties
  <2> QED
    BY <2>1, HeadTailProperties, ElementOfSeq
<1>2. Len(packs[1]) > 0 /\ RunFrom(last, packs[1])
  <2>1. 1 \in 1..Len(packs)
    BY <1>1
  <2>2. Len(packs[1]) > 0 /\ RunFrom(Before(last, packs, 1), packs[1])
    BY <2>1 DEF Chain
  <2> QED
    BY <2>2 DEF Before
<1>3. Len(packs[1]) \in Nat /\ packs[1][1].sequence = last + 1
  BY <1>1, <1>2, PackFields DEF RunFrom
<1> DEFINE first == last + Len(packs[1])
<1>4. ASSUME NEW i \in 1..n PROVE Before(first, rest, i) = Before(last, packs, i + 1)
  <2>1. CASE i = 1
    <3>1. Before(first, rest, i) = first
      BY <2>1 DEF Before
    <3>2. Before(last, packs, i + 1) = packs[1][1].sequence + Len(packs[1]) - 1
      BY <2>1 DEF Before
    <3>3. packs[1][1].sequence + Len(packs[1]) - 1 = first
      <4>1. \A m, k \in Nat : (m + 1) + k - 1 = m + k
        OBVIOUS
      <4> QED
        BY <1>3, <4>1
    <3> HIDE DEF first
    <3> QED
      BY <3>1, <3>2, <3>3
  <2>2. CASE i # 1
    <3>1. i - 1 \in 1..(n - 1) /\ i + 1 # 1 /\ (i + 1) - 1 = i /\ (i - 1) + 1 = i
      BY <1>1, <2>2
    <3>2. rest[i - 1] = packs[i]
      BY <1>1, <3>1
    <3> HIDE DEF rest, first
    <3>3. Before(first, rest, i) = rest[i - 1][1].sequence + Len(rest[i - 1]) - 1
      BY <2>2 DEF Before
    <3>4. Before(last, packs, i + 1) = packs[i][1].sequence + Len(packs[i]) - 1
      <4>1. Before(last, packs, i + 1)
              = packs[(i + 1) - 1][1].sequence + Len(packs[(i + 1) - 1]) - 1
        BY <3>1 DEF Before
      <4> QED
        BY <3>1, <4>1
    <3> QED
      BY <3>2, <3>3, <3>4
  <2> QED
    BY <2>1, <2>2
<1>5. Chain(first, rest)
  <2>1. ASSUME NEW i \in 1..Len(rest)
        PROVE  Len(rest[i]) > 0 /\ RunFrom(Before(first, rest, i), rest[i])
    <3>1. i \in 1..n /\ i + 1 \in 1..Len(packs) /\ rest[i] = packs[i + 1]
      BY <1>1, <2>1
    <3>2. Len(packs[i + 1]) > 0 /\ RunFrom(Before(last, packs, i + 1), packs[i + 1])
      BY <3>1 DEF Chain
    <3> HIDE DEF rest, first, n
    <3> QED
      BY <1>4, <3>1, <3>2
  <2> HIDE DEF rest, first
  <2> QED
    BY <2>1 DEF Chain
<1>6. EndOf(first, rest) = EndOf(last, packs)
  <2>1. Len(rest) + 1 = n /\ n \in 1..n
    BY <1>1
  <2> HIDE DEF rest, first
  <2> QED
    BY <1>4, <2>1 DEF EndOf, n
<1> QED
  BY <1>1, <1>2, <1>5, <1>6

(* Applying the first transition. *)
LEMMA RunTail ==
  ASSUME NEW first \in Nat, NEW p \in Packs, p # <<>>, RunFrom(first, p)
  PROVE  /\ Head(p).sequence = first + 1 /\ RunFrom(first + 1, Tail(p))
         /\ (first + 1) + Len(Tail(p)) = first + Len(p)
<1>1. /\ p \in Seq(Transitions) /\ Len(p) \in Nat /\ Len(p) > 0
      /\ Head(p) = p[1] /\ Len(Tail(p)) = Len(p) - 1
      /\ \A i \in 1..(Len(p) - 1) : Tail(p)[i] = p[i + 1]
  <2>1. p \in Seq(Transitions) /\ Len(p) \in Nat /\ Len(p) > 0
    BY PackFields, EmptySeq
  <2> QED
    BY <2>1, HeadTailProperties
<1>2. 1 \in 1..Len(p) /\ p[1].sequence = first + 1
  BY <1>1 DEF RunFrom
<1>3. ASSUME NEW i \in 1..Len(Tail(p)) PROVE Tail(p)[i].sequence = (first + 1) + i
  <2>1. i + 1 \in 1..Len(p) /\ Tail(p)[i] = p[i + 1]
    BY <1>1
  <2>2. p[i + 1].sequence = first + (i + 1)
    BY <2>1 DEF RunFrom
  <2> QED
    BY <2>1, <2>2
<1> QED
  BY <1>1, <1>2, <1>3 DEF RunFrom

(* The next pack: the events in front of the channel under the next numbers. *)
NextPack == Numbered(SubSeq(channel, 1, PackLength))

LEMMA NextPackFields ==
  ASSUME TypeOK, channel # <<>>
  PROVE  /\ NextPack \in Packs /\ Len(NextPack) = PackLength /\ PackLength > 0
         /\ \A i \in 1..PackLength : /\ NextPack[i] = Transition(sequence + i, channel[i])
                                     /\ NextPack[i].sequence = sequence + i
                                     /\ NextPack[i].event = channel[i]
<1> DEFINE sent == SubSeq(channel, 1, PackLength)
<1>1. /\ channel \in Seq(Events) /\ Len(channel) \in Nat /\ Len(channel) > 0
      /\ \A i \in 1..Len(channel) : channel[i] \in Events
  BY ElementOfSeq, EmptySeq, LenProperties DEF TypeOK, LinkTypeOK
<1>2. /\ PackLength \in Nat /\ PackLength <= Len(channel) /\ PackLength <= PackSize
      /\ PackLength > 0
  BY <1>1, PackLengthType, Bounds DEF PackLength
<1>3. /\ sent \in Seq(Events) /\ Len(sent) = PackLength
      /\ \A i \in 1..PackLength : sent[i] = channel[i]
  BY <1>1, <1>2, SubSeqProperties
<1> HIDE DEF sent
<1>4. Numbered(sent) \in Packs
  BY <1>2, <1>3, NumberedType
<1>5. Numbered(sent) = [i \in 1..PackLength |-> Transition(sequence + i, sent[i])]
  BY <1>3 DEF Numbered
<1>6. Len(Numbered(sent)) = PackLength
  BY <1>2, <1>4, <1>5, PackFields, LenProperties
<1>7. ASSUME NEW i \in 1..PackLength
      PROVE  /\ Numbered(sent)[i] = Transition(sequence + i, channel[i])
             /\ Numbered(sent)[i].sequence = sequence + i
             /\ Numbered(sent)[i].event = channel[i]
  <2>1. Numbered(sent)[i] = Transition(sequence + i, channel[i])
    BY <1>3, <1>5
  <2>2. \A n, e : Transition(n, e).sequence = n /\ Transition(n, e).event = e
    BY DEF Transition
  <2> QED
    BY <2>1, <2>2
<1> QED
  BY <1>2, <1>4, <1>6, <1>7 DEF NextPack, sent

LEMMA AppliedType ==
  ASSUME TypeOK
  PROVE  /\ session.sequence \in Nat /\ Len(pack) \in Nat /\ Applied \in Nat
         /\ pack \in Packs /\ stream \in Seq(Packs) /\ sequence \in Nat
<1>1. session.sequence \in Nat /\ pack \in Packs
  BY DEF TypeOK, HostTypeOK
<1>2. Len(pack) \in Nat
  BY <1>1, PackFields
<1> QED
  BY <1>1, <1>2 DEF Applied, TypeOK, LinkTypeOK, PlayerTypeOK

(* The task's actions: packs are appended, or the stream is cut off.       *)
LEMMA NumberTaskStep ==
  ASSUME TypeOK, NumberInv, Task \/ SeeEnd \/ StartSession \/ Accept \/ LoseConnection
  PROVE  NumberInv'
<1> USE DEF userVars, playerVars, hostVars, historyVars, sentVars
<1>0. /\ session.sequence \in Nat /\ Len(pack) \in Nat /\ Applied \in Nat
      /\ pack \in Packs /\ stream \in Seq(Packs) /\ sequence \in Nat
  BY AppliedType
<1>1. CASE SendPack
  <2>1. /\ playerAt = "streaming" /\ open /\ channel # <<>>
        /\ stream' = Append(stream, NextPack) /\ sequence' = sequence + PackLength
        /\ UNCHANGED <<playerAt, open, hostAt, pack, session, outOfOrder>>
    BY <1>1 DEF SendPack, NextPack
  <2>2. /\ NextPack \in Packs /\ Len(NextPack) = PackLength /\ PackLength > 0
        /\ \A i \in 1..PackLength : NextPack[i].sequence = sequence + i
    BY <2>1, NextPackFields
  <2>3. ASSUME hostAt = "serving" PROVE Numbers'
    <3>1. RunFrom(session.sequence, pack) /\ Chain(Applied, stream)
          /\ sequence = EndOf(Applied, stream)
      BY <2>1, <2>3 DEF NumberInv, Numbers
    <3>2. RunFrom(EndOf(Applied, stream), NextPack)
      BY <2>2, <3>1 DEF RunFrom
    <3>3. /\ Chain(Applied, Append(stream, NextPack))
          /\ EndOf(Applied, Append(stream, NextPack)) = EndOf(Applied, stream) + Len(NextPack)
      BY <1>0, <2>2, <3>1, <3>2, ChainAppend
    <3>4. Applied' = Applied
      BY <2>1 DEF Applied
    <3>5. Chain(Applied', stream') /\ sequence' = EndOf(Applied', stream')
      BY <2>1, <2>2, <3>1, <3>3, <3>4
    <3> QED
      BY <2>1, <3>1, <3>5 DEF Numbers
  <2> QED
    BY <2>1, <2>3 DEF NumberInv
<1>2. CASE Finish
  <2> DEFINE last == <<Transition(sequence', ReleaseAll)>>
  <2>1. /\ playerAt = "streaming" /\ open /\ sequence' = sequence + 1
        /\ \/ stream' = Append(stream, last) /\ playerAt' = "finishing" /\ open' = open
           \/ stream' = stream /\ playerAt' = "ended" /\ open' = FALSE
        /\ UNCHANGED <<hostAt, pack, session, outOfOrder>>
    BY <1>2 DEF Finish, NextSequence
  <2>2. /\ last \in Packs /\ Len(last) = 1 /\ Len(last) > 0
        /\ last[1].sequence = sequence + 1
    <3>1. /\ Transition(sequence', ReleaseAll) \in Transitions
          /\ Transition(sequence', ReleaseAll).sequence = sequence + 1
      BY <1>0, <2>1, EventsAreEvents DEF Transition, Transitions
    <3>2. last \in Seq(Transitions) /\ Len(last) = 1 /\ last[1] = Transition(sequence', ReleaseAll)
      BY <3>1
    <3> QED
      BY <3>1, <3>2, Bounds DEF Packs
  <2> HIDE DEF last
  <2>3. ASSUME hostAt = "serving" PROVE Numbers'
    <3>1. RunFrom(session.sequence, pack) /\ Chain(Applied, stream)
          /\ sequence = EndOf(Applied, stream)
      BY <2>1, <2>3 DEF NumberInv, Numbers
    <3>2. RunFrom(EndOf(Applied, stream), last)
      BY <1>0, <2>2, <3>1 DEF RunFrom
    <3>3. Chain(Applied, Append(stream, last))
      BY <1>0, <2>2, <3>1, <3>2, ChainAppend
    <3>4. Applied' = Applied
      BY <2>1 DEF Applied
    <3>5. Chain(Applied', stream')
      BY <2>1, <3>1, <3>3, <3>4
    <3> QED
      BY <2>1, <3>1, <3>5 DEF Numbers
  <2> QED
    BY <2>1, <2>3 DEF NumberInv
<1>3. CASE ClosePlayer \/ LoseConnection
  <2>1. /\ open' = FALSE /\ (playerAt' = playerAt \/ playerAt' = "ended")
        /\ \E received \in 0..Len(stream) : stream' = SubSeq(stream, 1, received)
        /\ UNCHANGED <<sequence, hostAt, pack, session, outOfOrder>>
    BY <1>3 DEF ClosePlayer, LoseConnection
  <2>2. ASSUME hostAt = "serving" PROVE Numbers'
    <3>1. RunFrom(session.sequence, pack) /\ Chain(Applied, stream)
      BY <2>2 DEF NumberInv, Numbers
    <3>2. Chain(Applied, stream')
      BY <1>0, <2>1, <3>1, ChainPrefix
    <3>3. Applied' = Applied
      BY <2>1 DEF Applied
    <3>4. Chain(Applied', stream')
      BY <3>2, <3>3
    <3> QED
      BY <2>1, <3>1, <3>4 DEF Numbers
  <2> QED
    BY <2>1, <2>2 DEF NumberInv
<1>4. CASE AbandonConnect \/ SeeEnd \/ StartSession
  <2>1. /\ playerAt \notin {"streaming", "finishing"} /\ playerAt' # "streaming"
        /\ playerAt' = "connecting" => sequence' = 0
        /\ UNCHANGED <<open, stream, hostAt, pack, session, outOfOrder>>
    BY <1>4 DEF AbandonConnect, SeeEnd, StartSession
  <2>2. Applied' = Applied
    BY <2>1 DEF Applied
  <2>3. hostAt = "serving" => Numbers'
    <3> SUFFICES ASSUME hostAt = "serving" PROVE Numbers'
      OBVIOUS
    <3>1. RunFrom(session.sequence, pack) /\ Chain(Applied, stream)
      BY DEF NumberInv, Numbers
    <3>2. Chain(Applied', stream')
      BY <2>1, <2>2, <3>1
    <3> QED
      BY <2>1, <3>1, <3>2 DEF Numbers
  <2> QED
    BY <2>1, <2>3 DEF NumberInv
<1>5. CASE Accept
  <2>1. /\ playerAt = "connecting" /\ playerAt' = "streaming"
        /\ stream' = <<>> /\ pack' = <<>> /\ session' = FreshSession
        /\ UNCHANGED <<sequence, outOfOrder>>
    BY <1>5 DEF Accept
  <2>2. /\ session'.sequence = 0 /\ sequence' = 0 /\ Len(pack') = 0 /\ Len(stream') = 0
    BY <2>1 DEF NumberInv, FreshSession
  <2>3. Applied' = 0
    BY <2>2 DEF Applied
  <2>4. EndOf(0, <<>>) = 0 /\ Chain(0, <<>>) /\ RunFrom(0, <<>>)
    BY DEF EndOf, Before, Chain, RunFrom
  <2>5. Numbers'
    BY <2>1, <2>2, <2>3, <2>4 DEF Numbers
  <2> QED
    BY <2>1, <2>5 DEF NumberInv
<1> QED
  BY <1>1, <1>2, <1>3, <1>4, <1>5 DEF Task

(* The host's actions: the run is consumed from its front.                 *)
LEMMA NumberHostStep ==
  ASSUME TypeOK, NumberInv, Host
  PROVE  NumberInv'
<1> USE DEF userVars, playerVars, hostVars, historyVars, sentVars
<1>0. /\ session.sequence \in Nat /\ Len(pack) \in Nat /\ Applied \in Nat
      /\ pack \in Packs /\ stream \in Seq(Packs) /\ sequence \in Nat
  BY AppliedType
<1>1. CASE TakePack
  <2>1. /\ hostAt = "serving" /\ pack = <<>> /\ stream # <<>>
        /\ pack' = Head(stream) /\ stream' = Tail(stream)
        /\ UNCHANGED <<playerAt, sequence, open, hostAt, session, outOfOrder>>
    BY <1>1 DEF TakePack
  <2>2. /\ Chain(Applied, stream)
        /\ playerAt = "streaming" /\ open => sequence = EndOf(Applied, stream)
    BY <2>1 DEF NumberInv, Numbers
  <2>3. Applied = session.sequence /\ Applied' = Applied + Len(Head(stream))
    <3>1. Len(pack) = 0
      BY <2>1
    <3> QED
      BY <1>0, <2>1, <3>1 DEF Applied
  <2>4. /\ RunFrom(Applied, Head(stream))
        /\ Chain(Applied + Len(Head(stream)), Tail(stream))
        /\ EndOf(Applied + Len(Head(stream)), Tail(stream)) = EndOf(Applied, stream)
    BY <1>0, <2>1, <2>2, ChainTail
  <2>5. /\ RunFrom(session'.sequence, pack') /\ Chain(Applied', stream')
        /\ EndOf(Applied', stream') = EndOf(Applied, stream)
    BY <2>1, <2>3, <2>4
  <2>6. Numbers'
    BY <2>1, <2>2, <2>5 DEF Numbers
  <2> QED
    BY <2>1, <2>6 DEF NumberInv
<1>2. CASE ApplyTransition
  <2>1. /\ hostAt = "serving" /\ pack # <<>> /\ Head(pack).sequence = session.sequence + 1
        /\ UNCHANGED <<playerAt, sequence, open, stream, outOfOrder>>
        /\ \/ /\ session'.sequence = Head(pack).sequence /\ pack' = Tail(pack)
           \/ hostAt' = "releasing"
    <3>1. PICK r \in Apply(session.state, device, Head(pack).event) :
            IF r.ok THEN Stay(Head(pack), r) ELSE Fail(r)
      BY <1>2 DEF ApplyTransition
    <3>2. \/ session'.sequence = Head(pack).sequence /\ pack' = Tail(pack)
          \/ hostAt' = "releasing"
      BY <3>1 DEF Stay, Fail
    <3> QED
      BY <1>2, <3>2 DEF ApplyTransition, InOrder
  <2>2. /\ RunFrom(session.sequence, pack) /\ Chain(Applied, stream)
        /\ playerAt = "streaming" /\ open => sequence = EndOf(Applied, stream)
    BY <2>1 DEF NumberInv, Numbers
  <2>3. /\ RunFrom(session.sequence + 1, Tail(pack))
        /\ (session.sequence + 1) + Len(Tail(pack)) = session.sequence + Len(pack)
    BY <1>0, <2>1, <2>2, RunTail
  <2>4. ASSUME session'.sequence = Head(pack).sequence, pack' = Tail(pack)
        PROVE  Numbers'
    <3>1. RunFrom(session'.sequence, pack') /\ Applied' = Applied
      BY <2>1, <2>3, <2>4 DEF Applied
    <3>2. Chain(Applied', stream') /\ EndOf(Applied', stream') = EndOf(Applied, stream)
      BY <2>1, <2>2, <3>1
    <3> QED
      BY <2>1, <2>2, <3>1, <3>2 DEF Numbers
  <2> QED
    BY <2>1, <2>4 DEF NumberInv
<1>3. CASE RefuseTransition
  <2>1. /\ hostAt = "serving" /\ pack # <<>> /\ hostAt' = "releasing"
        /\ outOfOrder' = (outOfOrder \/ ~InOrder(Head(pack)))
        /\ UNCHANGED <<playerAt, sequence, open>>
    BY <1>3 DEF RefuseTransition
  <2>2. InOrder(Head(pack))
    <3>1. RunFrom(session.sequence, pack)
      BY <2>1 DEF NumberInv, Numbers
    <3> QED
      BY <1>0, <2>1, <3>1, RunTail DEF InOrder
  <2> QED
    BY <2>1, <2>2 DEF NumberInv
<1>4. CASE EndSession \/ ReleaseInput \/ CloseSession
  <2>1. /\ hostAt' # "serving" /\ (open' = open \/ open' = FALSE)
        /\ UNCHANGED <<playerAt, sequence, outOfOrder>>
    BY <1>4 DEF EndSession, ReleaseInput, CloseSession
  <2> QED
    BY <2>1 DEF NumberInv
<1> QED
  BY <1>1, <1>2, <1>3, <1>4 DEF Host

LEMMA NumberStep ==
  ASSUME TypeOK, NumberInv, [Next]_vars
  PROVE  NumberInv'
<1>1. CASE Window \/ UNCHANGED vars
  <2>1. UNCHANGED <<playerAt, sequence, stream, open, hostAt, pack, session, outOfOrder>>
    BY <1>1 DEF vars, Window, UserActs, Reconnect, PressKey, ReleaseKey, PressButton,
           ReleaseButton, MovePointer, LoseFocus, GainFocus, ReleasePointerCapture, playerVars,
           hostVars, historyVars
  <2>2. Applied' = Applied
    BY <2>1 DEF Applied
  <2>3. /\ Chain(Applied', stream') = Chain(Applied, stream)
        /\ EndOf(Applied', stream') = EndOf(Applied, stream)
        /\ RunFrom(session'.sequence, pack') = RunFrom(session.sequence, pack)
    BY <2>1, <2>2
  <2> QED
    BY <2>1, <2>3 DEF NumberInv, Numbers
<1> QED
  BY <1>1, NumberTaskStep, NumberHostStep DEF Next

-----------------------------------------------------------------------------
(* No event is dropped, doubled or overtaken: what the events amount to.   *)

AmountOf(log, n) == IF n = 0 THEN Nothing ELSE log[n]

(* The event is the one that the window has sent under this number. *)
Fits(log, number, event) ==
  number \in 1..Len(log) /\ log[number] = Effect(AmountOf(log, number - 1), event)
AllFit(log, transitions) ==
  \A i \in 1..Len(transitions) : Fits(log, transitions[i].sequence, transitions[i].event)

(* The numbered events and those in the channel are all that was sent. *)
Counted ==
  /\ Len(amounts) = sequence + Len(channel)
  /\ forwarded = AmountOf(amounts, Len(amounts))
  /\ \A i \in 1..Len(channel) : Fits(amounts, sequence + i, channel[i])

(* The session has applied the first of them, the others are on their way. *)
Carried ==
  /\ session.sequence <= Len(amounts)
  /\ session.state = AmountOf(amounts, session.sequence)
  /\ AllFit(amounts, pack)
  /\ \A i \in 1..Len(stream) : AllFit(amounts, stream[i])

AmountInv ==
  /\ playerAt \in {"connecting", "streaming"} => Counted
  /\ Streaming => Carried

LEMMA LogAppend ==
  ASSUME NEW log \in Seq(States), NEW s \in States
  PROVE  /\ Append(log, s) \in Seq(States) /\ Len(Append(log, s)) = Len(log) + 1
         /\ \A n \in 0..Len(log) : AmountOf(Append(log, s), n) = AmountOf(log, n)
         /\ AmountOf(Append(log, s), Len(log) + 1) = s
         /\ \A n, e : Fits(log, n, e) => Fits(Append(log, s), n, e)
<1> DEFINE more == Append(log, s)
<1>1. /\ Len(log) \in Nat /\ more \in Seq(States) /\ Len(more) = Len(log) + 1
      /\ \A n \in 1..Len(log) : more[n] = log[n]
      /\ more[Len(log) + 1] = s
  BY LenProperties, AppendProperties
<1> HIDE DEF more
<1>2. ASSUME NEW n \in 0..Len(log) PROVE AmountOf(more, n) = AmountOf(log, n)
  BY <1>1 DEF AmountOf
<1>3. AmountOf(more, Len(log) + 1) = s
  <2>1. Len(log) + 1 # 0
    BY <1>1
  <2> QED
    BY <1>1, <2>1 DEF AmountOf
<1>4. ASSUME NEW n, NEW e, Fits(log, n, e) PROVE Fits(more, n, e)
  <2>1. n \in 1..Len(log) /\ log[n] = Effect(AmountOf(log, n - 1), e)
    BY <1>4 DEF Fits
  <2>2. n \in 1..Len(more) /\ n - 1 \in 0..Len(log) /\ more[n] = log[n]
    BY <1>1, <2>1
  <2>3. AmountOf(more, n - 1) = AmountOf(log, n - 1)
    BY <1>2, <2>2
  <2> QED
    BY <2>1, <2>2, <2>3 DEF Fits
<1> QED
  BY <1>1, <1>2, <1>3, <1>4 DEF more

(* The window sends: the log and the channel grow by the same event.       *)
LEMMA SendCounts ==
  ASSUME TypeOK, Counted, NEW e \in Events, forwarded' = Effect(forwarded, e),
         channel' = Append(channel, e), amounts' = Append(amounts, forwarded'),
         sequence' = sequence
  PROVE  /\ Counted'
         /\ Len(amounts') = Len(amounts) + 1
         /\ \A n \in 0..Len(amounts) : AmountOf(amounts', n) = AmountOf(amounts, n)
         /\ \A n, f : Fits(amounts, n, f) => Fits(amounts', n, f)
<1>1. /\ amounts \in Seq(States) /\ Len(amounts) \in Nat /\ forwarded \in States
      /\ channel \in Seq(Events) /\ Len(channel) \in Nat /\ sequence \in Nat
  BY LenProperties DEF TypeOK, PlayerTypeOK, LinkTypeOK
<1>2. forwarded' \in States
  BY <1>1, EffectType
<1>3. /\ Len(amounts') = Len(amounts) + 1
      /\ \A n \in 0..Len(amounts) : AmountOf(amounts', n) = AmountOf(amounts, n)
      /\ AmountOf(amounts', Len(amounts) + 1) = forwarded'
      /\ \A n, f : Fits(amounts, n, f) => Fits(amounts', n, f)
  BY <1>1, <1>2, LogAppend
<1>4. /\ Len(channel') = Len(channel) + 1 /\ channel'[Len(channel) + 1] = e
      /\ \A i \in 1..Len(channel) : channel'[i] = channel[i]
  BY <1>1, AppendProperties
<1>5. Len(amounts') = sequence' + Len(channel')
  BY <1>1, <1>3, <1>4 DEF Counted
<1>6. forwarded' = AmountOf(amounts', Len(amounts'))
  BY <1>3
<1>7. ASSUME NEW i \in 1..Len(channel') PROVE Fits(amounts', sequence' + i, channel'[i])
  <2>1. CASE i \in 1..Len(channel)
    <3>1. Fits(amounts, sequence + i, channel[i])
      BY <2>1 DEF Counted
    <3> QED
      BY <1>3, <1>4, <2>1, <3>1
  <2>2. CASE i \notin 1..Len(channel)
    <3>1. /\ i = Len(channel) + 1 /\ sequence' + i = Len(amounts) + 1 /\ channel'[i] = e
      BY <1>1, <1>4, <2>2 DEF Counted
    <3>2. amounts'[Len(amounts) + 1] = forwarded'
      BY <1>1, <1>2, AppendProperties
    <3>3. AmountOf(amounts', Len(amounts)) = forwarded
      BY <1>1, <1>3 DEF Counted
    <3>4. /\ Len(amounts) + 1 \in 1..Len(amounts') /\ (Len(amounts) + 1) - 1 = Len(amounts)
      BY <1>1, <1>3
    <3>5. Fits(amounts', Len(amounts) + 1, e)
      BY <3>2, <3>3, <3>4 DEF Fits
    <3> QED
      BY <3>1, <3>5
  <2> QED
    BY <2>1, <2>2
<1> QED
  BY <1>3, <1>5, <1>6, <1>7 DEF Counted

(* A longer log keeps what is on its way. *)
LEMMA CarriedAfterSend ==
  ASSUME TypeOK, Carried, UNCHANGED <<session, pack, stream>>,
         Len(amounts') = Len(amounts) + 1,
         \A n \in 0..Len(amounts) : AmountOf(amounts', n) = AmountOf(amounts, n),
         \A n, f : Fits(amounts, n, f) => Fits(amounts', n, f)
  PROVE  Carried'
<1>1. /\ session.sequence \in Nat /\ Len(amounts) \in Nat
      /\ session.sequence <= Len(amounts)
      /\ session.state = AmountOf(amounts, session.sequence)
  BY LenProperties DEF TypeOK, PlayerTypeOK, HostTypeOK, Carried
<1>2. /\ session.sequence <= Len(amounts')
      /\ session.state = AmountOf(amounts', session.sequence)
  BY <1>1
<1>3. \A p : AllFit(amounts, p) => AllFit(amounts', p)
  BY DEF AllFit
<1>4. AllFit(amounts', pack) /\ \A i \in 1..Len(stream) : AllFit(amounts', stream[i])
  BY <1>3 DEF Carried
<1> QED
  BY <1>2, <1>4 DEF Carried

LEMMA AmountWindowStep ==
  ASSUME TypeOK, AmountInv, Window
  PROVE  AmountInv'
<1>1. /\ NotSent \/ \E e \in Events : Send(e)
      /\ UNCHANGED <<playerAt, sequence, stream, open, hostAt, pack, session>>
  BY WindowSends
<1>2. CASE UNCHANGED <<channel, forwarded, amounts>>
  BY <1>1, <1>2 DEF AmountInv, Counted, Carried, Streaming, AllFit, Fits, AmountOf
<1>3. CASE \E e \in Events : Send(e) /\ ~Gone
  <2>1. PICK e \in Events : /\ forwarded' = Effect(forwarded, e)
                            /\ channel' = Append(channel, e)
                            /\ amounts' = Append(amounts, forwarded')
    BY <1>3 DEF Send
  <2>2. ASSUME Counted
        PROVE  /\ Counted'
               /\ Len(amounts') = Len(amounts) + 1
               /\ \A n \in 0..Len(amounts) : AmountOf(amounts', n) = AmountOf(amounts, n)
               /\ \A n, f : Fits(amounts, n, f) => Fits(amounts', n, f)
    BY <1>1, <2>1, <2>2, SendCounts
  <2>3. Counted /\ Carried => Carried'
    BY <1>1, <2>2, CarriedAfterSend
  <2>4. Streaming => Counted /\ Carried
    BY DEF AmountInv, Streaming
  <2>5. Streaming' = Streaming
    BY <1>1 DEF Streaming
  <2> QED
    BY <1>1, <2>2, <2>3, <2>4, <2>5 DEF AmountInv
<1> QED
  <2>1. NotSent => UNCHANGED <<channel, forwarded, amounts>>
    BY DEF NotSent, sentVars
  <2>2. \A e : Send(e) /\ Gone => UNCHANGED <<channel, forwarded, amounts>>
    BY DEF Send, sentVars
  <2> QED
    BY <1>1, <1>2, <1>3, <2>1, <2>2

LEMMA AmountTaskStep ==
  ASSUME TypeOK, AmountInv, NumberInv,
         Task \/ SeeEnd \/ StartSession \/ Accept \/ LoseConnection
  PROVE  AmountInv'
<1> USE DEF userVars, playerVars, hostVars, historyVars, sentVars
<1>0. /\ stream \in Seq(Packs) /\ Len(stream) \in Nat /\ sequence \in Nat
      /\ channel \in Seq(Events) /\ Len(channel) \in Nat
  BY LenProperties DEF TypeOK, LinkTypeOK, PlayerTypeOK
<1>1. CASE SendPack
  <2>1. /\ playerAt = "streaming" /\ open /\ channel # <<>>
        /\ stream' = Append(stream, NextPack) /\ sequence' = sequence + PackLength
        /\ channel' = SubSeq(channel, PackLength + 1, Len(channel))
        /\ UNCHANGED <<playerAt, open, hostAt, pack, session, forwarded, amounts>>
    BY <1>1 DEF SendPack, NextPack
  <2>2. /\ NextPack \in Packs /\ Len(NextPack) = PackLength
        /\ \A i \in 1..PackLength : /\ NextPack[i].sequence = sequence + i
                                    /\ NextPack[i].event = channel[i]
    BY <2>1, NextPackFields
  <2>3. PackLength \in Nat /\ PackLength <= Len(channel)
    BY PackLengthType, <1>0
  <2>4. /\ Len(channel') = Len(channel) - PackLength
        /\ \A i \in 1..(Len(channel) - PackLength) : channel'[i] = channel[PackLength + i]
    <3>1. /\ \A i \in (PackLength + 1)..Len(channel) : channel[i] \in Events
          /\ PackLength + 1 \in Int /\ Len(channel) \in Int
      BY <1>0, <2>3, ElementOfSeq
    <3>2. /\ channel' \in Seq(Events)
          /\ Len(channel') = IF PackLength + 1 <= Len(channel)
                               THEN Len(channel) - (PackLength + 1) + 1 ELSE 0
          /\ \A i \in 1..Len(channel) - (PackLength + 1) + 1 :
               channel'[i] = channel[(PackLength + 1) + i - 1]
      BY <2>1, <3>1, SubSeqProperties
    <3>3. Len(channel') = Len(channel) - PackLength
      BY <1>0, <2>3, <3>2
    <3>4. ASSUME NEW i \in 1..(Len(channel) - PackLength)
          PROVE  channel'[i] = channel[PackLength + i]
      <4>1. /\ i \in 1..Len(channel) - (PackLength + 1) + 1
            /\ (PackLength + 1) + i - 1 = PackLength + i
        BY <1>0, <2>3
      <4> QED
        BY <3>2, <4>1
    <3> QED
      BY <3>3, <3>4
  <2>5. Counted
    BY <2>1 DEF AmountInv
  <2>6. Counted'
    <3>1. Len(amounts') = sequence' + Len(channel')
      <4>1. Len(amounts) = sequence + Len(channel)
        BY <2>5 DEF Counted
      <4>2. \A k, n, m \in Nat : k + n = (k + m) + (n - m)
        OBVIOUS
      <4>3. sequence + Len(channel) = (sequence + PackLength) + (Len(channel) - PackLength)
        BY <1>0, <2>3, <4>2
      <4> QED
        BY <2>1, <2>4, <4>1, <4>3
    <3>2. ASSUME NEW i \in 1..Len(channel') PROVE Fits(amounts', sequence' + i, channel'[i])
      <4>1. /\ PackLength + i \in 1..Len(channel) /\ channel'[i] = channel[PackLength + i]
            /\ sequence' + i = sequence + (PackLength + i)
        BY <1>0, <2>1, <2>3, <2>4
      <4>2. Fits(amounts, sequence + (PackLength + i), channel[PackLength + i])
        BY <2>5, <4>1 DEF Counted
      <4> QED
        BY <2>1, <4>1, <4>2
    <3> QED
      BY <2>1, <2>5, <3>1, <3>2 DEF Counted
  <2>7. ASSUME Streaming' PROVE Carried'
    <3>1. Carried
      BY <2>1, <2>7 DEF Streaming, AmountInv
    <3>2. AllFit(amounts, NextPack)
      <4>1. ASSUME NEW i \in 1..Len(NextPack)
            PROVE  Fits(amounts, NextPack[i].sequence, NextPack[i].event)
        <5>1. i \in 1..Len(channel) /\ i \in 1..PackLength
          BY <1>0, <2>2, <2>3
        <5>2. Fits(amounts, sequence + i, channel[i])
          BY <2>5, <5>1 DEF Counted
        <5> QED
          BY <2>2, <5>1, <5>2
      <4> QED
        BY <4>1 DEF AllFit
    <3>3. /\ Len(stream') = Len(stream) + 1 /\ stream'[Len(stream) + 1] = NextPack
          /\ \A i \in 1..Len(stream) : stream'[i] = stream[i]
      BY <1>0, <2>1, <2>2, AppendProperties
    <3>4. ASSUME NEW i \in 1..Len(stream') PROVE AllFit(amounts, stream'[i])
      <4>1. i \in 1..Len(stream) \/ i = Len(stream) + 1
        BY <1>0, <3>3
      <4> QED
        BY <3>1, <3>2, <3>3, <4>1 DEF Carried
    <3> QED
      BY <2>1, <3>1, <3>4 DEF Carried
  <2> QED
    BY <2>6, <2>7 DEF AmountInv
<1>2. CASE Finish \/ ClosePlayer \/ LoseConnection \/ AbandonConnect \/ SeeEnd
  <2>1. /\ ~Streaming'
        /\ \/ playerAt' \notin {"connecting", "streaming"}
           \/ playerAt' = playerAt /\ sequence' = sequence
        /\ UNCHANGED <<channel, forwarded, amounts>>
    BY <1>2 DEF Finish, ClosePlayer, LoseConnection, AbandonConnect, SeeEnd, Streaming
  <2> QED
    BY <2>1 DEF AmountInv, Counted
<1>3. CASE StartSession
  <2>1. /\ ~Streaming' /\ sequence' = 0 /\ channel' = <<>> /\ amounts' = <<>>
        /\ forwarded' = Nothing
    BY <1>3 DEF StartSession, Streaming
  <2>2. Len(channel') = 0 /\ Len(amounts') = 0
    BY <2>1
  <2>3. Counted'
    BY <2>1, <2>2 DEF Counted, AmountOf
  <2> QED
    BY <2>1, <2>3 DEF AmountInv
<1>4. CASE Accept
  <2>1. /\ playerAt = "connecting" /\ stream' = <<>> /\ pack' = <<>> /\ session' = FreshSession
        /\ UNCHANGED <<sequence, channel, forwarded, amounts>>
    BY <1>4 DEF Accept
  <2>2. Counted'
    BY <2>1 DEF AmountInv, Counted
  <2>3. /\ session'.sequence = 0 /\ session'.state = Nothing
        /\ Len(pack') = 0 /\ Len(stream') = 0
    BY <2>1 DEF FreshSession
  <2>4. Len(amounts') \in Nat
    BY <2>1, LenProperties DEF TypeOK, PlayerTypeOK
  <2>5. Carried'
    BY <2>3, <2>4 DEF Carried, AllFit, AmountOf
  <2> QED
    BY <2>2, <2>5 DEF AmountInv
<1> QED
  BY <1>1, <1>2, <1>3, <1>4 DEF Task

LEMMA AmountHostStep ==
  ASSUME TypeOK, AmountInv, Host
  PROVE  AmountInv'
<1> USE DEF userVars, playerVars, hostVars, historyVars, sentVars
<1>0. UNCHANGED <<playerAt, sequence, channel, forwarded, amounts>>
  BY DEF Host, TakePack, ApplyTransition, RefuseTransition, EndSession, ReleaseInput,
         CloseSession
<1>1. playerAt' \in {"connecting", "streaming"} => Counted'
  BY <1>0 DEF AmountInv, Counted
<1>2. CASE TakePack
  <2>1. /\ stream # <<>> /\ pack' = Head(stream) /\ stream' = Tail(stream)
        /\ UNCHANGED <<open, hostAt, session>>
    BY <1>2 DEF TakePack
  <2>2. /\ stream \in Seq(Packs) /\ Len(stream) \in Nat /\ Len(stream) > 0
    BY <2>1, EmptySeq, LenProperties DEF TypeOK, LinkTypeOK
  <2>3. /\ Head(stream) = stream[1] /\ Len(Tail(stream)) = Len(stream) - 1
        /\ \A i \in 1..(Len(stream) - 1) : Tail(stream)[i] = stream[i + 1]
    BY <2>1, <2>2, HeadTailProperties
  <2>4. ASSUME Streaming' PROVE Carried'
    <3>1. Carried
      BY <1>0, <2>1, <2>4 DEF Streaming, AmountInv
    <3>2. 1 \in 1..Len(stream) /\ AllFit(amounts, stream[1])
      BY <2>2, <3>1 DEF Carried
    <3>3. ASSUME NEW i \in 1..Len(stream') PROVE AllFit(amounts, stream'[i])
      <4>1. i + 1 \in 1..Len(stream) /\ stream'[i] = stream[i + 1]
        BY <2>1, <2>2, <2>3
      <4> QED
        BY <3>1, <4>1 DEF Carried
    <3> QED
      BY <1>0, <2>1, <2>3, <3>1, <3>2, <3>3 DEF Carried
  <2> QED
    BY <1>1, <2>4 DEF AmountInv
<1>3. CASE ApplyTransition
  <2>1. PICK r \in Apply(session.state, device, Head(pack).event) :
          IF r.ok THEN Stay(Head(pack), r) ELSE Fail(r)
    BY <1>3 DEF ApplyTransition
  <2>2. CASE ~r.ok
    <3>1. ~Streaming'
      BY <2>1, <2>2 DEF Fail, Streaming
    <3> QED
      BY <1>1, <3>1 DEF AmountInv
  <2>3. CASE r.ok
    <3>1. /\ session'.sequence = Head(pack).sequence /\ session'.state = r.state
          /\ pack' = Tail(pack) /\ pack # <<>>
          /\ Head(pack).sequence = session.sequence + 1
          /\ UNCHANGED <<hostAt, open, stream>>
      <4>1. Stay(Head(pack), r)
        BY <2>1, <2>3
      <4> QED
        BY <4>1, <1>3 DEF Stay, ApplyTransition, InOrder
    <3>2. /\ pack \in Seq(Transitions) /\ Len(pack) \in Nat /\ Len(pack) > 0
          /\ Head(pack) \in Transitions /\ Head(pack) = pack[1]
          /\ Len(Tail(pack)) = Len(pack) - 1
          /\ \A i \in 1..(Len(pack) - 1) : Tail(pack)[i] = pack[i + 1]
      <4>1. pack \in Packs
        BY DEF TypeOK, HostTypeOK
      <4>2. pack \in Seq(Transitions) /\ Len(pack) \in Nat /\ Len(pack) > 0
        BY <3>1, <4>1, PackFields, EmptySeq
      <4> QED
        BY <3>1, <4>2, HeadTailProperties
    <3>3. /\ session.state \in States /\ device \in States /\ Head(pack).event \in Events
          /\ session.sequence \in Nat /\ Len(amounts) \in Nat
      BY <3>2, LenProperties DEF TypeOK, HostTypeOK, PlayerTypeOK, Transitions
    <3>4. r.state = Effect(session.state, Head(pack).event)
      BY <2>1, <2>3, <3>3, ApplyEffect
    <3>5. ASSUME Streaming' PROVE Carried'
      <4>1. Carried
        BY <1>0, <3>1, <3>5 DEF Streaming, AmountInv
      <4>2. 1 \in 1..Len(pack) /\ Fits(amounts, pack[1].sequence, pack[1].event)
        BY <3>2, <4>1 DEF Carried, AllFit
      <4>3. /\ session.sequence + 1 \in 1..Len(amounts)
            /\ amounts[session.sequence + 1]
                 = Effect(AmountOf(amounts, (session.sequence + 1) - 1), Head(pack).event)
        BY <3>1, <3>2, <4>2 DEF Fits
      <4>4. (session.sequence + 1) - 1 = session.sequence /\ session.sequence + 1 # 0
        BY <3>3
      <4>5. r.state = AmountOf(amounts, session.sequence + 1)
        <5>1. session.state = AmountOf(amounts, session.sequence)
          BY <4>1 DEF Carried
        <5>2. r.state = amounts[session.sequence + 1]
          BY <3>4, <4>3, <4>4, <5>1
        <5> QED
          BY <4>4, <5>2 DEF AmountOf
      <4>6. AllFit(amounts, Tail(pack))
        <5>1. ASSUME NEW i \in 1..Len(Tail(pack))
              PROVE  Fits(amounts, Tail(pack)[i].sequence, Tail(pack)[i].event)
          <6>1. i + 1 \in 1..Len(pack) /\ Tail(pack)[i] = pack[i + 1]
            BY <3>2
          <6>2. Fits(amounts, pack[i + 1].sequence, pack[i + 1].event)
            BY <4>1, <6>1 DEF Carried, AllFit
          <6> QED
            BY <6>1, <6>2
        <5> QED
          BY <5>1 DEF AllFit
      <4>7. session'.sequence = session.sequence + 1 /\ session'.sequence <= Len(amounts')
        BY <1>0, <3>1, <3>3, <4>3
      <4>8. session'.state = AmountOf(amounts', session'.sequence)
        BY <1>0, <3>1, <4>5, <4>7
      <4>9. AllFit(amounts', pack') /\ \A i \in 1..Len(stream') : AllFit(amounts', stream'[i])
        BY <1>0, <3>1, <4>1, <4>6 DEF Carried
      <4> QED
        BY <4>7, <4>8, <4>9 DEF Carried
    <3> QED
      BY <1>1, <3>5 DEF AmountInv
  <2> QED
    BY <2>2, <2>3
<1>4. CASE RefuseTransition \/ EndSession \/ ReleaseInput \/ CloseSession
  <2>1. ~Streaming'
    BY <1>4 DEF RefuseTransition, EndSession, ReleaseInput, CloseSession, Streaming
  <2> QED
    BY <1>1, <2>1 DEF AmountInv
<1> QED
  BY <1>2, <1>3, <1>4 DEF Host

LEMMA AmountStep ==
  ASSUME TypeOK, NumberInv, AmountInv, [Next]_vars
  PROVE  AmountInv'
<1>1. CASE UNCHANGED vars
  <2>1. UNCHANGED <<playerAt, open, hostAt, sequence, channel, stream, pack, session, forwarded,
                    amounts>>
    BY <1>1 DEF vars, playerVars, hostVars, sentVars
  <2> QED
    BY <2>1 DEF AmountInv, Streaming, Counted, Carried
<1> QED
  BY <1>1, AmountWindowStep, AmountTaskStep, AmountHostStep DEF Next

LEMMA NothingLostInit ==
  ASSUME Init
  PROVE  NumberInv /\ AmountInv
<1>1. Len(amounts) = 0 /\ Len(channel) = 0
  BY DEF Init
<1> QED
  BY <1>1 DEF Init, NumberInv, AmountInv, Counted, Streaming, AmountOf

(* The host's session has applied exactly the first of the events that the *)
(* window has sent in this session, in their order, and never refuses one  *)
(* for its number: for every channel, pack and queue size, any number of   *)
(* sessions, and whatever fails or is cut off in between.                  *)
THEOREM NothingLostAlways == Spec => []NothingLost
<1>1. Init => NumberInv /\ AmountInv
  BY NothingLostInit
<1>2. TypeOK /\ NumberInv /\ AmountInv /\ [Next]_vars => NumberInv' /\ AmountInv'
  BY NumberStep, AmountStep
<1>3. NumberInv /\ AmountInv => NothingLost
  <2> SUFFICES ASSUME NumberInv, AmountInv PROVE NothingLost
    OBVIOUS
  <2>1. ~outOfOrder
    BY DEF NumberInv
  <2>2. Streaming => Counted /\ Carried
    BY DEF AmountInv, Streaming
  <2>3. Streaming => session.state = Amount(session.sequence)
    BY <2>2 DEF Carried, AmountOf, Amount
  <2>4. Streaming => Len(amounts) = sequence + Len(channel)
    BY <2>2 DEF Counted
  <2> QED
    BY <2>1, <2>3, <2>4 DEF NothingLost
<1> QED
  BY <1>1, <1>2, <1>3, TypeCorrect, PTL DEF Spec
=============================================================================
