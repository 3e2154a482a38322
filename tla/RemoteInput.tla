-------------------------------- MODULE RemoteInput --------------------------------
(***************************************************************************)
(* Keys and buttons on their way from the player's window to Windows.  The *)
(* window's loop turns what the user does into events and blocks while the *)
(* channel to the receiver task is full; the task numbers the events and   *)
(* sends them in packs over a reliable stream; the host's session applies  *)
(* one transition after the other and submits reports that carry the whole *)
(* state of a device.  Sessions end at any point and new ones start; the   *)
(* virtual devices, and what Windows believes to be held, live longer.     *)
(*                                                                         *)
(* HidPump carries an accepted report to Windows; here it arrives at once. *)
(***************************************************************************)
EXTENDS Naturals, Sequences

CONSTANTS
  Keys,            \* key usages the user presses
  UnknownKeys,     \* those above 0xe7, which no report can carry
  Buttons,         \* mouse buttons
  ChannelSize,     \* input_channel: 1024 events
  PackSize,        \* MAX_EVENTS_PER_PACK
  QueueSize,       \* packs in the task's queue, the stream and the host's queue
  MaxActions,      \* bound: what the user does
  MaxSessions,     \* bound: sessions
  MaxFaults        \* bound: reports that fail, connections that break

ASSUME ConstantsAssumption ==
  /\ {ChannelSize, PackSize, QueueSize, MaxSessions} \subseteq Nat \ {0}
  /\ {MaxActions, MaxFaults} \subseteq Nat
  /\ UnknownKeys \subseteq Keys
  /\ Keys \intersect Buttons = {}

VARIABLES
  pressed,         \* what the user holds down
  focused,         \* RemoteInputFocus.focused
  routing,         \* PointerRouting: buttons whose release goes to the GUI, to the host
  stopping,        \* ActiveStreamSession.stop is set, its thread is joined
  playerAt,        \* the session's thread in the player
  channel,         \* events between the window's loop and the task
  sequence,        \* input_sequence of the task
  stream,          \* packs between the task and the host's session
  stopSent,        \* VideoControl Stop is on its way
  open,            \* the connection stands
  hostAt,          \* where the host's session is
  pack,            \* transitions of the current pack that are not applied yet
  session,         \* InputSession: reliable_sequence and VirtualInputState
  device,          \* what the accepted reports make Windows believe
  forwarded,       \* history: what the events sent in this session amount to
  amounts,         \* history: what they amounted to after each of them
  outOfOrder,      \* history: a transition was refused for its sequence
  releaseFailed,   \* history: a release, or the signal after a report, failed
  actions, sessions, faults

userVars    == <<pressed, focused, routing, actions>>
playerVars  == <<stopping, playerAt, sequence, stopSent>>
hostVars    == <<hostAt, pack, session, device>>
historyVars == <<outOfOrder, releaseFailed>>
sentVars    == <<forwarded, amounts>>
vars == <<userVars, playerVars, channel, stream, open, hostVars, sentVars, historyVars,
          sessions, faults>>

Controls == Keys \union Buttons
Nothing  == [keys |-> {}, buttons |-> {}]
NoButtons == [gui |-> {}, host |-> {}]
Field(control) == IF control \in Keys THEN "keys" ELSE "buttons"
FreshSession == [sequence |-> 0, state |-> Nothing]

Press(control)   == [kind |-> "press", control |-> control]
Release(control) == [kind |-> "release", control |-> control]
Move             == [kind |-> "move"]
ReleaseAll       == [kind |-> "releaseAll"]

(* What an event makes of the state it is applied to. *)
Effect(state, event) ==
  CASE event.kind = "press"   -> [state EXCEPT ![Field(event.control)] = @ \union {event.control}]
    [] event.kind = "release" -> [state EXCEPT ![Field(event.control)] = @ \ {event.control}]
    [] event.kind = "move"    -> state
    [] event.kind = "releaseAll" -> Nothing

Init ==
  /\ pressed = {} /\ focused = TRUE /\ routing = NoButtons /\ actions = 0
  /\ stopping = FALSE /\ playerAt = "connecting" /\ sequence = 0 /\ stopSent = FALSE
  /\ channel = <<>> /\ stream = <<>> /\ open = FALSE
  /\ hostAt = "idle" /\ pack = <<>> /\ session = FreshSession /\ device = Nothing
  /\ forwarded = Nothing /\ amounts = <<>> /\ outOfOrder = FALSE /\ releaseFailed = FALSE
  /\ sessions = 1 /\ faults = 0

-----------------------------------------------------------------------------
(* The window's loop. *)

(* blocking_send: waits for room, fails at once when the task is gone. *)
Gone == playerAt \in {"ended", "retrying"}
CanSend == Gone \/ Len(channel) < ChannelSize

Send(event) ==
  IF Gone THEN UNCHANGED <<channel, sentVars>>
  ELSE /\ channel' = Append(channel, event)
       /\ forwarded' = Effect(forwarded, event)
       /\ amounts' = Append(amounts, forwarded')

NotSent == UNCHANGED <<channel, sentVars>>

UserActs ==
  /\ ~stopping /\ CanSend /\ actions < MaxActions
  /\ actions' = actions + 1
  /\ UNCHANGED <<playerVars, stream, open, hostVars, historyVars, sessions, faults>>

(* KeyDown without repeat. *)
PressKey(key) ==
  /\ UserActs /\ key \notin pressed
  /\ pressed' = pressed \union {key}
  /\ IF focused THEN Send(Press(key)) ELSE NotSent
  /\ UNCHANGED <<focused, routing>>

ReleaseKey(key) ==
  /\ UserActs /\ key \in pressed
  /\ pressed' = pressed \ {key}
  /\ IF focused THEN Send(Release(key)) ELSE NotSent
  /\ UNCHANGED <<focused, routing>>

(* PointerRouting::press: a press over a control of the GUI stays there. *)
RoutePress(button, overGui) ==
  IF button \in routing.host \union routing.gui THEN routing
  ELSE IF overGui THEN [routing EXCEPT !.gui = @ \union {button}]
       ELSE [routing EXCEPT !.host = @ \union {button}]

PressButton(button, overGui) ==
  /\ UserActs /\ button \notin pressed
  /\ pressed' = pressed \union {button}
  /\ IF ~focused THEN NotSent /\ UNCHANGED routing
     ELSE /\ routing' = RoutePress(button, overGui)
          /\ IF button \in routing'.host THEN Send(Press(button)) ELSE NotSent
  /\ UNCHANGED focused

(* PointerRouting::release: the release goes where the press went. *)
SentToGui(button) == button \in routing.gui                           \* mutant
SentToHost(button) == button \in routing.host

ReleaseButton(button) ==
  /\ UserActs /\ button \in pressed
  /\ pressed' = pressed \ {button}
  /\ IF ~focused THEN NotSent /\ UNCHANGED routing
     ELSE /\ routing' = [gui |-> routing.gui \ {button}, host |-> routing.host \ {button}]
          /\ IF SentToHost(button) THEN Send(Release(button)) ELSE NotSent
  /\ UNCHANGED focused

MovePointer ==
  /\ UserActs /\ focused
  /\ Send(Move)
  /\ UNCHANGED <<pressed, focused, routing>>

ReleaseControls == Send(ReleaseAll) /\ routing' = NoButtons

LoseFocus ==
  /\ UserActs /\ focused
  /\ focused' = FALSE
  /\ ReleaseControls
  /\ UNCHANGED pressed

GainFocus ==
  /\ UserActs /\ ~focused
  /\ focused' = TRUE /\ NotSent
  /\ UNCHANGED <<pressed, routing>>

(* The host's shortcut gives the pointer back to the player's desktop; the *)
(* event may be read when the session that sent it is over.                *)
ReleasePointerCapture ==
  /\ UserActs /\ playerAt \notin {"connecting", "retrying"}
  /\ ReleaseControls
  /\ UNCHANGED <<pressed, focused>>

(* PlayerCommand::Reconnect, SessionEvent::Reconfigure and the player's end: *)
(* the loop waits for the session's thread.                                *)
Reconnect ==
  /\ ~stopping /\ CanSend
  /\ ReleaseControls
  /\ stopping' = TRUE
  /\ UNCHANGED <<pressed, focused, actions, playerAt, sequence, stopSent, stream, open,
                 hostVars, historyVars, sessions, faults>>

(* SessionEvent::Ended of a session that is worth another attempt. *)
SeeEnd ==
  /\ playerAt = "ended" /\ ~stopping
  /\ playerAt' = "retrying" /\ routing' = NoButtons
  /\ UNCHANGED <<pressed, focused, actions, stopping, sequence, stopSent, channel, stream, open,
                 hostVars, sentVars, historyVars, sessions, faults>>

(* After the stopped thread is joined, or when the delay is over.          *)
StartSession ==
  /\ (playerAt = "ended" /\ stopping) \/ playerAt = "retrying"
  /\ sessions < MaxSessions /\ sessions' = sessions + 1
  /\ stopping' = FALSE /\ playerAt' = "connecting" /\ sequence' = 0 /\ stopSent' = FALSE
  /\ channel' = <<>> /\ forwarded' = Nothing /\ amounts' = <<>>
  /\ UNCHANGED <<userVars, stream, open, hostVars, historyVars, faults>>

-----------------------------------------------------------------------------
(* The receiver task of the player. *)

Transition(number, event) == [sequence |-> number, event |-> event]
Numbered(events) == [i \in 1..Len(events) |-> Transition(sequence + i, events[i])]

PackLength == IF Len(channel) < PackSize THEN Len(channel) ELSE PackSize

SendPack ==
  /\ playerAt = "streaming" /\ open /\ ~stopping
  /\ channel # <<>> /\ Len(stream) < QueueSize
  /\ stream' = Append(stream, Numbered(SubSeq(channel, 1, PackLength)))
  /\ channel' = SubSeq(channel, PackLength + 1, Len(channel))
  /\ sequence' = sequence + PackLength
  /\ UNCHANGED <<userVars, stopping, playerAt, stopSent, open, hostVars, sentVars,
                 historyVars, sessions, faults>>

NextSequence == sequence + 1

(* The end of the stream: the events in the channel are not sent.          *)
Finish ==
  /\ playerAt = "streaming" /\ open
  /\ stopping \/ hostAt # "serving"
  /\ sequence' = NextSequence
  /\ \/ /\ Len(stream) < QueueSize
        /\ stream' = Append(stream, <<Transition(sequence', ReleaseAll)>>)
        /\ stopSent' = TRUE /\ playerAt' = "finishing" /\ UNCHANGED open
     \/ /\ Len(stream) = QueueSize
        /\ open' = FALSE /\ playerAt' = "ended" /\ UNCHANGED <<stream, stopSent>>
  /\ UNCHANGED <<userVars, stopping, channel, hostVars, sentVars, historyVars, sessions,
                 faults>>

(* Closing the connection drops what the host has not received. *)
ClosePlayer ==
  /\ playerAt = "finishing" \/ (playerAt = "streaming" /\ ~open)
  /\ playerAt' = "ended" /\ open' = FALSE
  /\ \E received \in 0..Len(stream) : stream' = SubSeq(stream, 1, received)
  /\ UNCHANGED <<userVars, stopping, sequence, stopSent, channel, hostVars, sentVars,
                 historyVars, sessions, faults>>

(* Stopped, or refused, before the stream began. *)
AbandonConnect ==
  /\ playerAt = "connecting"
  /\ \/ stopping /\ UNCHANGED faults
     \/ ~stopping /\ faults < MaxFaults /\ faults' = faults + 1
  /\ playerAt' = "ended"
  /\ UNCHANGED <<userVars, stopping, sequence, stopSent, channel, stream, open, hostVars,
                 sentVars, historyVars, sessions>>

LoseConnection ==
  /\ open /\ faults < MaxFaults /\ faults' = faults + 1
  /\ open' = FALSE
  /\ \E received \in 0..Len(stream) : stream' = SubSeq(stream, 1, received)
  /\ UNCHANGED <<userVars, playerVars, channel, hostVars, sentVars, historyVars, sessions>>

-----------------------------------------------------------------------------
(* The host: InputSession over the report sink. *)

(* What submitting a report can come to: the session's state, the device,  *)
(* and whether the call succeeded.  A full ring refuses the report; a      *)
(* failed SetEvent is an error after the ring has taken it.                *)
Outcome(state, dev, ok) == [state |-> state, device |-> dev, ok |-> ok]

Submit(before, after, dev, reported) ==
  {Outcome(after, reported, TRUE), Outcome(before, dev, FALSE), Outcome(before, reported, FALSE)}

SubmitChange(state, dev, field, value) ==
  IF value = state[field] THEN {Outcome(state, dev, TRUE)}
  ELSE Submit(state, [state EXCEPT ![field] = value], dev, [dev EXCEPT ![field] = value])

(* VirtualInputState::release_all: the keyboard first, then the mouse. *)
ReleaseBoth(state, dev) ==
  UNION {IF r.ok THEN SubmitChange(r.state, r.device, "buttons", {}) ELSE {r} :
           r \in SubmitChange(state, dev, "keys", {})}

BareMove(state) == {}                                                \* mutant
MoveMask(state) == state.buttons

(* VirtualInputState::apply: every report holds the whole state of its     *)
(* device, a movement the buttons that are held.                           *)
Apply(state, dev, event) ==
  CASE event.kind \in {"press", "release"} ->
         LET field == Field(event.control)
         IN SubmitChange(state, dev, field, Effect(state, event)[field])
    [] event.kind = "move" -> Submit(state, state, dev, [dev EXCEPT !.buttons = MoveMask(state)])
    [] event.kind = "releaseAll" -> ReleaseBoth(state, dev)

Valid(event) == event.kind \in {"press", "release"} => event.control \notin UnknownKeys
InOrder(transition) == transition.sequence = session.sequence + 1

(* serve_authenticated_video has the only slot until it returns. *)
Accept ==
  /\ playerAt = "connecting" /\ ~stopping /\ hostAt = "idle"
  /\ playerAt' = "streaming" /\ open' = TRUE /\ stream' = <<>>
  /\ hostAt' = "serving" /\ pack' = <<>> /\ session' = FreshSession
  /\ UNCHANGED <<userVars, stopping, sequence, stopSent, channel, device, sentVars,
                 historyVars, sessions, faults>>

TakePack ==
  /\ hostAt = "serving" /\ pack = <<>> /\ stream # <<>>
  /\ pack' = Head(stream) /\ stream' = Tail(stream)
  /\ UNCHANGED <<userVars, playerVars, channel, open, hostAt, session, device, sentVars,
                 historyVars, sessions, faults>>

(* InputSession::reliable for one transition; an error ends the session.   *)
Stay(transition, r) ==
  /\ session' = [sequence |-> transition.sequence, state |-> r.state]
  /\ pack' = Tail(pack)
  /\ UNCHANGED <<hostAt, faults, releaseFailed>>

SkipFailed(r) ==                                                     \* mutant
  /\ faults < MaxFaults /\ faults' = faults + 1
  /\ session' = [sequence |-> session.sequence + 1, state |-> r.state]
  /\ pack' = Tail(pack) /\ UNCHANGED hostAt
  /\ releaseFailed' = (releaseFailed \/ r.device # r.state)

Fail(r) ==
  /\ faults < MaxFaults /\ faults' = faults + 1
  /\ session' = [session EXCEPT !.state = r.state]
  /\ hostAt' = "releasing" /\ pack' = <<>>
  /\ releaseFailed' = (releaseFailed \/ r.device # r.state)

ApplyTransition ==
  /\ hostAt = "serving" /\ pack # <<>>
  /\ InOrder(Head(pack)) /\ Valid(Head(pack).event)
  /\ \E r \in Apply(session.state, device, Head(pack).event) :
       /\ device' = r.device
       /\ IF r.ok THEN Stay(Head(pack), r) ELSE Fail(r)
  /\ UNCHANGED <<userVars, playerVars, channel, stream, open, sentVars, outOfOrder, sessions>>

RefuseTransition ==
  /\ hostAt = "serving" /\ pack # <<>>
  /\ ~(InOrder(Head(pack)) /\ Valid(Head(pack).event))
  /\ outOfOrder' = (outOfOrder \/ ~InOrder(Head(pack)))
  /\ hostAt' = "releasing" /\ pack' = <<>>
  /\ UNCHANGED <<userVars, playerVars, channel, stream, open, session, device, sentVars,
                 releaseFailed, sessions, faults>>

PlayerGone == stopSent \/ ~open

(* The player's Stop, the closed connection, or an end of the host's own:  *)
(* the media thread, another message, another queue.                       *)
EndSession ==
  /\ hostAt = "serving" /\ pack = <<>>
  /\ \/ PlayerGone /\ UNCHANGED faults
     \/ ~PlayerGone /\ faults < MaxFaults /\ faults' = faults + 1
  /\ hostAt' = "releasing"
  /\ UNCHANGED <<userVars, playerVars, channel, stream, open, pack, session, device,
                 sentVars, historyVars, sessions>>

(* InputSession::close. *)
CloseOutcomes == ReleaseBoth(session.state, device)

ReleaseInput ==
  /\ hostAt = "releasing"
  /\ \E r \in CloseOutcomes :
       /\ r.ok \/ faults < MaxFaults
       /\ faults' = IF r.ok THEN faults ELSE faults + 1
       /\ device' = r.device
       /\ session' = [session EXCEPT !.state = r.state]
       /\ releaseFailed' = (releaseFailed \/ ~r.ok)
  /\ hostAt' = "closing"
  /\ UNCHANGED <<userVars, playerVars, channel, stream, open, pack, sentVars, outOfOrder,
                 sessions>>

(* The connection closes and the slot is free again. *)
CloseSession ==
  /\ hostAt = "closing"
  /\ hostAt' = "idle" /\ open' = FALSE
  /\ UNCHANGED <<userVars, playerVars, channel, stream, pack, session, device, sentVars,
                 historyVars, sessions, faults>>

-----------------------------------------------------------------------------
Window ==
  \/ \E key \in Keys : PressKey(key) \/ ReleaseKey(key)
  \/ \E button \in Buttons : \/ \E overGui \in BOOLEAN : PressButton(button, overGui)
                             \/ ReleaseButton(button)
  \/ MovePointer \/ LoseFocus \/ GainFocus \/ ReleasePointerCapture \/ Reconnect

Task == SendPack \/ Finish \/ ClosePlayer \/ AbandonConnect
Host == \/ TakePack \/ ApplyTransition \/ RefuseTransition \/ EndSession
        \/ ReleaseInput \/ CloseSession

Next == Window \/ Task \/ SeeEnd \/ StartSession \/ Accept \/ Host \/ LoseConnection

Spec == Init /\ [][Next]_vars

-----------------------------------------------------------------------------
(* Properties. *)

States == [keys : SUBSET Keys, buttons : SUBSET Buttons]
Events == [kind : {"press", "release"}, control : Controls] \union {Move, ReleaseAll}
Transitions == [sequence : Nat, event : Events]
Packs == {p \in Seq(Transitions) : Len(p) <= PackSize}

WindowTypeOK ==
  /\ pressed \subseteq Controls /\ focused \in BOOLEAN
  /\ routing \in [gui : SUBSET Buttons, host : SUBSET Buttons]
  /\ actions \in 0..MaxActions
PlayerTypeOK ==
  /\ stopping \in BOOLEAN /\ stopSent \in BOOLEAN /\ open \in BOOLEAN
  /\ playerAt \in {"connecting", "streaming", "finishing", "ended", "retrying"}
  /\ sequence \in Nat /\ sessions \in 1..MaxSessions /\ faults \in 0..MaxFaults
  /\ forwarded \in States /\ amounts \in Seq(States)
LinkTypeOK ==
  /\ channel \in Seq(Events) /\ Len(channel) <= ChannelSize
  /\ stream \in Seq(Packs) /\ Len(stream) <= QueueSize
HostTypeOK ==
  /\ hostAt \in {"idle", "serving", "releasing", "closing"}
  /\ pack \in Packs
  /\ session \in [sequence : Nat, state : States]
  /\ device \in States
  /\ outOfOrder \in BOOLEAN /\ releaseFailed \in BOOLEAN

TypeOK == WindowTypeOK /\ PlayerTypeOK /\ LinkTypeOK /\ HostTypeOK

Streaming == playerAt = "streaming" /\ open /\ hostAt = "serving"
Amount(n) == IF n = 0 THEN Nothing ELSE amounts[n]

(* After n transitions the host's state is what the window's first n       *)
(* events amount to, and the numbered events and those in the channel are  *)
(* all that it has sent: none is dropped, applied twice, or overtaken      *)
(* between the channel, the packs and the session, and no session ends     *)
(* because a number is used twice or left out (lib.rs:156).                *)
NothingLost ==
  /\ ~outOfOrder
  /\ Streaming => /\ session.state = Amount(session.sequence)
                  /\ Len(amounts) = sequence + Len(channel)

(* The window has sent nothing as held that the user does not hold: every  *)
(* press it sends is followed by its release or by a release of everything,*)
(* whatever the focus and the GUI do in between (main.rs:1606).            *)
Held(state) == state.keys \union state.buttons
OnlyHeldSent == ~Gone => Held(forwarded) \subseteq pressed

(* As long as no release and no signal has failed, the session's state is  *)
(* what Windows believes, whatever other report was refused, and a session *)
(* that is over leaves nothing held to the next (lib.rs:303, 484).         *)
ReleasedAtEnd ==
  ~releaseFailed => /\ device = session.state
                    /\ hostAt \in {"idle", "closing"} => device = Nothing
=============================================================================
