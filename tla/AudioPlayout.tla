----------------------------- MODULE AudioPlayout -----------------------------
(***************************************************************************)
(* Audio from the network to the sound device of the player: fragments are *)
(* assembled, packets put in order, gaps confirmed and concealed, packets  *)
(* decoded, and samples held against the video until the device takes      *)
(* them.  Three threads: the reader (TakeDatagram, HostState, ReaderTick), *)
(* the audio consumer (Consume, Emit) and the window's loop (Turn, Pop).   *)
(* Ages are left out: whatever waits may be old at any time.  The host     *)
(* sends its packets in order and may drop any of them, or the rest of one.*)
(***************************************************************************)
EXTENDS Ascending, Sequences, SequencesExt, FiniteSetsExt

CONSTANTS
  Generations,   \* generations of the host's encoder
  LastSequence,  \* last sequence number of each generation
  Split,         \* sequence numbers of packets that need two datagrams
  QueuePackets,  \* AUDIO_QUEUE_PACKETS
  MaxConcealed,  \* MAX_CONCEALED_AUDIO_PACKETS
  PlayCapacity,  \* AUDIO_QUEUE_CAPACITY
  Prebuffer,     \* PREBUFFER_PACKETS
  MaxDevice      \* MAX_DEVICE_PACKETS

ASSUME PlayoutAssumption ==
  /\ {Generations, QueuePackets, MaxConcealed, PlayCapacity, Prebuffer} \subseteq Nat \ {0}
  /\ LastSequence \in [1..Generations -> Nat]
  /\ Prebuffer - 1 + MaxConcealed <= MaxDevice

VARIABLES
  source,     \* the packet the host sends next
  network,    \* datagrams on their way
  assembler,  \* AudioAssembler
  ordered,    \* OrderedAudioPackets
  events,     \* queue between the reader and the audio consumer
  planner,    \* AudioDecodePlanner
  decoder,    \* packet whose state the decoder holds, or NoPacket
  output,     \* decoded events the consumer has still to push
  playback,   \* AudioPlaybackQueue
  turn,       \* where the window's loop is
  device,     \* SdlAudioOutput and the SDL stream behind it
  heard,      \* newest decoded packet
  continued   \* whether it was decoded on top of an earlier packet's state

hostVars == <<source, network>>
receiveVars == <<assembler, ordered>>
decodeVars == <<planner, decoder, heard, continued>>
audioVars == <<hostVars, receiveVars, events, decodeVars, output, playback, turn, device>>

Sequences == UNION {0..LastSequence[gen] : gen \in 1..Generations}
Stamp(gen, seq) == [gen |-> gen, seq |-> seq]
NoPacket == Stamp(0, 0)
Unknown == -1

AudioInit ==
  /\ source = Stamp(1, 0) /\ network = {}
  /\ assembler = [gen |-> 0, newest |-> Unknown, partial |-> {}, retired |-> {}]
  /\ ordered = [gen |-> 0, expected |-> Unknown, pending |-> {}, started |-> FALSE]
  /\ events = <<>>
  /\ planner = [gen |-> 0, expected |-> Unknown, failed |-> FALSE]
  /\ decoder = NoPacket /\ heard = NoPacket /\ continued = FALSE
  /\ output = <<>>
  /\ playback = [items |-> <<>>, reset |-> FALSE]
  /\ turn = "reset"
  /\ device = [open |-> FALSE, queued |-> 0, started |-> FALSE, empty |-> TRUE]

Latest(queue, capacity) ==
  IF Len(queue) > capacity THEN SubSeq(queue, Len(queue) - capacity + 1, Len(queue)) ELSE queue

-----------------------------------------------------------------------------
(* The host.                                                               *)

Pieces(seq) == IF seq \in Split THEN 1..2 ELSE {1}

(* packetize and the send loop: a packet that expires in between loses the *)
(* fragments that are left; none may be sent.                              *)
Send ==
  /\ source.seq <= LastSequence[source.gen]
  /\ \E sent \in {{}, {1}, Pieces(source.seq)} :
       network' = network \union {[gen |-> source.gen, seq |-> source.seq, piece |-> i] : i \in sent}
  /\ source' = [source EXCEPT !.seq = @ + 1]
  /\ UNCHANGED <<receiveVars, events, decodeVars, output, playback, turn, device>>

(* The capture was interrupted: a new generation.                          *)
NewGeneration ==
  /\ source.gen < Generations /\ source.seq > 0
  /\ source' = Stamp(source.gen + 1, 0)
  /\ UNCHANGED <<network, receiveVars, events, decodeVars, output, playback, turn, device>>

-----------------------------------------------------------------------------
(* The assembler.  A partial packet is its number and the pieces it has.   *)

InWindow(newest, seq) == newest - seq < QueuePackets
Trimmed(a) == [a EXCEPT !.retired = {s \in @ : InWindow(a.newest, s)}]

GivenUp(a, old) ==
  Trimmed([a EXCEPT !.partial = {p \in @ : p.seq \notin old}, !.retired = @ \union old])

AssemblerAt(a, gen) ==
  IF gen > a.gen THEN [gen |-> gen, newest |-> Unknown, partial |-> {}, retired |-> {}] ELSE a

(* Datagrams of an older generation, and of a packet that is complete or   *)
(* given up or out of the window, are late.                                *)
WithinWindow(a, d) == a.newest = Unknown \/ InWindow(a.newest, d.seq)
Needed(a, d) == d.gen = a.gen /\ d.seq \notin a.retired /\ WithinWindow(a, d)

Lowest(partial) == CHOOSE p \in partial : \A q \in partial : p.seq <= q.seq
(* A fifth partial packet takes the place of the one with the lowest       *)
(* number, which is forgotten rather than retired.                         *)
Added(a, d) ==
  LET b == Trimmed([a EXCEPT !.newest = IF @ > d.seq THEN @ ELSE d.seq])
      known == {p \in b.partial : p.seq = d.seq}
      others == b.partial \ known
      kept == IF known = {} /\ Cardinality(others) = QueuePackets THEN others \ {Lowest(others)} ELSE others
      have == {d.piece} \union UNION {p.pieces : p \in known}
  IN  IF have = Pieces(d.seq)
      THEN [b EXCEPT !.partial = kept, !.retired = @ \union {d.seq}]
      ELSE [b EXCEPT !.partial = kept \union {[seq |-> d.seq, pieces |-> have]}]
Completes(a, d) == d.seq \in Added(a, d).retired

-----------------------------------------------------------------------------
(* The order of playout.                                                   *)

OrderAt(o, gen) ==
  IF gen > o.gen THEN [gen |-> gen, expected |-> Unknown, pending |-> {}, started |-> FALSE] ELSE o

PacketEvent(gen, seq) == [is |-> "packet", gen |-> gen, seq |-> seq, missing |-> 0]
MissingEvent(gen, seq, n) == [is |-> "missing", gen |-> gen, seq |-> seq, missing |-> n]

(* drain, after the start: packets leave in order, up to one that may wait *)
(* for a predecessor: enough packets from it on, or its age, end the wait.  *)
Waited(o, old, seq) ==
  \/ seq = o.expected \/ seq - 1 \in o.pending \/ seq \in old
  \/ Cardinality({s \in o.pending : s >= seq}) >= QueuePackets
Leaving(o, old) ==
  {seq \in o.pending : \A s \in o.pending : s <= seq => Waited(o, old, s)}

(* An event begins with every packet, and with every gap before one.       *)
Begins(o, leaving) ==
  leaving \union {seq \in {o.expected} \union {s + 1 : s \in leaving} : \E s \in leaving : seq < s}

Released(o, old) ==
  LET leaving == Leaving(o, old)
      begins == InOrder(Begins(o, leaving))
  IN  [order |-> IF leaving = {} THEN o
                 ELSE [o EXCEPT !.pending = @ \ leaving, !.expected = Max(leaving) + 1],
       ready |-> [i \in DOMAIN begins |->
                    IF begins[i] \in leaving THEN PacketEvent(o.gen, begins[i])
                    ELSE MissingEvent(o.gen, begins[i], begins[i + 1] - begins[i])]]

StartsWhenFull(o, old) == o.started \/ Cardinality(o.pending) >= QueuePackets  \* mutant
MayStart(o, old) ==
  o.started \/ Cardinality(o.pending) >= QueuePackets \/ (o.pending # {} /\ Min(o.pending) \in old)
Drained(o, old) ==
  IF MayStart(o, old) THEN Released([o EXCEPT !.started = TRUE], old)
  ELSE [order |-> o, ready |-> <<>>]

Accepts(o, seq) == ~(o.started /\ seq < o.expected)
Inserted(o, seq) ==
  IF ~Accepts(o, seq) THEN o
  ELSE [o EXCEPT !.pending = @ \union {seq},
                 !.expected = IF o.started \/ (@ # Unknown /\ @ < seq) THEN @ ELSE seq]

(* push returns before the drain if the packet comes too late.             *)
AfterPush(o, seq, old) ==
  IF Accepts(o, seq) THEN Drained(Inserted(o, seq), old) ELSE [order |-> o, ready |-> <<>>]

Queued(ready) == events' = Latest(events \o ready, QueuePackets + 1)

-----------------------------------------------------------------------------
(* The reader thread.                                                      *)

TakeDatagram ==
  /\ \E d \in network, stale \in SUBSET {p.seq : p \in assembler.partial}, old \in SUBSET ordered.pending :
       LET a == AssemblerAt(GivenUp(assembler, stale), d.gen)
           o == OrderAt(ordered, d.gen)
           result == AfterPush(o, d.seq, old)
       IN  /\ network' = network \ {d}
           /\ IF d.gen < assembler.gen \/ ~Needed(a, d)
              THEN /\ assembler' = IF d.gen < assembler.gen THEN GivenUp(assembler, stale) ELSE a
                   /\ UNCHANGED <<ordered, events>>
              ELSE /\ assembler' = Added(a, d)
                   /\ IF Completes(a, d) THEN ordered' = result.order /\ Queued(result.ready)
                      ELSE UNCHANGED <<ordered, events>>
  /\ UNCHANGED <<source, decodeVars, output, playback, turn, device>>

(* Receiver::state: the host's state tells of a new generation as well.    *)
HostState ==
  /\ assembler' = AssemblerAt(assembler, source.gen)
  /\ ordered' = OrderAt(ordered, source.gen)
  /\ source.gen > assembler.gen
  /\ UNCHANGED <<hostVars, events, decodeVars, output, playback, turn, device>>

ReaderTick(stale, old) ==
  /\ assembler' = GivenUp(assembler, stale)
  /\ ordered' = Drained(ordered, old).order /\ Queued(Drained(ordered, old).ready)
  /\ UNCHANGED <<hostVars, decodeVars, output, playback, turn, device>>
Ages(some) ==
  {age \in [stale : SUBSET {p.seq : p \in assembler.partial}, old : SUBSET ordered.pending] :
     (age.stale \union age.old) \intersect some # {}}
ReaderTicks(some) == \E age \in Ages(some) : ReaderTick(age.stale, age.old)

-----------------------------------------------------------------------------
(* The audio consumer: AudioDecodePlanner and StreamAudioDecoder.          *)

(* prepare_generation                                                      *)
PlannerAt(p, gen) == IF gen > p.gen THEN [gen |-> gen, expected |-> Unknown, failed |-> FALSE] ELSE p

Ignored(p, e) ==
  \/ e.gen < p.gen
  \/ e.gen = p.gen /\ p.failed
  \/ e.is = "packet" /\ e.gen = p.gen /\ p.expected # Unknown /\ e.seq < p.expected
GapBefore(p, e) == p.expected # Unknown /\ e.seq > p.expected

ResetAfterGeneration(p, e) == e.gen > p.gen                            \* mutant
NeedsReset(p, e) ==
  e.gen > p.gen \/ e.is = "missing" \/ GapBefore(PlannerAt(p, e.gen), e)

AtLeast(n, limit) == IF n < limit THEN limit ELSE n                    \* mutant
AtMost(n, limit) == IF n > limit THEN limit ELSE n
ResetItem == [is |-> "reset", gen |-> 0, seq |-> 0, packets |-> 0]
FailedItem == [is |-> "failed", gen |-> 0, seq |-> 0, packets |-> 0]
Samples(e, seq, packets) == [is |-> "samples", gen |-> e.gen, seq |-> seq, packets |-> packets]

Concealed(p, e) ==
  AtMost(IF e.is = "missing" THEN e.missing ELSE e.seq - p.expected, MaxConcealed)
Silence(p, e) ==
  IF e.is = "missing" THEN <<Samples(e, e.seq, Concealed(p, e))>>
  ELSE IF GapBefore(p, e) THEN <<Samples(e, p.expected, Concealed(p, e))>> ELSE <<>>

(* Decoding fails when the decoder cannot be opened or refuses the packet: *)
(* the rest of the generation is silent.                                   *)
Consume ==
  /\ events # <<>> /\ output = <<>>
  /\ events' = Tail(events)
  /\ LET e == Head(events)
         p == PlannerAt(planner, e.gen)
         before == (IF NeedsReset(planner, e) THEN <<ResetItem>> ELSE <<>>) \o Silence(p, e)
         state == IF NeedsReset(planner, e) THEN NoPacket ELSE decoder
         next == IF e.is = "missing" THEN e.seq + e.missing ELSE e.seq + 1
     IN  \/ Ignored(planner, e) /\ UNCHANGED <<decodeVars, output>>
         \/ /\ ~Ignored(planner, e) /\ e.is = "missing"
            /\ planner' = [p EXCEPT !.expected = next]
            /\ decoder' = state /\ output' = before
            /\ UNCHANGED <<heard, continued>>
         \/ /\ ~Ignored(planner, e) /\ e.is = "packet"
            /\ \/ /\ planner' = [p EXCEPT !.expected = next]
                  /\ decoder' = Stamp(e.gen, e.seq) /\ heard' = Stamp(e.gen, e.seq)
                  /\ continued' = (state # NoPacket)
                  /\ output' = Append(before, Samples(e, e.seq, 1))
               \/ /\ planner' = [p EXCEPT !.expected = next, !.failed = TRUE]
                  /\ decoder' = NoPacket
                  /\ output' = Append(before, FailedItem)
                  /\ UNCHANGED <<heard, continued>>
  /\ UNCHANGED <<hostVars, receiveVars, playback, turn, device>>

(* AudioPlaybackQueue::push, one decoded event at a time.                  *)
Emit ==
  /\ output # <<>> /\ output' = Tail(output)
  /\ LET item == Head(output)
     IN  playback' = CASE item.is = "reset" -> [items |-> <<>>, reset |-> TRUE]
                       [] item.is = "failed" -> [playback EXCEPT !.items = <<>>]
                       [] OTHER -> [playback EXCEPT !.items = Latest(Append(@, item), PlayCapacity)]
  /\ UNCHANGED <<hostVars, receiveVars, events, decodeVars, turn, device>>

-----------------------------------------------------------------------------
(* The window's loop and the device.                                       *)

Paused == [open |-> TRUE, queued |-> 0, started |-> FALSE, empty |-> TRUE]
Closed == [Paused EXCEPT !.open = FALSE]

(* reset, poll: a device that is gone is opened again, one that ran empty  *)
(* is paused until enough is there.  Any call may find the device failed.  *)
AfterReset(d) == IF playback.reset /\ d.open THEN Paused ELSE d
Polled(d) ==
  IF ~d.open THEN {Closed, Paused}
  ELSE {Closed, IF d.started /\ d.queued = 0 /\ ~d.empty THEN Paused ELSE d}

Turn ==
  /\ turn = "reset" /\ turn' = "play"
  /\ playback' = [playback EXCEPT !.reset = FALSE]
  /\ device' \in Polled(AfterReset(device))
  /\ UNCHANGED <<hostVars, receiveVars, events, decodeVars, output>>

(* play: what does not fit is dropped; enough packets start the device.    *)
EnoughToStart(d) == d.queued >= Prebuffer
Fits(d, packets) == d.queued + packets <= MaxDevice
Taken(d, packets) == [d EXCEPT !.queued = @ + packets]
Played(d, packets) ==
  IF ~d.open \/ ~Fits(d, packets) THEN {d}
  ELSE LET filled == Taken(d, packets)
       IN  {Closed, IF d.started \/ EnoughToStart(filled)
                    THEN [filled EXCEPT !.started = TRUE, !.empty = FALSE] ELSE filled}

(* pop_for_video: the loop stops at samples that are ahead of the video,   *)
(* and drops those that are behind it.                                     *)
Pop ==
  /\ turn = "play"
  /\ \/ turn' = "reset" /\ UNCHANGED <<playback, device>>
     \/ /\ playback.items # <<>>
        /\ playback' = [playback EXCEPT !.items = Tail(@)]
        /\ \/ UNCHANGED device
           \/ \E polled \in Polled(device) : device' \in Played(polled, Head(playback.items).packets)
        /\ UNCHANGED turn
  /\ UNCHANGED <<hostVars, receiveVars, events, decodeVars, output>>

(* SDL's own thread takes a packet from a running device.                  *)
DevicePlays ==
  /\ device.open /\ device.started /\ device.queued > 0
  /\ device' = [device EXCEPT !.queued = @ - 1]
  /\ UNCHANGED <<hostVars, receiveVars, events, decodeVars, output, playback, turn>>

-----------------------------------------------------------------------------
AudioNext ==
  \/ Send \/ NewGeneration \/ TakeDatagram \/ HostState \/ ReaderTicks(Sequences) \/ Consume \/ Emit
  \/ Turn \/ Pop \/ DevicePlays

AudioSpec == AudioInit /\ [][AudioNext]_audioVars

(* The ticks of the reader never stop, so what waits is found old by one:  *)
(* weak fairness, with ENABLED written out, which is much faster.          *)
TickChanges(seq) ==
  \E age \in Ages({seq}) :
    GivenUp(assembler, age.stale) # assembler \/ Drained(ordered, age.old).order # ordered
FairAudioSpec ==
  /\ AudioSpec
  /\ \A seq \in Sequences : []<>~TickChanges(seq) \/ []<><<ReaderTicks({seq})>>_audioVars

-----------------------------------------------------------------------------
AudioTypeOK ==
  /\ source.gen \in 1..Generations /\ source.seq \in 0..LastSequence[source.gen] + 1
  /\ \A d \in network : d.gen \in 1..Generations /\ d.seq \in Sequences
  /\ Cardinality(assembler.partial) <= QueuePackets /\ Cardinality(ordered.pending) <= QueuePackets
  /\ Len(events) <= QueuePackets + 1 /\ Len(playback.items) <= PlayCapacity
  /\ device.queued \in 0..MaxDevice

(* Every packet is decoded once at most and in order, and the decoder goes *)
(* on from its state only with the packet that follows: what is lost, late *)
(* or dropped from a queue on the way is preceded by a reset.              *)
Stream == INSTANCE DecodableAudio
ImplementsDecodableAudio == Stream!Spec

(* Silence and samples share one line of time: what waits for the device   *)
(* never overlaps, and nothing that was concealed is played later.         *)
Line == playback.items \o output
IsSamples(i) == Line[i].is = "samples"
After(i, j) == i.gen > j.gen \/ (i.gen = j.gen /\ i.seq >= j.seq + j.packets)
TimeGoesForward ==
  \A i \in DOMAIN Line : IsSamples(i) =>
    /\ \A j \in DOMAIN Line : j > i /\ IsSamples(j) => After(Line[j], Line[i])
    /\ Line[i].gen = planner.gen => planner.expected >= Line[i].seq + Line[i].packets

(* No packet waits for a predecessor for ever: it is played or passed over *)
(* although nothing else arrives.                                          *)
Unplayed(seq) == seq \in ordered.pending \/ \E p \in assembler.partial : p.seq = seq
WaitsEnd == \A seq \in Sequences : Unplayed(seq) ~> ~Unplayed(seq)
=============================================================================
