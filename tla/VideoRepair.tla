------------------------------ MODULE VideoRepair ------------------------------
(***************************************************************************)
(* Repairing lost chunks: the host that keeps its recent frames and sends  *)
(* chunks again (RecentVideoChunks), the player that asks for what is      *)
(* missing (take_missing), the assembler in its resend mode, and the       *)
(* datagrams between them, which take up to Delay ticks and may be lost.   *)
(*                                                                         *)
(* Time is urgent: a tick passes only when nothing that is due is left to  *)
(* do.  The credit for resends is counted in chunks.                       *)
(***************************************************************************)
EXTENDS VideoAssembler

CONSTANTS
  FirstFrame,         \* ticks from the start of the stream to its first frame
  FramePeriod,        \* ticks from one frame to the next
  Delay,              \* the most ticks that a datagram travels
  Retry,              \* two round trips and RESEND_RETRY_MARGIN, in ticks
  TailQuiet,          \* FRAME_TAIL_QUIET, in ticks
  AnnouncementDelay,  \* FRAME_ANNOUNCEMENT_DELAY, in ticks
  RecentFrames,       \* frames the host keeps for repair
  Burst,              \* the most chunks of resend credit
  LastFrame,          \* bound: the newest frame that the host sends
  MaxLosses           \* bound: datagrams lost in one behaviour

ASSUME RepairAssumption ==
  /\ LastFrame \in 0..MaxSequence
  /\ \A s \in 0..LastFrame : IsFiniteSet(Chunks[s]) /\ Chunks[s] = 1..Max(Chunks[s])
  /\ {FramePeriod, Retry, TailQuiet, AnnouncementDelay, RecentFrames}
        \subseteq Nat \ {0}
  /\ FirstFrame \in Nat /\ Delay \in Nat /\ Burst \in Nat /\ MaxLosses \in Nat

VARIABLES
  sentThrough,    \* the newest frame the host sent
  nextFrameIn,    \* time until it sends the next one
  announceIn,     \* time until its last chunk is repeated, or None
  credit,         \* RecentVideoChunks.credit_bits
  wire,           \* chunks on their way to the player
  asks,           \* requests on their way to the host
  partialAsked,   \* per incomplete frame: time since resend_requested_at, or None
  unseenAsked,    \* per swallowed frame: the same
  quiet,          \* per incomplete frame: time since last_chunk_at
  checked,        \* the player looked for missing chunks in this tick
  losses

hostVars == <<sentThrough, nextFrameIn, announceIn, credit>>
askVars == <<partialAsked, unseenAsked, quiet, checked>>
repairVars == <<vars, hostVars, askVars, wire, asks, losses>>

LastChunk(s) == Max(Chunks[s])
Datagram(s, c, copy) == [seq |-> s, chunk |-> c, left |-> Delay, copy |-> copy]

HostInit ==
  /\ sentThrough = None
  /\ nextFrameIn = FirstFrame
  /\ announceIn = None
  /\ credit = 0
  /\ wire = {} /\ asks = {}
  /\ partialAsked = <<>> /\ unseenAsked = <<>> /\ quiet = <<>>
  /\ checked = FALSE
  /\ losses = 0
RepairInit == Init /\ resend /\ HostInit

-----------------------------------------------------------------------------
(* The host. *)

FrameDue == nextFrameIn = 0 /\ sentThrough < LastFrame

(* A frame is packetized, remembered and sent.                             *)
SendFrame ==
  /\ FrameDue
  /\ sentThrough' = sentThrough + 1
  /\ nextFrameIn' = FramePeriod
  /\ announceIn' = AnnouncementDelay
  /\ wire' = wire \union {Datagram(sentThrough + 1, c, "original") : c \in Chunks[sentThrough + 1]}
  /\ UNCHANGED <<credit, asks, losses, vars, askVars>>

(* take_announcement *)
Announce ==
  /\ announceIn = 0
  /\ announceIn' = None
  /\ wire' = wire \union {Datagram(sentThrough, LastChunk(sentThrough), "announcement")}
  /\ UNCHANGED <<sentThrough, nextFrameIn, credit, asks, losses, vars, askVars>>

(* RecentVideoChunks::take *)
OnlyNewest == {sentThrough}                                      \* mutant
Remembered == (sentThrough - RecentFrames + 1)..sentThrough
Allowed(ask) ==
  LET wanted == IF ask.chunks = {} THEN Chunks[ask.seq] ELSE ask.chunks
  IN IF ask.seq \in Remembered
     THEN {c \in wanted : Cardinality({d \in wanted : d < c}) < credit}
     ELSE {}

ResendChunks(ask) ==
  /\ asks' = asks \ {ask}
  /\ credit' = credit - Cardinality(Allowed(ask))
  /\ wire' = wire \union {Datagram(ask.seq, c, "repair") : c \in Allowed(ask)}
  /\ UNCHANGED <<sentThrough, nextFrameIn, announceIn, losses, vars, askVars>>

-----------------------------------------------------------------------------
(* The network. *)

LoseDatagram ==
  /\ losses < MaxLosses
  /\ losses' = losses + 1
  /\ \/ \E d \in wire : wire' = wire \ {d} /\ UNCHANGED asks
     \/ \E ask \in asks : asks' = asks \ {ask} /\ UNCHANGED wire
  /\ UNCHANGED <<vars, hostVars, askVars>>

-----------------------------------------------------------------------------
(* The player. *)

(* A frame that is opened anew, also one that expired just now, forgets    *)
(* what was asked for it.                                                  *)
ReceiveChunk(d) ==
  /\ wire' = wire \ {d}
  /\ Push(d.seq, d.chunk)
  /\ partialAsked' = [s \in DOMAIN partial' |->
                        IF s \in DOMAIN LivePartial THEN partialAsked[s] ELSE None]
  /\ unseenAsked' = [s \in DOMAIN unseen' |->
                       IF s \in DOMAIN unseen THEN unseenAsked[s] ELSE None]
  /\ quiet' = [s \in DOMAIN partial' |-> IF s = d.seq THEN 0 ELSE quiet[s]]
  /\ UNCHANGED <<asks, checked, losses, hostVars>>

Due(asked) == asked = None \/ asked >= Retry
KnownReceived(s) == Max(partial[s].got)                          \* mutant
KnownSent(s) ==
  IF quiet[s] >= TailQuiet \/ s < newest THEN LastChunk(s) ELSE Max(partial[s].got)
MissingChunks(s) == (1..KnownSent(s)) \ partial[s].got

(* take_missing, and the datagrams that carry its requests                 *)
AskForMissing ==
  LET incomplete == {s \in DOMAIN partial : MissingChunks(s) # {} /\ Due(partialAsked[s])}
      swallowed == {s \in DOMAIN unseen : Due(unseenAsked[s])}
  IN /\ ~checked
     /\ checked' = TRUE
     /\ asks' = asks
          \union {[seq |-> s, chunks |-> MissingChunks(s), left |-> Delay] : s \in incomplete}
          \union {[seq |-> s, chunks |-> {}, left |-> Delay] : s \in swallowed}
     /\ partialAsked' = [s \in DOMAIN partial |-> IF s \in incomplete THEN 0 ELSE partialAsked[s]]
     /\ unseenAsked' = [s \in DOMAIN unseen |-> IF s \in swallowed THEN 0 ELSE unseenAsked[s]]
     /\ UNCHANGED <<quiet, wire, losses, vars, hostVars>>

-----------------------------------------------------------------------------

Sooner(messages) == {[m EXCEPT !.left = @ - 1] : m \in messages}
Older(times, cap) == [s \in DOMAIN times |-> IF times[s] = None THEN None ELSE Least(times[s] + 1, cap)]

PassTime ==
  /\ checked
  /\ ~FrameDue
  /\ announceIn # 0
  /\ \A m \in wire \union asks : m.left > 0
  /\ Tick
  /\ checked' = FALSE
  /\ nextFrameIn' = IF nextFrameIn = 0 THEN 0 ELSE nextFrameIn - 1
  /\ announceIn' = IF announceIn = None THEN None ELSE announceIn - 1
  /\ credit' = Least(credit + 1, Burst)
  /\ wire' = Sooner(wire)
  /\ asks' = Sooner(asks)
  /\ partialAsked' = Older(partialAsked, Retry)
  /\ unseenAsked' = Older(unseenAsked, Retry)
  /\ quiet' = Older(quiet, TailQuiet)
  /\ UNCHANGED <<sentThrough, losses>>

RepairNext ==
  \/ SendFrame \/ Announce
  \/ \E ask \in asks : ResendChunks(ask)
  \/ LoseDatagram
  \/ \E d \in wire : ReceiveChunk(d)
  \/ AskForMissing
  \/ PassTime

RepairSpec == RepairInit /\ [][RepairNext]_repairVars /\ WF_repairVars(RepairNext)

-----------------------------------------------------------------------------
(* Properties *)

(* What is asked for and timed is what is incomplete or swallowed, and the *)
(* times stay within their caps.                                           *)
RepairTypeOK ==
  /\ DOMAIN partialAsked = DOMAIN partial /\ DOMAIN quiet = DOMAIN partial
  /\ DOMAIN unseenAsked = DOMAIN unseen
  /\ \A s \in DOMAIN partial : partialAsked[s] \in -1..Retry /\ quiet[s] \in 0..TailQuiet
  /\ credit \in 0..Burst

(* A lost datagram never costs a frame: it is repaired before the deadline *)
(* of the frame and of every frame held behind it.                         *)
RepairedInTime == ~result.lost

(* In the end every frame is handed out, the last one too, which no newer  *)
(* frame announces.  Only the frames before the first datagram that gets   *)
(* through are never asked for.                                            *)
AllHandedOut == <>(handed # {} /\ handed = Min(handed)..LastFrame)
=============================================================================
