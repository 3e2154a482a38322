---------------------------- MODULE HidPumpProofs ----------------------------
(***************************************************************************)
(* Of a virtual HID device, for rings of any size, any number of threads   *)
(* and any number of reports, states and faults: the ring of reports and   *)
(* its delivery, the ring of LED states, and the one ring that service and *)
(* driver meet in.                                                         *)
(***************************************************************************)
EXTENDS HidPump, TLAPS

(* A thread goes to another place, the others stay.                        *)
LEMMA ThreadMoves ==
  ASSUME DOMAIN pump = Threads, NEW t \in Threads, NEW place, At(t, place)
  PROVE  /\ DOMAIN pump' = Threads /\ pump'[t] = place
         /\ \A u \in Threads \ {t} : pump'[u] = pump[u]
BY DEF At

-------------------------------------------------------------------------------
(* The ring of LED states.                                                 *)

LedTyped ==
  /\ DOMAIN pump = Threads
  /\ DOMAIN led = {"produced", "consumed", "event", "stranded"}
  /\ led.event \in BOOLEAN /\ led.stranded \in BOOLEAN

LedInv == LedTyped /\ LedsDrained

(* Nothing happens to the states, and nobody forgets them.                 *)
LEMMA LedsKept ==
  ASSUME LedInv, led' = led, DOMAIN pump' = Threads,
         serviceAt = "drain" => serviceAt' = "drain" \/ ~AnyLed,
         \A t \in Threads : pump[t] = "led" => pump'[t] = "led"
  PROVE  LedInv'
<1>1. LedTyped'
  BY DEF LedInv, LedTyped
<1>2. LedsDrained'
  BY DEF LedInv, LedsDrained, AnyLed
<1> QED
  BY <1>1, <1>2 DEF LedInv

LEMMA DrainKeepsLeds ==
  ASSUME LedInv, StartDrain \/ DrainLed \/ SeeNoLed \/ EndDrain, pump' = pump
  PROVE  LedInv'
<1>1. LedTyped /\ LedsDrained
  BY DEF LedInv
<1>2. CASE StartDrain
  BY <1>1, <1>2 DEF StartDrain, ServiceGoes, LedInv, LedTyped, LedsDrained
<1>3. CASE DrainLed
  BY <1>1, <1>3 DEF DrainLed, LedInv, LedTyped, LedsDrained
<1>4. CASE SeeNoLed
  BY <1>1, <1>4 DEF SeeNoLed, LedInv, LedTyped, LedsDrained, AnyLed
<1>5. CASE EndDrain
  BY <1>5, <1>1, LedsKept DEF EndDrain, AfterLoop, ServiceGoes, LedTyped
<1> QED
  BY <1>2, <1>3, <1>4, <1>5

(* What a death leaves in the ring is remembered.                          *)
LEMMA StrandingKeepsLeds ==
  ASSUME LedInv, NEW died \in BOOLEAN, led' = Stranding(died), DOMAIN pump' = Threads,
         \/ died
         \/ /\ serviceAt = "drain" => serviceAt' = "drain"
            /\ \A t \in Threads : pump[t] = "led" => pump'[t] = "led"
  PROVE  LedInv'
<1>1. LedTyped /\ LedsDrained /\ AnyLed \in BOOLEAN
  BY DEF LedInv, AnyLed
<1>2. /\ DOMAIN led' = DOMAIN led /\ led'.event = led.event
      /\ led'.produced = led.produced /\ led'.consumed = led.consumed
      /\ led'.stranded = (led.stranded \/ (died /\ AnyLed))
  BY <1>1 DEF Stranding, LedTyped
<1>3. LedTyped'
  BY <1>1, <1>2 DEF LedTyped
<1>4. LedsDrained'
  <2>1. AnyLed' = AnyLed
    BY <1>2 DEF AnyLed
  <2>2. CASE died
    BY <1>2, <2>1, <2>2 DEF LedsDrained
  <2>3. CASE ~died
    BY <1>1, <1>2, <2>1, <2>3 DEF LedsDrained
  <2> QED
    BY <2>2, <2>3
<1> QED
  BY <1>3, <1>4 DEF LedInv

LEMMA CutKeepsLeds ==
  ASSUME LedInv, led' = CutShort, pump' = pump
  PROVE  LedInv'
BY StrandingKeepsLeds DEF CutShort, LedInv, LedTyped

(* The host process takes its threads with it, one that had stored a state *)
(* and not signalled it among them.                                        *)
LEMMA DeathKeepsLeds ==
  ASSUME LedInv, UNCHANGED ownerVars, DriverDies
  PROVE  LedInv'
<1>1. LockFree \in BOOLEAN /\ serviceAt' = serviceAt /\ DOMAIN pump' = Threads
  BY DEF LockFree, ownerVars, DriverDies
<1>2. LockFree => \A t \in Threads : pump[t] # "led"
  BY DEF LockFree
<1> QED
  BY <1>1, <1>2, StrandingKeepsLeds DEF DriverDies

LEMMA RingsKeepLeds ==
  ASSUME LedInv, CreateRings
  PROVE  LedInv'
<1>1. CASE led' = led
  BY <1>1, LedsKept DEF CreateRings, CreateReportRing, CreateLedRing, ServiceGoes, pumpVars, LedInv, LedTyped
<1>2. CASE led' = EmptyLedRing
  BY <1>2 DEF EmptyLedRing, CreateRings, pumpVars, LedInv, LedTyped, LedsDrained, AnyLed
<1> QED
  BY <1>1, <1>2 DEF CreateRings, CreateReportRing, CreateLedRing

LEMMA OwnerKeepsLeds ==
  ASSUME LedInv, led' = led, pump' = pump,
         \/ UpdateDriver
         \/ FindDevices \/ WriteConfig
         \/ \E d \in Devices : KeepDevice(d) \/ RegisterDevice(d) \/ WriteHardwareConfig(d) \/ RemoveNode(d)
  PROVE  LedInv'
<1>1. serviceAt = "drain" => serviceAt' = "drain"
  BY DEF UpdateDriver, ServiceGoes, FindDevices, WriteConfig, KeepDevice, RegisterDevice,
         WriteHardwareConfig, RemoveNode, Devices, KeyOf, Mouse, Keyboard
<1> QED
  BY <1>1, LedsKept DEF LedInv, LedTyped

LEMMA ThreadKeepsLeds ==
  ASSUME LedInv, UNCHANGED ownerVars, NEW t \in Threads,
         Pump(t) \/ SignalLed(t) \/ QueueRead(t) \/ PublishLed(t)
  PROVE  LedInv'
<1>1. LedTyped /\ LedsDrained /\ serviceAt' = serviceAt
  BY DEF LedInv, ownerVars
<1>2. CASE Pump(t) \/ QueueRead(t)
  <2>1. led' = led /\ pump[t] # "led" /\ \E place : At(t, place)
    BY <1>2 DEF Pump, QueueRead, EnterPump, Enter, ReadReport, RetrieveRead, LeavePump, Leave,
                CompleteRead, FailRead, ConsumeReport
  <2>2. PICK place : At(t, place)
    BY <2>1
  <2> QED
    BY <1>1, <2>1, <2>2, ThreadMoves, LedsKept DEF LedTyped
<1>3. CASE SignalLed(t)
  <2>1. led' = [led EXCEPT !.event = TRUE, !.stranded = FALSE] /\ At(t, "out")
    BY <1>3 DEF SignalLed
  <2> QED
    BY <1>1, <2>1, ThreadMoves DEF LedInv, LedTyped, LedsDrained
<1>4. CASE PublishLed(t)
  <2>1. led' = [led EXCEPT !.produced = @ + 1] /\ At(t, "led")
    BY <1>4 DEF PublishLed
  <2> QED
    BY <1>1, <2>1, ThreadMoves DEF LedInv, LedTyped, LedsDrained
<1> QED
  BY <1>2, <1>3, <1>4

LEMMA DriverKeepsLeds ==
  ASSUME LedInv, UNCHANGED ownerVars,
         OpenRing \/ WakeOnEvent \/ WakeOnTimeout \/ RemoveDevice \/ AddDevice
  PROVE  LedInv'
<1>1. led' = led /\ serviceAt' = serviceAt
  BY DEF OpenRing, WakeOnEvent, WakeOnTimeout, RemoveDevice, AddDevice, ownerVars
<1>2. CASE pump' = pump
  BY <1>1, <1>2, LedsKept DEF LedInv, LedTyped
<1>3. CASE pump[Worker] = "out" /\ At(Worker, "enter")
  BY <1>1, <1>3, ThreadMoves, LedsKept DEF LedInv, LedTyped, Threads
<1> QED
  BY <1>2, <1>3 DEF OpenRing, WakeOnEvent, WakeOnTimeout, RemoveDevice, AddDevice, pumpVars

LEMMA LedsAtFirst == Init => LedInv
BY DEF Init, EmptyLedRing, LedInv, LedTyped, LedsDrained, AnyLed

LEMMA LedStep == LedInv /\ [Next]_vars => LedInv'
<1> SUFFICES ASSUME LedInv, [Next]_vars PROVE LedInv'
  OBVIOUS
<1>1. CASE Service
  <2>1. pump' = pump
    BY <1>1 DEF Service, pumpVars
  <2>2. CASE FindRoom \/ WriteSlot \/ CommitSlot \/ Advance \/ Signal
    BY <2>1, <2>2, LedsKept DEF FindRoom, WriteSlot, CommitSlot, Advance, Signal, ServiceGoes, LedInv, LedTyped
  <2> QED
    BY <1>1, <2>1, <2>2, DrainKeepsLeds DEF Service
<1>2. CASE CreateOwner
  BY <1>2, RingsKeepLeds, OwnerKeepsLeds DEF CreateOwner, UpdateDriver, pumpVars
<1>3. CASE ServiceFaults \/ StopUninstalled
  BY <1>3, CutKeepsLeds DEF ServiceFaults, StopUninstalled, pumpVars
<1>4. CASE \E d \in Devices : Uninstall(d)
  BY <1>4, OwnerKeepsLeds DEF Uninstall, pumpVars
<1>5. CASE \E t \in Threads : Thread(t)
  BY <1>5, ThreadKeepsLeds DEF Thread
<1>6. CASE Driver
  BY <1>6, ThreadKeepsLeds, DriverKeepsLeds, DeathKeepsLeds DEF Driver
<1>7. CASE UNCHANGED vars
  BY <1>7, LedsKept DEF vars, pumpVars, ownerVars, LedInv, LedTyped
<1> QED
  BY <1>1, <1>2, <1>3, <1>4, <1>5, <1>6, <1>7 DEF Next

(* An LED state in its ring is signalled, about to be, or still to be seen *)
(* by the drain loop, unless a death at one of the two points that        *)
(* LedsDrained names has stranded it.                                      *)
THEOREM LedsAlwaysDrained == Spec => []LedsDrained
<1>1. LedInv => LedsDrained
  BY DEF LedInv
<1> QED
  BY <1>1, LedsAtFirst, LedStep, PTL DEF Spec

-------------------------------------------------------------------------------
(* The slots of the ring.                                                  *)

LEMMA Division ==
  ASSUME NEW n \in Nat, n > 0, NEW a \in Int
  PROVE  a = n * (a \div n) + (a % n) /\ a \div n \in Int
<1>1. a = n * (a \div n) + (a % n)
  OBVIOUS
<1>2. a \div n \in Int
  OBVIOUS
<1> QED
  BY <1>1, <1>2

LEMMA Remainder ==
  ASSUME NEW n \in Nat \ {0}, NEW a \in Nat
  PROVE  a % n \in 0..(n - 1)
OBVIOUS

(* Numbers less than n apart have different remainders.                    *)
LEMMA ModApart ==
  ASSUME NEW n \in Nat \ {0}, NEW a \in Nat, NEW b \in Nat, a < b, b - a < n
  PROVE  a % n # b % n
<1> DEFINE p == a \div n
           q == b \div n
           r == a % n
           s == b % n
<1>1. a = n * p + r /\ b = n * q + s /\ p \in Int /\ q \in Int
  BY Division
<1>2. r \in 0..(n - 1) /\ s \in 0..(n - 1)
  BY Remainder
<1> HIDE DEF p, q, r, s
<1> SUFFICES ASSUME r = s PROVE FALSE
  BY DEF r, s
<1>3. b - a = n * (q - p)
  BY <1>1, <1>2
<1>4. CASE q - p >= 1
  <2>1. n * (q - p) >= n
    BY <1>1, <1>4
  <2> QED
    BY <2>1, <1>3
<1>5. CASE q - p <= 0
  <2>1. n * (q - p) <= 0
    BY <1>1, <1>5
  <2> QED
    BY <2>1, <1>3
<1> QED
  BY <1>1, <1>4, <1>5

LEMMA SlotOf ==
  ASSUME NEW s \in Nat, s > 0
  PROVE  Slot(s) \in 0..(SlotCount - 1)
<1>1. s - 1 \in Nat /\ SlotCount \in Nat \ {0}
  BY ConstantsAssumption
<1> QED
  BY <1>1, Remainder DEF Slot

LEMMA SlotsApart ==
  ASSUME NEW a \in Nat, a > 0, NEW b \in Nat, a < b, b - a < SlotCount
  PROVE  Slot(a) # Slot(b)
<1>1. /\ a - 1 \in Nat /\ b - 1 \in Nat /\ SlotCount \in Nat \ {0}
      /\ a - 1 < b - 1 /\ (b - 1) - (a - 1) < SlotCount
  BY ConstantsAssumption
<1> QED
  BY <1>1, ModApart DEF Slot

-------------------------------------------------------------------------------
(* The ring of reports and the pump.                                       *)

(* The places in pump_reports between the check of the flag and the end,   *)
(* those in which a report has been read that is not consumed, and those   *)
(* of publish that have found room.                                        *)
Inside == {"read", "retrieve", "leave", "complete", "consume"}
Holding == {"retrieve", "complete", "consume"}
Writing == {"write", "commit", "advance"}

RingTyped ==
  /\ producer \in Nat /\ consumer \in 0..producer
  /\ slots \in [0..(SlotCount - 1) -> [committed : Nat, report : Nat]]
  /\ pump \in [Threads -> Places] /\ DOMAIN held = Threads
  /\ present \in BOOLEAN /\ pumping \in BOOLEAN

(* What is published is whole, and so is the part of the next report that  *)
(* the service has written; its slot is none of those.                     *)
Published ==
  /\ RingIntact
  /\ serviceAt \in Writing => producer - consumer < SlotCount
  /\ serviceAt \in {"commit", "advance"} => slots[Slot(producer + 1)].report = producer + 1
  /\ serviceAt = "advance" => slots[Slot(producer + 1)].committed = producer + 1

(* One thread pumps; while the device is there, the flag says so.          *)
OnePump ==
  /\ \A t, u \in Threads : pump[t] \in Inside /\ pump[u] \in Inside => t = u
  /\ present => \A t \in Threads : pump[t] \in Inside => pumping

(* It holds the report after the last one consumed, and HIDClass has been  *)
(* given that one or not.                                                  *)
Given ==
  /\ \A t \in Threads : pump[t] \in Holding => held[t] = consumer + 1 /\ consumer < producer
  /\ \A t \in Threads : pump[t] = "consume" => last = consumer + 1
  /\ (\A t \in Threads : pump[t] # "consume") =>
       last = consumer \/ (last = consumer + 1 /\ repeatable)

PumpInv == RingTyped /\ Published /\ OnePump /\ Given

(* Nothing happens to the ring and to those who pump: at most the device   *)
(* goes, or comes when nobody pumps.                                       *)
LEMMA PumpKept ==
  ASSUME PumpInv, UNCHANGED <<producer, consumer, slots, pump, held, last, repeatable>>,
         present' \in BOOLEAN, pumping' \in BOOLEAN,
         \/ present' => present /\ pumping' = pumping
         \/ \A t \in Threads : pump[t] = "out",
         serviceAt' = serviceAt \/ serviceAt' \notin Writing
  PROVE  PumpInv'
<1>1. RingTyped'
  BY DEF PumpInv, RingTyped
<1>2. Published'
  BY DEF PumpInv, Published, RingIntact, Writing
<1>3. OnePump'
  BY DEF PumpInv, OnePump, Inside
<1>4. Given'
  BY DEF PumpInv, Given
<1> QED
  BY <1>1, <1>2, <1>3, <1>4 DEF PumpInv

(* The service publishes: only what is written matters.                    *)
LEMMA WriterKeepsPump ==
  ASSUME PumpInv, UNCHANGED <<consumer, pump, held, last, repeatable, present, pumping>>,
         producer' \in Nat, producer' >= producer,
         slots' \in [0..(SlotCount - 1) -> [committed : Nat, report : Nat]],
         Published'
  PROVE  PumpInv'
<1>1. RingTyped'
  BY DEF PumpInv, RingTyped
<1>2. OnePump'
  BY DEF PumpInv, OnePump
<1>3. Given'
  BY DEF PumpInv, Given, RingTyped
<1> QED
  BY <1>1, <1>2, <1>3 DEF PumpInv

(* A write to the slot of the next report disturbs none that is published. *)
LEMMA NextSlotFree ==
  ASSUME RingTyped, Published, serviceAt \in Writing, NEW s \in (consumer + 1)..producer
  PROVE  Slot(s) # Slot(producer + 1)
<1>1. s \in Nat /\ s > 0 /\ producer + 1 \in Nat /\ s < producer + 1 /\ (producer + 1) - s < SlotCount
  BY ConstantsAssumption DEF RingTyped, Published
<1> QED
  BY <1>1, SlotsApart

LEMMA WritesKeepPump ==
  ASSUME PumpInv, WriteSlot \/ CommitSlot, UNCHANGED <<pump, held, last, repeatable, present, pumping>>
  PROVE  PumpInv'
<1> DEFINE k == Slot(producer + 1)
<1>1. RingTyped /\ Published /\ RingIntact /\ serviceAt \in Writing
  BY DEF PumpInv, Published, WriteSlot, CommitSlot, ServiceGoes, Writing
<1>2. producer \in Nat /\ consumer \in Nat /\ k \in 0..(SlotCount - 1)
  BY <1>1, SlotOf DEF RingTyped
<1>3. \A s \in (consumer + 1)..producer : Slot(s) # k /\ Slot(s) \in 0..(SlotCount - 1)
  <2> TAKE s \in (consumer + 1)..producer
  <2>1. s \in Nat /\ s > 0
    BY <1>2
  <2> QED
    BY <1>1, <2>1, NextSlotFree, SlotOf
<1> HIDE DEF k
<1>4. CASE WriteSlot
  <2>1. slots' = [slots EXCEPT ![k].report = producer + 1] /\ UNCHANGED <<producer, consumer>> /\ serviceAt' = "commit"
    BY <1>4 DEF WriteSlot, ServiceGoes, k
  <2>2. /\ slots' \in [0..(SlotCount - 1) -> [committed : Nat, report : Nat]]
        /\ slots'[k].report = producer + 1
        /\ \A i \in 0..(SlotCount - 1) : i # k => slots'[i] = slots[i]
    BY <1>1, <1>2, <2>1 DEF RingTyped
  <2>3. RingIntact'
    BY <1>1, <1>3, <2>1, <2>2 DEF RingIntact, Slot
  <2>4. Published'
    BY <1>1, <2>1, <2>2, <2>3 DEF Published, Writing, Slot, k
  <2> QED
    BY <1>2, <2>1, <2>2, <2>4, WriterKeepsPump
<1>5. CASE CommitSlot
  <2>1. slots' = [slots EXCEPT ![k].committed = producer + 1] /\ UNCHANGED <<producer, consumer>> /\ serviceAt' = "advance"
    BY <1>5 DEF CommitSlot, ServiceGoes, k
  <2>2. /\ slots' \in [0..(SlotCount - 1) -> [committed : Nat, report : Nat]]
        /\ slots'[k].committed = producer + 1 /\ slots'[k].report = slots[k].report
        /\ \A i \in 0..(SlotCount - 1) : i # k => slots'[i] = slots[i]
    BY <1>1, <1>2, <2>1 DEF RingTyped
  <2>3. RingIntact'
    BY <1>1, <1>3, <2>1, <2>2 DEF RingIntact, Slot
  <2>4. slots[k].report = producer + 1
    BY <1>1, <1>5 DEF Published, CommitSlot, ServiceGoes, k
  <2>5. Published'
    BY <1>1, <2>1, <2>2, <2>3, <2>4 DEF Published, Writing, Slot, k
  <2> QED
    BY <1>2, <2>1, <2>2, <2>5, WriterKeepsPump
<1> QED
  BY <1>4, <1>5

(* What the service counts as published is whole.                          *)
LEMMA AdvanceKeepsPump ==
  ASSUME PumpInv, Advance, UNCHANGED <<pump, held, last, repeatable, present, pumping>>
  PROVE  PumpInv'
<1> DEFINE k == Slot(producer + 1)
<1>1. /\ RingTyped /\ RingIntact /\ producer \in Nat /\ consumer \in Nat /\ k \in 0..(SlotCount - 1)
      /\ slots[k].report = producer + 1 /\ slots[k].committed = producer + 1
  BY SlotOf DEF PumpInv, RingTyped, Published, Advance, ServiceGoes
<1>2. producer' = producer + 1 /\ UNCHANGED <<consumer, slots>> /\ serviceAt' = "signal"
  BY DEF Advance, ServiceGoes
<1> HIDE DEF k
<1>3. slots[k] = [committed |-> producer + 1, report |-> producer + 1]
  BY <1>1 DEF RingTyped
<1>4. RingIntact'
  <2> SUFFICES ASSUME NEW s \in (consumer + 1)..(producer + 1)
      PROVE  slots[Slot(s)] = [committed |-> s, report |-> s]
    BY <1>2 DEF RingIntact, Slot
  <2>1. CASE s = producer + 1
    BY <1>3, <2>1 DEF k
  <2>2. CASE s # producer + 1
    <3>1. s \in (consumer + 1)..producer
      BY <1>1, <2>2
    <3> QED
      BY <1>1, <3>1 DEF RingIntact
  <2> QED
    BY <2>1, <2>2
<1>5. Published'
  BY <1>2, <1>4 DEF Published, Writing
<1> QED
  BY <1>1, <1>2, <1>5, WriterKeepsPump DEF RingTyped

LEMMA FindRoomKeepsPump ==
  ASSUME PumpInv, FindRoom, UNCHANGED <<pump, held, last, repeatable, present, pumping>>
  PROVE  PumpInv'
<1>1. RingTyped /\ RingIntact /\ producer \in Nat
  BY DEF PumpInv, Published, RingTyped
<1>2. UNCHANGED <<producer, consumer, slots>> /\ serviceAt' = "write" /\ producer - consumer < SlotCount
  BY DEF FindRoom, ServiceGoes, ringVars, HasRoom
<1>3. Published'
  BY <1>1, <1>2 DEF Published, Writing, RingIntact
<1> QED
  BY <1>1, <1>2, <1>3, WriterKeepsPump DEF RingTyped

(* A new ring starts over, and nobody pumps then.                          *)
LEMMA RingsKeepPump ==
  ASSUME PumpInv, CreateRings
  PROVE  PumpInv'
<1>1. CASE UNCHANGED <<ringVars, historyVars>>
  BY <1>1, PumpKept DEF CreateRings, CreateReportRing, CreateLedRing, ServiceGoes, ringVars, historyVars,
                        deviceVars, pumpVars, PumpInv, RingTyped, Writing
<1>2. CASE CreateReportRing /\ ~Reopened
  <2>1. /\ \A t \in Threads : pump[t] = "out"
        /\ producer' = 0 /\ consumer' = 0 /\ slots' = EmptyRing /\ last' = 0 /\ serviceAt' = "led ring"
        /\ UNCHANGED <<pump, held, present, pumping>>
    BY <1>2 DEF CreateReportRing, ServiceGoes, CreateRings, deviceVars, pumpVars
  <2>2. slots' \in [0..(SlotCount - 1) -> [committed : Nat, report : Nat]]
    BY <2>1 DEF EmptyRing
  <2>3. RingTyped
    BY DEF PumpInv
  <2>4. producer' = 0 /\ consumer' = 0 /\ serviceAt' = "led ring"
    BY <2>1
  <2>5. RingTyped'
    <3>1. 0 \in Nat /\ 0 \in 0..0
      OBVIOUS
    <3>2. producer' \in Nat /\ consumer' \in 0..producer'
      BY <2>4, <3>1, Zenon
    <3> QED
      BY <2>1, <2>2, <2>3, <3>2 DEF RingTyped
  <2>6. Published'
    <3>1. ~ \E s \in (0 + 1)..0 : TRUE
      OBVIOUS
    <3> QED
      BY <2>4, <3>1, Zenon DEF Published, RingIntact, Writing
  <2>7. OnePump'
    BY <2>1 DEF OnePump, Inside
  <2>8. Given'
    BY <2>1 DEF Given, Holding
  <2> QED
    BY <2>5, <2>6, <2>7, <2>8 DEF PumpInv
<1> QED
  BY <1>1, <1>2 DEF CreateRings, CreateReportRing, CreateLedRing

(* One step of a thread, which alone goes to another place: what it must   *)
(* keep to for one thread to pump.                                         *)
LEMMA StepKeepsOnePump ==
  ASSUME RingTyped, OnePump, NEW t \in Threads, NEW place, At(t, place), present' = present,
         \/ place \in Inside /\ pump[t] \in Inside /\ pumping' = pumping
         \/ place \notin Inside /\ (pumping' = pumping \/ pump[t] \in Inside)
         \/ present /\ ~pumping /\ pumping' = TRUE
  PROVE  OnePump'
<1>1. DOMAIN pump' = Threads /\ pump'[t] = place /\ \A u \in Threads \ {t} : pump'[u] = pump[u]
  BY ThreadMoves DEF RingTyped
<1> QED
  BY <1>1 DEF OnePump

(* A step of a thread that reads nothing and gives nothing.                *)
LEMMA StepKeepsPump ==
  ASSUME PumpInv, NEW t \in Threads, NEW place \in Places, At(t, place), OnePump',
         UNCHANGED <<producer, consumer, slots, last, repeatable, serviceAt, present>>, pumping' \in BOOLEAN,
         DOMAIN held' = Threads, \A u \in Threads \ {t} : held'[u] = held[u],
         pump[t] # "consume", place # "consume",
         place \in Holding => held'[t] = consumer + 1 /\ consumer < producer
  PROVE  PumpInv'
<1>1. DOMAIN pump' = Threads /\ pump'[t] = place /\ \A u \in Threads \ {t} : pump'[u] = pump[u]
  BY ThreadMoves DEF PumpInv, RingTyped
<1>2. RingTyped'
  BY <1>1 DEF PumpInv, RingTyped, At
<1>3. Published'
  BY DEF PumpInv, Published, RingIntact, Slot
<1>4. Given'
  BY <1>1 DEF PumpInv, Given
<1> QED
  BY <1>2, <1>3, <1>4 DEF PumpInv

LEMMA EnterKeepsPump ==
  ASSUME PumpInv, NEW t \in Threads, EnterPump(t) \/ LeavePump(t), UNCHANGED ownerVars
  PROVE  PumpInv'
<1>1. RingTyped /\ OnePump /\ pump[t] \in {"enter", "leave"} /\ present \in BOOLEAN /\ pumping \in BOOLEAN
  BY DEF PumpInv, EnterPump, LeavePump, RingTyped
<1>2. /\ UNCHANGED <<producer, consumer, slots, last, repeatable, serviceAt, present, held>>
      /\ DOMAIN held = Threads
  BY DEF PumpInv, RingTyped, EnterPump, LeavePump, ringVars, historyVars, ownerVars
<1>3. CASE At(t, "read") /\ present /\ ~pumping /\ pumping' = TRUE
  <2>1. OnePump'
    BY <1>1, <1>2, <1>3, StepKeepsOnePump
  <2> QED
    BY <1>1, <1>2, <1>3, <2>1, StepKeepsPump DEF Places, Holding
<1>4. CASE At(t, "out") /\ (pumping' = pumping \/ (pump[t] \in Inside /\ pumping' = FALSE))
  <2>1. OnePump'
    BY <1>1, <1>2, <1>4, StepKeepsOnePump DEF Inside
  <2> QED
    BY <1>1, <1>2, <1>4, <2>1, StepKeepsPump DEF Places, Holding
<1> QED
  BY <1>1, <1>3, <1>4 DEF EnterPump, Enter, LeavePump, Leave, Inside

(* What is read is the report after the last one consumed.                 *)
LEMMA ReadKeepsPump ==
  ASSUME PumpInv, NEW t \in Threads, ReadReport(t), UNCHANGED ownerVars
  PROVE  PumpInv'
<1>1. RingTyped /\ OnePump /\ RingIntact /\ pump[t] = "read" /\ present \in BOOLEAN /\ pumping \in BOOLEAN
  BY DEF PumpInv, ReadReport, RingTyped, Published
<1>2. /\ UNCHANGED <<producer, consumer, slots, last, repeatable, serviceAt, present>>
      /\ DOMAIN held = Threads
  BY <1>1 DEF RingTyped, ReadReport, ringVars, historyVars, ownerVars
<1>3. CASE Available /\ held' = [held EXCEPT ![t] = slots[Slot(consumer + 1)].report] /\ At(t, "retrieve")
           /\ pumping' = pumping
  <2>1. consumer < producer /\ consumer + 1 \in (consumer + 1)..producer
    BY <1>1, <1>3 DEF Available, RingTyped
  <2>2. slots[Slot(consumer + 1)].report = consumer + 1
    <3>1. slots[Slot(consumer + 1)] = [committed |-> consumer + 1, report |-> consumer + 1]
      BY <1>1, <2>1 DEF RingIntact
    <3> QED
      BY <3>1
  <2>3. DOMAIN held' = Threads /\ held'[t] = consumer + 1 /\ \A u \in Threads \ {t} : held'[u] = held[u]
    BY <1>2, <1>3, <2>2
  <2>4. OnePump'
    BY <1>1, <1>2, <1>3, StepKeepsOnePump DEF Inside
  <2> QED
    BY <1>1, <1>2, <1>3, <2>1, <2>3, <2>4, StepKeepsPump DEF Places, Holding
<1>4. CASE pumping' = FALSE /\ At(t, "out") /\ held' = held
  <2>1. OnePump'
    BY <1>1, <1>2, <1>4, StepKeepsOnePump DEF Inside
  <2> QED
    BY <1>1, <1>2, <1>4, <2>1, StepKeepsPump DEF Places, Holding
<1> QED
  BY <1>3, <1>4 DEF ReadReport

LEMMA RetrieveKeepsPump ==
  ASSUME PumpInv, NEW t \in Threads, RetrieveRead(t) \/ FailRead(t), UNCHANGED ownerVars
  PROVE  PumpInv'
<1>1. RingTyped /\ OnePump /\ Given /\ pump[t] \in {"retrieve", "complete"} /\ pumping \in BOOLEAN
  BY DEF PumpInv, RetrieveRead, FailRead, RingTyped
<1>2. /\ UNCHANGED <<producer, consumer, slots, last, repeatable, serviceAt, present, pumping>>
      /\ DOMAIN held = Threads
  BY <1>1 DEF RingTyped, RetrieveRead, FailRead, ringVars, historyVars, deviceVars, ownerVars
<1>3. CASE At(t, "complete") /\ held' = held
  <2>1. OnePump'
    BY <1>1, <1>2, <1>3, StepKeepsOnePump DEF Inside
  <2>2. held[t] = consumer + 1 /\ consumer < producer
    BY <1>1 DEF Given, Holding
  <2> QED
    BY <1>1, <1>2, <1>3, <2>1, <2>2, StepKeepsPump DEF Places
<1>4. CASE At(t, "leave") /\ PutBack(t)
  <2>1. OnePump'
    BY <1>1, <1>2, <1>4, StepKeepsOnePump DEF Inside
  <2>2. DOMAIN held' = Threads /\ \A u \in Threads \ {t} : held'[u] = held[u]
    BY <1>2, <1>4 DEF PutBack
  <2> QED
    BY <1>1, <1>2, <1>4, <2>1, <2>2, StepKeepsPump DEF Places, Holding
<1> QED
  BY <1>3, <1>4 DEF RetrieveRead, FailRead

(* HIDClass is given the report that the thread holds.                     *)
LEMMA CompleteKeepsPump ==
  ASSUME PumpInv, NEW t \in Threads, CompleteRead(t), UNCHANGED ownerVars
  PROVE  PumpInv'
<1>1. RingTyped /\ OnePump /\ Given /\ Published /\ pump[t] = "complete" /\ At(t, "consume")
  BY DEF PumpInv, CompleteRead
<1>2. UNCHANGED <<producer, consumer, slots, serviceAt, present, pumping, held>> /\ last' = held[t]
  BY DEF CompleteRead, ringVars, deviceVars, ownerVars
<1>3. DOMAIN pump' = Threads /\ pump'[t] = "consume" /\ \A u \in Threads \ {t} : pump'[u] = pump[u]
  BY <1>1, ThreadMoves DEF RingTyped
<1>4. RingTyped'
  BY <1>1, <1>2 DEF RingTyped, At, Places
<1>5. Published'
  BY <1>1, <1>2 DEF Published, RingIntact, Slot
<1>6. OnePump'
  BY <1>1, <1>2, StepKeepsOnePump DEF Inside
<1>7. \A u \in Threads \ {t} : pump'[u] \notin Inside
  BY <1>1, <1>3 DEF OnePump, Inside
<1>8. Given'
  BY <1>1, <1>2, <1>3, <1>7 DEF Given, Holding, Inside
<1> QED
  BY <1>4, <1>5, <1>6, <1>8 DEF PumpInv

(* It is consumed, or the device is gone and forgets that it gave it.      *)
LEMMA ConsumeKeepsPump ==
  ASSUME PumpInv, NEW t \in Threads, ConsumeReport(t), UNCHANGED ownerVars
  PROVE  PumpInv'
<1>1. RingTyped /\ OnePump /\ Given /\ Published /\ pump[t] = "consume" /\ producer \in Nat /\ consumer \in Nat
  BY DEF PumpInv, ConsumeReport, RingTyped
<1>2. UNCHANGED <<producer, slots, serviceAt, present, pumping, last>> /\ PutBack(t)
  BY DEF ConsumeReport, deviceVars, ownerVars
<1>3. held[t] = consumer + 1 /\ consumer < producer /\ last = consumer + 1
  BY <1>1 DEF Given, Holding
<1>4. PICK place \in {"read", "out"} : At(t, place)
  BY DEF ConsumeReport
<1>5. DOMAIN pump' = Threads /\ pump'[t] = place /\ \A u \in Threads \ {t} : pump'[u] = pump[u]
  BY <1>1, <1>4, ThreadMoves DEF RingTyped
<1>6. consumer' = consumer \/ consumer' = consumer + 1
  BY <1>3 DEF ConsumeReport
<1>7. RingTyped'
  BY <1>1, <1>2, <1>3, <1>4, <1>6 DEF RingTyped, At, Places, PutBack
<1>8. Published'
  <2>1. RingIntact'
    <3> SUFFICES ASSUME NEW s \in (consumer' + 1)..producer
        PROVE  slots[Slot(s)] = [committed |-> s, report |-> s]
      BY <1>2 DEF RingIntact, Slot
    <3>1. s \in (consumer + 1)..producer
      BY <1>1, <1>6
    <3> QED
      BY <1>1, <3>1 DEF Published, RingIntact
  <2>2. producer - consumer' <= producer - consumer
    BY <1>1, <1>6
  <2>3. serviceAt \in Writing => producer - consumer' < SlotCount
    BY <1>1, <1>6, <2>2, ConstantsAssumption DEF Published
  <2> QED
    BY <1>1, <1>2, <2>1, <2>3 DEF Published, Slot
<1>9. OnePump'
  BY <1>1, <1>2, <1>4, StepKeepsOnePump DEF Inside
<1>10. \A u \in Threads \ {t} : pump'[u] \notin Inside
  BY <1>1, <1>5 DEF OnePump, Inside
<1>11. \A u \in Threads : pump'[u] \notin Holding
  BY <1>4, <1>5, <1>10 DEF Inside, Holding
<1>12. last' = consumer' \/ (last' = consumer' + 1 /\ repeatable')
  BY <1>2, <1>3 DEF ConsumeReport
<1>13. Given'
  BY <1>11, <1>12 DEF Given, Holding
<1> QED
  BY <1>7, <1>8, <1>9, <1>13 DEF PumpInv

(* All other steps of threads leave the report alone.                      *)
LEMMA OtherThreadsKeepPump ==
  ASSUME PumpInv, NEW t \in Threads, UNCHANGED ownerVars,
         \/ QueueRead(t) \/ PublishLed(t) \/ SignalLed(t)
         \/ t = Worker /\ (OpenRing \/ WakeOnEvent \/ WakeOnTimeout)
  PROVE  PumpInv'
<1>1. /\ RingTyped /\ OnePump /\ pump[t] \in {"out", "led"} /\ DOMAIN held = Threads /\ pumping \in BOOLEAN
      /\ UNCHANGED <<producer, consumer, slots, last, repeatable, serviceAt, present, pumping, held>>
  BY DEF PumpInv, RingTyped, QueueRead, PublishLed, SignalLed, OpenRing, WakeOnEvent, WakeOnTimeout,
         ringVars, historyVars, deviceVars, ownerVars
<1>2. PICK place \in {"enter", "led", "out"} : At(t, place)
  BY DEF QueueRead, PublishLed, SignalLed, OpenRing, WakeOnEvent, WakeOnTimeout
<1>3. OnePump'
  BY <1>1, <1>2, StepKeepsOnePump DEF Inside
<1> QED
  BY <1>1, <1>2, <1>3, StepKeepsPump DEF Places, Holding

LEMMA ThreadKeepsPump ==
  ASSUME PumpInv, NEW t \in Threads, Thread(t)
  PROVE  PumpInv'
BY EnterKeepsPump, ReadKeepsPump, RetrieveKeepsPump, CompleteKeepsPump, ConsumeKeepsPump, OtherThreadsKeepPump
   DEF Thread, Pump

(* The host process dies.  What the thread that pumped had given to        *)
(* HIDClass and not consumed may be given again.                           *)
LEMMA DeathKeepsPump ==
  ASSUME PumpInv, DriverDies, UNCHANGED ownerVars
  PROVE  PumpInv'
<1>1. /\ UNCHANGED <<producer, consumer, slots, last, serviceAt>> /\ present' = FALSE /\ pumping' = FALSE
      /\ pump' = [t \in Threads |-> "out"] /\ DOMAIN held' = Threads
      /\ repeatable' = (repeatable \/ \E t \in Threads : pump[t] = "consume")
  BY DEF DriverDies, Gone, ringVars, ownerVars
<1>2. RingTyped'
  BY <1>1 DEF PumpInv, RingTyped, Places
<1>3. Published'
  BY <1>1 DEF PumpInv, Published, RingIntact, Slot
<1>4. OnePump'
  BY <1>1 DEF OnePump, Inside
<1>5. last = consumer \/ (last = consumer + 1 /\ repeatable')
  BY <1>1 DEF PumpInv, Given
<1>6. Given'
  BY <1>1, <1>5 DEF Given, Holding
<1> QED
  BY <1>2, <1>3, <1>4, <1>6 DEF PumpInv

LEMMA DriverKeepsPump ==
  ASSUME PumpInv, Driver
  PROVE  PumpInv'
<1>1. UNCHANGED ownerVars /\ Worker \in Threads
  BY DEF Driver, Threads
<1>2. CASE RemoveDevice \/ AddDevice
  BY <1>1, <1>2, PumpKept DEF RemoveDevice, DeviceGoes, Gone, AddDevice, ringVars, historyVars, pumpVars, ownerVars,
                              PumpInv, RingTyped
<1> QED
  BY <1>1, <1>2, OtherThreadsKeepPump, DeathKeepsPump DEF Driver

LEMMA ServiceKeepsPump ==
  ASSUME PumpInv, Service
  PROVE  PumpInv'
<1>1. /\ UNCHANGED <<pump, held, last, repeatable, present, pumping>>
      /\ present \in BOOLEAN /\ pumping \in BOOLEAN
  BY DEF Service, deviceVars, pumpVars, historyVars, PumpInv, RingTyped
<1>2. CASE Signal \/ StartDrain \/ DrainLed \/ SeeNoLed \/ EndDrain
  <2>1. UNCHANGED <<producer, consumer, slots>> /\ (serviceAt' = serviceAt \/ serviceAt' \notin Writing)
    BY <1>2 DEF Signal, StartDrain, DrainLed, SeeNoLed, EndDrain, ServiceGoes, ringVars, Writing
  <2> QED
    BY <1>1, <2>1, PumpKept
<1> QED
  BY <1>1, <1>2, FindRoomKeepsPump, WritesKeepPump, AdvanceKeepsPump DEF Service

LEMMA OwnerKeepsPump ==
  ASSUME PumpInv,
         \/ CreateOwner \/ ServiceFaults \/ StopUninstalled
         \/ \E d \in Devices : Uninstall(d)
  PROVE  PumpInv'
<1>1. CASE CreateRings
  BY <1>1, RingsKeepPump
<1>2. CASE ~CreateRings
  <2>1. UNCHANGED <<producer, consumer, slots, pump, held, last, repeatable>>
    BY <1>2 DEF CreateOwner, UpdateDriver, ServiceFaults, StopUninstalled, Uninstall, ringVars, pumpVars, historyVars
  <2>2. \/ UNCHANGED <<present, pumping>>
        \/ present' = FALSE /\ pumping' = FALSE
    BY <1>2 DEF CreateOwner, UpdateDriver, ServiceFaults, StopUninstalled, Uninstall, DeviceGoes, Gone, deviceVars
  <2>3. serviceAt' = serviceAt \/ serviceAt' \notin Writing
    BY <1>2 DEF CreateOwner, UpdateDriver, ServiceFaults, StopUninstalled, Uninstall, CreateFails, ServiceDies,
                RemoveNode, FindDevices, WriteConfig, KeepDevice, RegisterDevice, WriteHardwareConfig, ServiceGoes,
                Devices, Mouse, Keyboard, KeyOf, NextDevice, Writing
  <2>4. present \in BOOLEAN /\ pumping \in BOOLEAN
    BY DEF PumpInv, RingTyped
  <2>5. CASE UNCHANGED <<present, pumping>>
    BY <2>1, <2>3, <2>4, <2>5, PumpKept
  <2>6. CASE present' = FALSE /\ pumping' = FALSE
    BY <2>1, <2>3, <2>6, PumpKept
  <2> QED
    BY <2>2, <2>5, <2>6
<1> QED
  BY <1>1, <1>2

LEMMA PumpAtFirst == Init => PumpInv
<1> SUFFICES ASSUME Init PROVE PumpInv
  OBVIOUS
<1>1. slots \in [0..(SlotCount - 1) -> [committed : Nat, report : Nat]]
  BY DEF Init, EmptyRing
<1>2. RingTyped
  <2>1. 0 \in Nat /\ 0 \in 0..0
    OBVIOUS
  <2>2. producer \in Nat /\ consumer \in 0..producer
    BY <2>1, Zenon DEF Init
  <2>3. /\ pump \in [Threads -> Places] /\ DOMAIN held = Threads
        /\ present \in BOOLEAN /\ pumping \in BOOLEAN
    BY DEF Init, Places
  <2> QED
    BY <1>1, <2>2, <2>3 DEF RingTyped
<1>3. Published
  BY DEF Init, OwnerInit, Published, RingIntact, Writing
<1>4. OnePump /\ Given
  BY DEF Init, OnePump, Given, Inside, Holding
<1> QED
  BY <1>2, <1>3, <1>4 DEF PumpInv

LEMMA PumpStep == PumpInv /\ [Next]_vars => PumpInv'
<1> SUFFICES ASSUME PumpInv, [Next]_vars PROVE PumpInv'
  OBVIOUS
<1>1. CASE UNCHANGED vars
  BY <1>1, PumpKept DEF vars, ringVars, deviceVars, pumpVars, historyVars, ownerVars, PumpInv, RingTyped
<1> QED
  BY <1>1, ServiceKeepsPump, OwnerKeepsPump, ThreadKeepsPump, DriverKeepsPump DEF Next

LEMMA PumpAlways == Spec => []PumpInv
BY PumpAtFirst, PumpStep, PTL DEF Spec

(* Every report that is published and not consumed is whole in its slot.   *)
THEOREM RingAlwaysIntact == Spec => []RingIntact
<1>1. PumpInv => RingIntact
  BY DEF PumpInv, Published
<1> QED
  BY <1>1, PumpAlways, PTL

(* HIDClass is given the reports in order and each of them once.           *)
THEOREM AlwaysInOrder == Spec => []DeliveredInOrder
<1>1. PumpInv => DeliveredInOrder
  <2> SUFFICES ASSUME PumpInv, NEW t \in Threads, pump[t] = "complete"
      PROVE  held[t] = last + 1 \/ (repeatable /\ held[t] = last)
    BY DEF DeliveredInOrder
  <2>1. held[t] = consumer + 1 /\ consumer \in Nat
    BY DEF PumpInv, Given, Holding, RingTyped
  <2>2. \A u \in Threads : pump[u] # "consume"
    BY DEF PumpInv, OnePump, Inside
  <2>3. last = consumer \/ (last = consumer + 1 /\ repeatable)
    BY <2>2 DEF PumpInv, Given
  <2> QED
    BY <2>1, <2>3
<1> QED
  BY <1>1, PumpAlways, PTL

-------------------------------------------------------------------------------
(* The rings that service and driver meet in.                              *)

(* The tokens of the devices are those of the service that runs, or it has *)
(* still to write one.                                                     *)
Token(n) == n \in Nat \ {0}

OwnerTyped ==
  /\ DOMAIN nodes = Devices /\ \A d \in Devices : nodes[d] \in Nat \/ nodes[d] = Absent
  /\ DOMAIN creation = {"token", "fresh", "drawn"} /\ creation.drawn \in Nat

OneToken ==
  /\ serviceAt # "down" =>
       /\ Token(creation.token)
       /\ \A d \in Devices : nodes[d] \in {Absent, Bare, creation.token}
  /\ \A d \in Devices : serviceAt = KeyOf(d) => nodes[d] = Bare
  /\ HasReportRing => ring = creation.token

(* A device that is there has its token; what it has opened is the ring    *)
(* of that token, which the service keeps.                                 *)
OpenRings ==
  /\ present => nodes[Keyboard] \notin {Absent, Bare}
  /\ opened # None => present /\ opened = ring /\ opened = nodes[Keyboard]

OwnerInv == OwnerTyped /\ OneToken /\ OpenRings

(* The steps that leave the devices and their tokens as they are, to a     *)
(* place where the rings are as before.                                    *)
LEMMA OwnerKept ==
  ASSUME OwnerInv, UNCHANGED <<nodes, creation, ring>>,
         \/ UNCHANGED <<present, opened>>
         \/ present' = FALSE /\ opened' = None,
         \/ serviceAt' = "down"
         \/ /\ serviceAt # "down" /\ (HasReportRing \/ ~HasReportRing')
            /\ \A d \in Devices : serviceAt' # KeyOf(d) \/ serviceAt' = serviceAt
  PROVE  OwnerInv'
<1>1. OwnerTyped'
  BY DEF OwnerInv, OwnerTyped
<1>2. OneToken'
  BY DEF OwnerInv, OneToken, HasReportRing, KeyOf, Devices, Mouse, Keyboard
<1>3. OpenRings'
  BY DEF OwnerInv, OpenRings
<1> QED
  BY <1>1, <1>2, <1>3 DEF OwnerInv

(* The token that a starting service goes on with is that of the devices.  *)
LEMMA FoundToken ==
  ASSUME OwnerTyped, Consistent
  PROVE  /\ Token(TokenFor.token) /\ DOMAIN TokenFor = {"token", "fresh", "drawn"} /\ TokenFor.drawn \in Nat
         /\ \A d \in Devices : nodes[d] \in {Absent, TokenFor.token}
<1>1. CASE Found = {}
  <2>1. \A d \in Devices : nodes[d] = Absent
    BY <1>1 DEF Found, Registered
  <2> QED
    BY <1>1, <2>1 DEF TokenFor, RandomToken, Token, OwnerTyped
<1>2. CASE Found # {}
  <2> DEFINE e == CHOOSE d \in Found : TRUE
  <2>1. e \in Found
    BY <1>2
  <2>2. TokenFor.token = nodes[e] /\ DOMAIN TokenFor = {"token", "fresh", "drawn"} /\ TokenFor.drawn = creation.drawn
    BY <1>2 DEF TokenFor, OwnerTyped
  <2> HIDE DEF e
  <2>3. nodes[e] # Absent /\ nodes[e] # Bare /\ e \in Devices
    BY <2>1 DEF Found, Registered, Consistent
  <2>4. Token(nodes[e])
    BY <2>3 DEF OwnerTyped, Token, Bare
  <2>5. \A d \in Devices : nodes[d] = Absent \/ nodes[d] = nodes[e]
    BY <2>1 DEF Found, Registered, Consistent
  <2> QED
    BY <2>2, <2>4, <2>5 DEF OwnerTyped
<1> QED
  BY <1>1, <1>2

LEMMA FindKeepsOwner ==
  ASSUME OwnerInv, FindDevices, UNCHANGED <<ring, present, opened>>
  PROVE  OwnerInv'
<1>1. OwnerTyped /\ OpenRings /\ creation' = TokenFor /\ serviceAt' = "rings" /\ nodes' = nodes
  BY DEF OwnerInv, FindDevices
<1>2. /\ Token(TokenFor.token) /\ DOMAIN TokenFor = {"token", "fresh", "drawn"} /\ TokenFor.drawn \in Nat
      /\ \A d \in Devices : nodes[d] \in {Absent, TokenFor.token}
  BY <1>1, FoundToken DEF FindDevices
<1>3. OwnerTyped'
  BY <1>1, <1>2 DEF OwnerTyped
<1>4. OneToken'
  BY <1>1, <1>2 DEF OneToken, HasReportRing, KeyOf, Devices, Mouse, Keyboard
<1>5. OpenRings'
  BY <1>1 DEF FindDevices, OpenRings
<1> QED
  BY <1>3, <1>4, <1>5 DEF OwnerInv

(* A ring that the driver has not open is replaced by one of the token.    *)
LEMMA RingsKeepOwner ==
  ASSUME OwnerInv, CreateRings
  PROVE  OwnerInv'
<1>1. /\ OwnerTyped /\ OneToken /\ OpenRings /\ serviceAt \in {"rings", "led ring"}
      /\ serviceAt' \in {"led ring", "config"} /\ UNCHANGED <<nodes, creation, present, opened>>
  BY DEF OwnerInv, CreateRings, CreateReportRing, CreateLedRing, ServiceGoes, deviceVars
<1>2. Token(creation.token) /\ \A d \in Devices : nodes[d] \in {Absent, Bare, creation.token}
  BY <1>1 DEF OneToken
<1>3. ring' = creation.token /\ (opened # None => opened = creation.token)
  <2>1. opened # None => opened = ring /\ opened = creation.token
    BY <1>1, <1>2 DEF OpenRings, Devices
  <2>2. CASE CreateReportRing
    <3>1. CASE Reopened
      BY <1>2, <2>1, <2>2, <3>1 DEF CreateReportRing, ringVars, Reopened, Token, None
    <3>2. CASE ~Reopened
      BY <2>1, <2>2, <3>2 DEF CreateReportRing, Reopened
    <3> QED
      BY <3>1, <3>2
  <2>3. CASE CreateLedRing
    BY <1>1, <2>1, <2>3 DEF CreateLedRing, ServiceGoes, ringVars, OneToken, HasReportRing
  <2> QED
    BY <2>2, <2>3 DEF CreateRings
<1>4. OwnerTyped'
  BY <1>1 DEF OwnerTyped
<1>5. OneToken'
  BY <1>1, <1>2, <1>3 DEF OneToken, HasReportRing, KeyOf, Devices, Mouse, Keyboard
<1>6. OpenRings'
  BY <1>1, <1>3 DEF OpenRings
<1> QED
  BY <1>4, <1>5, <1>6 DEF OwnerInv

(* Each device has a step of its own in which its key is written.          *)
LEMMA KeysApart ==
  ASSUME NEW d \in Devices, NEW e \in Devices, KeyOf(d) = KeyOf(e)
  PROVE  e = d
<1>1. KeyOf(Mouse) = "mouse key" /\ KeyOf(Keyboard) = "keyboard key"
  BY DEF KeyOf, Mouse, Keyboard
<1>2. (d = Mouse \/ d = Keyboard) /\ (e = Mouse \/ e = Keyboard)
  BY DEF Devices
<1>3. ~(d = Mouse /\ e = Keyboard) /\ ~(d = Keyboard /\ e = Mouse)
  <2>1. CASE d = Mouse /\ e = Keyboard
    <3>1. KeyOf(d) = "mouse key" /\ KeyOf(e) = "keyboard key"
      BY <1>1, <2>1, Zenon
    <3> QED
      BY <3>1
  <2>2. CASE d = Keyboard /\ e = Mouse
    <3>1. KeyOf(d) = "keyboard key" /\ KeyOf(e) = "mouse key"
      BY <1>1, <2>2, Zenon
    <3> QED
      BY <3>1
  <2> QED
    BY <2>1, <2>2
<1> QED
  BY <1>2, <1>3

(* A device is registered, which no driver can have loaded.                *)
LEMMA RegisterKeepsOwner ==
  ASSUME OwnerInv, NEW d \in Devices, RegisterDevice(d), UNCHANGED <<ring, present, opened>>
  PROVE  OwnerInv'
<1>1. /\ OwnerTyped /\ OneToken /\ OpenRings /\ serviceAt = d /\ serviceAt' = KeyOf(d) /\ creation' = creation
      /\ nodes[d] = Absent /\ nodes' = [nodes EXCEPT ![d] = Bare]
  BY DEF OwnerInv, RegisterDevice, Registered
<1>2. DOMAIN nodes' = Devices /\ nodes'[d] = Bare /\ \A e \in Devices \ {d} : nodes'[e] = nodes[e]
  BY <1>1 DEF OwnerTyped
<1>3. OwnerTyped'
  BY <1>1, <1>2 DEF OwnerTyped, Bare
<1>4. /\ Token(creation.token) /\ \A e \in Devices : nodes[e] \in {Absent, Bare, creation.token}
      /\ ring = creation.token
  BY <1>1 DEF OneToken, HasReportRing, Devices, Mouse, Keyboard
<1>5. OneToken'
  <2>1. \A e \in Devices : nodes'[e] \in {Absent, Bare, creation.token}
    BY <1>2, <1>4
  <2>2. \A e \in Devices : KeyOf(d) = KeyOf(e) => e = d
    BY KeysApart
  <2> QED
    BY <1>1, <1>2, <1>4, <2>1, <2>2 DEF OneToken
<1>6. OpenRings'
  BY <1>1, <1>2 DEF OpenRings, Devices
<1> QED
  BY <1>3, <1>5, <1>6 DEF OwnerInv

LEMMA WriteKeyKeepsOwner ==
  ASSUME OwnerInv, NEW d \in Devices, WriteHardwareConfig(d), UNCHANGED <<ring, present, opened>>
  PROVE  OwnerInv'
<1>1. /\ OwnerTyped /\ OneToken /\ OpenRings /\ serviceAt = KeyOf(d) /\ serviceAt' = NextDevice(d)
      /\ creation' = creation /\ nodes[d] = Bare /\ nodes' = [nodes EXCEPT ![d] = creation.token]
  BY DEF OwnerInv, WriteHardwareConfig, OneToken
<1>2. DOMAIN nodes' = Devices /\ nodes'[d] = creation.token /\ \A e \in Devices \ {d} : nodes'[e] = nodes[e]
  BY <1>1 DEF OwnerTyped
<1>3. /\ Token(creation.token) /\ \A e \in Devices : nodes[e] \in {Absent, Bare, creation.token}
      /\ ring = creation.token
  BY <1>1 DEF OneToken, HasReportRing, KeyOf, Devices, Mouse, Keyboard
<1>4. OwnerTyped'
  BY <1>1, <1>2, <1>3 DEF OwnerTyped, Token
<1>5. OneToken'
  <2>1. \A e \in Devices : nodes'[e] \in {Absent, Bare, creation.token}
    BY <1>2, <1>3
  <2>2. \A e \in Devices : NextDevice(d) # KeyOf(e)
    BY DEF NextDevice, KeyOf, Devices, Mouse, Keyboard
  <2> QED
    BY <1>1, <1>3, <2>1, <2>2 DEF OneToken
<1>6. OpenRings'
  BY <1>1, <1>2 DEF OpenRings, Devices
<1> QED
  BY <1>4, <1>5, <1>6 DEF OwnerInv

(* A device that is removed goes, with what it has open.                   *)
LEMMA RemoveKeepsOwner ==
  ASSUME OwnerInv, NEW d \in Devices, Uninstall(d)
  PROVE  OwnerInv'
<1>1. /\ OwnerTyped /\ OneToken /\ OpenRings /\ ~Creating
      /\ UNCHANGED <<serviceAt, creation, ring>> /\ nodes' = [nodes EXCEPT ![d] = Absent]
  BY DEF OwnerInv, Uninstall, RemoveNode, ringVars
<1>2. IF d = Keyboard THEN present' = FALSE /\ opened' = None ELSE UNCHANGED <<present, opened>>
  BY DEF Uninstall, DeviceGoes, Gone, deviceVars
<1>3. DOMAIN nodes' = Devices /\ nodes'[d] = Absent /\ \A e \in Devices \ {d} : nodes'[e] = nodes[e]
  BY <1>1 DEF OwnerTyped
<1>4. OwnerTyped'
  BY <1>1, <1>3 DEF OwnerTyped
<1>5. OneToken'
  BY <1>1, <1>3 DEF OneToken, Creating, HasReportRing, KeyOf, Devices, Mouse, Keyboard
<1>6. OpenRings'
  BY <1>1, <1>2, <1>3 DEF OpenRings, Devices
<1> QED
  BY <1>4, <1>5, <1>6 DEF OwnerInv

(* The driver loads for a device that has a token, and opens what has the  *)
(* name of that token.                                                     *)
LEMMA DriverKeepsOwner ==
  ASSUME OwnerInv, UNCHANGED ownerVars, ring' = ring,
         \/ UNCHANGED <<present, opened>>
         \/ OpenRing
         \/ RemoveDevice \/ DriverDies
         \/ AddDevice
  PROVE  OwnerInv'
<1>1. OwnerTyped /\ OneToken /\ OpenRings /\ UNCHANGED <<nodes, creation, serviceAt>>
  BY DEF OwnerInv, ownerVars
<1>2. OwnerTyped' /\ OneToken'
  BY <1>1 DEF OwnerTyped, OneToken, HasReportRing
<1> SUFFICES OpenRings'
  BY <1>2 DEF OwnerInv
<1>3. CASE UNCHANGED <<present, opened>>
  BY <1>1, <1>3 DEF OpenRings
<1>4. CASE OpenRing
  <2>1. present /\ present' = present /\ opened' = token /\ ring = token /\ HasReportRing
    BY <1>4 DEF OpenRing, ReportRingFound
  <2>2. serviceAt # "down" /\ ring = creation.token /\ nodes[Keyboard] = creation.token
    BY <1>1, <2>1 DEF HasReportRing, OneToken, OpenRings, Devices
  <2> QED
    BY <1>1, <2>1, <2>2 DEF OpenRings
<1>5. CASE RemoveDevice \/ DriverDies
  BY <1>5 DEF RemoveDevice, DriverDies, DeviceGoes, Gone, OpenRings
<1>6. CASE AddDevice
  BY <1>1, <1>6 DEF AddDevice, DeviceIndexRead, OpenRings
<1> QED
  BY <1>3, <1>4, <1>5, <1>6

LEMMA OwnerAtFirst == Init => OwnerInv
BY DEF Init, OwnerInit, OwnerInv, OwnerTyped, OneToken, OpenRings, HasReportRing, KeyOf, Devices, Mouse, Keyboard

LEMMA OwnerStep == OwnerInv /\ [Next]_vars => OwnerInv'
<1> SUFFICES ASSUME OwnerInv, [Next]_vars PROVE OwnerInv'
  OBVIOUS
<1>1. CASE Service
  <2>1. UNCHANGED <<nodes, creation, ring, present, opened>>
    BY <1>1 DEF Service, deviceVars, FindRoom, WriteSlot, CommitSlot, Advance, Signal, StartDrain, DrainLed,
                SeeNoLed, EndDrain, ringVars
  <2>2. /\ serviceAt # "down" /\ HasReportRing
        /\ \A d \in Devices : serviceAt' # KeyOf(d)
    BY <1>1 DEF Service, FindRoom, WriteSlot, CommitSlot, Advance, Signal, StartDrain, DrainLed,
                SeeNoLed, EndDrain, ServiceGoes, HasReportRing, KeyOf, Devices, Mouse, Keyboard
  <2> QED
    BY <2>1, <2>2, OwnerKept
<1>2. CASE CreateOwner
  <2>1. CASE CreateRings
    BY <2>1, RingsKeepOwner
  <2>2. CASE UpdateDriver
    <3>1. UNCHANGED <<nodes, creation, ring>> /\ present' = FALSE /\ opened' = None
      BY <2>2 DEF UpdateDriver, DeviceGoes, Gone, ringVars
    <3>2. serviceAt # "down" /\ HasReportRing /\ \A d \in Devices : serviceAt' # KeyOf(d)
      BY <2>2 DEF UpdateDriver, ServiceGoes, HasReportRing, KeyOf, Devices, Mouse, Keyboard
    <3> QED
      BY <3>1, <3>2, OwnerKept
  <2>3. CASE ~CreateRings /\ ~UpdateDriver
    <3>1. UNCHANGED <<ring, present, opened>>
      BY <1>2, <2>3 DEF CreateOwner, ringVars, deviceVars
    <3>2. CASE FindDevices
      BY <3>1, <3>2, FindKeepsOwner
    <3>3. CASE WriteConfig \/ \E d \in Devices : KeepDevice(d)
      <4>1. /\ UNCHANGED <<nodes, creation>> /\ serviceAt # "down" /\ HasReportRing
            /\ \A d \in Devices : serviceAt' # KeyOf(d)
        BY <3>3 DEF WriteConfig, KeepDevice, NextDevice, HasReportRing, KeyOf, Devices, Mouse, Keyboard
      <4> QED
        BY <3>1, <4>1, OwnerKept
    <3> QED
      BY <1>2, <2>3, <3>1, <3>2, <3>3, RegisterKeepsOwner, WriteKeyKeepsOwner DEF CreateOwner
  <2> QED
    BY <2>1, <2>2, <2>3
<1>3. CASE ServiceFaults \/ StopUninstalled
  <2>1. UNCHANGED <<nodes, creation, ring, present, opened>> /\ serviceAt' = "down"
    BY <1>3 DEF ServiceFaults, StopUninstalled, CreateFails, ServiceDies, ringVars, deviceVars
  <2> QED
    BY <2>1, OwnerKept
<1>4. CASE \E d \in Devices : Uninstall(d)
  BY <1>4, RemoveKeepsOwner
<1>5. CASE \E t \in Threads : Thread(t)
  <2>1. UNCHANGED ownerVars /\ UNCHANGED <<ring, present, opened>>
    BY <1>5 DEF Thread, Pump, EnterPump, ReadReport, RetrieveRead, LeavePump, CompleteRead, FailRead,
                ConsumeReport, SignalLed, ringVars, deviceVars
  <2> QED
    BY <2>1, DriverKeepsOwner
<1>6. CASE Driver
  <2>1. UNCHANGED ownerVars /\ ring' = ring
    BY <1>6 DEF Driver, QueueRead, PublishLed, OpenRing, WakeOnEvent, WakeOnTimeout, RemoveDevice, DriverDies, AddDevice,
                ringVars
  <2>2. UNCHANGED <<present, opened>> \/ OpenRing \/ RemoveDevice \/ DriverDies \/ AddDevice
    BY <1>6 DEF Driver, QueueRead, PublishLed, WakeOnEvent, WakeOnTimeout, deviceVars
  <2> QED
    BY <2>1, <2>2, DriverKeepsOwner
<1>7. CASE UNCHANGED vars
  <2>1. UNCHANGED ownerVars /\ UNCHANGED <<ring, present, opened>>
    BY <1>7 DEF vars, ringVars, deviceVars
  <2> QED
    BY <2>1, DriverKeepsOwner
<1> QED
  BY <1>1, <1>2, <1>3, <1>4, <1>5, <1>6, <1>7 DEF Next

(* The rings that the driver has open are those that the service uses.     *)
THEOREM OneRingAlways == Spec => []OneRing
<1>1. OwnerInv => OneRing
  BY DEF OwnerInv, OpenRings, OneToken, OneRing
<1> QED
  BY <1>1, OwnerAtFirst, OwnerStep, PTL DEF Spec

=============================================================================
