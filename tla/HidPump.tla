--------------------------------- MODULE HidPump ---------------------------------
(***************************************************************************)
(* The path of one virtual HID device: the service publishes reports into  *)
(* a ring in shared memory and signals an event; the driver pairs reports  *)
(* with the reads that HIDClass sends.  Two kinds of threads pump: the     *)
(* device's worker, woken by the event or after five seconds, and the      *)
(* callback of every read.  The device map's lock is taken for single      *)
(* steps only, the flag `pumping` keeps a second pump out between them.    *)
(*                                                                         *)
(* The keyboard's driver also publishes, the LED states that Windows sets, *)
(* into a second ring that the service drains between its own reports.     *)
(* It keeps the lock from storing a state until it has signalled it.       *)
(*                                                                         *)
(* The service and the driver restart on their own, and the service        *)
(* creates devices and rings as InputOwner says.  A report or LED state is *)
(* its sequence number: what it holds is of no interest here.              *)
(***************************************************************************)
EXTENDS InputOwner

CONSTANTS
  SlotCount,       \* REPORT_SLOT_COUNT
  Callbacks,       \* threads that WDF runs read callbacks on
  Worker,          \* the device's worker thread
  MaxReads,        \* bound: reads of HIDClass that are not completed
  MaxReports,      \* bound: reports in one ring
  LedSlotCount,    \* REPORT_SLOT_COUNT of the LED ring
  MaxLeds,         \* bound: LED states in one ring
  MaxFaults        \* bound: deaths, failures and removals

ASSUME ConstantsAssumption ==
  /\ {SlotCount, LedSlotCount, MaxReads, MaxReports} \subseteq Nat \ {0}
  /\ {MaxLeds, MaxFaults} \subseteq Nat
  /\ Worker \notin Callbacks

VARIABLES
  producer,        \* producer_sequence
  consumer,        \* consumer_sequence
  slots,           \* slot -> the sequence numbers of its mark and of its report
  event,           \* the input event is signalled
  ring,            \* the token of the rings in shared memory
  led,             \* the LED ring: sequences and event; history: a death has stranded a state in it
  present,         \* the device is in DEVICES
  pumping,         \* DeviceState.pumping
  token,           \* DeviceState.config.token
  opened,          \* the token of the rings in DeviceState.ipc, or None
  pendingReads,    \* requests in the manual queue
  pump,            \* thread -> where it is in pump_reports
  held,            \* thread -> the report it has read
  last,            \* history: the newest report that HIDClass was given
  repeatable,      \* history: `last` was given and its consume was lost
  faults

ringVars   == <<producer, consumer, slots, event, ring>>
deviceVars == <<present, token, pumping, opened, pendingReads>>
pumpVars   == <<pump, held>>
historyVars == <<last, repeatable>>
vars == <<ringVars, led, ownerVars, deviceVars, pumpVars, historyVars, faults>>

Threads == Callbacks \union {Worker}
Slot(sequence) == (sequence - 1) % SlotCount
EmptyRing == [slot \in 0..(SlotCount - 1) |-> [committed |-> 0, report |-> 0]]
EmptyLedRing == [produced |-> 0, consumed |-> 0, event |-> FALSE, stranded |-> FALSE]

Init ==
  /\ OwnerInit
  /\ producer = 0 /\ consumer = 0 /\ slots = EmptyRing /\ event = FALSE /\ ring = None
  /\ led = EmptyLedRing
  /\ present = FALSE /\ token = None /\ pumping = FALSE /\ opened = None /\ pendingReads = 0
  /\ pump = [t \in Threads |-> "out"] /\ held = [t \in Threads |-> 0]
  /\ last = 0 /\ repeatable = FALSE
  /\ faults = 0

-----------------------------------------------------------------------------
(* The service: NamedRing::publish over SharedReportRing::publish. *)

HasRoomForOneMore == producer - consumer <= SlotCount                  \* mutant
HasRoom == producer - consumer < SlotCount

ServiceGoes(from, to) == serviceAt = from /\ serviceAt' = to

(* A full ring is tried again for 100 ms and then refuses the report.      *)
FindRoom ==
  /\ ServiceGoes("idle", "write")
  /\ producer < MaxReports
  /\ HasRoom
  /\ UNCHANGED <<ringVars, led>>

WriteSlot ==
  /\ ServiceGoes("write", "commit")
  /\ slots' = [slots EXCEPT ![Slot(producer + 1)].report = producer + 1]
  /\ UNCHANGED <<producer, consumer, event, ring, led>>

CommitSlot ==
  /\ ServiceGoes("commit", "advance")
  /\ slots' = [slots EXCEPT ![Slot(producer + 1)].committed = producer + 1]
  /\ UNCHANGED <<producer, consumer, event, ring, led>>

Advance ==
  /\ ServiceGoes("advance", "signal")
  /\ producer' = producer + 1
  /\ UNCHANGED <<consumer, slots, event, ring, led>>

Signal ==
  /\ ServiceGoes("signal", "idle")
  /\ event' = TRUE
  /\ UNCHANGED <<producer, consumer, slots, ring, led>>

(* drain_keyboard_leds: only a signalled event, which the look at it       *)
(* resets, starts the loop, and the loop ends at an empty ring, which also *)
(* makes good for what a death had stranded.                               *)
StartDrain ==
  /\ ServiceGoes("idle", "drain")
  /\ led.event
  /\ led' = [led EXCEPT !.event = FALSE]
  /\ UNCHANGED ringVars

AnyLed == led.consumed < led.produced
DrainLed ==
  /\ serviceAt = "drain" /\ AnyLed
  /\ led' = [led EXCEPT !.consumed = @ + 1]
  /\ UNCHANGED <<ringVars, serviceAt>>

Forgotten == [led EXCEPT !.event = FALSE]                              \* mutant
AfterLoop == led
SeeNoLed ==
  /\ ServiceGoes("drain", "drained")
  /\ ~AnyLed
  /\ led' = [led EXCEPT !.stranded = FALSE]
  /\ UNCHANGED ringVars

EndDrain ==
  /\ ServiceGoes("drained", "idle")
  /\ led' = AfterLoop
  /\ UNCHANGED ringVars

Service ==
  /\ FindRoom \/ WriteSlot \/ CommitSlot \/ Advance \/ Signal \/ StartDrain \/ DrainLed \/ SeeNoLed \/ EndDrain
  /\ UNCHANGED <<nodes, config, creation, deviceVars, pumpVars, historyVars, faults>>

(* NamedRing::create_named, for the reports and for the LED states.  A     *)
(* ring that the driver still has open keeps its sequences (reopen);       *)
(* otherwise nobody has, it is gone, and a new one starts over.            *)
Reopened == opened = creation.token
CreateReportRing ==
  /\ ServiceGoes("rings", "led ring")
  /\ IF Reopened THEN UNCHANGED <<ringVars, historyVars>>
     ELSE /\ \A t \in Threads : pump[t] = "out"
          /\ producer' = 0 /\ consumer' = 0 /\ slots' = EmptyRing /\ event' = FALSE
          /\ ring' = creation.token
          /\ last' = 0 /\ repeatable' = FALSE
  /\ UNCHANGED led

CreateLedRing ==
  /\ ServiceGoes("led ring", "config")
  /\ led' = IF Reopened THEN led ELSE EmptyLedRing
  /\ UNCHANGED <<ringVars, historyVars>>

CreateRings ==
  /\ CreateReportRing \/ CreateLedRing
  /\ UNCHANGED <<nodes, config, creation, deviceVars, pumpVars, faults>>

(* The device goes, with its reads, in a host process that goes on: the    *)
(* lock is waited for, and threads that pump find the device gone when     *)
(* they take the lock again (evt_device_cleanup).                          *)
Gone ==
  /\ present' = FALSE /\ token' = None /\ opened' = None /\ pumping' = FALSE
  /\ pendingReads' = 0

LockFree == \A t \in Threads : pump[t] # "led"
DeviceGoes == LockFree /\ Gone

(* update_driver with INSTALLFLAG_FORCE restarts the devices.              *)
UpdateDriver ==
  /\ ServiceGoes("update", "idle")
  /\ DeviceGoes
  /\ UNCHANGED <<ringVars, led, nodes, config, creation, pumpVars, historyVars, faults>>

CreateOwner ==
  \/ CreateRings \/ UpdateDriver
  \/ /\ FindDevices \/ WriteConfig \/ \E d \in Devices : KeepDevice(d) \/ RegisterDevice(d) \/ WriteHardwareConfig(d)
     /\ UNCHANGED <<ringVars, led, deviceVars, pumpVars, historyVars, faults>>

Fault == faults < MaxFaults /\ faults' = faults + 1

(* A death in the drain loop, whose event is spent, strands what is left.  *)
Stranding(died) == [led EXCEPT !.stranded = @ \/ (died /\ AnyLed)]
CutShort == Stranding(serviceAt = "drain")
ServiceFaults ==
  /\ Fault
  /\ CreateFails \/ ServiceDies
  /\ led' = CutShort
  /\ UNCHANGED <<ringVars, deviceVars, pumpVars, historyVars>>

(* uninstall: the devices go first, then the service is stopped.  It is    *)
(* also the only cure for a device that a death has left without a token:  *)
(* the service refuses to start beside it.                                 *)
Begun == IF serviceAt = "down" THEN ~Consistent ELSE Found # Devices
Uninstall(d) ==
  /\ IF Begun THEN UNCHANGED faults ELSE Fault
  /\ RemoveNode(d)
  /\ IF d = Keyboard THEN DeviceGoes ELSE UNCHANGED deviceVars
  /\ UNCHANGED <<ringVars, led, pumpVars, historyVars>>

StopUninstalled ==
  /\ ~Creating /\ Found = {}
  /\ ServiceDies
  /\ led' = CutShort
  /\ UNCHANGED <<ringVars, deviceVars, pumpVars, historyVars, faults>>

-----------------------------------------------------------------------------
(* The driver. *)

At(t, place) == pump' = [pump EXCEPT ![t] = place]

EnterAnyway(t) ==                                                      \* mutant
  IF present THEN pumping' = TRUE /\ At(t, "read") ELSE UNCHANGED pumping /\ At(t, "out")
Enter(t) ==
  IF present /\ ~pumping THEN pumping' = TRUE /\ At(t, "read")
  ELSE UNCHANGED pumping /\ At(t, "out")
EnterPump(t) ==
  /\ pump[t] = "enter"
  /\ Enter(t)
  /\ UNCHANGED <<ringVars, led, present, token, opened, pendingReads, held, historyVars, faults>>

(* ipc::read_report *)
Available == /\ consumer < producer
             /\ slots[Slot(consumer + 1)].committed = consumer + 1

ReadReport(t) ==
  /\ pump[t] = "read"
  /\ IF present /\ opened = ring /\ Available
     THEN /\ held' = [held EXCEPT ![t] = slots[Slot(consumer + 1)].report]
          /\ At(t, "retrieve")
          /\ UNCHANGED pumping
     ELSE /\ pumping' = FALSE
          /\ At(t, "out")
          /\ UNCHANGED held
  /\ UNCHANGED <<ringVars, led, present, token, opened, pendingReads, historyVars, faults>>

PutBack(t) == held' = [held EXCEPT ![t] = 0]

(* The lock is free here: a read can arrive before the flag is cleared.    *)
RetrieveRead(t) ==
  /\ pump[t] = "retrieve"
  /\ IF pendingReads > 0 THEN pendingReads' = pendingReads - 1 /\ At(t, "complete")
          /\ UNCHANGED held
     ELSE At(t, "leave") /\ PutBack(t) /\ UNCHANGED pendingReads
  /\ UNCHANGED <<ringVars, led, present, token, pumping, opened, historyVars, faults>>

LeaveMarked(t) == At(t, "out") /\ UNCHANGED pumping                    \* mutant
Leave(t) == At(t, "out") /\ pumping' = FALSE
LeavePump(t) ==
  /\ pump[t] = "leave"
  /\ Leave(t)
  /\ UNCHANGED <<ringVars, led, present, token, opened, pendingReads, held, historyVars, faults>>

CompleteRead(t) ==
  /\ pump[t] = "complete"
  /\ At(t, "consume")
  /\ last' = held[t]
  /\ repeatable' = FALSE
  /\ UNCHANGED <<ringVars, led, deviceVars, held, faults>>

FailRead(t) ==
  /\ pump[t] = "complete"
  /\ Fault
  /\ At(t, "leave")
  /\ PutBack(t)
  /\ UNCHANGED <<ringVars, led, deviceVars, historyVars>>

(* ipc::consume.  A device that is gone forgets that it gave the report.   *)
ConsumeReport(t) ==
  /\ pump[t] = "consume"
  /\ IF present /\ opened = ring
     THEN consumer' = held[t] /\ At(t, "read") /\ UNCHANGED repeatable
     ELSE repeatable' = TRUE /\ At(t, "out") /\ UNCHANGED consumer
  /\ PutBack(t)
  /\ UNCHANGED <<producer, slots, event, ring, led, deviceVars, last, faults>>

Pump(t) ==
  \/ EnterPump(t) \/ ReadReport(t) \/ RetrieveRead(t) \/ LeavePump(t)
  \/ CompleteRead(t) \/ FailRead(t) \/ ConsumeReport(t)

(* HIDClass keeps a fixed number of reads outstanding.                     *)
Outstanding == pendingReads + Cardinality({t \in Threads : pump[t] = "complete"})

(* IOCTL_HID_READ_REPORT: the read is queued first, then its thread pumps. *)
QueueRead(t) ==
  /\ t \in Callbacks
  /\ pump[t] = "out"
  /\ present
  /\ Outstanding < MaxReads
  /\ pendingReads' = pendingReads + 1
  /\ At(t, "enter")
  /\ UNCHANGED <<ringVars, led, present, token, pumping, opened, held, historyVars, faults>>

(* IOCTL_HID_WRITE_REPORT at the keyboard, publish_output: a full ring     *)
(* refuses the state, which Windows does not send again.  The state is in  *)
(* the ring before the event is set, and the host process can die between. *)
HasLedRoom == led.produced - led.consumed < LedSlotCount
PublishLed(t) ==
  /\ t \in Callbacks
  /\ pump[t] = "out"
  /\ present /\ opened = ring /\ led.produced < MaxLeds
  /\ LockFree
  /\ HasLedRoom
  /\ led' = [led EXCEPT !.produced = @ + 1]
  /\ At(t, "led")
  /\ UNCHANGED <<ringVars, deviceVars, held, historyVars, faults>>

SignalLed(t) ==
  /\ pump[t] = "led"
  /\ led' = [led EXCEPT !.event = TRUE, !.stranded = FALSE]
  /\ At(t, "out")
  /\ UNCHANGED <<ringVars, deviceVars, held, historyVars, faults>>

(* InputIpc::open, tried every 250 ms.  It needs the rings of its token,   *)
(* which live as long as the service has them.                             *)
ReportRingFound == ring = token /\ HasReportRing
LedRingFound == HasLedRing
OpenRing ==
  /\ pump[Worker] = "out"
  /\ present /\ opened = None
  /\ ReportRingFound /\ LedRingFound
  /\ opened' = token
  /\ At(Worker, "enter")
  /\ UNCHANGED <<ringVars, led, present, token, pumping, pendingReads, held, historyVars, faults>>

WakeOnEvent ==
  /\ pump[Worker] = "out"
  /\ present /\ opened # None
  /\ event
  /\ event' = FALSE
  /\ At(Worker, "enter")
  /\ UNCHANGED <<producer, consumer, slots, ring, led, deviceVars, held, historyVars, faults>>

WakeOnTimeout ==
  /\ pump[Worker] = "out"
  /\ present /\ opened # None
  /\ ~event
  /\ At(Worker, "enter")
  /\ UNCHANGED <<ringVars, led, deviceVars, held, historyVars, faults>>

(* The device is disabled, or restarted, while its host process lives.     *)
RemoveDevice ==
  /\ present
  /\ Fault
  /\ DeviceGoes
  /\ UNCHANGED <<ringVars, led, pumpVars, historyVars>>

(* The driver's host process dies, with all its threads, wherever they     *)
(* are: a report may have been given and not consumed, an LED state stored *)
(* and not signalled.  The rings and events are the service's as well.     *)
Running == present \/ \E t \in Threads : pump[t] # "out"
DriverDies ==
  /\ Running
  /\ Fault
  /\ Gone
  /\ pump' = [t \in Threads |-> "out"] /\ held' = [t \in Threads |-> 0]
  /\ repeatable' = (repeatable \/ \E t \in Threads : pump[t] = "consume")
  /\ led' = Stranding(~LockFree)
  /\ UNCHANGED <<ringVars, last>>

(* evt_driver_device_add, in a new process, or in one that has joined the  *)
(* old worker.                                                             *)
(* config::load needs the index in the hardware key and the configuration. *)
DeviceIndexRead == nodes[Keyboard] \notin {Absent, Bare}
MachineConfigRead == config[Keyboard] # None
AddDevice ==
  /\ ~present
  /\ DeviceIndexRead /\ MachineConfigRead
  /\ \A t \in Threads : pump[t] = "out"
  /\ present' = TRUE
  /\ token' = config[Keyboard]
  /\ UNCHANGED <<ringVars, led, pumping, opened, pendingReads, pumpVars, historyVars, faults>>

Thread(t) == (Pump(t) \/ SignalLed(t)) /\ UNCHANGED ownerVars
Driver ==
  /\ \/ \E t \in Threads : QueueRead(t) \/ PublishLed(t)
     \/ OpenRing \/ WakeOnEvent \/ WakeOnTimeout \/ RemoveDevice \/ DriverDies \/ AddDevice
  /\ UNCHANGED ownerVars

Next ==
  \/ Service \/ CreateOwner \/ ServiceFaults
  \/ (\E d \in Devices : Uninstall(d)) \/ StopUninstalled
  \/ \E t \in Threads : Thread(t)
  \/ Driver

Uninstalls == (\E d \in Devices : Begun /\ Uninstall(d)) \/ StopUninstalled

(* Threads run, the worker's wait ends after five seconds at the latest,   *)
(* HIDClass always reads again, and what was restarted comes back; an      *)
(* uninstall is finished, and a service that refuses to start installed    *)
(* anew.                                                                   *)
Fairness ==
  /\ WF_vars(Service) /\ WF_vars(CreateOwner \/ Uninstalls)
  /\ \A t \in Threads : WF_vars(Thread(t) /\ faults' = faults)
  /\ \A t \in Callbacks : WF_vars(QueueRead(t) /\ UNCHANGED ownerVars)
  /\ WF_vars((OpenRing \/ WakeOnEvent \/ WakeOnTimeout \/ AddDevice) /\ UNCHANGED ownerVars)

Spec == Init /\ [][Next]_vars
FairSpec == Spec /\ Fairness

-----------------------------------------------------------------------------
(* Properties. *)

Places == {"out", "enter", "read", "retrieve", "leave", "complete", "consume", "led"}

(* The variables keep their types, and no request is invented. *)
TypeOK ==
  /\ producer \in 0..MaxReports /\ consumer \in 0..producer
  /\ slots \in [0..(SlotCount - 1) -> [committed : 0..MaxReports, report : 0..MaxReports]]
  /\ Creating \/ serviceAt \in {"idle", "write", "commit", "advance", "signal", "drain", "drained", "down"}
  /\ {event, present, pumping, repeatable} \subseteq BOOLEAN
  /\ led.consumed \in 0..led.produced /\ led.produced \in 0..MaxLeds
  /\ {token, opened, ring} \subseteq 0..creation.drawn
  /\ Outstanding \in 0..MaxReads
  /\ pump \in [Threads -> Places] /\ held \in [Threads -> 0..MaxReports]
  /\ last \in 0..MaxReports /\ faults \in 0..MaxFaults

(* Every report that is published and not consumed is whole in its slot,   *)
(* also while the service writes the next one or after it died doing so:   *)
(* publish never touches a slot read_report may still look at.             *)
RingIntact ==
  \A sequence \in (consumer + 1)..producer :
     slots[Slot(sequence)] = [committed |-> sequence, report |-> sequence]

(* HIDClass is given the reports in order and each of them once, whichever *)
(* threads pump_reports runs on.  Only a device that went away, or whose   *)
(* process died, between the completion and the consume gives its last     *)
(* report again.                                                           *)
DeliveredInOrder ==
  \A t \in Threads :
     pump[t] = "complete" => held[t] = last + 1 \/ (repeatable /\ held[t] = last)

(* Every published report reaches HIDClass, unless its ring is destroyed   *)
(* with it: pump_reports never leaves the device marked as being pumped,   *)
(* and the five seconds of the worker's wait make good for a lost event.   *)
(* As publishing is bounded, this says that HIDClass catches up with it.   *)
Delivered == last < producer ~> last = producer

(* Driver and service meet in one ring: whatever step of create failed or  *)
(* was cut short, and however often, the rings that the driver has open    *)
(* are those of the token that the service uses now                        *)
(* (docs/windows-virtual-hid-mouse-keyboard.md, the persistent token).     *)
OneRing == opened # None => opened = ring /\ (HasReportRing => ring = creation.token)

(* As long as nobody dies at the wrong point, no LED state stays in its    *)
(* ring unnoticed: the event is signalled, or about to be, or the drain    *)
(* loop has still to look, whichever way the two overlap.  Two deaths      *)
(* strand a state: that of the service in the loop, which has spent the    *)
(* event, and that of the driver's process between the store of the        *)
(* producer's sequence and SetEvent (publish_output).  It then waits for   *)
(* the next state that is signalled; the exception lasts no longer.        *)
LedsDrained ==
  AnyLed => led.event \/ led.stranded \/ serviceAt = "drain" \/ \E t \in Threads : pump[t] = "led"
=============================================================================
