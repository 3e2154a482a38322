------------------------------- MODULE InputOwner -------------------------------
(***************************************************************************)
(* VirtualInputOwner, as the service that starts creates it, and what it   *)
(* leaves on the machine: the two virtual devices, each with the token in  *)
(* its hardware key, and the configuration that tells the driver the kind  *)
(* and the token of a device.  Devices and configuration outlive the       *)
(* service, which may die or fail between any two of the steps; the token  *)
(* is the part of their names by which service and driver find each        *)
(* other's shared memory.                                                  *)
(***************************************************************************)
EXTENDS Integers, FiniteSets

VARIABLES
  nodes,       \* device -> its state as a PnP device
  config,      \* device -> the token of its configuration, or None
  serviceAt,   \* where the service is
  creation     \* the token in use, is it a new one?, and the newest ever drawn

ownerVars == <<nodes, config, serviceAt, creation>>

Mouse == "mouse"
Keyboard == "keyboard"
Devices == {Mouse, Keyboard}
None == 0
Absent == -1
Bare == 0           \* registered, without a token in its hardware key
Registered(d) == nodes[d] # Absent

OwnerInit ==
  /\ nodes = [d \in Devices |-> Absent]
  /\ config = [d \in Devices |-> None]
  /\ serviceAt = "down"
  /\ creation = [token |-> None, fresh |-> TRUE, drawn |-> 0]

Creating == serviceAt \in {"rings", "led ring", "config", "configured", Mouse, "mouse key", Keyboard, "keyboard key", "update"}
HasReportRing == serviceAt \notin {"down", "rings"}
HasLedRing == serviceAt \notin {"down", "rings", "led ring"}

-----------------------------------------------------------------------------
(* select_existing_devices: all devices carry one token, or it refuses.    *)
Found == {d \in Devices : Registered(d)}
Consistent == \A d, e \in Found : nodes[d] # Bare /\ nodes[d] = nodes[e]

RandomToken == creation.drawn + 1
AlwaysRandom == [token |-> RandomToken, fresh |-> Found = {}, drawn |-> RandomToken]   \* mutant
TokenFor ==
  IF Found = {} THEN [token |-> RandomToken, fresh |-> TRUE, drawn |-> RandomToken]
  ELSE [creation EXCEPT !.token = nodes[CHOOSE d \in Found : TRUE], !.fresh = FALSE]

(* existing_devices, from which the token comes.                           *)
FindDevices ==
  /\ serviceAt = "down" /\ Consistent
  /\ creation' = TokenFor
  /\ serviceAt' = "rings"
  /\ UNCHANGED <<nodes, config>>

(* write_config: the mouse first, then the keyboard.                       *)
WriteConfig ==
  /\ \/ serviceAt = "config" /\ config' = [config EXCEPT ![Mouse] = creation.token] /\ serviceAt' = "configured"
     \/ serviceAt = "configured" /\ config' = [config EXCEPT ![Keyboard] = creation.token] /\ serviceAt' = Mouse
  /\ UNCHANGED <<nodes, creation>>

NextDevice(d) == IF d = Mouse THEN Keyboard ELSE "update"
KeyOf(d) == IF d = Mouse THEN "mouse key" ELSE "keyboard key"

(* A device that exists already is left as it is.                          *)
KeepDevice(d) ==
  /\ serviceAt = d /\ Registered(d)
  /\ serviceAt' = NextDevice(d)
  /\ UNCHANGED <<nodes, config, creation>>

(* PnpDevice::create: from the registration on the device stays.           *)
RegisterDevice(d) ==
  /\ serviceAt = d /\ ~Registered(d)
  /\ nodes' = [nodes EXCEPT ![d] = Bare]
  /\ serviceAt' = KeyOf(d)
  /\ UNCHANGED <<config, creation>>

WriteHardwareConfig(d) ==
  /\ serviceAt = KeyOf(d)
  /\ nodes' = [nodes EXCEPT ![d] = creation.token]
  /\ serviceAt' = NextDevice(d)
  /\ UNCHANGED <<config, creation>>

(* A step of create fails and the service ends.  What create deletes then  *)
(* depends on the step, and on whether the devices are its own.            *)
Unconfigured(devices) == [d \in Devices |-> IF d \in devices THEN None ELSE config[d]]
AfterFailure ==
  CASE serviceAt = "configured" -> Unconfigured({Mouse})
    [] creation.fresh /\ serviceAt \notin {"rings", "led ring", "config", "configured"} -> Unconfigured(Devices)
    [] OTHER -> config
CreateFails ==
  /\ Creating
  /\ config' = AfterFailure
  /\ serviceAt' = "down"
  /\ UNCHANGED <<nodes, creation>>

(* The service is killed: nothing is undone.                               *)
ServiceDies ==
  /\ serviceAt # "down"
  /\ serviceAt' = "down"
  /\ UNCHANGED <<nodes, config, creation>>

(* remove_persistent_devices, which uninstall calls before it stops the    *)
(* service: device after device, the configuration only after the last.    *)
RemoveNode(d) ==
  /\ ~Creating /\ Registered(d)
  /\ nodes' = [nodes EXCEPT ![d] = Absent]
  /\ config' = IF Found = {d} THEN Unconfigured(Devices) ELSE config
  /\ UNCHANGED <<serviceAt, creation>>
=============================================================================
