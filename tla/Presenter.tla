------------------------------- MODULE Presenter -------------------------------
(* VulkanRenderer: what the player's main loop presents with.  The loop calls  *)
(* it; beside the loop run the GPU, which executes the submitted commands in   *)
(* order, and the thread of the PresentationTracker, which waits for the       *)
(* compositor to show what has been queued and sends feedback.  Both use the   *)
(* swapchain while the loop goes on, and the loop replaces the swapchain when  *)
(* the window changes: only waiting for both makes that safe.                  *)
(*                                                                             *)
(* Owners are the sessions the frames come from; a swapchain is named by its   *)
(* number.                                                                     *)
EXTENDS Naturals, Sequences

CONSTANTS
    Surfaces,         \* what a device offers: [presentWait, hdr10]
    MaxTracked,       \* presentations the tracker holds (32 in the code)
    FeedbackCapacity  \* feedback that waits for the loop (32 in the code)

ASSUME PresenterAssumption ==
    /\ Surfaces \subseteq [presentWait : BOOLEAN, hdr10 : BOOLEAN]
    /\ {MaxTracked, FeedbackCapacity} \subseteq Nat \ {0}

VARIABLE screen  \* the renderer, and what the GPU and the tracker still do for it

FramesInFlight == 2

NoRenderer ==
    [output |-> "none", tracked |-> FALSE, swapchain |-> 0,
     gpu |-> <<>>, waits |-> <<>>, feedback |-> <<>>]

Made(s) == s.output # "none"

(* select_surface_format: HDR10 only if it is wanted and offered.              *)
Output(surface, depth) == IF depth = 10 /\ surface.hdr10 THEN "hdr10" ELSE "sdr"

(* Presentations are tracked where the device can wait for them.               *)
HasTracker(surface) == surface.presentWait

(* VulkanRenderer::new ends by making the first swapchain.                     *)
NewRenderer(surface, depth) ==
    [NoRenderer EXCEPT !.output = Output(surface, depth),
                       !.tracked = HasTracker(surface), !.swapchain = 1]

-------------------------------------------------------------------------------
(* Presenting.  A frame slot is taken up again when its fence is signalled.    *)
(* The code drops the slot's import before it waits for the fence; here it is  *)
(* with the commands until they are done, so nothing follows for imports.      *)

SlotFree(s) == Len(s.gpu) < FramesInFlight

(* A frame is imported where it is, one image for each of its planes.          *)
ImportedPlane(owner, layer) == [owner |-> owner, layer |-> layer]

Import(owner) == {ImportedPlane(owner, layer) : layer \in {"Y", "UV"}}

(* The commands draw into an image of the swapchain and read what is imported. *)
FrameCommands(s, owner) == [swapchain |-> s.swapchain, reads |-> Import(owner)]

LoadingCommands(s) == [swapchain |-> s.swapchain, reads |-> {}]

Submitted(s, commands) == [s EXCEPT !.gpu = Append(@, commands)]

(* PresentationTracker::track refuses when its channel is full.  Only the      *)
(* presentation that counts for its frame has an owner, the others have 0.     *)
CanTrack(s) == s.tracked /\ Len(s.waits) < MaxTracked

Tracked(s, owner) ==
    IF CanTrack(s) THEN [s EXCEPT !.waits = Append(@, [swapchain |-> s.swapchain, owner |-> owner])]
    ELSE s

(* Everything that uses the swapchain is done: device_wait_idle for the GPU,   *)
(* PresentationTracker::drain for the tracker.                                 *)
Idle(s) == s.gpu = <<>> /\ s.waits = <<>>

Recreated(s) == [s EXCEPT !.swapchain = @ + 1]

-------------------------------------------------------------------------------
(* Beside the loop.                                                            *)

GpuFinishes ==
    /\ screen.gpu # <<>>
    /\ screen' = [screen EXCEPT !.gpu = Tail(@)]

(* wait_for_present returns: the frame has been shown, or the wait has failed. *)
(* Feedback that finds the channel full is lost.                               *)
TrackerAnswers(shown) ==
    /\ screen.waits # <<>>
    /\ screen' = [screen EXCEPT
           !.waits = Tail(@),
           !.feedback = IF shown /\ Len(@) < FeedbackCapacity
                        THEN Append(@, Head(screen.waits).owner) ELSE @]
=============================================================================
