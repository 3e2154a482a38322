--------------------------- MODULE MCAudioPlayout ---------------------------
(***************************************************************************)
(* AudioPlayout with a first generation that is longer than every window   *)
(* and a second one that interrupts it anywhere.                           *)
(***************************************************************************)
EXTENDS AudioPlayout

MCLastSequence == <<3, 0>>
=============================================================================
