----------------------------- MODULE MCHostAudio -----------------------------
EXTENDS HostAudio, FiniteSets, TLC

CONSTANTS speaker, headset, vbcable

Two == {speaker, headset}
\* The user had the same device for every role, or the cable itself for one.
SomeWishes == {[r \in Roles |-> speaker], [[r \in Roles |-> speaker] EXCEPT ![1] = vbcable]}

Nothing == [user |-> 0, plug |-> 0, call |-> 0, starts |-> 1, streams |-> 1, kill |-> 0,
            switch |-> 0, buffers |-> 0]
\* Sound, with a device that goes away and comes back; the user's choices and
\* failures while a route changes; deaths and another user's session.
Scenarios == {
  [Nothing EXCEPT !.buffers = 3],
  [Nothing EXCEPT !.buffers = 2, !.plug = 1],
  [Nothing EXCEPT !.user = 1, !.call = 1],
  [Nothing EXCEPT !.user = 1, !.starts = 2, !.streams = 2, !.kill = 1, !.switch = 2]}
=============================================================================
