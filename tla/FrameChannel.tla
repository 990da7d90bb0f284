---------------------------- MODULE FrameChannel ----------------------------
(***************************************************************************)
(* What a module's program may rely on of its CAN interface, with no       *)
(* mention of chips, drivers and interrupts: a channel with two places,    *)
(* which loses frames but neither changes nor doubles one.                 *)
(*                                                                         *)
(*   - a frame of the bus waits in one of two places, if that is free, or  *)
(*     is lost;                                                            *)
(*   - the first place is emptied before the second, one frame at a time;  *)
(*   - the program gets the frame that was fetched as the bus carried it.  *)
(***************************************************************************)
EXTENDS Naturals, Sequences

VARIABLES
  carried,    \* frames the bus has carried, numbered from 1
  place,      \* the number of the frame that waits in each place, or 0
  hand,       \* the number of the frame being read, or 0
  received    \* frames the program has got, in order

vars == <<carried, place, hand, received>>

Init ==
  /\ carried = <<>>
  /\ place = [b \in 0 .. 1 |-> 0]
  /\ hand = 0
  /\ received = <<>>

\* The bus carries one more frame, whichever.
Bus ==
  /\ Len(carried') = Len(carried) + 1
  /\ \A n \in 1 .. Len(carried) : carried'[n] = carried[n]

Arrive(b) ==
  /\ Bus
  /\ place[b] = 0
  /\ place' = [place EXCEPT ![b] = Len(carried')]
  /\ UNCHANGED <<hand, received>>

Miss ==
  /\ Bus
  /\ UNCHANGED <<place, hand, received>>

Fetch(b) ==
  /\ hand = 0 /\ place[b] # 0
  /\ b = 1 => place[0] = 0
  /\ hand' = place[b]
  /\ place' = [place EXCEPT ![b] = 0]
  /\ UNCHANGED <<carried, received>>

Give ==
  /\ hand # 0
  /\ received' = Append(received, carried[hand])
  /\ hand' = 0
  /\ UNCHANGED <<carried, place>>

Next == Miss \/ Give \/ \E b \in 0 .. 1 : Arrive(b) \/ Fetch(b)

Spec == Init /\ [][Next]_vars
=============================================================================
