--------------------------------- MODULE Fifo ---------------------------------
(***************************************************************************)
(* What a channel promises of its values: they are received in the order   *)
(* they were sent, each once, and none is lost or invented.                *)
(***************************************************************************)
EXTENDS Integers, Sequences

CONSTANT Vals   \* the values sent

VARIABLES bound,   \* the capacity, or 0 for an unbounded channel
          items,   \* the values sent and not yet received, oldest first
          got      \* the value the last receive answered

Init == bound \in Nat /\ items = <<>> /\ got = 0

Put(v) ==
  /\ bound = 0 \/ Len(items) < bound
  /\ items' = Append(items, v) /\ UNCHANGED got

Take == items # <<>> /\ got' = Head(items) /\ items' = Tail(items)

\* A closed, drained channel answers zero.
Zero == items = <<>> /\ got' = 0 /\ UNCHANGED items

Next == (\E v \in Vals : Put(v)) \/ Take \/ Zero

Spec == Init /\ [][Next /\ UNCHANGED bound]_<<bound, items, got>>

=============================================================================
