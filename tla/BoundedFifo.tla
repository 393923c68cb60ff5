---------------------------- MODULE BoundedFifo ----------------------------
(***************************************************************************)
(* What SwapQueue promises to its two callers: a first-in first-out queue  *)
(* of at most Capacity items whose operations are each a single step.      *)
(* Echo control hands render (loudspeaker) frames to the capture           *)
(* (microphone) thread through it.                                         *)
(***************************************************************************)
EXTENDS Integers, Sequences

CONSTANTS
    Capacity,   \* number of slots
    Items,      \* the payloads a producer may insert
    NoItem      \* content of a slot or of a holder that was never filled

VARIABLES
    fifo,       \* inserted and not yet removed, oldest first
    taken       \* the item the consumer removed last

vars == <<fifo, taken>>

Init == fifo = <<>> /\ taken = NoItem

Put(v) ==
    /\ Len(fifo) < Capacity
    /\ fifo' = Append(fifo, v)
    /\ UNCHANGED taken

Get ==
    /\ fifo # <<>>
    /\ taken' = Head(fifo)
    /\ fifo' = Tail(fifo)

DropAll == fifo' = <<>> /\ UNCHANGED taken

Next == (\E v \in Items : Put(v)) \/ Get \/ DropAll

Spec == Init /\ [][Next]_vars
=============================================================================
