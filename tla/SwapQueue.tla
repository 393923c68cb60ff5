----------------------------- MODULE SwapQueue -----------------------------
(***************************************************************************)
(* rtc_base/swap_queue.h: the lock-free queue between the render thread    *)
(* (producer: Insert) and the capture thread (consumer: Remove, Clear,     *)
(* SizeAtLeast).  Each call is split at every access to shared memory, so  *)
(* the two threads interleave the way the hardware lets them: the load of  *)
(* num_elements, the swap with a slot, the atomic add or subtract, and     *)
(* only then the increment of the thread's own index.  The acquire and     *)
(* release orderings of the source keep each swap between its load and its *)
(* add, which is the order of the steps here.                              *)
(***************************************************************************)
EXTENDS Integers, Sequences

CONSTANTS
    QueueSize,  \* queue_.size(), fixed by the constructor
    Items,      \* what a full T may hold
    NoItem      \* what the prototype T holds

ASSUME QueueSizeAssumption == QueueSize \in Nat \ {0}
ASSUME NoItemAssumption == NoItem \notin Items

VARIABLES
    num_elements,      \* the only variable both threads write
    next_write_index,  \* producer only
    next_read_index,   \* consumer only
    queue,             \* the slots
    input,             \* the T the producer holds
    output,            \* the T the consumer holds
    pcP, pcC,          \* where each thread is in its current call
    cleared,           \* Clear's num_elements, until added to next_read_index
    promised           \* history: removals the last SizeAtLeast vouched for

pvars == <<next_write_index, input, pcP>>
cvars == <<next_read_index, output, pcC, cleared, promised>>
vars == <<num_elements, queue, pvars, cvars>>

Indices == 0 .. QueueSize - 1

\* The source's "if (i >= size) i -= size".
Wrap(i) == IF i >= QueueSize THEN i - QueueSize ELSE i

Init ==
    /\ num_elements = 0
    /\ next_write_index = 0
    /\ next_read_index = 0
    /\ queue = [i \in Indices |-> NoItem]
    /\ input = NoItem
    /\ output = NoItem
    /\ pcP = "idle"
    /\ pcC = "idle"
    /\ cleared = 0
    /\ promised = 0

-----------------------------------------------------------------------------
(* Insert, the producer *)

\* Variant: an insert that never refuses.
BugSeesFull == FALSE

\* The test of num_elements against the size that decides a refusal.
SeesFull == num_elements = QueueSize

InsertLoad(v) ==
    /\ pcP = "idle"
    /\ input' = v
    /\ pcP' = IF SeesFull THEN "idle" ELSE "swap"
    /\ UNCHANGED <<num_elements, queue, next_write_index, cvars>>

InsertSwap ==
    /\ pcP = "swap"
    /\ input' = queue[next_write_index]
    /\ queue' = [queue EXCEPT ![next_write_index] = input]
    /\ pcP' = "add"
    /\ UNCHANGED <<num_elements, next_write_index, cvars>>

InsertAdd ==
    /\ pcP = "add"
    /\ num_elements' = num_elements + 1
    /\ pcP' = "step"
    /\ UNCHANGED <<queue, next_write_index, input, cvars>>

InsertStep ==
    /\ pcP = "step"
    /\ next_write_index' = Wrap(next_write_index + 1)
    /\ pcP' = "idle"
    /\ UNCHANGED <<num_elements, queue, input, cvars>>

-----------------------------------------------------------------------------
(* Remove, Clear and SizeAtLeast, the consumer *)

\* Variant: a removal that does not look first.
BugSeesEmpty == FALSE

SeesEmpty == num_elements = 0

RemoveLoad ==
    /\ pcC = "idle"
    /\ ~SeesEmpty
    /\ pcC' = "swap"
    /\ UNCHANGED <<num_elements, queue, next_read_index, output, cleared,
                   promised, pvars>>

RemoveSwap ==
    /\ pcC = "swap"
    /\ output' = queue[next_read_index]
    /\ queue' = [queue EXCEPT ![next_read_index] = output]
    /\ pcC' = "sub"
    /\ UNCHANGED <<num_elements, next_read_index, cleared, promised, pvars>>

RemoveSub ==
    /\ pcC = "sub"
    /\ num_elements' = num_elements - 1
    /\ promised' = IF promised > 0 THEN promised - 1 ELSE 0
    /\ pcC' = "step"
    /\ UNCHANGED <<queue, next_read_index, output, cleared, pvars>>

RemoveStep ==
    /\ pcC = "step"
    /\ next_read_index' = Wrap(next_read_index + 1)
    /\ pcC' = "idle"
    /\ UNCHANGED <<num_elements, queue, output, cleared, promised, pvars>>

ClearExchange ==
    /\ pcC = "idle"
    /\ cleared' = num_elements
    /\ num_elements' = 0
    /\ promised' = 0
    /\ pcC' = "clear"
    /\ UNCHANGED <<queue, next_read_index, output, pvars>>

\* Variant: Clear sends the read index home instead of past what it dropped.
BugClearStep ==
    /\ pcC = "clear"
    /\ next_read_index' = 0
    /\ cleared' = 0
    /\ pcC' = "idle"
    /\ UNCHANGED <<num_elements, queue, output, promised, pvars>>

ClearStep ==
    /\ pcC = "clear"
    /\ next_read_index' = Wrap(next_read_index + cleared)
    /\ cleared' = 0
    /\ pcC' = "idle"
    /\ UNCHANGED <<num_elements, queue, output, promised, pvars>>

\* Variant: the size counts an insertion that is still under way.
BugSizeAtLeast ==
    /\ pcC = "idle"
    /\ promised' = IF pcP = "add" THEN num_elements + 1 ELSE num_elements
    /\ UNCHANGED <<num_elements, queue, next_read_index, output, pcC, cleared,
                   pvars>>

SizeAtLeast ==
    /\ pcC = "idle"
    /\ promised' = num_elements
    /\ UNCHANGED <<num_elements, queue, next_read_index, output, pcC, cleared,
                   pvars>>

-----------------------------------------------------------------------------
Producer == (\E v \in Items : InsertLoad(v)) \/ InsertSwap \/ InsertAdd
              \/ InsertStep
Consumer == RemoveLoad \/ RemoveSwap \/ RemoveSub \/ RemoveStep
              \/ ClearExchange \/ ClearStep \/ SizeAtLeast

Next == Producer \/ Consumer

Spec == Init /\ [][Next]_vars

-----------------------------------------------------------------------------
TypeOK ==
    /\ num_elements \in 0 .. QueueSize
    /\ next_write_index \in Indices
    /\ next_read_index \in Indices
    /\ queue \in [Indices -> Items \cup {NoItem}]
    /\ input \in Items \cup {NoItem}
    /\ output \in Items \cup {NoItem}
    /\ pcP \in {"idle", "swap", "add", "step"}
    /\ pcC \in {"idle", "swap", "sub", "step", "clear"}
    /\ cleared \in 0 .. QueueSize
    /\ promised \in 0 .. QueueSize

\* The two threads are never inside the swap of the same slot: the queue has
\* no data race although neither index is shared.
NoSharedSlot ==
    ~ (pcP = "swap" /\ pcC = "swap" /\ next_write_index = next_read_index)

\* What SizeAtLeast returned stays a lower bound until the consumer itself
\* removes or clears, whatever the producer does in between.
SizeIsALowerBound == promised <= num_elements

\* Where each index will be once the call in progress has stepped it.
WriteAt == IF pcP = "step" THEN Wrap(next_write_index + 1)
                           ELSE next_write_index
ReadAt == IF pcC = "step" THEN Wrap(next_read_index + 1)
          ELSE IF pcC = "clear" THEN Wrap(next_read_index + cleared)
          ELSE next_read_index

\* The indices drift apart by exactly num_elements, modulo the calls in
\* progress; a thread past its load still has the room (or the item) it saw.
IndicesAgree ==
    /\ WriteAt = Wrap(ReadAt + num_elements)
    /\ pcP \in {"swap", "add"} => num_elements < QueueSize
    /\ pcC \in {"swap", "sub"} => num_elements > 0

-----------------------------------------------------------------------------
(* Refinement: an Insert takes effect at its add, a Remove at its swap.    *)

\* The slot of the first item that is still to be removed, and their number.
FirstFull == IF pcC = "sub" THEN Wrap(next_read_index + 1) ELSE ReadAt
Remaining == IF pcC = "sub" THEN num_elements - 1 ELSE num_elements

Contents == [k \in 1 .. Remaining |-> queue[Wrap(FirstFull + k - 1)]]

Fifo == INSTANCE BoundedFifo WITH
            Capacity <- QueueSize, fifo <- Contents, taken <- output

\* Under every interleaving the threads see a bounded FIFO: nothing is lost,
\* duplicated, reordered or torn between the load and the index step.
IsBoundedFifo == Fifo!Spec
=============================================================================
