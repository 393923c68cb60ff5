-------------------------- MODULE SwapQueueProofs --------------------------
(***************************************************************************)
(* The transfer queue is safe for every size: its types, the agreement of  *)
(* its indices with num_elements, and from them the absence of a data race *)
(* on a slot and the promise of SizeAtLeast.                               *)
(***************************************************************************)
EXTENDS SwapQueue, SequenceTheorems, TLAPS

\* The inductive invariant.  NoSharedSlot alone is not inductive: that the
\* indices differ when both threads are swapping follows from their distance
\* being num_elements, strictly between 0 and QueueSize.
IInv == TypeOK /\ IndicesAgree /\ SizeIsALowerBound

\* Wrap brings every sum of an index and a length back into the indices, and
\* stepping it by one commutes with adding to the length.
LEMMA WrapFacts ==
    ASSUME NEW i \in Indices, NEW n \in 0 .. QueueSize
    PROVE  /\ Wrap(i) = i
           /\ Wrap(i + n) \in Indices
           /\ n < QueueSize => Wrap(Wrap(i + n) + 1) = Wrap(i + (n + 1))
           /\ n > 0 => Wrap(Wrap(i + 1) + (n - 1)) = Wrap(i + n)
           /\ n \in 1 .. QueueSize - 1 => Wrap(i + n) # i
  BY QueueSizeAssumption DEF Wrap, Indices

\* The constructor's state is typed and its indices agree.
LEMMA InitIInv == Init => IInv
  BY QueueSizeAssumption
  DEF Init, IInv, TypeOK, IndicesAgree, SizeIsALowerBound, WriteAt, ReadAt,
      Wrap, Indices

\* Every step of the producer keeps the inductive invariant.
LEMMA ProducerIInv == IInv /\ Producer => IInv'
  <1> SUFFICES ASSUME IInv, Producer PROVE IInv'
    OBVIOUS
  <1> USE QueueSizeAssumption
          DEF IInv, TypeOK, IndicesAgree, SizeIsALowerBound, WriteAt, ReadAt,
              Indices, pvars, cvars
  <1>1. ASSUME NEW v \in Items, InsertLoad(v) PROVE IInv'
    BY <1>1 DEF InsertLoad, SeesFull, Wrap
  <1>2. CASE InsertSwap
    BY <1>2 DEF InsertSwap, Wrap
  <1>3. CASE InsertAdd
    BY <1>3 DEF InsertAdd, Wrap
  <1>4. CASE InsertStep
    BY <1>4 DEF InsertStep, Wrap
  <1> QED
    BY <1>1, <1>2, <1>3, <1>4 DEF Producer

\* Every step of the consumer keeps the inductive invariant.
LEMMA ConsumerIInv == IInv /\ Consumer => IInv'
  <1> SUFFICES ASSUME IInv, Consumer PROVE IInv'
    OBVIOUS
  <1> USE QueueSizeAssumption
          DEF IInv, TypeOK, IndicesAgree, SizeIsALowerBound, WriteAt, ReadAt,
              Indices, pvars, cvars
  <1>1. CASE RemoveLoad
    BY <1>1 DEF RemoveLoad, SeesEmpty, Wrap
  <1>2. CASE RemoveSwap
    BY <1>2 DEF RemoveSwap, Wrap
  <1>3. CASE RemoveSub
    BY <1>3 DEF RemoveSub, Wrap
  <1>4. CASE RemoveStep
    BY <1>4 DEF RemoveStep, Wrap
  <1>5. CASE ClearExchange
    BY <1>5 DEF ClearExchange, Wrap
  <1>6. CASE ClearStep
    BY <1>6 DEF ClearStep, Wrap
  <1>7. CASE SizeAtLeast
    BY <1>7 DEF SizeAtLeast, Wrap
  <1> QED
    BY <1>1, <1>2, <1>3, <1>4, <1>5, <1>6, <1>7 DEF Consumer

\* The inductive invariant holds in every reachable state.
THEOREM Inductive == Spec => []IInv
  <1>1. IInv /\ [Next]_vars => IInv'
    <2> SUFFICES ASSUME IInv, [Next]_vars PROVE IInv'
      OBVIOUS
    <2>1. CASE Next
      BY <2>1, ProducerIInv, ConsumerIInv DEF Next
    <2>2. CASE UNCHANGED vars
      BY <2>2 DEF vars, pvars, cvars, IInv, TypeOK, IndicesAgree,
                  SizeIsALowerBound, WriteAt, ReadAt
    <2> QED
      BY <2>1, <2>2
  <1> QED
    BY InitIInv, <1>1, PTL DEF Spec

\* num_elements and both indices stay within the queue (the DCHECKs at the
\* end of Insert, Remove and Clear).
THEOREM TypeCorrect == Spec => []TypeOK
  BY Inductive, PTL DEF IInv

\* num_elements is the distance of the indices, up to the calls in progress.
THEOREM IndicesAlwaysAgree == Spec => []IndicesAgree
  BY Inductive, PTL DEF IInv

\* SizeAtLeast is a lower bound until the consumer next removes.
THEOREM SizeIsSafe == Spec => []SizeIsALowerBound
  BY Inductive, PTL DEF IInv

\* No slot is ever swapped by both threads at once, whatever the queue's size.
THEOREM RaceFree == Spec => []NoSharedSlot
  <1>1. IInv => NoSharedSlot
    <2> SUFFICES ASSUME IInv, pcP = "swap", pcC = "swap"
                 PROVE  next_write_index # next_read_index
      BY DEF NoSharedSlot
    <2>1. /\ num_elements \in 1 .. QueueSize - 1
          /\ next_write_index = Wrap(next_read_index + num_elements)
      BY QueueSizeAssumption
      DEF IInv, TypeOK, IndicesAgree, WriteAt, ReadAt
    <2> QED
      BY <2>1, WrapFacts, QueueSizeAssumption DEF IInv, TypeOK
  <1> QED
    BY Inductive, <1>1, PTL

-----------------------------------------------------------------------------
(* The refinement.  Besides IInv it needs that what the producer is about  *)
(* to publish is one of the items.                                         *)

Published ==
    /\ pcP = "swap" => input \in Items
    /\ pcP = "add" => queue[next_write_index] \in Items

\* No consumer step disturbs a slot the producer has filled but not counted.
LEMMA PublishedInductive == IInv /\ Published /\ [Next]_vars => Published'
  <1> SUFFICES ASSUME IInv, Published, [Next]_vars PROVE Published'
    OBVIOUS
  <1> USE QueueSizeAssumption DEF IInv, TypeOK, Published, pvars, cvars
  <1>1. CASE RemoveSwap
    <2>1. pcP = "add" => next_write_index # next_read_index
      <3>1. pcP = "add" => /\ num_elements \in 1 .. QueueSize - 1
                           /\ next_write_index
                                = Wrap(next_read_index + num_elements)
        BY <1>1 DEF RemoveSwap, IndicesAgree, WriteAt, ReadAt
      <3> QED
        BY <3>1, WrapFacts
    <2> QED
      BY <1>1, <2>1 DEF RemoveSwap
  <1>2. ASSUME NEW v \in Items, InsertLoad(v) PROVE Published'
    BY <1>2 DEF InsertLoad
  <1>3. CASE InsertSwap
    BY <1>3 DEF InsertSwap
  <1>4. CASE InsertAdd \/ InsertStep
    BY <1>4 DEF InsertAdd, InsertStep
  <1>5. CASE RemoveLoad \/ RemoveSub \/ RemoveStep
    BY <1>5 DEF RemoveLoad, RemoveSub, RemoveStep
  <1>6. CASE ClearExchange \/ ClearStep \/ SizeAtLeast
    BY <1>6 DEF ClearExchange, ClearStep, SizeAtLeast
  <1>7. CASE UNCHANGED vars
    BY <1>7 DEF vars
  <1> QED
    BY <1>1, <1>2, <1>3, <1>4, <1>5, <1>6, <1>7
    DEF Next, Producer, Consumer

\* Contents is a sequence of the Remaining items from FirstFull on, and the
\* slot after the last of them is where the producer writes next.
LEMMA ContentsFacts ==
    ASSUME IInv
    PROVE  /\ Remaining \in 0 .. QueueSize
           /\ FirstFull \in Indices
           /\ WriteAt = Wrap(FirstFull + Remaining)
           /\ Contents \in Seq(Items \cup {NoItem})
           /\ Len(Contents) = Remaining
           /\ \A k \in 1 .. Remaining :
                /\ Wrap(FirstFull + k - 1) \in Indices
                /\ Contents[k] = queue[Wrap(FirstFull + k - 1)]
           /\ \A j, k \in 1 .. Remaining :
                Wrap(FirstFull + j - 1) = Wrap(FirstFull + k - 1) => j = k
  <1> USE QueueSizeAssumption
  <1>1. /\ Remaining \in 0 .. QueueSize
        /\ FirstFull \in Indices
        /\ WriteAt = Wrap(FirstFull + Remaining)
    BY DEF IInv, TypeOK, IndicesAgree, WriteAt, ReadAt, Remaining, FirstFull,
           Wrap, Indices
  <1>2. \A k \in 1 .. Remaining : Wrap(FirstFull + k - 1) \in Indices
    BY <1>1 DEF Wrap, Indices
  <1>3. \A j, k \in 1 .. Remaining :
          Wrap(FirstFull + j - 1) = Wrap(FirstFull + k - 1) => j = k
    BY <1>1 DEF Wrap, Indices
  <1>4. /\ Contents \in Seq(Items \cup {NoItem})
        /\ Len(Contents) = Remaining
    BY <1>1, <1>2 DEF Contents, IInv, TypeOK
  <1> QED
    BY <1>1, <1>2, <1>3, <1>4 DEF Contents

\* The tail of a sequence as a function on positions.
LEMMA TailAsFunction ==
    ASSUME NEW S, NEW s \in Seq(S), s # <<>>
    PROVE  Tail(s) = [k \in 1 .. Len(s) - 1 |-> s[k + 1]]
  <1>1. /\ Tail(s) \in Seq(S)
        /\ Len(Tail(s)) = Len(s) - 1
        /\ \A k \in 1 .. Len(s) - 1 : Tail(s)[k] = s[k + 1]
    BY HeadTailProperties
  <1>2. ASSUME NEW t \in Seq(S) PROVE t = [k \in 1 .. Len(t) |-> t[k]]
    OBVIOUS
  <1> QED
    BY <1>1, <1>2

\* A step that leaves the slots of the contents alone leaves the contents.
LEMMA ContentsSame ==
    ASSUME Remaining' = Remaining,
           \A k \in 1 .. Remaining :
             queue'[Wrap(FirstFull' + k - 1)] = queue[Wrap(FirstFull + k - 1)]
    PROVE  Contents' = Contents
  BY DEF Contents, Wrap

\* Each step of the queue is one step of the abstract queue or none.
LEMMA StepRefines ==
    IInv /\ IInv' /\ Published /\ [Next]_vars => [Fifo!Next]_(Fifo!vars)
  <1> SUFFICES ASSUME IInv, IInv', Published, [Next]_vars
               PROVE  [Fifo!Next]_(Fifo!vars)
    OBVIOUS
  <1> USE QueueSizeAssumption DEF IInv, TypeOK, pvars, cvars
  <1>0. ASSUME Contents' = Contents, output' = output
        PROVE  [Fifo!Next]_(Fifo!vars)
    BY <1>0 DEF Fifo!vars
  <1>1. ASSUME NEW v \in Items, InsertLoad(v)
        PROVE  Contents' = Contents /\ output' = output
    BY <1>1, ContentsSame
    DEF InsertLoad, Remaining, FirstFull, ReadAt
  <1>2. CASE InsertSwap
    <2>1. Remaining < QueueSize /\ next_write_index = WriteAt
      BY <1>2 DEF InsertSwap, IndicesAgree, Remaining, WriteAt
    <2>2. \A k \in 1 .. Remaining :
            Wrap(FirstFull + k - 1) # next_write_index
      <3>1. /\ Remaining \in 0 .. QueueSize - 1 /\ FirstFull \in Indices
            /\ next_write_index = Wrap(FirstFull + Remaining)
        BY <2>1, ContentsFacts
      <3> QED
        BY <3>1 DEF Wrap, Indices
    <2>3. /\ Remaining' = Remaining /\ FirstFull' = FirstFull
          /\ output' = output
      BY <1>2 DEF InsertSwap, Remaining, FirstFull, ReadAt, Wrap
    <2>4. \A k \in 1 .. Remaining :
            queue'[Wrap(FirstFull + k - 1)] = queue[Wrap(FirstFull + k - 1)]
      BY <1>2, <2>2, ContentsFacts DEF InsertSwap
    <2> QED
      BY <2>3, <2>4, ContentsSame, <1>0
  <1>3. CASE InsertAdd
    <2> DEFINE v == queue[next_write_index]
    <2>1. v \in Items /\ Len(Contents) < QueueSize
      BY <1>3, ContentsFacts DEF InsertAdd, Published, IndicesAgree, Remaining
    <2>2. /\ Remaining' = Remaining + 1 /\ FirstFull' = FirstFull
          /\ queue' = queue /\ output' = output
          /\ next_write_index = Wrap(FirstFull + Remaining)
      BY <1>3, ContentsFacts
      DEF InsertAdd, Remaining, FirstFull, ReadAt, WriteAt, Wrap
    <2>3. Contents' = Append(Contents, v)
      <3>1. Contents' = [k \in 1 .. Remaining + 1 |->
                           queue[Wrap(FirstFull + k - 1)]]
        BY <2>2 DEF Contents, Wrap
      <3>2. Append(Contents, v) =
              [k \in 1 .. Remaining + 1 |->
                 IF k = Remaining + 1 THEN v ELSE Contents[k]]
        BY ContentsFacts
      <3>3. \A k \in 1 .. Remaining + 1 :
              queue[Wrap(FirstFull + k - 1)]
                = IF k = Remaining + 1 THEN v ELSE Contents[k]
        BY <2>2, ContentsFacts
      <3> QED
        BY <3>1, <3>2, <3>3
    <2> QED
      BY <2>1, <2>2, <2>3 DEF Fifo!Next, Fifo!Put
  <1>4. CASE InsertStep \/ RemoveLoad \/ RemoveStep \/ ClearStep \/ SizeAtLeast
    <2>1. Remaining' = Remaining /\ FirstFull' = FirstFull
      BY <1>4
      DEF InsertStep, RemoveLoad, RemoveStep, ClearStep, SizeAtLeast,
          Remaining, FirstFull, ReadAt, Wrap, Indices
    <2>2. queue' = queue /\ output' = output
      BY <1>4 DEF InsertStep, RemoveLoad, RemoveStep, ClearStep, SizeAtLeast
    <2> QED
      BY <2>1, <2>2, ContentsSame, <1>0
  <1>5. CASE RemoveSwap
    <2>1. /\ Remaining \in Nat \ {0} /\ FirstFull = next_read_index
          /\ Remaining' = Remaining - 1
          /\ FirstFull' = Wrap(next_read_index + 1)
      BY <1>5
      DEF RemoveSwap, IndicesAgree, Remaining, FirstFull, ReadAt, Wrap
    <2>2. Contents # <<>> /\ output' = Head(Contents)
      <3>1. Contents[1] = queue[next_read_index]
        BY <2>1, ContentsFacts DEF Wrap, Indices
      <3> QED
        BY <1>5, <2>1, <3>1, ContentsFacts DEF RemoveSwap
    <2>3. \A k \in 1 .. Remaining - 1 :
            /\ Wrap(FirstFull' + k - 1) = Wrap(FirstFull + (k + 1) - 1)
            /\ Wrap(FirstFull' + k - 1) # next_read_index
            /\ Wrap(FirstFull' + k - 1) \in Indices
      BY <2>1, ContentsFacts DEF Wrap, Indices
    <2>4. \A k \in 1 .. Remaining - 1 :
            queue'[Wrap(FirstFull' + k - 1)] = Contents[k + 1]
      <3> SUFFICES ASSUME NEW k \in 1 .. Remaining - 1
                   PROVE  queue'[Wrap(FirstFull' + k - 1)] = Contents[k + 1]
        OBVIOUS
      <3>1. queue'[Wrap(FirstFull' + k - 1)] = queue[Wrap(FirstFull' + k - 1)]
        BY <1>5, <2>3 DEF RemoveSwap
      <3>2. k + 1 \in 1 .. Remaining
        BY <2>1
      <3>3. Contents[k + 1] = queue[Wrap(FirstFull + (k + 1) - 1)]
        BY <3>2, ContentsFacts
      <3> QED
        BY <3>1, <3>3, <2>3
    <2>5. Contents' = Tail(Contents)
      <3>1. Contents' = [k \in 1 .. Remaining - 1 |->
                           queue'[Wrap(FirstFull' + k - 1)]]
        BY <2>1 DEF Contents, Wrap
      <3>2. Tail(Contents) = [k \in 1 .. Remaining - 1 |-> Contents[k + 1]]
        <4>1. /\ Contents \in Seq(Items \cup {NoItem})
              /\ Contents # <<>> /\ Len(Contents) = Remaining
          BY <2>2, ContentsFacts
        <4> QED
          BY <4>1, TailAsFunction
      <3> QED
        BY <2>4, <3>1, <3>2
    <2> QED
      BY <2>2, <2>5 DEF Fifo!Next, Fifo!Get
  <1>6. CASE RemoveSub
    <2>1. Remaining' = Remaining /\ FirstFull' = FirstFull
      BY <1>6
      DEF RemoveSub, Remaining, FirstFull, ReadAt, Wrap, Indices, IndicesAgree
    <2> QED
      BY <1>6, <2>1, ContentsSame, <1>0 DEF RemoveSub
  <1>7. CASE ClearExchange
    <2>1. Contents' = <<>>
      BY <1>7 DEF ClearExchange, Contents, Remaining
    <2> QED
      BY <1>7, <2>1 DEF ClearExchange, Fifo!Next, Fifo!DropAll
  <1>8. CASE UNCHANGED vars
    <2>1. Remaining' = Remaining /\ FirstFull' = FirstFull
      BY <1>8 DEF vars, Remaining, FirstFull, ReadAt, Wrap
    <2> QED
      BY <1>8, <2>1, ContentsSame, <1>0 DEF vars
  <1> QED
    BY <1>0, <1>1, <1>2, <1>3, <1>4, <1>5, <1>6, <1>7, <1>8
    DEF Next, Producer, Consumer

\* For every size and every interleaving of the two threads the lock-free
\* queue is a bounded FIFO.
THEOREM SwapQueueIsAFifo == Spec => IsBoundedFifo
  <1>1. Init => Published /\ Fifo!Init
    BY DEF Init, Published, Fifo!Init, Contents, Remaining
  <1>2. Spec => [](IInv /\ Published)
    BY Inductive, <1>1, PublishedInductive, PTL DEF Spec
  <1> QED
    BY <1>1, <1>2, StepRefines, PTL DEF Spec, IsBoundedFifo, Fifo!Spec
=============================================================================
