----------------------- MODULE DeadlineSchedulerProofs -----------------------
(***************************************************************************)
(* For every capacity, clock horizon and identifier width, the scheduler   *)
(* keeps its heap within its capacity, loses no armed deadline, returns or *)
(* cancels each at most once, and implements a plain set of deadlines.     *)
(***************************************************************************)
EXTENDS DeadlineScheduler, FiniteSetTheorems, FunctionTheorems, TLAPS

\* Spent identifiers lie below the counter, so a fresh one was never spent.
SpentBelowNext == \A id \in fired \cup cancelled : id < next_id

\* The inductive invariant: the checked invariants, which need each other, and
\* SpentBelowNext, without which schedule() could re-issue a spent identifier.
IInv == TypeOK /\ HeapBounded /\ ActiveInHeap /\ SpentOnce /\ SpentBelowNext

-----------------------------------------------------------------------------

\* Heap entries that are not tombstones correspond one to one to the active
\* identifiers, so compaction leaves exactly as many entries as are active.
LEMMA LiveCount ==
    ASSUME TypeOK, ActiveInHeap
    PROVE  /\ IsFiniteSet(Live)
           /\ IsFiniteSet(active)
           /\ Cardinality(Live) = Cardinality(active)
           /\ Cardinality(Live) \in Nat
  <1> DEFINE f == [e \in Live |-> e.id]
  <1>1. IsFiniteSet(Live)
    BY FS_Subset DEF TypeOK, Live
  <1>2. f \in Injection(Live, active)
    BY DEF Injection, IsInjective, ActiveInHeap, Live
  <1>3. f \in Surjection(Live, active)
    BY DEF Surjection, ActiveInHeap, Live
  <1>4. IsFiniteSet(active)
    BY <1>1, <1>3, FS_Surjection
  <1>5. Cardinality(Live) = Cardinality(active)
    BY <1>2, <1>3, <1>4, FS_Injection
  <1> QED
    BY <1>1, <1>4, <1>5, FS_CardinalityType

\* What schedule() keeps before it pushes has room for one more entry.
LEMMA CompactedRoom ==
    ASSUME IInv, Cardinality(active) < Maximum
    PROVE  /\ IsFiniteSet(Compacted)
           /\ Cardinality(Compacted) \in Nat
           /\ Cardinality(Compacted) < Maximum
           /\ Compacted \subseteq heap
           /\ Live \subseteq Compacted
  <1>1. IsFiniteSet(heap) /\ Cardinality(heap) \in Nat
    BY FS_CardinalityType DEF IInv, TypeOK
  <1>2. CASE Cardinality(heap) >= Maximum
    BY <1>1, <1>2, LiveCount DEF IInv, Compacted, Live
  <1>3. CASE ~(Cardinality(heap) >= Maximum)
    BY <1>1, <1>3, MaximumAssumption DEF Compacted, Live
  <1> QED
    BY <1>2, <1>3

\* A step that only shrinks the heap keeps it finite and within capacity.
LEMMA SmallerHeap ==
    ASSUME IInv, NEW H \in SUBSET heap
    PROVE  IsFiniteSet(H) /\ Cardinality(H) <= Maximum
  <1>1. IsFiniteSet(heap) /\ Cardinality(heap) \in Nat
    BY FS_CardinalityType DEF IInv, TypeOK
  <1>2. IsFiniteSet(H) /\ Cardinality(H) \in Nat /\ Cardinality(H) <= Cardinality(heap)
    BY <1>1, FS_Subset, FS_CardinalityType
  <1> QED
    BY <1>1, <1>2, MaximumAssumption DEF IInv, HeapBounded

-----------------------------------------------------------------------------

LEMMA InitIInv == Init => IInv
  <1> SUFFICES ASSUME Init PROVE IInv
    OBVIOUS
  <1>1. IsFiniteSet(heap) /\ Cardinality(heap) = 0
    BY FS_EmptySet DEF Init
  <1> QED
    BY <1>1, MaximumAssumption, MaxTimeAssumption, MaxIdAssumption
    DEF Init, IInv, TypeOK, HeapBounded, ActiveInHeap, SpentOnce, SpentBelowNext,
        Times, Ids

\* schedule() preserves the invariant.
LEMMA ScheduleIInv ==
    ASSUME IInv, NEW at \in Times, NEW generation \in Generations,
           Schedule(at, generation)
    PROVE  IInv'
  <1>1. CASE UNCHANGED <<next_id, heap, active>>
    BY <1>1 DEF Schedule, IInv, TypeOK, HeapBounded, ActiveInHeap, SpentOnce, SpentBelowNext
  <1>2. CASE /\ Cardinality(active) < Maximum
             /\ heap' = Compacted
             /\ UNCHANGED <<next_id, active>>
    <2>1. heap' \subseteq heap /\ Live \subseteq heap'
      BY <1>2, CompactedRoom
    <2>2. IsFiniteSet(heap') /\ Cardinality(heap') <= Maximum
      BY <2>1, SmallerHeap
    <2> QED
      BY <1>2, <2>1, <2>2
      DEF Schedule, IInv, TypeOK, HeapBounded, ActiveInHeap, SpentOnce, SpentBelowNext, Live
  <1>3. CASE /\ generation # 0
             /\ Cardinality(active) < Maximum
             /\ next_id < MaxId
             /\ heap' = Compacted \cup {[id |-> next_id, at |-> at, generation |-> generation]}
             /\ active' = active \cup {next_id}
             /\ next_id' = next_id + 1
    <2> DEFINE new == [id |-> next_id, at |-> at, generation |-> generation]
    <2>1. /\ IsFiniteSet(Compacted)
          /\ Cardinality(Compacted) \in Nat
          /\ Cardinality(Compacted) < Maximum
          /\ Compacted \subseteq heap
          /\ Live \subseteq Compacted
      BY <1>3, CompactedRoom
    <2>2. /\ IsFiniteSet(heap')
          /\ \/ Cardinality(heap') = Cardinality(Compacted)
             \/ Cardinality(heap') = Cardinality(Compacted) + 1
      BY <1>3, <2>1, FS_AddElement
    <2>3. HeapBounded'
      BY <2>1, <2>2, MaximumAssumption DEF HeapBounded
    <2>4. new \in Entries /\ next_id' \in Ids /\ next_id \in Ids
      BY <1>3, MaxIdAssumption DEF IInv, TypeOK, Entries, Ids
    <2>5. TypeOK'
      BY <1>3, <2>1, <2>2, <2>4 DEF Schedule, IInv, TypeOK
    <2>6. next_id \in Int /\ \A e \in heap : e.id \in Int /\ e.id < next_id
      BY DEF IInv, TypeOK, ActiveInHeap, Entries, Ids
    <2>7. ActiveInHeap'
      <3>1. \A id \in active' : \E e \in heap' : e.id = id
        <4>1. \A id \in active : \E e \in Live : e.id = id
          BY DEF IInv, ActiveInHeap, Live
        <4>2. new \in heap' /\ new.id = next_id
          BY <1>3
        <4> QED
          BY <1>3, <2>1, <4>1, <4>2
      <3>2. \A e \in heap' : e.id < next_id'
        BY <1>3, <2>1, <2>6
      <3>3. \A e, f \in heap' : e.id = f.id => e = f
        BY <1>3, <2>1, <2>6 DEF IInv, ActiveInHeap
      <3> QED
        BY <3>1, <3>2, <3>3 DEF ActiveInHeap
    <2>8. next_id \notin fired \cup cancelled
      BY <2>6 DEF IInv, SpentBelowNext
    <2>9. SpentOnce'
      BY <1>3, <2>8 DEF Schedule, IInv, SpentOnce
    <2>10. SpentBelowNext'
      <3>1. \A id \in fired \cup cancelled : id \in Int /\ id < next_id
        BY DEF IInv, TypeOK, Ids, SpentBelowNext
      <3> QED
        BY <1>3, <2>6, <3>1 DEF Schedule, SpentBelowNext
    <2> QED
      BY <2>3, <2>5, <2>7, <2>9, <2>10 DEF IInv
  <1> QED
    BY <1>1, <1>2, <1>3 DEF Schedule, ValidGeneration

\* cancel() preserves the invariant: it only moves an identifier to the spent.
LEMMA CancelIInv ==
    ASSUME IInv, NEW id \in Ids, Cancel(id)
    PROVE  IInv'
  <1>1. TypeOK' /\ HeapBounded' /\ SpentOnce'
    BY DEF Cancel, IInv, TypeOK, HeapBounded, SpentOnce
  <1>2. ActiveInHeap'
    BY DEF Cancel, IInv, ActiveInHeap
  <1>3. SpentBelowNext'
    BY DEF Cancel, IInv, ActiveInHeap, SpentBelowNext
  <1> QED
    BY <1>1, <1>2, <1>3 DEF IInv

\* A removal that keeps every live entry other than those it also deactivates.
LEMMA PollIInv ==
    ASSUME IInv, Poll
    PROVE  IInv'
  <1>1. heap' \subseteq heap
    BY DEF Poll, After
  <1>2. IsFiniteSet(heap') /\ Cardinality(heap') <= Maximum
    BY <1>1, SmallerHeap
  <1>3. CASE /\ Due(Live) = {}
             /\ heap' = heap \ Due(heap)
             /\ UNCHANGED <<active, fired>>
    <2>1. \A id \in active : \E e \in heap' : e.id = id
      BY <1>3 DEF IInv, ActiveInHeap, Due, Live
    <2> QED
      BY <1>1, <1>2, <1>3, <2>1
      DEF Poll, IInv, TypeOK, HeapBounded, ActiveInHeap, SpentOnce, SpentBelowNext
  <1>4. ASSUME NEW e \in Firsts(Due(Live)),
               heap' = After(e),
               active' = active \ {e.id},
               fired' = fired \cup {e.id}
        PROVE  IInv'
    <2>1. /\ e \in heap /\ e.id \in active /\ e.id < next_id
          /\ e.at <= now
          /\ \A f \in Due(Live) \ {e} : Before(e, f)
      BY <1>4 DEF Firsts, Due, Live, IInv, ActiveInHeap
    <2>2. \A f \in Live \ {e} : Before(e, f)
      <3> SUFFICES ASSUME NEW f \in Live \ {e}, f \notin Due(Live) PROVE Before(e, f)
        BY <2>1
      <3>1. f.at \in Int /\ e.at \in Int /\ now \in Int
        BY <2>1 DEF Live, IInv, TypeOK, Entries, Times
      <3>2. f.at > now
        BY <3>1 DEF Due
      <3> QED
        BY <2>1, <3>1, <3>2 DEF Before
    <2>3. \A id \in active' : \E f \in heap' : f.id = id
      BY <1>4, <2>2 DEF IInv, ActiveInHeap, Live, After
    <2>4. ActiveInHeap'
      BY <1>1, <2>3 DEF Poll, IInv, ActiveInHeap
    <2>5. TypeOK' /\ HeapBounded'
      BY <1>1, <1>2, <1>4, <2>1 DEF Poll, IInv, TypeOK, HeapBounded
    <2>6. SpentOnce' /\ SpentBelowNext'
      BY <1>4, <2>1 DEF Poll, IInv, SpentOnce, SpentBelowNext
    <2> QED
      BY <2>4, <2>5, <2>6 DEF IInv
  <1> QED
    BY <1>3, <1>4 DEF Poll

\* next_deadline() pops tombstones only.
LEMMA NextDeadlineIInv ==
    ASSUME IInv, NextDeadline
    PROVE  IInv'
  <1>1. heap' \subseteq heap
    BY DEF NextDeadline, After, Firsts, Live
  <1>2. IsFiniteSet(heap') /\ Cardinality(heap') <= Maximum
    BY <1>1, SmallerHeap
  <1>3. \A id \in active : \E e \in heap' : e.id = id
    BY DEF NextDeadline, IInv, ActiveInHeap, After, Firsts, Live
  <1> QED
    BY <1>1, <1>2, <1>3
    DEF NextDeadline, IInv, TypeOK, HeapBounded, ActiveInHeap, SpentOnce, SpentBelowNext

LEMMA NextIInv == IInv /\ [Next]_vars => IInv'
  <1> SUFFICES ASSUME IInv, [Next]_vars PROVE IInv'
    OBVIOUS
  <1>1. CASE Advance
    BY <1>1 DEF Advance, IInv, TypeOK, HeapBounded, ActiveInHeap, SpentOnce, SpentBelowNext
  <1>2. CASE UNCHANGED vars
    BY <1>2 DEF vars, IInv, TypeOK, HeapBounded, ActiveInHeap, SpentOnce, SpentBelowNext
  <1> QED
    BY <1>1, <1>2, ScheduleIInv, CancelIInv, PollIInv, NextDeadlineIInv DEF Next

LEMMA InductiveInvariant == Spec => []IInv
  BY InitIInv, NextIInv, PTL DEF Spec

\* However many deadlines are scheduled and cancelled, the heap with all its
\* tombstones never outgrows the capacity given to DeadlineScheduler::new.
THEOREM HeapStaysBounded == Spec => []HeapBounded
  <1>1. IInv => HeapBounded
    BY DEF IInv
  <1> QED
    BY <1>1, InductiveInvariant, PTL

\* Compaction and the tombstone-skipping loops never drop an armed deadline.
THEOREM NoArmedDeadlineLost == Spec => []ActiveInHeap
  <1>1. IInv => ActiveInHeap
    BY DEF IInv
  <1> QED
    BY <1>1, InductiveInvariant, PTL

\* A deadline is returned by poll or cancelled, at most once and never both.
THEOREM SpentAtMostOnce == Spec => []SpentOnce
  <1>1. IInv => SpentOnce
    BY DEF IInv
  <1> QED
    BY <1>1, InductiveInvariant, PTL
-----------------------------------------------------------------------------

\* Whatever the heap holds behind its tombstones, the scheduler's armed
\* entries, its clock and the answers it gives are those of a plain set.
LEMMA InitRefines == Init => AbstractSet!SetInit
  BY DEF Init, AbstractSet!SetInit, Live, None, AbstractSet!None

LEMMA ScheduleRefines ==
    ASSUME IInv, NEW at \in Times, NEW generation \in Generations,
           Schedule(at, generation)
    PROVE  AbstractSet!SetSchedule(at, generation)
  <1>0. AbstractSet!Cardinality(Live) = Cardinality(Live)
    BY DEF Cardinality, AbstractSet!Cardinality, IsFiniteSet, AbstractSet!IsFiniteSet
  <1>1. /\ Cardinality(Live) = Cardinality(active)
        /\ AbstractSet!Cardinality(Live) = Cardinality(active)
        /\ Cardinality(active) \in Nat
    BY <1>0, LiveCount DEF IInv
  <1>2. next_id \in Int /\ MaxId \in Int /\ Maximum \in Int
    BY MaximumAssumption, MaxIdAssumption DEF IInv, TypeOK, Ids
  <1>3. CASE UNCHANGED <<next_id, heap, active>>
    BY <1>1, <1>2, <1>3
    DEF Schedule, ValidGeneration, AbstractSet!SetSchedule, Live, Rejected, AbstractSet!Rejected
  <1>4. CASE /\ Cardinality(active) < Maximum
             /\ next_id >= MaxId
             /\ heap' = Compacted
             /\ out' = Rejected("IdExhausted")
             /\ UNCHANGED <<next_id, active>>
    <2>1. Live' = Live
      BY <1>4, CompactedRoom DEF Live
    <2> QED
      BY <1>4, <2>1 DEF Schedule, AbstractSet!SetSchedule, Rejected, AbstractSet!Rejected
  <1>5. CASE /\ generation # 0
             /\ Cardinality(active) < Maximum
             /\ next_id < MaxId
             /\ heap' = Compacted \cup {[id |-> next_id, at |-> at, generation |-> generation]}
             /\ active' = active \cup {next_id}
             /\ next_id' = next_id + 1
             /\ out' = Scheduled(next_id)
    <2> DEFINE new == [id |-> next_id, at |-> at, generation |-> generation]
    <2>1. Compacted \subseteq heap /\ Live \subseteq Compacted
      BY <1>5, CompactedRoom
    <2>2. \A e \in heap : e.id # next_id
      BY <1>2 DEF IInv, ActiveInHeap, TypeOK, Entries, Ids
    <2>3. Live' = {e \in heap' : e.id \in active'}
      BY DEF Live
    <2>4. \A e \in heap : e \in Live <=> e.id \in active
      BY DEF Live
    <2>5. Live \subseteq heap
      BY DEF Live
    <2>6. heap' = Compacted \cup {new} /\ new.id = next_id
      BY <1>5
    <2> HIDE DEF new
    <2>7. Live' = Live \cup {new}
      BY <1>5, <2>1, <2>2, <2>3, <2>4, <2>5, <2>6
    <2> QED
      BY <1>1, <1>5, <2>7
      DEF Schedule, AbstractSet!SetSchedule, Scheduled, AbstractSet!Scheduled, new
  <1> QED
    BY <1>3, <1>4, <1>5 DEF Schedule, ValidGeneration

LEMMA CancelRefines ==
    ASSUME IInv, NEW id \in Ids, Cancel(id)
    PROVE  AbstractSet!SetCancel(id)
  <1>1. Live' = {e \in Live : e.id # id}
    BY DEF Cancel, Live
  <1>2. id \in active <=> \E e \in Live : e.id = id
    BY DEF IInv, ActiveInHeap, Live
  <1> QED
    BY <1>1, <1>2 DEF Cancel, AbstractSet!SetCancel, WasActive, AbstractSet!WasActive

LEMMA PollRefines ==
    ASSUME IInv, Poll
    PROVE  AbstractSet!SetPoll
  <1>1. AbstractSet!Due(Live) = Due(Live)
    BY DEF Due, AbstractSet!Due
  <1>2. Firsts(Due(Live)) = AbstractSet!Firsts(Due(Live))
    BY DEF Firsts, AbstractSet!Firsts, Before, AbstractSet!Before
  <1>3. CASE /\ Due(Live) = {}
             /\ heap' = heap \ Due(heap)
             /\ out' = None
             /\ UNCHANGED <<active, fired>>
    <2>1. Live' = Live
      BY <1>3 DEF Live, Due
    <2> QED
      BY <1>1, <1>3, <2>1 DEF Poll, AbstractSet!SetPoll, None, AbstractSet!None
  <1>4. ASSUME NEW e \in Firsts(Due(Live)),
               heap' = After(e),
               active' = active \ {e.id},
               out' = Fired(e)
        PROVE  AbstractSet!SetPoll
    <2>1. e \in Live /\ e \in heap /\ e.at <= now /\ \A f \in Due(Live) \ {e} : Before(e, f)
      BY <1>4 DEF Firsts, Due, Live
    <2>2. \A f \in Live \ {e} : Before(e, f)
      <3> SUFFICES ASSUME NEW f \in Live \ {e}, f \notin Due(Live) PROVE Before(e, f)
        BY <2>1
      <3>1. f.at \in Int /\ e.at \in Int /\ now \in Int
        BY <2>1 DEF Live, IInv, TypeOK, Entries, Times
      <3>2. f.at > now
        BY <3>1 DEF Due
      <3> QED
        BY <2>1, <3>1, <3>2 DEF Before
    <2>3. Live' = Live \ {e}
      BY <1>4, <2>1, <2>2 DEF IInv, ActiveInHeap, Live, After
    <2> QED
      BY <1>1, <1>2, <1>4, <2>3 DEF Poll, AbstractSet!SetPoll, Fired, AbstractSet!Fired
  <1> QED
    BY <1>3, <1>4 DEF Poll

LEMMA NextDeadlineRefines ==
    ASSUME IInv, NextDeadline
    PROVE  AbstractSet!SetNextDeadline
  <1>1. Firsts(Live) = AbstractSet!Firsts(Live)
    BY DEF Firsts, AbstractSet!Firsts, Before, AbstractSet!Before
  <1>2. Live' = Live
    BY DEF NextDeadline, Live, Firsts, After
  <1> QED
    BY <1>1, <1>2
    DEF NextDeadline, AbstractSet!SetNextDeadline, None, AbstractSet!None,
        Earliest, AbstractSet!Earliest

\* Every step of the scheduler is a step of the set of armed deadlines.
THEOREM SchedulerImplementsSet == Spec => ImplementsDeadlineSet
  <1>1. IInv /\ [Next]_vars => [AbstractSet!SetNext]_(AbstractSet!setVars)
    <2> SUFFICES ASSUME IInv, [Next]_vars
                 PROVE  [AbstractSet!SetNext]_(AbstractSet!setVars)
      OBVIOUS
    <2>1. CASE Advance
      BY <2>1 DEF Advance, AbstractSet!SetNext, AbstractSet!SetAdvance, Live, Times,
                  AbstractSet!Times, None, AbstractSet!None
    <2>2. CASE \E at \in Times, generation \in Generations : Schedule(at, generation)
      BY <2>2, ScheduleRefines DEF AbstractSet!SetNext, Times, AbstractSet!Times
    <2>3. CASE \E id \in Ids : Cancel(id)
      BY <2>3, CancelRefines DEF AbstractSet!SetNext, Ids
    <2>4. CASE Poll
      BY <2>4, PollRefines DEF AbstractSet!SetNext
    <2>5. CASE NextDeadline
      BY <2>5, NextDeadlineRefines DEF AbstractSet!SetNext
    <2>6. CASE UNCHANGED vars
      BY <2>6 DEF vars, AbstractSet!setVars, Live
    <2> QED
      BY <2>1, <2>2, <2>3, <2>4, <2>5, <2>6 DEF Next
  <1> QED
    BY <1>1, InitRefines, InductiveInvariant, PTL
    DEF Spec, ImplementsDeadlineSet, AbstractSet!SetSpec
=============================================================================
