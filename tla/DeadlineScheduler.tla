-------------------------- MODULE DeadlineScheduler --------------------------
(***************************************************************************)
(* The bounded monotonic deadline scheduler of one call                    *)
(* (call/execution/deadline.rs).  A cancelled deadline stays in the heap   *)
(* as a tombstone: only `active` says which entries still count.  The heap *)
(* is a set of entries; BinaryHeap::pop takes its first in Before order.   *)
(***************************************************************************)
EXTENDS Integers, FiniteSets

CONSTANTS
    Maximum,        \* capacity given to DeadlineScheduler::new
    MaxTime,        \* bound on the monotonic clock
    MaxId,          \* largest value of the identifier counter (u64::MAX)
    Generations     \* generations a caller may pass, 0 included

ASSUME MaximumAssumption == Maximum \in Nat \ {0}
ASSUME MaxTimeAssumption == MaxTime \in Nat
ASSUME MaxIdAssumption == MaxId \in Nat \ {0}
ASSUME GenerationsAssumption == Generations \subseteq Nat

VARIABLES
    now,            \* the monotonic clock the call thread polls with
    next_id,        \* DeadlineScheduler.next_id
    heap,           \* DeadlineScheduler.heap
    active,         \* DeadlineScheduler.active
    out,            \* what the last call returned
    fired,          \* history: identifiers some poll has returned
    cancelled       \* history: identifiers cancelled while active

vars == <<now, next_id, heap, active, out, fired, cancelled>>

Times == 0 .. MaxTime

Ids == 1 .. MaxId

Entries == [id : Ids, at : Times, generation : Generations \ {0}]

None == [kind |-> "none"]

Rejected(reason) == [kind |-> "err", reason |-> reason]

Scheduled(id) == [kind |-> "scheduled", id |-> id]

WasActive(p) == [kind |-> IF p THEN "cancelled" ELSE "absent"]

Fired(e) == [kind |-> "due", entry |-> e]

Earliest(at) == [kind |-> "next", at |-> at]

\* Mutant: insertion order instead of deadline order.
BeforeMutant(e, f) == e.id < f.id

\* Entry::cmp, reversed for the max-heap: earliest first, then oldest.
Before(e, f) == e.at < f.at \/ (e.at = f.at /\ e.id < f.id)

Firsts(S) == {e \in S : \A f \in S \ {e} : Before(e, f)}

\* Heap entries that are not tombstones.
Live == {e \in heap : e.id \in active}

\* Mutant: a deadline is due only strictly after its instant.
DueMutant(S) == {e \in S : e.at < now}

Due(S) == {e \in S : e.at <= now}

\* The entries pop leaves behind once it has reached e: those after e.
After(e) == {f \in heap : Before(e, f)}

-----------------------------------------------------------------------------

Init ==
    /\ now = 0
    /\ next_id = 1
    /\ heap = {}
    /\ active = {}
    /\ out = None
    /\ fired = {}
    /\ cancelled = {}

Advance ==
    /\ now' \in Times
    /\ now' > now
    /\ out' = None
    /\ UNCHANGED <<next_id, heap, active, fired, cancelled>>

\* Mutants: no compaction; a retain that keeps the tombstones instead.
CompactedNever == heap

CompactedInverted == IF Cardinality(heap) >= Maximum THEN heap \ Live ELSE heap

\* `retain` drops the tombstones once the heap holds `maximum` entries.
Compacted == IF Cardinality(heap) >= Maximum THEN Live ELSE heap

\* Mutant: the generation is not checked.
ValidGenerationMutant(generation) == TRUE

ValidGeneration(generation) == generation # 0

Schedule(at, generation) ==
    /\ \/ /\ ~ValidGeneration(generation)
          /\ out' = Rejected("ZeroGeneration")
          /\ UNCHANGED <<next_id, heap, active>>
       \/ /\ ValidGeneration(generation)
          /\ Cardinality(active) >= Maximum
          /\ out' = Rejected("Capacity")
          /\ UNCHANGED <<next_id, heap, active>>
       \/ /\ ValidGeneration(generation)
          /\ Cardinality(active) < Maximum
          /\ next_id >= MaxId
          /\ heap' = Compacted
          /\ out' = Rejected("IdExhausted")
          /\ UNCHANGED <<next_id, active>>
       \/ /\ ValidGeneration(generation)
          /\ Cardinality(active) < Maximum
          /\ next_id < MaxId
          /\ heap' = Compacted \cup {[id |-> next_id, at |-> at, generation |-> generation]}
          /\ active' = active \cup {next_id}
          /\ next_id' = next_id + 1
          /\ out' = Scheduled(next_id)
    /\ UNCHANGED <<now, fired, cancelled>>

Cancel(id) ==
    /\ active' = active \ {id}
    /\ out' = WasActive(id \in active)
    /\ cancelled' = cancelled \cup ({id} \cap active)
    /\ UNCHANGED <<now, next_id, heap, fired>>

\* Mutant: a poll that forgets to ask `active` returns a tombstone.
PollMutant ==
    /\ \/ /\ Due(heap) = {}
          /\ out' = None
          /\ UNCHANGED <<heap, active, fired>>
       \/ \E e \in Firsts(Due(heap)) :
            /\ heap' = After(e)
            /\ active' = active \ {e.id}
            /\ out' = Fired(e)
            /\ fired' = fired \cup {e.id}
    /\ UNCHANGED <<now, next_id, cancelled>>

\* The loop pops tombstones until an active entry, or an entry not yet due.
Poll ==
    /\ \/ /\ Due(Live) = {}
          /\ heap' = heap \ Due(heap)
          /\ out' = None
          /\ UNCHANGED <<active, fired>>
       \/ \E e \in Firsts(Due(Live)) :
            /\ heap' = After(e)
            /\ active' = active \ {e.id}
            /\ out' = Fired(e)
            /\ fired' = fired \cup {e.id}
    /\ UNCHANGED <<now, next_id, cancelled>>

\* The loop pops tombstones until an active entry, which it leaves in place.
NextDeadline ==
    /\ \/ /\ Live = {}
          /\ heap' = {}
          /\ out' = None
       \/ \E e \in Firsts(Live) :
            /\ heap' = {e} \cup After(e)
            /\ out' = Earliest(e.at)
    /\ UNCHANGED <<now, next_id, active, fired, cancelled>>

Next ==
    \/ Advance
    \/ \E at \in Times, generation \in Generations : Schedule(at, generation)
    \/ \E id \in Ids : Cancel(id)
    \/ Poll
    \/ NextDeadline

\* The call thread polls its scheduler on every turn and time passes.
Fairness == WF_vars(Poll) /\ WF_vars(Advance)

Spec == Init /\ [][Next]_vars

FairSpec == Spec /\ Fairness

-----------------------------------------------------------------------------

\* The scheduler's fields keep their types; the heap is finite.
TypeOK ==
    /\ now \in Times
    /\ next_id \in Ids
    /\ heap \subseteq Entries
    /\ IsFiniteSet(heap)
    /\ active \subseteq Ids
    /\ fired \subseteq Ids
    /\ cancelled \subseteq Ids

\* schedule() rejects at `maximum` active entries and drops tombstones before
\* it pushes into a full heap, so cancellation churn never grows the heap past
\* the capacity given to new().
HeapBounded == Cardinality(heap) <= Maximum

\* Every active identifier has its one entry in the heap (no armed deadline is
\* lost by compaction, by poll or by next_deadline), entries are named by
\* identifiers already handed out, and no identifier names two entries.
ActiveInHeap ==
    /\ \A id \in active : \E e \in heap : e.id = id
    /\ \A e \in heap : e.id < next_id
    /\ \A e, f \in heap : e.id = f.id => e = f

\* An identifier that poll returned or that was cancelled while armed is spent:
\* it is not active, and it was not both returned and cancelled.  A cancelled
\* deadline therefore never fires and none fires twice.
SpentOnce ==
    /\ fired \cap cancelled = {}
    /\ active \cap (fired \cup cancelled) = {}

\* cancel() reports `true` at most once per identifier, poll() returns the
\* earliest due armed deadline and next_deadline() the earliest armed one:
\* behind its tombstones the scheduler is a plain set of armed deadlines.
AbstractSet == INSTANCE DeadlineSet WITH armed <- Live

ImplementsDeadlineSet == AbstractSet!SetSpec

\* An armed deadline inside the horizon of the clock is always eventually
\* returned or cancelled: no tombstone ahead of it in the heap holds it back.
EveryDeadlineLeaves ==
    \A id \in Ids : (id \in active) ~> (id \notin active)
=============================================================================
