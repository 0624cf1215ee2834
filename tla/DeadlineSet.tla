----------------------------- MODULE DeadlineSet -----------------------------
(***************************************************************************)
(* What the shared deadline scheduler promises to its callers, with no     *)
(* heap and no tombstones: a set of armed deadlines.  A deadline leaves    *)
(* the set exactly once, by cancellation or by being returned from a poll, *)
(* and a poll returns the earliest armed deadline that is due.             *)
(***************************************************************************)
EXTENDS Integers, FiniteSets

CONSTANTS
    Maximum,        \* capacity given to DeadlineScheduler::new
    MaxTime,        \* bound on the monotonic clock
    MaxId,          \* largest value of the identifier counter
    Generations     \* generations a caller may pass, 0 included

VARIABLES
    now,            \* the caller's monotonic clock
    next_id,        \* next identifier to hand out
    armed,          \* deadlines neither cancelled nor returned
    out             \* what the last call returned

setVars == <<now, next_id, armed, out>>

Times == 0 .. MaxTime

None == [kind |-> "none"]

Rejected(reason) == [kind |-> "err", reason |-> reason]

Scheduled(id) == [kind |-> "scheduled", id |-> id]

WasActive(p) == [kind |-> IF p THEN "cancelled" ELSE "absent"]

Fired(e) == [kind |-> "due", entry |-> e]

Earliest(at) == [kind |-> "next", at |-> at]

\* The order of the heap: earlier deadline first, then the older identifier.
Before(e, f) == e.at < f.at \/ (e.at = f.at /\ e.id < f.id)

\* The entries that come before every other entry of S (one, or none).
Firsts(S) == {e \in S : \A f \in S \ {e} : Before(e, f)}

Due(S) == {e \in S : e.at <= now}

-----------------------------------------------------------------------------

SetInit ==
    /\ now = 0
    /\ next_id = 1
    /\ armed = {}
    /\ out = None

SetAdvance ==
    /\ now' \in Times
    /\ now' > now
    /\ out' = None
    /\ UNCHANGED <<next_id, armed>>

SetSchedule(at, generation) ==
    /\ UNCHANGED now
    /\ \/ /\ generation # 0
          /\ Cardinality(armed) < Maximum
          /\ next_id < MaxId
          /\ armed' = armed \cup {[id |-> next_id, at |-> at, generation |-> generation]}
          /\ next_id' = next_id + 1
          /\ out' = Scheduled(next_id)
       \/ /\ generation = 0 \/ Cardinality(armed) >= Maximum \/ next_id >= MaxId
          /\ \E reason \in {"ZeroGeneration", "Capacity", "IdExhausted"} :
                out' = Rejected(reason)
          /\ UNCHANGED <<next_id, armed>>

SetCancel(id) ==
    /\ armed' = {e \in armed : e.id # id}
    /\ out' = WasActive(\E e \in armed : e.id = id)
    /\ UNCHANGED <<now, next_id>>

SetPoll ==
    /\ UNCHANGED <<now, next_id>>
    /\ \/ /\ Due(armed) = {}
          /\ out' = None
          /\ UNCHANGED armed
       \/ \E e \in Firsts(Due(armed)) :
            /\ armed' = armed \ {e}
            /\ out' = Fired(e)

SetNextDeadline ==
    /\ UNCHANGED <<now, next_id, armed>>
    /\ \/ /\ armed = {}
          /\ out' = None
       \/ \E e \in Firsts(armed) : out' = Earliest(e.at)

SetNext ==
    \/ SetAdvance
    \/ \E at \in Times, generation \in Generations : SetSchedule(at, generation)
    \/ \E id \in 1 .. MaxId : SetCancel(id)
    \/ SetPoll
    \/ SetNextDeadline

SetSpec == SetInit /\ [][SetNext]_setVars
=============================================================================
