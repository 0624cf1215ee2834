---------------------------- MODULE RuntimeWorker ----------------------------
(***************************************************************************)
(* The process above the calls: RuntimeWorker, RuntimeService and          *)
(* RuntimeEngine (runtime/), the call registry (call/execution/manager.rs) *)
(* and the admission gate (runtime/admission), against the call threads    *)
(* they start.  The worker's operations run on one thread, but every call  *)
(* thread goes on while they do: it publishes actions, releases its lease, *)
(* announces its end, closes its queues and returns, each at its own time. *)
(* What a call does in between is CallSignaling and CallMailbox.           *)
(***************************************************************************)
EXTENDS Naturals, SequencesExt

CONSTANTS
    Ids,                    \* application call identities
    NoId,                   \* not one of them
    Maxima,                 \* capacities the service may be configured with
    NotificationCapacity,
    PumpLimit,              \* MAX_ACTION_BATCHES_PER_CALL_PUMP
    MaxGeneration,          \* bound: where the IdGenerator is exhausted
    MaxActions              \* bound: action batches published by all calls

ASSUME IdsAssumption == IsFiniteSet(Ids) /\ NoId \notin Ids
ASSUME MaximaAssumption == Maxima \subseteq Nat \ {0}
ASSUME CapacityAssumption == NotificationCapacity \in Nat \ {0}
ASSUME BoundsAssumption == {PumpLimit, MaxGeneration, MaxActions} \subseteq Nat \ {0}

VARIABLES
    maximum,                \* maximum_calls of service, engine and gate; never changes
    phase,                  \* WorkerPhase
    shutdown,               \* ShutdownCoordinator.phase
    grace_over,             \* now >= its deadline
    generations,            \* generations handed out so far
    threads,                \* generation -> its call thread
    active,                 \* AdmissionController: Shared.active
    registry,               \* CallManager.calls: id -> generation, 0 for none
    calls,                  \* RuntimeService.calls: id -> token and next_sequence
    terminal,               \* RuntimeService.terminal: id -> token and final_sequence
    notifications,
    calls_started,
    calls_completed,
    pc,                     \* where the worker is in its operation
    scratch,                \* generations the current loop still has to visit
    current,                \* the generation it is at, 0 for none
    exits,                  \* exit reports collected, in order
    received,               \* batches received from the current call
    taken,                  \* history: outcomes the application acknowledged
    published               \* history: batches published, for the bound

Generations == 1 .. MaxGeneration

\* A call thread.  at is how far call_thread_entry has come: the loop is left
\* and cleaned up, the phase is published, the queues are closed, it returned.
NoThread == [id |-> NoId, at |-> "none", leased |-> FALSE, batches |-> 0, asked |-> FALSE]

NoCall == [gen |-> 0, sequence |-> 0]

threadVars == <<threads, active>>
serviceVars == <<calls, terminal, notifications, calls_started, calls_completed>>
loopVars == <<pc, scratch, current, exits, received>>
shutdownVars == <<phase, shutdown, grace_over>>
vars == <<maximum, shutdownVars, generations, threadVars, registry, serviceVars, loopVars, taken, published>>

Init ==
    /\ maximum \in Maxima
    /\ phase = "Ready" /\ shutdown = "Running" /\ grace_over = FALSE
    /\ generations = 0
    /\ threads = [g \in Generations |-> NoThread]
    /\ active = 0
    /\ registry = [i \in Ids |-> 0]
    /\ calls = [i \in Ids |-> NoCall]
    /\ terminal = [i \in Ids |-> NoCall]
    /\ notifications = <<>>
    /\ calls_started = 0 /\ calls_completed = 0
    /\ pc = "idle" /\ scratch = {} /\ current = 0 /\ exits = <<>> /\ received = 0
    /\ taken = {} /\ published = 0

Registered == {i \in Ids : registry[i] # 0}
Active == {i \in Ids : calls[i].gen # 0}
Retained == {i \in Ids : terminal[i].gen # 0}
IsTerminal(g) == threads[g].at \in {"terminal", "closed", "gone"}

-----------------------------------------------------------------------------
(* The call threads. *)

\* publish_actions of a running call: a batch, here of one action, for the observer.
Publish(g) ==
    /\ threads[g].at = "running" /\ published < MaxActions
    /\ published' = published + 1
    /\ threads' = [threads EXCEPT ![g].batches = @ + 1]
    /\ UNCHANGED <<maximum, shutdownVars, generations, active, registry, serviceVars, loopVars,
                   taken>>

\* The call is over, by itself or because it was asked to shut down, and
\* finish_cleanup releases its lease; when the cleanup fails the lease stays.
Finish(g) ==
    /\ threads[g].at = "running"
    /\ \/ /\ threads' = [threads EXCEPT ![g].at = "cleaned", ![g].leased = FALSE]
          /\ active' = active - 1
       \/ /\ threads' = [threads EXCEPT ![g].at = "cleaned"]
          /\ UNCHANGED active
    /\ UNCHANGED <<maximum, shutdownVars, generations, registry, serviceVars, loopVars, taken,
                   published>>

\* mark_completed, mark_failed or mark_panicked, then the drop of both queues.
Announce(g) ==
    /\ \/ threads[g].at = "cleaned" /\ threads' = [threads EXCEPT ![g].at = "terminal"]
       \/ threads[g].at = "terminal" /\ threads' = [threads EXCEPT ![g].at = "closed"]
    /\ UNCHANGED <<maximum, shutdownVars, generations, active, registry, serviceVars, loopVars,
                   taken, published>>

ReturnMutant(g) ==
    /\ threads[g].at = "closed"
    /\ threads' = [threads EXCEPT ![g].at = "gone"]
    /\ UNCHANGED <<maximum, shutdownVars, generations, active, registry, serviceVars, loopVars,
                   taken, published>>

\* call_thread_entry returns and drops the runtime, with the lease it still has.
Return(g) ==
    /\ threads[g].at = "closed"
    /\ threads' = [threads EXCEPT ![g].at = "gone", ![g].leased = FALSE]
    /\ active' = IF threads[g].leased THEN active - 1 ELSE active
    /\ UNCHANGED <<maximum, shutdownVars, generations, registry, serviceVars, loopVars, taken,
                   published>>

-----------------------------------------------------------------------------
(* Operations of the worker. *)

Notification(g, sequence, exit) == [gen |-> g, sequence |-> sequence, exit |-> exit]

EnqueueUnboundedMutant(n) ==
    IF n.exit /\ Len(notifications) >= NotificationCapacity
    THEN Append(notifications, n)
    ELSE IF Len(notifications) < NotificationCapacity THEN Append(notifications, n) ELSE notifications

EnqueueMutant(n) ==
    IF Len(notifications) < NotificationCapacity
    THEN Append(notifications, n)
    ELSE IF n.exit
         THEN <<n>> \o Tail(notifications)
         ELSE notifications

\* RuntimeService::enqueue: at capacity an exit displaces the oldest
\* notification that is none, anything else is dropped.
Enqueue(n) ==
    IF Len(notifications) < NotificationCapacity
    THEN Append(notifications, n)
    ELSE IF n.exit /\ \E i \in DOMAIN notifications : ~notifications[i].exit
         THEN Append(RemoveFirstMatch(notifications, LAMBDA q : ~q.exit), n)
         ELSE notifications

\* AdmissionController::try_admit finds a free lease.  The worker closes the
\* gate in BeginShutdown, where phase says as much.
Admits == active < maximum

\* CallManager::spawn finds the identity free and a place in the registry.
CanSpawn(i) == registry[i] = 0 /\ Cardinality(Registered) < maximum

MayDialMutant(i) ==
    /\ phase = "Ready" /\ calls[i].gen = 0
    /\ Cardinality(Active) < maximum
    /\ Admits /\ CanSpawn(i)

\* What dial checks, from the worker down: the phase, the identity, the room
\* for an outcome, the admission and the registry.
MayDial(i) ==
    /\ phase = "Ready" /\ calls[i].gen = 0 /\ terminal[i].gen = 0
    /\ Cardinality(Active) + Cardinality(Retained) < maximum
    /\ Admits /\ CanSpawn(i)

\* RuntimeWorker::dial up to the spawn of the call thread.  When the thread
\* cannot be created the lease is dropped and the generation is lost.
Dial(i) ==
    /\ pc = "idle" /\ MayDial(i) /\ generations < MaxGeneration
    /\ generations' = generations + 1
    /\ LET g == generations + 1
       IN  \/ /\ threads' = [threads EXCEPT ![g] = [NoThread EXCEPT !.id = i, !.at = "running",
                                                                    !.leased = TRUE]]
              /\ active' = active + 1
              /\ registry' = [registry EXCEPT ![i] = g]
              /\ pc' = "start" /\ current' = g
           \/ UNCHANGED <<threadVars, registry, pc, current>>
    /\ UNCHANGED <<maximum, shutdownVars, serviceVars, scratch, exits, received, taken, published>>

\* The mailbox takes Start: the service registers the call.
Started ==
    /\ pc = "start" /\ threads[current].at \notin {"closed", "gone"}
    /\ calls' = [calls EXCEPT ![threads[current].id] = [gen |-> current, sequence |-> 2]]
    /\ notifications' = Enqueue(Notification(current, 1, FALSE))
    /\ calls_started' = calls_started + 1
    /\ pc' = "idle" /\ current' = 0
    /\ UNCHANGED <<maximum, shutdownVars, generations, threadVars, registry, terminal,
                   calls_completed, scratch, exits, received, taken, published>>

StartRejectedMutant ==
    /\ pc = "start" /\ threads[current].at \in {"closed", "gone"}
    /\ pc' = "undo"
    /\ UNCHANGED <<maximum, shutdownVars, generations, threadVars, registry, serviceVars, scratch,
                   current, exits, received, taken, published>>

\* The thread is already closing: dial removes and joins the call again.
StartRejected ==
    /\ pc = "start" /\ threads[current].at \in {"closed", "gone"}
    /\ registry' = [registry EXCEPT ![threads[current].id] = 0]
    /\ pc' = "undo"
    /\ UNCHANGED <<maximum, shutdownVars, generations, threadVars, serviceVars, scratch, current,
                   exits, received, taken, published>>

\* CallHandle::join, after which the handle is dropped with the actions nobody
\* received.
Join(g) ==
    /\ threads[g].at = "gone"
    /\ threads' = [threads EXCEPT ![g].batches = 0, ![g].asked = FALSE]

Undone ==
    /\ pc = "undo" /\ Join(current)
    /\ pc' = "idle" /\ current' = 0
    /\ UNCHANGED <<maximum, shutdownVars, generations, active, registry, serviceVars, scratch,
                   exits, received, taken, published>>

\* take_terminal_outcome.
Take(i) ==
    /\ pc = "idle" /\ terminal[i].gen # 0
    /\ taken' = taken \cup {terminal[i].gen}
    /\ terminal' = [terminal EXCEPT ![i] = NoCall]
    /\ UNCHANGED <<maximum, shutdownVars, generations, threadVars, registry, calls, notifications,
                   calls_started, calls_completed, loopVars, published>>

\* next_notification.
Read ==
    /\ pc = "idle" /\ notifications # <<>>
    /\ notifications' = Tail(notifications)
    /\ UNCHANGED <<maximum, shutdownVars, generations, threadVars, registry, calls, terminal,
                   calls_started, calls_completed, loopVars, taken, published>>

BeginShutdown ==
    /\ pc = "idle" /\ phase = "Ready"
    /\ phase' = "Draining" /\ shutdown' = "Draining"
    /\ UNCHANGED <<maximum, grace_over, generations, threadVars, registry, serviceVars, loopVars,
                   taken, published>>

GraceExpires ==
    /\ shutdown = "Draining" /\ ~grace_over
    /\ grace_over' = TRUE
    /\ UNCHANGED <<maximum, phase, shutdown, generations, threadVars, registry, serviceVars,
                   loopVars, taken, published>>

-----------------------------------------------------------------------------
(* RuntimeWorker::poll. *)

\* The pump takes down the tokens of the active calls.
Poll ==
    /\ pc = "idle" /\ phase # "Stopped"
    /\ pc' = "pump" /\ scratch' = {calls[i].gen : i \in Active}
    /\ UNCHANGED <<maximum, shutdownVars, generations, threadVars, registry, serviceVars, current,
                   exits, received, taken, published>>

PumpCall(g) ==
    /\ pc = "pump" /\ g \in scratch
    /\ pc' = "recv" /\ current' = g /\ scratch' = scratch \ {g}
    /\ UNCHANGED <<maximum, shutdownVars, generations, threadVars, registry, serviceVars, exits,
                   received, taken, published>>

\* One batch is received and published with the next sequence of its call.
ReceiveBatch ==
    /\ pc = "recv" /\ received < PumpLimit /\ threads[current].batches > 0
    /\ LET i == threads[current].id
       IN  /\ notifications' = Enqueue(Notification(current, calls[i].sequence, FALSE))
           /\ calls' = [calls EXCEPT ![i].sequence = @ + 1]
    /\ threads' = [threads EXCEPT ![current].batches = @ - 1]
    /\ received' = received + 1
    /\ UNCHANGED <<maximum, shutdownVars, generations, active, registry, terminal, calls_started,
                   calls_completed, pc, scratch, current, exits, taken, published>>

\* The receive loop is left: its limit is reached or the queue was found empty.
EndReceive ==
    /\ pc = "recv" /\ (received = PumpLimit \/ threads[current].batches = 0)
    /\ pc' = "status" /\ received' = 0
    /\ UNCHANGED <<maximum, shutdownVars, generations, threadVars, registry, serviceVars, scratch,
                   current, exits, taken, published>>

\* Only then the phase is read; a terminal call is removed to be joined, with
\* whatever it published in the meantime or the limit left unread.
ReadStatus ==
    /\ pc = "status"
    /\ IF IsTerminal(current)
       THEN /\ pc' = "join"
            /\ registry' = [registry EXCEPT ![threads[current].id] = 0]
            /\ UNCHANGED current
       ELSE /\ pc' = "pump" /\ current' = 0
            /\ UNCHANGED registry
    /\ UNCHANGED <<maximum, shutdownVars, generations, threadVars, serviceVars, scratch, exits,
                   received, taken, published>>

\* RuntimeService::finish_call.  Its errors need a token the service does not
\* know, or another one: RegistriesAgree says there is none.
FinishCall(g) ==
    LET i == threads[g].id
    IN  /\ calls[i].gen = g
        /\ terminal' = [terminal EXCEPT ![i] = [gen |-> g, sequence |-> calls[i].sequence]]
        /\ calls' = [calls EXCEPT ![i] = NoCall]
        /\ notifications' = Enqueue(Notification(g, calls[i].sequence, TRUE))
        /\ calls_completed' = calls_completed + 1
        /\ UNCHANGED calls_started

Joined ==
    /\ pc = "join" /\ Join(current)
    /\ FinishCall(current)
    /\ pc' = "pump" /\ current' = 0
    /\ UNCHANGED <<maximum, shutdownVars, generations, active, registry, scratch, exits, received,
                   taken, published>>

\* The pump is done; a draining worker goes on to reap_finished_reports, which
\* first takes down the calls that are terminal now.
EndPump ==
    /\ pc = "pump" /\ scratch = {}
    /\ IF phase = "Draining"
       THEN /\ pc' = "reap"
            /\ scratch' = {g \in {registry[i] : i \in Registered} : IsTerminal(g)}
       ELSE pc' = "idle" /\ UNCHANGED scratch
    /\ UNCHANGED <<maximum, shutdownVars, generations, threadVars, registry, serviceVars, current,
                   exits, received, taken, published>>

\* One of them is removed and joined.
Reap(g) ==
    /\ pc = "reap" /\ g \in scratch /\ Join(g)
    /\ scratch' = scratch \ {g} /\ exits' = Append(exits, g)
    /\ registry' = [registry EXCEPT ![threads[g].id] = 0]
    /\ UNCHANGED <<maximum, shutdownVars, generations, active, serviceVars, pc, current, received,
                   taken, published>>

ForceMutant ==
    /\ shutdown' = "Forcing" /\ pc' = "force"
    /\ scratch' = {registry[i] : i \in Registered}
    /\ registry' = [i \in Ids |-> 0]
    /\ UNCHANGED threads

\* shutdown_all: every call is asked before the first is joined.
Force ==
    /\ shutdown' = "Forcing" /\ pc' = "force"
    /\ scratch' = {registry[i] : i \in Registered}
    /\ threads' = [g \in Generations |->
                      IF \E i \in Ids : registry[i] = g THEN [threads[g] EXCEPT !.asked = TRUE]
                                                        ELSE threads[g]]
    /\ registry' = [i \in Ids |-> 0]

PollShutdownMutant ==
    /\ pc = "reap" /\ scratch = {}
    /\ \/ /\ shutdown # "Complete" /\ (Registered = {} \/ grace_over)
          /\ shutdown' = "Complete" /\ pc' = "finish"
          /\ UNCHANGED <<scratch, threads, registry>>
       \/ /\ shutdown = "Draining" /\ Registered # {} /\ ~grace_over
          /\ pc' = "finish"
          /\ UNCHANGED <<shutdown, scratch, threads, registry>>
    /\ UNCHANGED <<maximum, phase, grace_over, generations, active, serviceVars, current, exits,
                   received, taken, published>>

\* ShutdownCoordinator::poll with the calls still registered.
PollShutdown ==
    /\ pc = "reap" /\ scratch = {}
    /\ \/ /\ shutdown # "Complete" /\ Registered = {}
          /\ shutdown' = "Complete" /\ pc' = "finish"
          /\ UNCHANGED <<scratch, threads, registry>>
       \/ /\ shutdown = "Draining" /\ Registered # {} /\ grace_over
          /\ Force
       \/ /\ shutdown = "Draining" /\ Registered # {} /\ ~grace_over
          /\ pc' = "finish"
          /\ UNCHANGED <<shutdown, scratch, threads, registry>>
    /\ UNCHANGED <<maximum, phase, grace_over, generations, active, serviceVars, current, exits,
                   received, taken, published>>

JoinForced(g) ==
    /\ pc = "force" /\ g \in scratch /\ Join(g)
    /\ scratch' = scratch \ {g} /\ exits' = Append(exits, g)
    /\ UNCHANGED <<maximum, shutdownVars, generations, active, registry, serviceVars, pc, current,
                   received, taken, published>>

EndForce ==
    /\ pc = "force" /\ scratch = {}
    /\ pc' = "finish"
    /\ UNCHANGED <<maximum, shutdownVars, generations, threadVars, registry, serviceVars, scratch,
                   current, exits, received, taken, published>>

\* RuntimeService::poll_shutdown retains the outcomes collected.
FinishExit ==
    /\ pc = "finish" /\ exits # <<>>
    /\ FinishCall(Head(exits))
    /\ exits' = Tail(exits)
    /\ UNCHANGED <<maximum, shutdownVars, generations, threadVars, registry, pc, scratch, current,
                   received, taken, published>>

EndPoll ==
    /\ pc = "finish" /\ exits = <<>>
    /\ pc' = "idle"
    /\ phase' = IF shutdown = "Complete" THEN "Stopped" ELSE phase
    /\ UNCHANGED <<maximum, shutdown, grace_over, generations, threadVars, registry, serviceVars,
                   scratch, current, exits, received, taken, published>>

\* Polling a stopped worker does nothing.
Stopped == pc = "idle" /\ phase = "Stopped" /\ UNCHANGED vars

Thread(g) == Publish(g) \/ Finish(g) \/ Announce(g) \/ Return(g)

\* The steps of poll.
Polling ==
    \/ Poll
    \/ \E g \in Generations : PumpCall(g) \/ Reap(g) \/ JoinForced(g)
    \/ ReceiveBatch \/ EndReceive \/ ReadStatus \/ Joined \/ EndPump \/ PollShutdown \/ EndForce
    \/ FinishExit \/ EndPoll

Next ==
    \/ \E g \in Generations : Thread(g)
    \/ \E i \in Ids : Dial(i) \/ Take(i)
    \/ Started \/ StartRejected \/ Undone
    \/ Read
    \/ BeginShutdown
    \/ GraceExpires
    \/ Polling
    \/ Stopped

\* The application keeps polling, its operations run to their end, the clock
\* runs, a call that was asked to shut down ends (CallMailbox and CallSignaling
\* show it), and a thread that left its loop returns.  No call has to end by
\* itself, and nobody has to read or to take anything.
Fairness ==
    /\ WF_vars(Polling) /\ WF_vars(Started \/ StartRejected \/ Undone)
    /\ WF_vars(GraceExpires)
    /\ \A g \in Generations : /\ WF_vars(Announce(g) \/ Return(g))
                              /\ WF_vars(threads[g].asked /\ Finish(g))

Spec == Init /\ [][Next]_vars /\ Fairness

-----------------------------------------------------------------------------
(* Properties. *)

\* Every variable keeps its type.
TypeOK ==
    /\ phase \in {"Ready", "Draining", "Stopped"}
    /\ shutdown \in {"Running", "Draining", "Forcing", "Complete"}
    /\ generations \in 0 .. MaxGeneration
    /\ threads \in [Generations -> [id : Ids \cup {NoId},
                                    at : {"none", "running", "cleaned", "terminal", "closed", "gone"},
                                    leased : BOOLEAN, batches : 0 .. MaxActions, asked : BOOLEAN]]
    /\ maximum \in Maxima /\ published \in 0 .. MaxActions
    /\ active \in 0 .. maximum
    /\ registry \in [Ids -> 0 .. MaxGeneration]
    /\ calls \in [Ids -> [gen : 0 .. MaxGeneration, sequence : 0 .. MaxActions + 2]]
    /\ terminal \in [Ids -> [gen : 0 .. MaxGeneration, sequence : 0 .. MaxActions + 2]]
    /\ Len(notifications) <= NotificationCapacity
    /\ pc \in {"idle", "start", "undo", "pump", "recv", "status", "join", "reap", "force", "finish"}
    /\ scratch \subseteq Generations /\ current \in 0 .. MaxGeneration
    /\ grace_over \in BOOLEAN

\* Leases are counted exactly, though worker and threads add and release them
\* concurrently and a failed cleanup leaves one to the drop of the runtime; and
\* none outlives the registration of its call, so a dial the service has room
\* for is never refused by the admission gate.
LeasesExact ==
    /\ active = Cardinality({g \in Generations : threads[g].leased})
    /\ pc = "idle" => active <= Cardinality(Active)

\* The registries of service and engine agree whenever the worker looks at
\* them, so no operation meets a call only one of them knows (UnknownCall,
\* StaleCallGeneration).
RegistriesAgree ==
    pc \in {"idle", "pump"} => \A i \in Ids : calls[i].gen = registry[i]

\* No outcome is lost or overwritten: every call the application was told has
\* started is active, retained, or was acknowledged, and only one of them,
\* whether it ended by itself, during the drain or by force; and the calls held
\* never exceed call_capacity, which dial() checks before it admits one.
OutcomesKept ==
    pc = "idle" =>
        /\ \A g \in Generations :
               Cardinality({i \in Ids : calls[i].gen = g}) + Cardinality({i \in Ids : terminal[i].gen = g})
                   + (IF g \in taken THEN 1 ELSE 0) <= 1
        /\ calls_started = Cardinality(Active) + Cardinality(Retained) + Cardinality(taken)
        /\ calls_completed = Cardinality(Retained) + Cardinality(taken)
        /\ Cardinality(Active) + Cardinality(Retained) <= maximum

\* The application reads the notifications of a call in order: what is queued
\* has strictly increasing sequences, whatever the full queue dropped or
\* displaced, the next one to come is later still, and nothing of a call comes
\* after its exit.
NotificationsOrdered ==
    /\ \A a, b \in DOMAIN notifications :
           a < b /\ notifications[a].gen = notifications[b].gen =>
               notifications[a].sequence < notifications[b].sequence /\ ~notifications[a].exit
    /\ \A a \in DOMAIN notifications, i \in Active :
           notifications[a].gen = calls[i].gen =>
               notifications[a].sequence < calls[i].sequence /\ ~notifications[a].exit

\* A stopped worker leaves nothing behind: every thread it started has returned,
\* every lease is released, and every outcome can be asked for.
StoppedMeansJoined ==
    phase = "Stopped" =>
        /\ \A g \in Generations : threads[g].at \in {"none", "gone"}
        /\ active = 0 /\ Registered = {} /\ Active = {}

\* Draining ends: calls that do not end by themselves are forced when the grace
\* is over, and every thread is joined.
DrainEnds == phase = "Draining" ~> phase = "Stopped"
=============================================================================
