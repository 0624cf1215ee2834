----------------------------- MODULE CallMailbox -----------------------------
(***************************************************************************)
(* The boundary between a call thread and everybody else: submissions      *)
(* through CallHandle (call/execution/handle.rs), the wake pipe of the     *)
(* call's reactor (reactor.rs) and the loop, the exit and the panic        *)
(* containment of the call thread (thread.rs).  Every message of the model *)
(* is one call of CommandSender::try_send, by any thread; the steps of     *)
(* different calls and of the loop interleave freely.  What the runtime    *)
(* does with a message is left open, but that a shutdown starts the grace  *)
(* period and that the call is over once it has passed.                    *)
(***************************************************************************)
EXTENDS Naturals, Sequences, FiniteSets

CONSTANTS
    Events,             \* submissions of anything but Shutdown
    Shutdowns,          \* submissions of Shutdown
    NoMessage,          \* not a message
    Capacity,           \* mailbox_capacity
    BatchLimit,         \* MAX_CALL_COMMANDS_PER_TURN
    PipeCapacity        \* bytes the wake pipe takes before it would block

Messages == Events \cup Shutdowns

ASSUME MessagesAssumption ==
    /\ IsFiniteSet(Events) /\ IsFiniteSet(Shutdowns)
    /\ Events \cap Shutdowns = {}
    /\ NoMessage \notin Messages
ASSUME CapacityAssumption == Capacity \in Nat /\ Capacity >= 2
ASSUME LimitsAssumption == {BatchLimit, PipeCapacity} \subseteq Nat \ {0}

VARIABLES
    at,                 \* where the try_send of a message is
    depth,              \* QueueMetrics.depth of the mailbox
    queue,              \* the sync_channel
    receiver_open,      \* the CommandReceiver exists
    wake,               \* bytes in the wake pipe
    reader_open,        \* the CallReactor exists
    handles,            \* how far the last CallHandle is dropped
    pc,                 \* where the call thread is
    hand,               \* the message the thread has received and not handled
    command_backlog,
    mailbox_open,
    mailbox_shutdown_started,
    commands_processed,
    ready,              \* ready.command() of the last wait
    shutting_down,      \* the runtime's shutdown has begun
    grace_over,         \* its deadline has passed
    finished,           \* runtime.is_finished()
    kind,               \* the CallExitKind
    phase               \* SharedCallStatus.phase

callerVars == <<at, depth, queue>>
pipeVars == <<wake, reader_open>>
turnVars == <<hand, command_backlog, mailbox_open, mailbox_shutdown_started,
              commands_processed, ready>>
runtimeVars == <<shutting_down, grace_over, finished>>
exitVars == <<kind, phase, receiver_open>>
vars == <<callerVars, pipeVars, handles, pc, turnVars, runtimeVars, exitVars>>

SenderOpen == handles = "open"
NotifierOpen == handles \in {"open", "sender"}

Init ==
    /\ at = [m \in Messages |-> "before"]
    /\ depth = 0 /\ queue = <<>> /\ receiver_open = TRUE
    /\ wake = 0 /\ reader_open = TRUE
    /\ handles = "open"
    /\ pc = "start" /\ hand = NoMessage
    /\ command_backlog = TRUE /\ mailbox_open = TRUE /\ mailbox_shutdown_started = FALSE
    /\ commands_processed = 0 /\ ready = FALSE
    /\ shutting_down = FALSE /\ grace_over = FALSE /\ finished = FALSE
    /\ kind = "none" /\ phase = "Starting"

-----------------------------------------------------------------------------
(* CommandSender::try_send, in the steps other threads can come between. *)

LimitMutant(m) == Capacity

LimitLooseMutant(m) == IF m \in Shutdowns THEN Capacity + 1 ELSE Capacity - 1

Limit(m) == IF m \in Shutdowns THEN Capacity ELSE Capacity - 1

\* QueueMetrics::reserve.
Reserve(m) ==
    /\ at[m] = "before" /\ SenderOpen
    /\ \/ /\ depth < Limit(m)
          /\ depth' = depth + 1
          /\ at' = [at EXCEPT ![m] = "send"]
       \/ /\ depth >= Limit(m)
          /\ at' = [at EXCEPT ![m] = "full"]
          /\ UNCHANGED depth
    /\ UNCHANGED <<queue, pipeVars, handles, pc, turnVars, runtimeVars, exitVars>>

\* SyncSender::try_send and its three results.
Send(m) ==
    /\ at[m] = "send"
    /\ \/ /\ receiver_open /\ Len(queue) < Capacity
          /\ queue' = Append(queue, m)
          /\ at' = [at EXCEPT ![m] = "notify"]
          /\ UNCHANGED depth
       \/ /\ receiver_open /\ Len(queue) >= Capacity
          /\ depth' = depth - 1
          /\ at' = [at EXCEPT ![m] = "full"]
          /\ UNCHANGED queue
       \/ /\ ~receiver_open
          /\ depth' = depth - 1
          /\ at' = [at EXCEPT ![m] = "closed"]
          /\ UNCHANGED queue
    /\ UNCHANGED <<pipeVars, handles, pc, turnVars, runtimeVars, exitVars>>

NotifyMutant(m) ==
    /\ at[m] = "notify"
    /\ at' = [at EXCEPT ![m] = "ok"]
    /\ wake' = IF reader_open /\ wake < PipeCapacity /\ Len(queue) = 1 THEN wake + 1 ELSE wake
    /\ UNCHANGED <<depth, queue, reader_open, handles, pc, turnVars, runtimeVars, exitVars>>

\* CallReactorNotifier::notify: a full pipe is as good as a written byte.
Notify(m) ==
    /\ at[m] = "notify"
    /\ at' = [at EXCEPT ![m] = "ok"]
    /\ wake' = IF reader_open /\ wake < PipeCapacity THEN wake + 1 ELSE wake
    /\ UNCHANGED <<depth, queue, reader_open, handles, pc, turnVars, runtimeVars, exitVars>>

\* The last CallHandle is dropped, field by field: the channel's sender,
\* then the writer of the wake pipe.
DropHandle ==
    /\ \A m \in Messages : at[m] \notin {"send", "notify"}
    /\ \/ handles = "open" /\ handles' = "sender"
       \/ handles = "sender" /\ handles' = "notifier"
    /\ UNCHANGED <<callerVars, pipeVars, pc, turnVars, runtimeVars, exitVars>>

-----------------------------------------------------------------------------
(* The call thread. *)

\* Leaving run_call; what follows is call_thread_entry.
Exit(k) == pc' = "exit" /\ kind' = k /\ UNCHANGED <<phase, receiver_open>>

Goto(next) == pc' = next /\ UNCHANGED exitVars

\* A handler of the runtime and publish_actions.  The handler may fail or panic;
\* a batch the full or abandoned action queue refuses is ignored or, when the
\* actions are not observational, fails the call.
Handled(next) ==
    \/ Goto(next)
    \/ Exit("Failed")
    \/ Exit("Panicked")

StartThread ==
    /\ pc = "start"
    /\ phase' = "Running"
    /\ \/ pc' = "deadlines" /\ UNCHANGED kind
       \/ pc' = "exit" /\ kind' = "Failed"
    /\ UNCHANGED <<callerVars, pipeVars, handles, turnVars, runtimeVars, receiver_open>>

\* process_due_deadlines and the handlers of ready sockets; the grace deadline
\* forces the end.
Deadlines ==
    /\ pc = "deadlines"
    /\ finished' \in {finished \/ grace_over, TRUE}
    /\ Handled("check")
    /\ UNCHANGED <<callerVars, pipeVars, handles, turnVars, shutting_down, grace_over>>

CheckMutant ==
    /\ pc = "check"
    /\ IF finished
       THEN Exit("Completed") /\ UNCHANGED turnVars
       ELSE /\ Goto("recv")
            /\ command_backlog' = ready
            /\ UNCHANGED <<hand, mailbox_open, mailbox_shutdown_started, commands_processed, ready>>
    /\ UNCHANGED <<callerVars, pipeVars, handles, runtimeVars>>

\* The first is_finished test, and the wakeup that reopens the backlog.
Check ==
    /\ pc = "check"
    /\ IF finished
       THEN Exit("Completed") /\ UNCHANGED turnVars
       ELSE /\ Goto("recv")
            /\ command_backlog' = (command_backlog \/ ready)
            /\ UNCHANGED <<hand, mailbox_open, mailbox_shutdown_started, commands_processed, ready>>
    /\ UNCHANGED <<callerVars, pipeVars, handles, runtimeVars>>

\* One turn of the command loop: CommandReceiver::try_recv.
Receive ==
    /\ pc = "recv"
    /\ \/ /\ mailbox_open /\ command_backlog /\ commands_processed < BatchLimit
          /\ \/ /\ queue # <<>>
                /\ hand' = Head(queue) /\ queue' = Tail(queue)
                /\ Goto("release")
                /\ UNCHANGED <<command_backlog, mailbox_open>>
             \/ /\ queue = <<>> /\ SenderOpen
                /\ command_backlog' = FALSE
                /\ Goto("turn")
                /\ UNCHANGED <<queue, hand, mailbox_open>>
             \/ /\ queue = <<>> /\ ~SenderOpen
                /\ command_backlog' = FALSE /\ mailbox_open' = FALSE
                /\ Goto("turn")
                /\ UNCHANGED <<queue, hand>>
       \/ /\ ~(mailbox_open /\ command_backlog /\ commands_processed < BatchLimit)
          /\ Goto("turn")
          /\ UNCHANGED <<queue, hand, command_backlog, mailbox_open>>
    /\ UNCHANGED <<at, depth, pipeVars, handles, mailbox_shutdown_started, commands_processed,
                   ready, runtimeVars>>

ReleaseMutant ==
    /\ pc = "release"
    /\ depth' = IF hand \in Shutdowns THEN depth ELSE depth - 1
    /\ Goto("handle")
    /\ UNCHANGED <<at, queue, pipeVars, handles, turnVars, runtimeVars>>

\* QueueMetrics::release after the message left the channel.
Release ==
    /\ pc = "release"
    /\ depth' = depth - 1
    /\ Goto("handle")
    /\ UNCHANGED <<at, queue, pipeVars, handles, turnVars, runtimeVars>>

\* CallRuntime::handle.
Handle ==
    /\ pc = "handle"
    /\ shutting_down' = (shutting_down \/ hand \in Shutdowns)
    /\ finished' \in {finished, TRUE}
    /\ Handled("recv")
    /\ hand' = NoMessage
    /\ commands_processed' = commands_processed + 1
    /\ UNCHANGED <<callerVars, pipeVars, handles, command_backlog, mailbox_open,
                   mailbox_shutdown_started, ready, grace_over>>

EndTurnMutant ==
    /\ pc = "turn"
    /\ command_backlog' = (command_backlog \/ commands_processed = BatchLimit)
    /\ Goto("second")
    /\ UNCHANGED <<callerVars, pipeVars, handles, hand, mailbox_open, mailbox_shutdown_started,
                   commands_processed, ready, runtimeVars>>

\* A full batch leaves a backlog; a disconnected mailbox begins the shutdown.
EndTurn ==
    /\ pc = "turn"
    /\ command_backlog' = (command_backlog \/ commands_processed = BatchLimit)
    /\ IF ~mailbox_open /\ ~mailbox_shutdown_started
       THEN /\ mailbox_shutdown_started' = TRUE /\ shutting_down' = TRUE
            /\ finished' \in {finished, TRUE}
            /\ Handled("second")
       ELSE /\ Goto("second")
            /\ UNCHANGED <<mailbox_shutdown_started, shutting_down, finished>>
    /\ UNCHANGED <<callerVars, pipeVars, handles, hand, mailbox_open, commands_processed, ready,
                   grace_over>>

\* The second is_finished test.
SecondCheck ==
    /\ pc = "second"
    /\ IF finished THEN Exit("Completed") ELSE Goto("wait")
    /\ UNCHANGED <<callerVars, pipeVars, handles, turnVars, runtimeVars>>

\* poll() reports the wake pipe when it holds a byte or its writer is gone.
WakeReadable == wake > 0 \/ ~NotifierOpen

\* CallReactor::wait returns: at once with a backlog, else on a wakeup or the
\* nearest deadline, or (Network) because a socket is ready.
Returns ==
    /\ ready' = WakeReadable
    /\ commands_processed' = 0
    /\ Goto(IF WakeReadable THEN "drain" ELSE "deadlines")
    /\ UNCHANGED <<callerVars, pipeVars, handles, hand, command_backlog, mailbox_open,
                   mailbox_shutdown_started, runtimeVars>>

Wait == pc = "wait" /\ (command_backlog \/ WakeReadable \/ grace_over) /\ Returns

Network ==
    /\ pc = "wait"
    /\ \/ Returns
       \/ /\ Exit("Failed")
          /\ UNCHANGED <<callerVars, pipeVars, handles, turnVars, runtimeVars>>

\* CallReactor::drain_wake.
DrainWake ==
    /\ pc = "drain"
    /\ wake' = 0
    /\ Goto("deadlines")
    /\ UNCHANGED <<callerVars, reader_open, handles, turnVars, runtimeVars>>

-----------------------------------------------------------------------------
(* call_thread_entry after run_call, and the clock. *)

\* The locals of run_call are gone: they are set back, so that states which
\* differ in nothing else are one.
DropReactor ==
    /\ pc = "exit"
    /\ reader_open' = FALSE /\ wake' = 0
    /\ hand' = NoMessage /\ command_backlog' = TRUE /\ mailbox_open' = TRUE
    /\ mailbox_shutdown_started' = FALSE /\ commands_processed' = 0 /\ ready' = FALSE
    /\ Goto("cleanup")
    /\ UNCHANGED <<callerVars, handles, runtimeVars>>

\* finish_cleanup may fail; then the terminal phase is published.
Cleanup ==
    /\ pc = "cleanup"
    /\ kind' \in {kind, "Panicked"}
    /\ phase' = kind'
    /\ pc' = "drop"
    /\ UNCHANGED <<callerVars, pipeVars, handles, turnVars, runtimeVars, receiver_open>>

\* drop(commands): what is still queued is dropped with the channel.
DropReceiver ==
    /\ pc = "drop"
    /\ receiver_open' = FALSE /\ queue' = <<>>
    /\ pc' = "exited"
    /\ UNCHANGED <<at, depth, pipeVars, handles, turnVars, runtimeVars, kind, phase>>

GraceExpires ==
    /\ shutting_down /\ ~grace_over
    /\ grace_over' = TRUE
    /\ UNCHANGED <<callerVars, pipeVars, handles, pc, turnVars, shutting_down, finished, exitVars>>

\* The thread is gone and every submission was answered.
Done == pc = "exited" /\ UNCHANGED vars

Thread ==
    \/ StartThread \/ Deadlines \/ Check \/ Receive \/ Release \/ Handle \/ EndTurn
    \/ SecondCheck \/ Wait \/ DrainWake \/ DropReactor \/ Cleanup \/ DropReceiver

Next ==
    \/ \E m \in Messages : Reserve(m) \/ Send(m) \/ Notify(m)
    \/ DropHandle
    \/ Thread
    \/ Network
    \/ GraceExpires
    \/ Done

\* The thread is scheduled, a submission that was begun runs to its end (none
\* of its steps blocks) and the clock runs.  Nobody has to submit, to drop the
\* handles or to read the actions, and no socket has to become ready.
Fairness ==
    /\ WF_vars(Thread)
    /\ \A m \in Messages : WF_vars(Send(m) \/ Notify(m))
    /\ WF_vars(DropHandle /\ handles # "open")
    /\ WF_vars(GraceExpires)

Spec == Init /\ [][Next]_vars /\ Fairness

-----------------------------------------------------------------------------
(* Properties. *)

\* The messages that hold a reservation.
Held ==
    {m \in Messages : at[m] = "send"} \cup {queue[i] : i \in DOMAIN queue}
        \cup (IF pc = "release" THEN {hand} ELSE {})

\* Every variable keeps its type.
TypeOK ==
    /\ at \in [Messages -> {"before", "send", "notify", "ok", "full", "closed"}]
    /\ depth \in 0 .. Capacity
    /\ queue \in Seq(Messages)
    /\ wake \in 0 .. PipeCapacity
    /\ handles \in {"open", "sender", "notifier"}
    /\ pc \in {"start", "deadlines", "check", "recv", "release", "handle", "turn", "second",
               "wait", "drain", "exit", "cleanup", "drop", "exited"}
    /\ hand \in Messages \cup {NoMessage}
    /\ commands_processed \in 0 .. BatchLimit
    /\ {command_backlog, mailbox_open, mailbox_shutdown_started, ready, shutting_down,
        grace_over, finished, receiver_open, reader_open} \subseteq BOOLEAN
    /\ kind \in {"none", "Completed", "Failed", "Panicked"}
    /\ phase \in {"Starting", "Running", "Completed", "Failed", "Panicked"}

\* The reservation count is exact while the thread receives (reserve, release
\* and the channel are separate steps of separate threads): it counts every
\* message on its way in, queued or on its way out once, so a message that got
\* a reservation always finds room in the channel.
DepthCounts == receiver_open => depth = Cardinality(Held) /\ Len(queue) <= depth

\* The slot kept for Shutdown: a shutdown is refused for lack of room only
\* while another one holds a reservation, and is going to be received.
ShutdownSlotKept ==
    [][\A m \in Shutdowns :
          receiver_open /\ at[m] \in {"before", "send"} /\ at'[m] = "full"
              => \E other \in Shutdowns \ {m} : other \in Held]_vars

\* No wakeup is lost between "the mailbox is empty" and the wait: whenever a
\* message is queued and the loop runs, the loop already knows (a backlog, or a
\* wakeup it has not looked at), or the pipe holds a byte or end of file, or the
\* submitter is about to write one.
NoLostWakeup ==
    queue # <<>> /\ mailbox_open /\ pc \notin {"exit", "cleanup", "drop", "exited"} =>
        \/ command_backlog
        \/ ready /\ pc \in {"drain", "deadlines", "check"}
        \/ WakeReadable
        \/ \E m \in Messages : at[m] = "notify"

\* A shutdown request ends the thread, whatever it was answered and whatever
\* the mailbox, the network and the observers do; so does dropping the last
\* handle.
ShutdownRequestEnds ==
    (handles # "open" \/ \E m \in Shutdowns : at[m] \in {"ok", "full", "closed"}) ~> pc = "exited"

\* Nothing stays in the mailbox: a queued message is received, or dropped with
\* the thread (try_recv, drop(commands)).
MailboxDrains == queue # <<>> ~> queue = <<>>
=============================================================================
