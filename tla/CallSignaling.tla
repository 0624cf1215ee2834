---------------------------- MODULE CallSignaling ----------------------------
(***************************************************************************)
(* One call thread at work: the loop of call/execution/thread.rs over the  *)
(* runtime (call/execution/runtime.rs), the UDP signaling engine           *)
(* (call/signaling/engine.rs), its client transactions and dialogs, and    *)
(* the lifecycle of CallLifecycle.  The network may lose, duplicate, delay *)
(* and reorder everything; a response is picked when it is received, from  *)
(* all those the remote side may have sent.  Timers are untimed: an armed  *)
(* one may fall due in any turn of the loop.                               *)
(***************************************************************************)
EXTENDS CallLifecycle, TransactionMachines

CONSTANTS
    HasCredentials,     \* UdpSignaling.credentials is Some
    Sessions,           \* pairs of negotiated media and remote RTP address
    AnswerMedia,        \* what negotiate_response may make of a 2xx
    EarlyMedia,         \* what it may make of a provisional response
    ByeSenders,         \* branches whose remote may send a BYE
    ByeStatuses,        \* final statuses of the remote side for our BYE
    MaxStaleRecoveries, \* MAX_STALE_RECOVERIES
    MaxTx,              \* bound: client transactions started
    MaxBatch,           \* bound: events collected in one poll
    MaxHangups,         \* bound: Hangup commands submitted
    MaxInvites,         \* bound: INVITEs sent, the initial one included
    MaxByes             \* bound: CSeq of a remote BYE

ASSUME CredentialsAssumption == HasCredentials \in BOOLEAN
ASSUME MediaAssumption ==
    AnswerMedia \cup EarlyMedia \subseteq Sessions \cup {"none", "disabled", "invalid"}
ASSUME ByeSendersAssumption == ByeSenders \subseteq Branches
ASSUME ByeStatusesAssumption == ByeStatuses \subseteq 200 .. 699
ASSUME BoundsAssumption ==
    {MaxStaleRecoveries, MaxTx, MaxBatch, MaxHangups, MaxInvites, MaxByes} \subseteq Nat

VARIABLES
    pc,                 \* where run_call is in its turn
    result,             \* the CallExitKind, "running" before the thread exits
    shutting_down,      \* CallRuntime.shutting_down and the fences it sets
    grace_over,         \* now >= shutdown_deadline
    hangups,            \* Hangup commands submitted so far
    txs,                \* client transactions in the order they were started
    invite_sequence,    \* template.invite_sequence
    slots,              \* AuthContext: a scope's stale_recoveries + 1, 0 without a challenge
    dialogs,            \* DialogManager: local_sequence of a dialog, 0 if absent
    outcomes,           \* the Vec<SignalingOutcome> of the current poll
    acked,              \* history: <<branch, CSeq>> of every ACK sent for a 2xx
    answered,           \* history: branches a 2xx was received from
    bye_server,         \* the inbound BYE transactions: branch and CSeq -> machine
    remote_sequence,    \* Dialog.remote_sequence of a branch, 0 for None
    unexecuted,         \* history: SendCancel and SendBye only published
    pending_offer,      \* CallRuntime.pending_media_offer is Some
    active_media,       \* the session MediaController.active holds, or "none"
    answer              \* history: the media of the 2xx that selected a branch

netVars == <<txs, invite_sequence, slots, dialogs>>
serverVars == <<bye_server, remote_sequence>>
mediaVars == <<pending_offer, active_media, answer>>
ackVars == <<acked, answered>>
loopVars == <<shutting_down, grace_over, hangups, unexecuted>>
vars == <<lifecycleVars, pc, result, netVars, outcomes, ackVars, serverVars, mediaVars, loopVars>>

-----------------------------------------------------------------------------
(* Outcomes of a handler. *)

CrashMutant == pc' = "done" /\ UNCHANGED result

\* A handler error makes run_call return Err: CallExitKind::Failed.
Crash == pc' = "done" /\ result' = "Failed"

At(next) == pc' = next /\ UNCHANGED result

\* The lifecycle was not consulted.
Quiet ==
    /\ actions' = <<>>
    /\ error' = "none"
    /\ UNCHANGED <<state, reason, forkVars, cancelVars, last_status, byed>>

-----------------------------------------------------------------------------
(* Client transactions of the call. *)

NoFinal == [branch |-> NoBranch, status |-> 0]

NewTx(method, b, n) ==
    [method |-> method, branch |-> b, seq |-> n, c |-> ClientNew(method, FALSE),
     place |-> "live", final |-> NoFinal]

\* TransactionManager::complete_at for a transaction that terminated: an
\* INVITE that owes a failure ACK leaves a tombstone.
Settle(t, c) ==
    [t EXCEPT !.c = c,
              !.place = IF c.state # "Terminated" THEN @
                        ELSE IF c.ack THEN "retained" ELSE "gone"]

\* The requests execute_call_actions starts: a CANCEL takes the INVITE's
\* sequence, a BYE the dialog's next one.
Requests(as) == SelectSeq(as, LAMBDA a : a.op \in {"SendCancel", "SendBye"})

AcksInMutant(as) ==
    {b \in Branches : Requests(as) = <<>> /\ \E i \in DOMAIN as : as[i] = ActOn("SendAck", b)}

AcksIn(as) == {b \in Branches : \E i \in DOMAIN as : as[i] = ActOn("SendAck", b)}

FencedMutant == FALSE

\* No transaction and no dialog is admitted once the call is shutting down.
Fenced == shutting_down

\* execute_call_actions stops at the first message it cannot send: a request
\* the fence refuses, a full timer table, a socket error.
ExecuteFails(as) ==
    \E k \in DOMAIN as :
        /\ as[k].op \in {"SendAck", "SendCancel", "SendBye"}
        /\ acked' = acked \cup {<<b, dialogs[b]>> : b \in AcksIn(SubSeq(as, 1, k - 1))}
        /\ UNCHANGED <<txs, dialogs>>

ExecuteMutant(as) ==
    LET r == Head(Requests(as))
    IN  /\ acked' = acked \cup {<<b, dialogs[b]>> : b \in AcksIn(as)}
        /\ \/ Requests(as) = <<>> /\ UNCHANGED <<txs, dialogs>>
           \/ /\ Requests(as) # <<>> /\ ~Fenced /\ r.op = "SendCancel"
              /\ txs' = Append(txs, NewTx("CANCEL", NoBranch, 1))
              /\ UNCHANGED dialogs
           \/ /\ Requests(as) # <<>> /\ ~Fenced /\ r.op = "SendBye"
              /\ dialogs' = [dialogs EXCEPT ![r.branch] = @ + 1]
              /\ txs' = Append(txs, NewTx("BYE", r.branch, dialogs'[r.branch]))

\* UdpSignaling::execute_call_actions; no list holds two requests.
Execute(as) ==
    LET r == Head(Requests(as))
    IN  /\ acked' = acked \cup {<<b, dialogs[b]>> : b \in AcksIn(as)}
        /\ \/ Requests(as) = <<>> /\ UNCHANGED <<txs, dialogs>>
           \/ /\ Requests(as) # <<>> /\ ~Fenced /\ r.op = "SendCancel"
              /\ txs' = Append(txs, NewTx("CANCEL", NoBranch, invite_sequence))
              /\ UNCHANGED dialogs
           \/ /\ Requests(as) # <<>> /\ ~Fenced /\ r.op = "SendBye"
              /\ dialogs' = [dialogs EXCEPT ![r.branch] = @ + 1]
              /\ txs' = Append(txs, NewTx("BYE", r.branch, dialogs'[r.branch]))

-----------------------------------------------------------------------------
(* The remote answer's media, apply_remote_media_answer. *)

Selects(as, b) == \E i \in DOMAIN as : as[i] \in {ActOn("ApplyEarlyMedia", b), ActOn("SelectBranch", b)}

SelectsBranch(as) == \E i \in DOMAIN as : as[i].op = "SelectBranch"

SameMediaMutant(o) == o.media \in Sessions /\ active_media # "none"

\* The answer is already installed: same media, same address, whoever sent it.
SameMedia(o) == o.media \in Sessions /\ active_media = o.media

Negotiates(as, o) ==
    o.media \in Sessions \cup {"disabled"} /\ Selects(as, o.branch) /\ ~SameMedia(o)

\* MediaOfferUnavailable, or NotActive once media drains.
MediaFails(as, o) == Negotiates(as, o) /\ (~pending_offer \/ shutting_down)

ApplyMedia(as, o) ==
    /\ IF Negotiates(as, o) /\ ~MediaFails(as, o)
       THEN /\ pending_offer' = FALSE
            /\ active_media' = IF o.media \in Sessions THEN o.media ELSE "none"
       ELSE UNCHANGED <<pending_offer, active_media>>
    /\ answer' = IF SelectsBranch(as) THEN o.media ELSE answer

\* An unusable answer on the branch just selected is hung up at once.
HangsUp(as, o) == o.media = "invalid" /\ SelectsBranch(as)

-----------------------------------------------------------------------------
(* Init, and the three phases of a turn of run_call. *)

NoServer == [ServerNew("BYE", FALSE) EXCEPT !.state = "Absent"]

Init ==
    /\ LifecycleInit
    /\ pc = "deadlines"
    /\ result = "running"
    /\ shutting_down = FALSE /\ grace_over = FALSE /\ hangups = 0 /\ unexecuted = {}
    /\ txs = <<>> /\ invite_sequence = 0 /\ slots = [scope \in {401, 407} |-> 0]
    /\ dialogs = [b \in Branches |-> 0]
    /\ outcomes = <<>>
    /\ acked = {} /\ answered = {}
    /\ bye_server = [b \in Branches |-> [n \in 1 .. MaxByes |-> NoServer]]
    /\ remote_sequence = [b \in Branches |-> 0]
    /\ pending_offer = TRUE /\ active_media = "none" /\ answer = "none"

\* process_due_deadlines pops a client timer: on_deadline.  Timer B and F
\* report SignalingTimedOut; several deadlines may be due in one turn.
ClientDeadline(i, timer) ==
    /\ pc = "deadlines"
    /\ txs[i].place = "live"
    /\ timer \in txs[i].c.timers \ {"Retransmit"}
    /\ IF timer = "RequestTimeout"
       THEN EndedBy("SignalingTimeout") \/ AlreadyEnded
       ELSE Quiet
    /\ txs' = [txs EXCEPT ![i] = Settle(@, ClientOnTimer(@.c, timer))]
    /\ IF error' # "none" \/ ~ClientAllows(txs[i].c, timer) THEN Crash ELSE At("deadlines")
    /\ UNCHANGED <<invite_sequence, slots, dialogs, outcomes, ackVars, serverVars, mediaVars, loopVars>>

ServerDeadline(b, n, timer) ==
    /\ pc = "deadlines"
    /\ timer \in bye_server[b][n].timers
    /\ bye_server' = [bye_server EXCEPT ![b][n] = NoServer]
    /\ IF ServerAllows(bye_server[b][n], timer) THEN At("deadlines") ELSE Crash
    /\ Quiet
    /\ UNCHANGED <<netVars, outcomes, ackVars, remote_sequence, mediaVars, loopVars>>

\* Time passes: the shutdown deadline, the lifetime of a tombstone.
GraceExpires ==
    /\ pc # "done" /\ shutting_down /\ ~grace_over
    /\ grace_over' = TRUE
    /\ Quiet
    /\ UNCHANGED <<pc, result, netVars, outcomes, ackVars, serverVars, mediaVars,
                   shutting_down, hangups, unexecuted>>

TombstoneExpires(i) ==
    /\ pc = "deadlines" /\ txs[i].place = "retained"
    /\ txs' = [txs EXCEPT ![i].place = "gone"]
    /\ Quiet
    /\ UNCHANGED <<pc, result, invite_sequence, slots, dialogs, outcomes, ackVars, serverVars,
                   mediaVars, loopVars>>

EndDeadlinesMutant ==
    /\ pc = "deadlines"
    /\ Quiet
    /\ At("poll")
    /\ UNCHANGED <<netVars, outcomes, ackVars, serverVars, mediaVars, loopVars>>

\* The end of process_due_deadlines.
EndDeadlines ==
    /\ pc = "deadlines"
    /\ IF grace_over THEN ForceEnd ELSE Quiet
    /\ At("poll")
    /\ UNCHANGED <<netVars, outcomes, ackVars, serverVars, mediaVars, loopVars>>

-----------------------------------------------------------------------------
(* UdpSignaling::poll. *)

Outcome(event, b, status, media) ==
    [event |-> event, branch |-> b, status |-> status, media |-> media]

Response(status, b, media) ==
    [status |-> status, branch |-> b, media |-> media, challenge |-> "none"]

\* What install and authorize may make of a 401 or 407: a nonce can repeat only
\* one of the same scope; "unusable" stands for every other refusal.
Challenges(r) ==
    IF r.status \notin {401, 407} THEN {r}
    ELSE {[r EXCEPT !.challenge = c] : c \in {"fresh", "stale", "unusable"} \cup
                                             (IF slots[r.status] = 0 THEN {} ELSE {"repeated"})}

\* What the remote side may have sent for a transaction.  It sends one failure
\* per INVITE and 487 only after a CANCEL; forks answer independently.
Cancelled(t) == \E j \in DOMAIN txs : txs[j].method = "CANCEL" /\ txs[j].seq = t.seq

Responses(t) ==
    IF t.method = "INVITE"
    THEN {Response(100, NoBranch, "none")}
         \cup {Response(180, b, m) : b \in Branches, m \in EarlyMedia}
         \cup {Response(200, b, m) : b \in Branches, m \in AnswerMedia}
         \cup UNION {Challenges(Response(s, b, "none")) :
                         <<b, s>> \in {<<b, s>> \in Branches \X Statuses :
                             /\ t.final \in {NoFinal, [branch |-> b, status |-> s]}
                             /\ s = 487 => Cancelled(t)}}
    ELSE {Response(s, t.branch, "none") : s \in IF t.method = "BYE" THEN ByeStatuses ELSE {200, 481}}

\* response_event and classify_media_answer.
ResponseEvents(method, r) ==
    CASE r.status = 100 -> <<>>
      [] method = "INVITE" /\ r.status \in Provisionals ->
             <<Outcome("Provisional", r.branch, r.status, r.media)>>
      [] method = "INVITE" /\ r.status \in Successes ->
             <<Outcome("InviteAccepted", r.branch, r.status, r.media)>>
      [] method = "INVITE" /\ r.status \in Failures ->
             <<Outcome("InviteRejected", r.branch, r.status, r.media)>>
      [] method = "CANCEL" /\ r.status \in Successes ->
             <<Outcome("CancelAccepted", r.branch, r.status, r.media)>>
      [] method = "BYE" /\ r.status \in Successes ->
             <<Outcome("ByeCompleted", r.branch, r.status, r.media)>>
      [] OTHER -> <<>>

\* retry_authenticated_invite applies to the INVITE the template names.
Retries(t, r) ==
    /\ HasCredentials /\ t.method = "INVITE"
    /\ r.status \in {401, 407} /\ t.seq = invite_sequence

\* AuthContext::install accepts the challenge.
Installs(r) ==
    \/ r.challenge = "fresh"
    \/ r.challenge = "stale" /\ slots[r.status] <= MaxStaleRecoveries

Installed(r) ==
    [slots EXCEPT ![r.status] = IF r.challenge = "stale" THEN @ + 1 ELSE 1]

\* One response is received and routed.  A tombstone resends the failure ACK
\* or delivers a late 2xx; an error loses the events collected so far.
Receive(i, r) ==
    LET t == txs[i]
        next == ClientReceive(t.c, r.status)
        routed == [txs EXCEPT ![i] =
                      [(IF t.place = "live" THEN Settle(t, next) ELSE t) EXCEPT
                          !.final = IF r.status \in Failures
                                    THEN [branch |-> r.branch, status |-> r.status] ELSE @]]
        delivers == IF t.place = "live" THEN ClientDelivers(t.c, r.status)
                    ELSE r.status \in Successes
        retries == delivers /\ Retries(t, r)
        restarts == retries /\ Installs(r) /\ ~Fenced
        confirms == delivers /\ t.method = "INVITE" /\ r.status \in Successes
    IN  /\ pc = "poll"
        /\ t.place # "gone"
        /\ Len(outcomes) < MaxBatch
        /\ restarts \/ confirms => Len(txs) + Len(outcomes) < MaxTx
        /\ restarts => invite_sequence < MaxInvites
        /\ IF \/ t.place = "live" /\ next.state = "Invalid"
              \/ retries /\ ~restarts
              \/ confirms /\ dialogs[r.branch] = 0 /\ Fenced
           THEN Crash /\ UNCHANGED <<netVars, outcomes>>
           ELSE /\ At("poll")
                /\ txs' = IF restarts THEN Append(routed, NewTx("INVITE", NoBranch, t.seq + 1))
                          ELSE routed
                /\ invite_sequence' = IF restarts THEN t.seq + 1 ELSE invite_sequence
                /\ slots' = IF restarts THEN Installed(r) ELSE slots
                /\ dialogs' = IF confirms /\ dialogs[r.branch] = 0
                              THEN [dialogs EXCEPT ![r.branch] = t.seq] ELSE dialogs
                /\ outcomes' = IF delivers /\ ~retries
                               THEN outcomes \o ResponseEvents(t.method, r) ELSE outcomes
        /\ answered' = IF confirms THEN answered \cup {r.branch} ELSE answered
        /\ Quiet
        /\ UNCHANGED <<acked, serverVars, mediaVars, loopVars>>

\* handle_inbound_request for a BYE that matches no transaction; one that does
\* is answered by replay and changes nothing.  Behind the fence it is not answered.
ReceiveBye(b, n) ==
    LET valid == dialogs[b] # 0 /\ n > remote_sequence[b]
        status == IF valid THEN 200 ELSE IF dialogs[b] = 0 THEN 481 ELSE 501
    IN  /\ pc = "poll"
        /\ txs # <<>> /\ bye_server[b][n] = NoServer
        /\ Len(outcomes) < MaxBatch
        /\ IF Fenced
           THEN Crash /\ UNCHANGED <<serverVars, outcomes>>
           ELSE /\ At("poll")
                /\ bye_server' = [bye_server EXCEPT ![b][n] =
                                     ServerRespond(ServerNew("BYE", FALSE), status)]
                /\ remote_sequence' = IF valid THEN [remote_sequence EXCEPT ![b] = n]
                                      ELSE remote_sequence
                /\ outcomes' = IF valid THEN Append(outcomes, Outcome("RemoteBye", b, 0, "none"))
                               ELSE outcomes
        /\ Quiet
        /\ UNCHANGED <<netVars, ackVars, mediaVars, loopVars>>

EndPoll ==
    /\ pc = "poll"
    /\ At("apply")
    /\ Quiet
    /\ UNCHANGED <<netVars, outcomes, ackVars, serverVars, mediaVars, loopVars>>

-----------------------------------------------------------------------------
(* poll_signaling applies the outcomes, then run_call drains the mailbox. *)

Event(o) ==
    \/ AlreadyEnded
    \/ o.event = "Provisional" /\ Provisional(o.branch, o.media \in Sessions)
    \/ o.event = "InviteAccepted" /\ Accepted(o.branch)
    \/ o.event = "InviteRejected" /\ Rejected(o.branch, o.status)
    \/ o.event = "CancelAccepted" /\ CancelAccepted
    \/ o.event = "ByeCompleted" /\ ByeCompleted(o.branch)
    \/ o.event = "RemoteBye" /\ EndedBy("RemoteHangup")

\* One outcome: the lifecycle, the wire effects of its actions, the media.
Apply ==
    LET o == Head(outcomes)
    IN  /\ pc = "apply" /\ outcomes # <<>>
        /\ outcomes' = Tail(outcomes)
        /\ Event(o)
        /\ \/ ExecuteFails(actions') /\ Crash /\ UNCHANGED mediaVars
           \/ /\ Execute(actions')
              /\ ApplyMedia(actions', o)
              /\ IF error' # "none" \/ MediaFails(actions', o) THEN Crash
                 ELSE At(IF HangsUp(actions', o) THEN "followup" ELSE "apply")
        /\ UNCHANGED <<invite_sequence, slots, answered, serverVars, loopVars>>

\* handle(Hangup) and its wire effects, from poll_signaling or the mailbox.
HangUp(next) ==
    /\ Hangup \/ AlreadyEnded
    /\ \/ ExecuteFails(actions') /\ Crash
       \/ Execute(actions') /\ IF error' # "none" THEN Crash ELSE At(next)

Followup ==
    /\ pc = "followup"
    /\ HangUp("apply")
    /\ UNCHANGED <<invite_sequence, slots, outcomes, answered, serverVars, mediaVars, loopVars>>

\* run_call's two is_finished tests.
FinishOr(next) ==
    IF state = "Ended" THEN pc' = "done" /\ result' = "Completed" ELSE At(next)

EndApplyMutant ==
    /\ pc = "apply" /\ (outcomes = <<>> \/ state = "Ended")
    /\ FinishOr("commands")
    /\ Quiet
    /\ outcomes' = <<>>
    /\ UNCHANGED <<netVars, ackVars, serverVars, mediaVars, loopVars>>

EndApply ==
    /\ pc = "apply" /\ outcomes = <<>>
    /\ FinishOr("commands")
    /\ Quiet
    /\ UNCHANGED <<netVars, outcomes, ackVars, serverVars, mediaVars, loopVars>>

\* The Start command of RuntimeEngine::dial, submitted once; the INVITE may fail
\* to be sent.
StartCommand ==
    /\ pc = "commands" /\ invite_sequence = 0
    /\ Start \/ AlreadyEnded
    /\ \/ Crash /\ UNCHANGED <<txs, invite_sequence>>
       \/ /\ error' = "none"
          /\ At("commands")
          /\ invite_sequence' = 1
          /\ txs' = <<NewTx("INVITE", NoBranch, 1)>>
    /\ UNCHANGED <<slots, dialogs, outcomes, ackVars, serverVars, mediaVars, loopVars>>

HangupCommand ==
    /\ pc = "commands" /\ invite_sequence > 0
    /\ hangups < MaxHangups /\ Len(txs) < MaxTx
    /\ hangups' = hangups + 1
    /\ HangUp("commands")
    /\ UNCHANGED <<invite_sequence, slots, outcomes, answered, serverVars, mediaVars,
                   shutting_down, grace_over, unexecuted>>

\* begin_shutdown, from a Shutdown message or a disconnected mailbox.  What
\* the lifecycle returns is published and not handed to the signaling engine.
ShutdownCommand ==
    /\ pc = "commands" /\ ~shutting_down
    /\ shutting_down' = TRUE
    /\ \/ state = "Idle" /\ ForceEnd
       \/ state \in {"Inviting", "Established"} /\ Hangup
       \/ state \in {"Cancelling", "Terminating", "Ended"} /\ Quiet
    /\ IF error' # "none" THEN Crash ELSE At("commands")
    /\ unexecuted' = unexecuted \cup {Requests(actions')[i].op : i \in DOMAIN Requests(actions')}
    /\ UNCHANGED <<netVars, outcomes, ackVars, serverVars, mediaVars, grace_over, hangups>>

EndCommands ==
    /\ pc = "commands"
    /\ FinishOr("deadlines")
    /\ Quiet
    /\ UNCHANGED <<netVars, outcomes, ackVars, serverVars, mediaVars, loopVars>>

\* The thread has exited.
Done == pc = "done" /\ UNCHANGED vars

Next ==
    \/ \E i \in DOMAIN txs, timer \in {"RequestTimeout", "Linger"} : ClientDeadline(i, timer)
    \/ \E b \in Branches, n \in 1 .. MaxByes : ServerDeadline(b, n, "Termination")
    \/ GraceExpires
    \/ \E i \in DOMAIN txs : TombstoneExpires(i)
    \/ EndDeadlines
    \/ \E i \in DOMAIN txs : \E r \in Responses(txs[i]) : Receive(i, r)
    \/ \E b \in ByeSenders, n \in 1 .. MaxByes : ReceiveBye(b, n)
    \/ EndPoll
    \/ Apply
    \/ Followup
    \/ EndApply
    \/ StartCommand
    \/ HangupCommand
    \/ ShutdownCommand
    \/ EndCommands
    \/ Done

\* The loop is sequential code on its own thread, every phase handles a bounded
\* number of items, and the clock runs; the network and the callers owe nothing.
Fairness ==
    /\ WF_vars(EndDeadlines) /\ WF_vars(EndPoll)
    /\ WF_vars(Apply) /\ WF_vars(Followup) /\ WF_vars(EndApply)
    /\ WF_vars(EndCommands) /\ WF_vars(GraceExpires)

Spec == Init /\ [][Next]_vars /\ Fairness

-----------------------------------------------------------------------------
(* Properties. *)

TxRecord ==
    [method : {"INVITE", "CANCEL", "BYE"}, branch : Branches \cup {NoBranch}, seq : Nat,
     c : [kind : {"Invite", "NonInvite"}, reliable : {FALSE}, state : ClientStates,
          timers : SUBSET {"RequestTimeout", "Retransmit", "Linger"}, ack : BOOLEAN],
     place : {"live", "retained", "gone"},
     final : [branch : Branches \cup {NoBranch}, status : {0} \cup Failures]]

Pending(t, method) == t.method = method /\ t.c.state \in PreFinal

Outstanding(method) == \E i \in DOMAIN txs : Pending(txs[i], method)

\* Every variable keeps its type.
TypeOK ==
    /\ LifecycleTypeOK
    /\ pc \in {"deadlines", "poll", "apply", "followup", "commands", "done"}
    /\ result \in {"running", "Completed", "Failed"}
    /\ result = "running" <=> pc # "done"
    /\ {shutting_down, grace_over, pending_offer} \subseteq BOOLEAN
    /\ \A i \in DOMAIN txs : txs[i] \in TxRecord
    /\ dialogs \in [Branches -> 0 .. MaxInvites + MaxTx]
    /\ slots \in [{401, 407} -> 0 .. MaxInvites]
    /\ answered \subseteq Branches
    /\ remote_sequence \in [Branches -> 0 .. MaxByes]
    /\ acked \subseteq Branches \X Nat
    /\ unexecuted \subseteq {"SendCancel", "SendBye"}
    /\ active_media \in Sessions \cup {"none"} /\ answer \in AnswerMedia \cup {"none"}

\* Timers and transactions agree (execute_client_actions): in every order of
\* responses and deadlines an armed timer is one its transaction accepts, so no
\* deadline ever fails the call, and a live transaction always has a timer that
\* will end it, so none is kept for ever.
TimersFitTransactions ==
    \A i \in DOMAIN txs :
        LET t == txs[i]
        IN  /\ \A timer \in t.c.timers : t.place = "live" /\ ClientAllows(t.c, timer)
            /\ t.place = "live" => t.c.timers \cap {"RequestTimeout", "Linger"} # {}

\* An answered branch the call knows of was acknowledged on the wire, with the
\* CSeq of an INVITE of this call the first time, and a thread that completes
\* has acknowledged every answer it received (accepted(), remember_confirmed and
\* the SendAck of execute_call_actions).  Only a call that fails may leave one.
AnswersAcked ==
    \A b \in Branches :
        (forks[b] = "Confirmed" /\ result # "Failed") \/ (result = "Completed" /\ b \in answered) =>
            \E n \in 1 .. invite_sequence : <<b, n>> \in acked

\* A call that ends with a local hangup or a cancellation, and was not shut
\* down, leaves no dialog without a BYE on the wire: whatever was answered,
\* selected, surplus or late, was hung up.
CleanEndHangsUpEveryDialog ==
    result = "Completed" /\ reason \in {"LocalHangup", "Canceled"} /\ ~shutting_down
        => \A b \in Branches : dialogs[b] # 0 =>
               \E i \in DOMAIN txs : txs[i].method = "BYE" /\ txs[i].branch = b

\* The media of an established call is what the selected branch answered: early
\* media of a fork that lost, or of the same fork before it changed its answer,
\* never stays active (apply_remote_media_answer), unless the 2xx had no body,
\* which poll_signaling takes for an answer already given.
MediaFollowsSelection ==
    state = "Established" /\ pc \notin {"followup", "done"} =>
        answer = "none" \/ active_media = (IF answer \in Sessions THEN answer ELSE "none")

\* However many authenticated retries came before, a CANCEL goes out for the
\* attempt that is outstanding and leaves no other one behind (the sequence that
\* retry_authenticated_invite keeps in the template and build_request reads).
CancelCoversAttempts ==
    [][\A i \in DOMAIN txs' \ DOMAIN txs : txs'[i].method = "CANCEL" =>
           \A j \in DOMAIN txs' : Pending(txs'[j], "INVITE") => txs'[j].seq = txs'[i].seq]_vars

\* Shutdown ends the thread in every state, whatever the network does
\* (begin_shutdown, shutdown_deadline, force_end).
ShutdownEnds == shutting_down ~> pc = "done"

\* Once shutting down, nothing new is started: no client transaction, no
\* inbound transaction, no dialog (the fences begin_shutdown sets).
ShutdownFences ==
    [][shutting_down => /\ Len(txs') = Len(txs)
                        /\ \A b \in Branches : dialogs[b] = 0 => dialogs'[b] = 0
                        /\ \A b \in Branches, n \in 1 .. MaxByes :
                               bye_server[b][n] = NoServer => bye_server'[b][n] = NoServer]_vars

-----------------------------------------------------------------------------
(* What comments and documents say and the code does not do. *)

\* runtime/service.rs and call/execution: an action is observed only after its
\* wire effect was executed.
ObservedAfterExecuted == unexecuted = {}

\* call/model/state.rs on Inviting: the initial INVITE is outstanding.
InvitingMeansInvite ==
    pc = "commands" /\ state = "Inviting" /\ ~shutting_down => Outstanding("INVITE")

\* call/model/state.rs on Terminating: BYE cleanup is in progress.
TerminatingMeansBye ==
    pc = "commands" /\ state = "Terminating" /\ ~shutting_down => Outstanding("BYE")

\* call/model/events.rs on Hangup: it cancels an outstanding attempt.
HangupCancelsAttempt ==
    pc = "commands" /\ state = "Cancelling" /\ ~shutting_down =>
        \A i \in DOMAIN txs : Pending(txs[i], "INVITE") => Cancelled(txs[i])

\* call/model/events.rs on RemoteBye: the selected dialog sent it, so a fork
\* that lost cannot end an established call.
RemoteHangupIsSelected ==
    reason = "RemoteHangup" /\ selected # NoBranch => remote_sequence[selected] # 0
=============================================================================
