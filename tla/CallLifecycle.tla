---------------------------- MODULE CallLifecycle ----------------------------
(***************************************************************************)
(* The outbound call's protocol state machine (call/model/lifecycle.rs)    *)
(* and its set of forked dialog branches (call/model/branch.rs).  Every    *)
(* action is one CallLifecycle::handle call; `actions` and `error` are     *)
(* what that call returns.  A branch is the remote tag of a response.      *)
(***************************************************************************)
EXTENDS Integers, Sequences, FiniteSets

CONSTANTS
    Branches,       \* remote tags the network may produce
    NoBranch,       \* "no branch selected"
    Statuses,       \* final failure statuses the network may produce
    MaxForks        \* MAX_FORKED_DIALOGS

ASSUME NoBranchAssumption == NoBranch \notin Branches
ASSUME StatusesAssumption == Statuses \subseteq 300 .. 699
ASSUME MaxForksAssumption == MaxForks \in Nat \ {0}

VARIABLES
    state,              \* CallLifecycle.state, "Ended" without its reason
    reason,             \* the reason inside CallState::Ended, or "none"
    forks,              \* CallLifecycle.forks: the state of every branch
    selected,           \* CallLifecycle.selected
    cancel_requested,   \* CallLifecycle.cancel_requested
    cancel_sent,        \* CallLifecycle.cancel_sent
    last_status,        \* CallLifecycle.last_sip_status, 0 for None
    actions,            \* the actions the last call returned
    error,              \* the error the last call returned, or "none"
    byed                \* history: branches some SendBye was returned for

forkVars == <<forks, selected>>
cancelVars == <<cancel_requested, cancel_sent>>
lifecycleVars == <<state, reason, forks, selected, cancel_requested, cancel_sent,
                   last_status, actions, error, byed>>

States == {"Idle", "Inviting", "Cancelling", "Established", "Terminating", "Ended"}

BranchStates == {"Absent", "Early", "Confirmed", "Terminated"}

FailureReasons == {"AuthenticationFailed", "RemoteUnavailable", "NoAnswer",
                   "RemoteBusy", "RemoteRejected"}

Reasons == FailureReasons \cup {"none", "Canceled", "LocalHangup", "RemoteHangup",
                                "SignalingTimeout", "MediaTimeout", "TransportFailure"}

Errors == {"none", "AlreadyEnded", "InvalidEvent", "MissingSelectedBranch", "Fork"}

-----------------------------------------------------------------------------
(* What a call returns. *)

ActOn(op, b) == [op |-> op, branch |-> b]

Act(op) == ActOn(op, NoBranch)

Ops == {"SendInvite", "SendCancel", "SendAck", "SendBye", "SelectBranch", "ApplyEarlyMedia",
        "SendRefer", "SendReferReplaces", "ApplySessionModification", "Ended"}

ActionRecord == [op : Ops, branch : Branches \cup {NoBranch}]

ByesIn(as) == {b \in Branches : \E i \in DOMAIN as : as[i] = ActOn("SendBye", b)}

Return(as) ==
    /\ actions' = as
    /\ error' = "none"
    /\ byed' = byed \cup ByesIn(as)

Fail(e) ==
    /\ actions' = <<>>
    /\ error' = e
    /\ UNCHANGED byed

End(why) ==
    /\ state' = "Ended"
    /\ reason' = why
    /\ Return(<<Act("Ended")>>)

reason_from_statusMutant(status) ==
    IF status \in {486, 600} THEN "RemoteBusy" ELSE "InternalError"

reason_from_status(status) ==
    CASE status \in {401, 407} -> "AuthenticationFailed"
      [] status \in {404, 410, 480, 502, 503, 504} -> "RemoteUnavailable"
      [] status = 408 -> "NoAnswer"
      [] status \in {486, 600} -> "RemoteBusy"
      [] status = 487 -> "Canceled"
      [] OTHER -> "RemoteRejected"

-----------------------------------------------------------------------------
(* ForkSet. *)

Known == {b \in Branches : forks[b] # "Absent"}

CanNote(b) == b \in Known \/ Cardinality(Known) < MaxForks

Note(b, s) == forks' = [forks EXCEPT ![b] = s]

has_live_branchesMutant(f) == \E b \in Branches : f[b] = "Confirmed"

has_live_branches(f) == \E b \in Branches : f[b] \in {"Early", "Confirmed"}

-----------------------------------------------------------------------------

LifecycleInit ==
    /\ state = "Idle"
    /\ reason = "none"
    /\ forks = [b \in Branches |-> "Absent"]
    /\ selected = NoBranch
    /\ cancel_requested = FALSE
    /\ cancel_sent = FALSE
    /\ last_status = 0
    /\ actions = <<>>
    /\ error = "none"
    /\ byed = {}

AliveMutant == TRUE

Alive == state # "Ended"

\* handle() after the call has ended.
AlreadyEnded ==
    /\ ~Alive
    /\ Fail("AlreadyEnded")
    /\ UNCHANGED <<state, reason, forkVars, cancelVars, last_status>>

Start ==
    /\ Alive
    /\ \/ /\ state = "Idle"
          /\ state' = "Inviting"
          /\ Return(<<Act("SendInvite")>>)
       \/ /\ state # "Idle"
          /\ Fail("InvalidEvent")
          /\ UNCHANGED state
    /\ UNCHANGED <<reason, forkVars, cancelVars, last_status>>

HangupUnanswered ==
    /\ state \in {"Inviting", "Cancelling"}
    /\ cancel_requested' = TRUE
    /\ state' = "Cancelling"
    /\ cancel_sent' = TRUE
    /\ Return(IF cancel_sent THEN <<>> ELSE <<Act("SendCancel")>>)

Hangup ==
    /\ Alive
    /\ \/ HangupUnanswered
       \/ /\ state = "Established"
          /\ IF selected # NoBranch
             THEN state' = "Terminating" /\ Return(<<ActOn("SendBye", selected)>>)
             ELSE Fail("MissingSelectedBranch") /\ UNCHANGED state
          /\ UNCHANGED cancelVars
       \/ /\ state \notin {"Inviting", "Cancelling", "Established"}
          /\ Fail("InvalidEvent")
          /\ UNCHANGED <<state, cancelVars>>
    /\ UNCHANGED <<reason, forkVars, last_status>>

\* BlindTransfer, AttendedTransfer and SessionModification share their guard.
InEstablished(op) ==
    /\ Alive
    /\ \/ state = "Established" /\ Return(<<Act(op)>>)
       \/ state # "Established" /\ Fail("InvalidEvent")
    /\ UNCHANGED <<state, reason, forkVars, cancelVars, last_status>>

Provisional(b, has_sdp) ==
    /\ Alive
    /\ \/ /\ state \in {"Inviting", "Cancelling"}
          /\ CanNote(b)
          /\ Note(b, "Early")
          /\ Return(IF has_sdp THEN <<ActOn("ApplyEarlyMedia", b)>> ELSE <<>>)
       \/ /\ state \in {"Inviting", "Cancelling"}
          /\ ~CanNote(b)
          /\ Fail("Fork")
          /\ UNCHANGED forks
       \/ /\ state \notin {"Inviting", "Cancelling"}
          /\ Fail("InvalidEvent")
          /\ UNCHANGED forks
    /\ UNCHANGED <<state, reason, selected, cancelVars, last_status>>

UnwantedMutant == state = "Terminating"

\* An answer the caller no longer wants.
Unwanted == cancel_requested \/ state = "Terminating"

SurplusMutant(b) == FALSE

\* An answer from a branch other than the selected one.
Surplus(b) == selected # b

\* A 2xx is always acknowledged; it is kept only when nobody asked to hang up
\* and no other branch was chosen before it.
Accepted(b) ==
    /\ Alive
    /\ \/ /\ state \in {"Inviting", "Cancelling", "Established", "Terminating"}
          /\ CanNote(b)
          /\ Note(b, "Confirmed")
          /\ LET chosen == ~Unwanted /\ selected = NoBranch
             IN  /\ state' = IF Unwanted THEN "Terminating"
                             ELSE IF chosen THEN "Established" ELSE state
                 /\ selected' = IF chosen THEN b ELSE selected
                 /\ Return(IF chosen THEN <<ActOn("SendAck", b), ActOn("SelectBranch", b)>>
                           ELSE IF Unwanted \/ Surplus(b)
                           THEN <<ActOn("SendAck", b), ActOn("SendBye", b)>>
                           ELSE <<ActOn("SendAck", b)>>)
       \/ /\ state \in {"Inviting", "Cancelling", "Established", "Terminating"}
          /\ ~CanNote(b)
          /\ Fail("Fork")
          /\ UNCHANGED <<state, forkVars>>
       \/ /\ state = "Idle"
          /\ Fail("InvalidEvent")
          /\ UNCHANGED <<state, forkVars>>
    /\ UNCHANGED <<reason, cancelVars, last_status>>

Rejected(b, status) ==
    /\ Alive
    /\ last_status' = status
    /\ \/ /\ CanNote(b)
          /\ Note(b, "Terminated")
          /\ IF selected # NoBranch \/ has_live_branches(forks')
             THEN Return(<<>>) /\ UNCHANGED <<state, reason>>
             ELSE End(IF cancel_requested THEN "Canceled" ELSE reason_from_status(status))
       \/ /\ ~CanNote(b)
          /\ Fail("Fork")
          /\ UNCHANGED <<state, reason, forks>>
    /\ UNCHANGED <<selected, cancelVars>>

CancelAccepted ==
    /\ Alive
    /\ Return(<<>>)
    /\ UNCHANGED <<state, reason, forkVars, cancelVars, last_status>>

ByeCompleted(b) ==
    /\ Alive
    /\ \/ /\ CanNote(b)
          /\ Note(b, "Terminated")
          /\ IF state = "Terminating" /\ ~has_live_branches(forks')
             THEN End(IF cancel_requested THEN "Canceled" ELSE "LocalHangup")
             ELSE Return(<<>>) /\ UNCHANGED <<state, reason>>
       \/ /\ ~CanNote(b)
          /\ Fail("Fork")
          /\ UNCHANGED <<state, reason, forks>>
    /\ UNCHANGED <<selected, cancelVars, last_status>>

\* RemoteBye, SignalingTimedOut, MediaTimedOut and TransportFailed end the
\* call whatever its state.
EndedBy(why) ==
    /\ Alive
    /\ End(why)
    /\ UNCHANGED <<forkVars, cancelVars, last_status>>

\* force_end(LocalHangup), the only reason the runtime passes.
ForceEnd ==
    /\ \/ Alive /\ End("LocalHangup")
       \/ ~Alive /\ actions' = <<>> /\ error' = "none" /\ UNCHANGED <<state, reason, byed>>
    /\ UNCHANGED <<forkVars, cancelVars, last_status>>

LifecycleNext ==
    \/ Start
    \/ Hangup
    \/ \E op \in {"SendRefer", "SendReferReplaces", "ApplySessionModification"} : InEstablished(op)
    \/ \E b \in Branches, has_sdp \in BOOLEAN : Provisional(b, has_sdp)
    \/ \E b \in Branches : Accepted(b)
    \/ \E b \in Branches, status \in Statuses : Rejected(b, status)
    \/ CancelAccepted
    \/ \E b \in Branches : ByeCompleted(b)
    \/ \E why \in {"RemoteHangup", "SignalingTimeout", "MediaTimeout", "TransportFailure"} :
           EndedBy(why)
    \/ ForceEnd
    \/ AlreadyEnded

LifecycleSpec == LifecycleInit /\ [][LifecycleNext]_lifecycleVars

-----------------------------------------------------------------------------
(* Properties. *)

\* Every variable keeps its type.
LifecycleTypeOK ==
    /\ state \in States
    /\ reason \in Reasons
    /\ forks \in [Branches -> BranchStates]
    /\ selected \in Branches \cup {NoBranch}
    /\ cancel_requested \in BOOLEAN
    /\ cancel_sent \in BOOLEAN
    /\ last_status \in {0} \cup Statuses
    /\ actions \in Seq(ActionRecord)
    /\ error \in Errors
    /\ byed \subseteq Branches

\* No answered branch is forgotten (accepted()): in every order of answers,
\* rejections, completed BYEs and hangups, a branch in Confirmed state is the
\* selected one or a BYE was emitted for it; once the call is Terminating the
\* selected one was sent a BYE as well.
NoOrphanAnswer ==
    \A b \in Branches :
        forks[b] = "Confirmed" /\ state # "Ended"
            => \/ b \in byed
               \/ b = selected /\ state = "Established"

\* CANCEL versus 200 (command() and accepted()): once a hangup was requested
\* before any answer, no later answer establishes the call or is selected.
HangupBeatsAnswer ==
    cancel_requested => state \in {"Cancelling", "Terminating", "Ended"} /\ selected = NoBranch

\* An outcome that says the attempt failed or was cancelled is reported only
\* when no branch is live and no branch had been selected (rejected() and
\* bye_completed()); cancellation needs a hangup or a 487.
FailureMeansNothingLeft ==
    reason \in FailureReasons \cup {"Canceled"}
        => /\ \A b \in Branches : forks[b] \notin {"Early", "Confirmed"}
           /\ selected = NoBranch
           /\ reason = "Canceled" => cancel_requested \/ last_status = 487

\* The call only moves forward (handle()): a selected branch stays selected,
\* the terminal state and its reason are final, an established call cannot go
\* back to an attempt and a cancelled attempt cannot become established.
OnlyForward ==
    [][ /\ selected # NoBranch => selected' = selected
        /\ state = "Ended" => state' = "Ended" /\ reason' = reason
        /\ state = "Terminating" => state' \in {"Terminating", "Ended"}
        /\ state = "Established" => state' \in {"Established", "Terminating", "Ended"}
        /\ state = "Cancelling" => state' \in {"Cancelling", "Terminating", "Ended"}
      ]_lifecycleVars
=============================================================================
