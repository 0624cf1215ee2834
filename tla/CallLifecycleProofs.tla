------------------------ MODULE CallLifecycleProofs ------------------------
(***************************************************************************)
(* The lifecycle's properties for every set of branches, every set of      *)
(* statuses and every fork bound.                                          *)
(***************************************************************************)
EXTENDS CallLifecycle, TLAPS

\* A branch is selected from the moment the call is established, never before,
\* a cancelling call has a recorded hangup, and a reason exists only once the
\* call has ended.
StateMatchesFlags ==
    /\ state = "Established" => selected # NoBranch
    /\ selected # NoBranch => state \in {"Established", "Terminating", "Ended"}
    /\ state = "Cancelling" => cancel_requested
    /\ reason # "none" => state = "Ended"

LifecycleInv ==
    /\ LifecycleTypeOK
    /\ StateMatchesFlags
    /\ NoOrphanAnswer
    /\ HangupBeatsAnswer
    /\ FailureMeansNothingLeft

-----------------------------------------------------------------------------
(* The lists of returned actions. *)

\* Every returned action is well formed.
LEMMA ActionType ==
    ASSUME NEW op \in Ops, NEW b \in Branches \cup {NoBranch}
    PROVE  ActOn(op, b) \in ActionRecord
BY DEF ActOn, ActionRecord

\* Lists of at most two actions, the only ones the lifecycle returns.
LEMMA ActionLists ==
    ASSUME NEW x \in ActionRecord, NEW y \in ActionRecord
    PROVE  /\ <<>> \in Seq(ActionRecord)
           /\ <<x>> \in Seq(ActionRecord)
           /\ <<x, y>> \in Seq(ActionRecord)
OBVIOUS

\* The empty list, returned when nothing has to be sent.
LEMMA EmptyList == <<>> \in Seq(ActionRecord)
OBVIOUS

\* The history records the BYE of a list that holds one.
LEMMA ByeRecorded ==
    ASSUME NEW b \in Branches, NEW x
    PROVE  /\ b \in ByesIn(<<ActOn("SendBye", b)>>)
           /\ b \in ByesIn(<<x, ActOn("SendBye", b)>>)
<1> DEFINE bye == ActOn("SendBye", b)
<1>1. 1 \in DOMAIN <<bye>> /\ <<bye>>[1] = bye
  OBVIOUS
<1>2. 2 \in DOMAIN <<x, bye>> /\ <<x, bye>>[2] = bye
  OBVIOUS
<1>3. QED
  BY <1>1, <1>2 DEF ByesIn

\* Returning a well-formed list keeps the returned variables typed and only
\* adds to the history.
LEMMA ReturnEffect ==
    ASSUME NEW as \in Seq(ActionRecord), byed \subseteq Branches, Return(as)
    PROVE  /\ actions' \in Seq(ActionRecord)
           /\ error' \in Errors
           /\ byed' \subseteq Branches
           /\ byed \subseteq byed'
           /\ ByesIn(as) \subseteq byed'
BY DEF Return, ByesIn, Errors

\* So does returning an error.
LEMMA FailEffect ==
    ASSUME NEW e \in Errors, byed \subseteq Branches, Fail(e)
    PROVE  /\ actions' \in Seq(ActionRecord)
           /\ error' \in Errors
           /\ byed' = byed
BY DEF Fail

\* Ending the call.
LEMMA EndEffect ==
    ASSUME NEW why \in Reasons, byed \subseteq Branches, End(why)
    PROVE  /\ state' = "Ended" /\ reason' = why
           /\ actions' \in Seq(ActionRecord)
           /\ error' \in Errors
           /\ byed' \subseteq Branches
<1>1. Act("Ended") \in ActionRecord
  BY ActionType DEF Act, Ops
<1>2. <<Act("Ended")>> \in Seq(ActionRecord)
  BY <1>1, ActionLists
<1>3. QED
  BY <1>2, ReturnEffect DEF End

\* A final status maps to a failure reason or to Canceled.
LEMMA StatusReason ==
    ASSUME NEW status \in Statuses
    PROVE  /\ reason_from_status(status) \in FailureReasons \cup {"Canceled"}
           /\ reason_from_status(status) = "Canceled" => status = 487
BY DEF reason_from_status, FailureReasons

-----------------------------------------------------------------------------
(* The inductive invariant. *)

\* The initial state satisfies the invariant.
LEMMA LifecycleInitInv == LifecycleInit => LifecycleInv
<1> SUFFICES ASSUME LifecycleInit PROVE LifecycleInv
  OBVIOUS
<1>1. LifecycleTypeOK
  <2>1. cancel_requested \in BOOLEAN /\ cancel_sent \in BOOLEAN
    BY Zenon DEF LifecycleInit
  <2>2. forks \in [Branches -> BranchStates]
    BY DEF LifecycleInit, BranchStates
  <2>3. actions \in Seq(ActionRecord)
    BY DEF LifecycleInit
  <2>4. /\ state \in States /\ reason \in Reasons
        /\ selected \in Branches \cup {NoBranch}
        /\ last_status \in {0} \cup Statuses
        /\ error \in Errors /\ byed \subseteq Branches
    BY DEF LifecycleInit, States, Reasons, Errors
  <2>5. QED
    BY <2>1, <2>2, <2>3, <2>4 DEF LifecycleTypeOK
<1>2. StateMatchesFlags /\ HangupBeatsAnswer /\ FailureMeansNothingLeft
  BY DEF LifecycleInit, StateMatchesFlags, HangupBeatsAnswer, FailureMeansNothingLeft,
         FailureReasons
<1>3. NoOrphanAnswer
  BY DEF LifecycleInit, NoOrphanAnswer
<1>4. QED
  BY <1>1, <1>2, <1>3 DEF LifecycleInv

\* A step that leaves the state, the branches and the flags alone.
LEMMA QuietStep ==
    ASSUME LifecycleInv,
           actions' \in Seq(ActionRecord), error' \in Errors,
           byed' \subseteq Branches, byed \subseteq byed',
           UNCHANGED <<state, reason, forkVars, cancelVars, last_status>>
    PROVE  LifecycleInv'
BY DEF LifecycleInv, LifecycleTypeOK, StateMatchesFlags, NoOrphanAnswer,
       HangupBeatsAnswer, FailureMeansNothingLeft, forkVars, cancelVars

\* A step that ends the call for a reason other than a failed attempt.
LEMMA EndingStep ==
    ASSUME LifecycleInv,
           NEW why \in Reasons \ (FailureReasons \cup {"none", "Canceled"}),
           End(why), UNCHANGED <<forkVars, cancelVars, last_status>>
    PROVE  LifecycleInv'
<1>1. /\ state' = "Ended" /\ reason' = why
      /\ actions' \in Seq(ActionRecord) /\ error' \in Errors /\ byed' \subseteq Branches
  BY EndEffect DEF LifecycleInv, LifecycleTypeOK
<1>2. QED
  BY <1>1 DEF LifecycleInv, LifecycleTypeOK, StateMatchesFlags, NoOrphanAnswer,
       HangupBeatsAnswer, FailureMeansNothingLeft, forkVars, cancelVars, States, Reasons

\* Every lifecycle call preserves the invariant.
LEMMA LifecycleStep == LifecycleInv /\ [LifecycleNext]_lifecycleVars => LifecycleInv'
<1> SUFFICES ASSUME LifecycleInv, [LifecycleNext]_lifecycleVars
             PROVE  LifecycleInv'
  OBVIOUS
<1> USE DEF LifecycleInv
<1> DEFINE Parts == /\ StateMatchesFlags' /\ NoOrphanAnswer'
                    /\ HangupBeatsAnswer' /\ FailureMeansNothingLeft'
<1>0. byed \subseteq Branches
  BY DEF LifecycleTypeOK
<1>1. CASE Start
  <2>1. CASE state = "Idle"
    <3>1. /\ state' = "Inviting" /\ Return(<<Act("SendInvite")>>)
          /\ UNCHANGED <<reason, forkVars, cancelVars, last_status>>
      BY <1>1, <2>1 DEF Start
    <3>2. <<Act("SendInvite")>> \in Seq(ActionRecord)
      BY ActionType, ActionLists DEF Act, Ops
    <3>3. /\ actions' \in Seq(ActionRecord) /\ error' \in Errors
          /\ byed' \subseteq Branches /\ byed \subseteq byed'
      BY <1>0, <3>1, <3>2, ReturnEffect
    <3>4. LifecycleTypeOK'
      BY <3>1, <3>3 DEF LifecycleTypeOK, forkVars, cancelVars, States
    <3>5. Parts
      BY <2>1, <3>1, <3>3
      DEF StateMatchesFlags, NoOrphanAnswer, HangupBeatsAnswer, FailureMeansNothingLeft,
          forkVars, cancelVars
    <3>6. QED
      BY <3>4, <3>5
  <2>2. CASE state # "Idle"
    <3>1. Fail("InvalidEvent") /\ UNCHANGED <<state, reason, forkVars, cancelVars, last_status>>
      BY <1>1, <2>2 DEF Start
    <3>2. QED
      BY <1>0, <3>1, FailEffect, QuietStep DEF Errors
  <2>3. QED
    BY <2>1, <2>2
<1>2. CASE Hangup
  <2>1. CASE state \in {"Inviting", "Cancelling"}
    <3>1. /\ cancel_requested' = TRUE /\ state' = "Cancelling" /\ cancel_sent' = TRUE
          /\ Return(<<>>) \/ Return(<<Act("SendCancel")>>)
          /\ UNCHANGED <<reason, forkVars, last_status>>
      BY <1>2, <2>1 DEF Hangup, HangupUnanswered
    <3>2. <<>> \in Seq(ActionRecord) /\ <<Act("SendCancel")>> \in Seq(ActionRecord)
      BY ActionType, ActionLists DEF Act, Ops
    <3>3. /\ actions' \in Seq(ActionRecord) /\ error' \in Errors
          /\ byed' \subseteq Branches /\ byed \subseteq byed'
      BY <1>0, <3>1, <3>2, ReturnEffect
    <3>4. cancel_requested' \in BOOLEAN /\ cancel_sent' \in BOOLEAN
      BY <3>1, Zenon
    <3>5. LifecycleTypeOK'
      BY <3>1, <3>3, <3>4 DEF LifecycleTypeOK, forkVars, States
    <3>6. Parts
      BY <2>1, <3>1, <3>3
      DEF StateMatchesFlags, NoOrphanAnswer, HangupBeatsAnswer, FailureMeansNothingLeft,
          forkVars
    <3>7. QED
      BY <3>5, <3>6
  <2>2. CASE state = "Established"
    <3>1. /\ selected \in Branches
          /\ state' = "Terminating" /\ Return(<<ActOn("SendBye", selected)>>)
          /\ UNCHANGED <<reason, forkVars, cancelVars, last_status>>
      BY <1>2, <2>2 DEF Hangup, HangupUnanswered, StateMatchesFlags, LifecycleTypeOK
    <3>2. PICK b \in Branches : b = selected
      BY <3>1
    <3>3. <<ActOn("SendBye", b)>> \in Seq(ActionRecord) /\ b \in ByesIn(<<ActOn("SendBye", b)>>)
      BY ActionType, ActionLists, ByeRecorded DEF Ops
    <3>4. /\ actions' \in Seq(ActionRecord) /\ error' \in Errors
          /\ byed' \subseteq Branches /\ byed \subseteq byed' /\ b \in byed'
      BY <1>0, <3>1, <3>2, <3>3, ReturnEffect
    <3>5. LifecycleTypeOK'
      BY <3>1, <3>4 DEF LifecycleTypeOK, forkVars, cancelVars, States
    <3>6. Parts
      BY <2>2, <3>1, <3>2, <3>4
      DEF StateMatchesFlags, NoOrphanAnswer, HangupBeatsAnswer, FailureMeansNothingLeft,
          forkVars, cancelVars
    <3>7. QED
      BY <3>5, <3>6
  <2>3. CASE state \notin {"Inviting", "Cancelling", "Established"}
    <3>1. Fail("InvalidEvent") /\ UNCHANGED <<state, reason, forkVars, cancelVars, last_status>>
      BY <1>2, <2>3 DEF Hangup, HangupUnanswered
    <3>2. QED
      BY <1>0, <3>1, FailEffect, QuietStep DEF Errors
  <2>4. QED
    BY <2>1, <2>2, <2>3
<1>3. ASSUME NEW op \in {"SendRefer", "SendReferReplaces", "ApplySessionModification"},
             InEstablished(op)
      PROVE  LifecycleInv'
  <2>1. UNCHANGED <<state, reason, forkVars, cancelVars, last_status>>
    BY <1>3 DEF InEstablished
  <2>2. <<Act(op)>> \in Seq(ActionRecord)
    BY ActionType, ActionLists DEF Act, Ops
  <2>3. Return(<<Act(op)>>) \/ Fail("InvalidEvent")
    BY <1>3 DEF InEstablished
  <2>4. QED
    BY <1>0, <2>1, <2>2, <2>3, ReturnEffect, FailEffect, QuietStep DEF Errors
<1>4. ASSUME NEW b \in Branches, NEW has_sdp \in BOOLEAN, Provisional(b, has_sdp)
      PROVE  LifecycleInv'
  <2>1. CASE state \in {"Inviting", "Cancelling"} /\ CanNote(b)
    <3>1. /\ Return(<<>>) \/ Return(<<ActOn("ApplyEarlyMedia", b)>>)
          /\ Note(b, "Early")
          /\ UNCHANGED <<state, reason, selected, cancelVars, last_status>>
      BY <1>4, <2>1 DEF Provisional
    <3>2. <<>> \in Seq(ActionRecord) /\ <<ActOn("ApplyEarlyMedia", b)>> \in Seq(ActionRecord)
      BY ActionType, ActionLists DEF Ops
    <3>3. /\ actions' \in Seq(ActionRecord) /\ error' \in Errors
          /\ byed' \subseteq Branches /\ byed \subseteq byed'
      BY <1>0, <3>1, <3>2, ReturnEffect
    <3>4. LifecycleTypeOK'
      BY <2>1, <3>1, <3>3 DEF LifecycleTypeOK, Note, cancelVars, BranchStates
    <3>5. Parts
      BY <2>1, <3>1, <3>3
      DEF StateMatchesFlags, NoOrphanAnswer, HangupBeatsAnswer, FailureMeansNothingLeft,
          Note, cancelVars, LifecycleTypeOK, FailureReasons
    <3>6. QED
      BY <3>4, <3>5
  <2>2. CASE ~(state \in {"Inviting", "Cancelling"} /\ CanNote(b))
    <3>1. /\ Fail("Fork") \/ Fail("InvalidEvent")
          /\ UNCHANGED <<state, reason, forkVars, cancelVars, last_status>>
      BY <1>4, <2>2 DEF Provisional, forkVars
    <3>2. QED
      BY <1>0, <3>1, FailEffect, QuietStep DEF Errors
  <2>3. QED
    BY <2>1, <2>2
<1>5. ASSUME NEW b \in Branches, Accepted(b)
      PROVE  LifecycleInv'
  <2>1. CASE Fail("Fork") \/ Fail("InvalidEvent")
    <3>1. UNCHANGED <<state, reason, forkVars, cancelVars, last_status>>
      BY <1>5, <2>1 DEF Accepted, Fail, Return
    <3>2. QED
      BY <1>0, <2>1, <3>1, FailEffect, QuietStep DEF Errors
  <2>2. CASE /\ state \in {"Inviting", "Cancelling", "Established", "Terminating"}
             /\ CanNote(b)
             /\ Note(b, "Confirmed")
    <3>1. /\ <<ActOn("SendAck", b)>> \in Seq(ActionRecord)
          /\ <<ActOn("SendAck", b), ActOn("SelectBranch", b)>> \in Seq(ActionRecord)
          /\ <<ActOn("SendAck", b), ActOn("SendBye", b)>> \in Seq(ActionRecord)
      BY ActionType, ActionLists DEF Ops
    <3>2. b \in ByesIn(<<ActOn("SendAck", b), ActOn("SendBye", b)>>)
      BY ByeRecorded
    <3>3. UNCHANGED <<reason, cancelVars, last_status>> /\ Alive
      BY <1>5 DEF Accepted
    <3>4. CASE Unwanted
      <4>1. /\ state' = "Terminating" /\ selected' = selected
            /\ Return(<<ActOn("SendAck", b), ActOn("SendBye", b)>>)
        BY <1>5, <2>2, <3>4 DEF Accepted
      <4>2. /\ actions' \in Seq(ActionRecord) /\ error' \in Errors
            /\ byed' \subseteq Branches /\ byed \subseteq byed' /\ b \in byed'
        BY <1>0, <3>1, <3>2, <4>1, ReturnEffect
      <4>3. LifecycleTypeOK'
        BY <2>2, <3>3, <4>1, <4>2 DEF LifecycleTypeOK, Note, cancelVars, BranchStates, States
      <4>4. Parts
        BY <2>2, <3>3, <3>4, <4>1, <4>2
        DEF StateMatchesFlags, NoOrphanAnswer, HangupBeatsAnswer, FailureMeansNothingLeft,
            Note, cancelVars, LifecycleTypeOK, FailureReasons, Unwanted, Alive
      <4>5. QED
        BY <4>3, <4>4
    <3>5. CASE ~Unwanted /\ selected = NoBranch
      <4>1. /\ state' = "Established" /\ selected' = b
            /\ Return(<<ActOn("SendAck", b), ActOn("SelectBranch", b)>>)
        BY <1>5, <2>2, <3>5 DEF Accepted
      <4>2. /\ actions' \in Seq(ActionRecord) /\ error' \in Errors
            /\ byed' \subseteq Branches /\ byed \subseteq byed'
        BY <1>0, <3>1, <4>1, ReturnEffect
      <4>3. LifecycleTypeOK'
        BY <2>2, <3>3, <4>1, <4>2 DEF LifecycleTypeOK, Note, cancelVars, BranchStates, States
      <4>4. Parts
        BY <2>2, <3>3, <3>5, <4>1, <4>2, NoBranchAssumption
        DEF StateMatchesFlags, NoOrphanAnswer, HangupBeatsAnswer, FailureMeansNothingLeft,
            Note, cancelVars, LifecycleTypeOK, FailureReasons, Unwanted, Alive
      <4>5. QED
        BY <4>3, <4>4
    <3>6. CASE ~Unwanted /\ selected # NoBranch
      <4>1. state' = state /\ selected' = selected
        BY <1>5, <2>2, <3>6 DEF Accepted
      <4>2. CASE selected # b
        <5>1. Return(<<ActOn("SendAck", b), ActOn("SendBye", b)>>)
          BY <1>5, <2>2, <3>6, <4>2 DEF Accepted, Surplus
        <5>2. /\ actions' \in Seq(ActionRecord) /\ error' \in Errors
              /\ byed' \subseteq Branches /\ byed \subseteq byed' /\ b \in byed'
          BY <1>0, <3>1, <3>2, <5>1, ReturnEffect
        <5>3. LifecycleTypeOK'
          BY <2>2, <3>3, <4>1, <5>2 DEF LifecycleTypeOK, Note, cancelVars, BranchStates
        <5>4. Parts
          BY <2>2, <3>3, <3>6, <4>1, <5>2
          DEF StateMatchesFlags, NoOrphanAnswer, HangupBeatsAnswer,
              FailureMeansNothingLeft, Note, cancelVars, LifecycleTypeOK, FailureReasons,
              Unwanted, Alive
        <5>5. QED
          BY <5>3, <5>4
      <4>3. CASE selected = b
        <5>1. Return(<<ActOn("SendAck", b)>>)
          BY <1>5, <2>2, <3>6, <4>3 DEF Accepted, Surplus
        <5>2. /\ actions' \in Seq(ActionRecord) /\ error' \in Errors
              /\ byed' \subseteq Branches /\ byed \subseteq byed'
          BY <1>0, <3>1, <5>1, ReturnEffect
        <5>3. LifecycleTypeOK'
          BY <2>2, <3>3, <4>1, <5>2 DEF LifecycleTypeOK, Note, cancelVars, BranchStates
        <5>4. Parts
          BY <2>2, <3>3, <3>6, <4>1, <4>3, <5>2
          DEF StateMatchesFlags, NoOrphanAnswer, HangupBeatsAnswer,
              FailureMeansNothingLeft, Note, cancelVars, LifecycleTypeOK, FailureReasons,
              Unwanted, Alive
        <5>5. QED
          BY <5>3, <5>4
      <4>4. QED
        BY <4>2, <4>3
    <3>7. QED
      BY <3>4, <3>5, <3>6
  <2>3. QED
    BY <1>5, <2>1, <2>2 DEF Accepted
<1>6. ASSUME NEW b \in Branches, NEW status \in Statuses, Rejected(b, status)
      PROVE  LifecycleInv'
  <2>1. last_status' = status /\ UNCHANGED <<selected, cancelVars>>
    BY <1>6 DEF Rejected
  <2>2. CASE ~CanNote(b)
    <3>1. Fail("Fork") /\ UNCHANGED <<state, reason, forks>>
      BY <1>6, <2>2 DEF Rejected
    <3>2. actions' \in Seq(ActionRecord) /\ error' \in Errors /\ byed' = byed
      BY <1>0, <3>1, FailEffect DEF Errors
    <3>3. LifecycleTypeOK'
      BY <2>1, <3>1, <3>2 DEF LifecycleTypeOK, cancelVars
    <3>4. Parts
      BY <1>6, <2>1, <3>1, <3>2
      DEF StateMatchesFlags, NoOrphanAnswer, HangupBeatsAnswer, FailureMeansNothingLeft,
          cancelVars, Rejected, Alive, FailureReasons
    <3>5. QED
      BY <3>3, <3>4
  <2>3. CASE CanNote(b) /\ (selected # NoBranch \/ has_live_branches(forks'))
    <3>1. Note(b, "Terminated") /\ Return(<<>>) /\ UNCHANGED <<state, reason>>
      BY <1>6, <2>3 DEF Rejected
    <3>2. /\ actions' \in Seq(ActionRecord) /\ error' \in Errors
          /\ byed' \subseteq Branches /\ byed \subseteq byed'
      BY <1>0, <3>1, EmptyList, ReturnEffect
    <3>3. LifecycleTypeOK'
      BY <2>1, <3>1, <3>2 DEF LifecycleTypeOK, Note, cancelVars, BranchStates
    <3>4. Parts
      BY <1>6, <2>1, <3>1, <3>2
      DEF StateMatchesFlags, NoOrphanAnswer, HangupBeatsAnswer, FailureMeansNothingLeft,
          Note, cancelVars, LifecycleTypeOK, Rejected, Alive, FailureReasons
    <3>5. QED
      BY <3>3, <3>4
  <2>4. CASE CanNote(b) /\ selected = NoBranch /\ ~has_live_branches(forks')
    <3> DEFINE why == IF cancel_requested THEN "Canceled" ELSE reason_from_status(status)
    <3>1. Note(b, "Terminated") /\ End(why)
      BY <1>6, <2>4 DEF Rejected
    <3>2. /\ why \in FailureReasons \cup {"Canceled"}
          /\ why = "Canceled" => cancel_requested \/ status = 487
      BY StatusReason
    <3>3. why \in Reasons
      BY <3>2 DEF Reasons
    <3> HIDE DEF why
    <3>4. PICK w \in Reasons : w = why
      BY <3>3
    <3>5. /\ state' = "Ended" /\ reason' = w
          /\ actions' \in Seq(ActionRecord) /\ error' \in Errors /\ byed' \subseteq Branches
      BY <1>0, <3>1, <3>4, EndEffect
    <3>6. LifecycleTypeOK'
      BY <2>1, <3>1, <3>5 DEF LifecycleTypeOK, Note, cancelVars, BranchStates, States
    <3>7. Parts
      BY <2>1, <2>4, <3>2, <3>4, <3>5
      DEF StateMatchesFlags, NoOrphanAnswer, HangupBeatsAnswer, FailureMeansNothingLeft,
          cancelVars, has_live_branches
    <3>8. QED
      BY <3>6, <3>7
  <2>5. QED
    BY <2>2, <2>3, <2>4
<1>7. CASE CancelAccepted
  <2>1. Return(<<>>) /\ UNCHANGED <<state, reason, forkVars, cancelVars, last_status>>
    BY <1>7 DEF CancelAccepted
  <2>2. QED
    BY <1>0, <2>1, EmptyList, ReturnEffect, QuietStep
<1>8. ASSUME NEW b \in Branches, ByeCompleted(b)
      PROVE  LifecycleInv'
  <2>1. UNCHANGED <<selected, cancelVars, last_status>>
    BY <1>8 DEF ByeCompleted
  <2>2. CASE ~CanNote(b)
    <3>1. Fail("Fork") /\ UNCHANGED <<state, reason, forkVars, cancelVars, last_status>>
      BY <1>8, <2>2 DEF ByeCompleted, forkVars
    <3>2. QED
      BY <1>0, <3>1, FailEffect, QuietStep DEF Errors
  <2>3. CASE CanNote(b) /\ ~(state = "Terminating" /\ ~has_live_branches(forks'))
    <3>1. Note(b, "Terminated") /\ Return(<<>>) /\ UNCHANGED <<state, reason>>
      BY <1>8, <2>3 DEF ByeCompleted
    <3>2. /\ actions' \in Seq(ActionRecord) /\ error' \in Errors
          /\ byed' \subseteq Branches /\ byed \subseteq byed'
      BY <1>0, <3>1, EmptyList, ReturnEffect
    <3>3. LifecycleTypeOK'
      BY <2>1, <3>1, <3>2 DEF LifecycleTypeOK, Note, cancelVars, BranchStates
    <3>4. Parts
      BY <1>8, <2>1, <3>1, <3>2
      DEF StateMatchesFlags, NoOrphanAnswer, HangupBeatsAnswer, FailureMeansNothingLeft,
          Note, cancelVars, LifecycleTypeOK, ByeCompleted, Alive, FailureReasons
    <3>5. QED
      BY <3>3, <3>4
  <2>4. CASE CanNote(b) /\ state = "Terminating" /\ ~has_live_branches(forks')
    <3> DEFINE why == IF cancel_requested THEN "Canceled" ELSE "LocalHangup"
    <3>1. Note(b, "Terminated") /\ End(why)
      BY <1>8, <2>4 DEF ByeCompleted
    <3>2. why \in Reasons /\ (cancel_requested <=> why = "Canceled") /\ why \notin FailureReasons
      BY DEF Reasons, FailureReasons
    <3> HIDE DEF why
    <3>3. PICK w \in Reasons : w = why
      BY <3>2
    <3>4. /\ state' = "Ended" /\ reason' = w
          /\ actions' \in Seq(ActionRecord) /\ error' \in Errors /\ byed' \subseteq Branches
      BY <1>0, <3>1, <3>3, EndEffect
    <3>5. LifecycleTypeOK'
      BY <2>1, <3>1, <3>4 DEF LifecycleTypeOK, Note, cancelVars, BranchStates, States
    <3>6. Parts
      BY <2>1, <2>4, <3>2, <3>3, <3>4
      DEF StateMatchesFlags, NoOrphanAnswer, HangupBeatsAnswer, FailureMeansNothingLeft,
          cancelVars, has_live_branches
    <3>7. QED
      BY <3>5, <3>6
  <2>5. QED
    BY <2>2, <2>3, <2>4
<1>9. ASSUME NEW why \in {"RemoteHangup", "SignalingTimeout", "MediaTimeout", "TransportFailure"},
             EndedBy(why)
      PROVE  LifecycleInv'
  BY <1>9, EndingStep DEF EndedBy, Reasons, FailureReasons
<1>10. CASE ForceEnd
  <2>1. CASE Alive
    BY <1>10, <2>1, EndingStep DEF ForceEnd, Reasons, FailureReasons
  <2>2. CASE ~Alive
    <3>1. /\ actions' = <<>> /\ error' = "none" /\ byed' = byed
          /\ UNCHANGED <<state, reason, forkVars, cancelVars, last_status>>
      BY <1>10, <2>2 DEF ForceEnd
    <3>2. actions' \in Seq(ActionRecord) /\ error' \in Errors
      BY <3>1 DEF Errors
    <3>3. QED
      BY <1>0, <3>1, <3>2, QuietStep
  <2>3. QED
    BY <2>1, <2>2
<1>11. CASE AlreadyEnded
  <2>1. /\ Fail("AlreadyEnded")
        /\ UNCHANGED <<state, reason, forkVars, cancelVars, last_status>>
    BY <1>11 DEF AlreadyEnded
  <2>2. QED
    BY <1>0, <2>1, FailEffect, QuietStep DEF Errors
<1>12. CASE UNCHANGED lifecycleVars
  <2>1. /\ actions' \in Seq(ActionRecord) /\ error' \in Errors /\ byed' = byed
        /\ UNCHANGED <<state, reason, forkVars, cancelVars, last_status>>
    BY <1>12 DEF lifecycleVars, forkVars, cancelVars, LifecycleTypeOK
  <2>2. QED
    BY <1>0, <2>1, QuietStep
<1>13. QED
  BY <1>1, <1>2, <1>3, <1>4, <1>5, <1>6, <1>7, <1>8, <1>9, <1>10, <1>11, <1>12
  DEF LifecycleNext

-----------------------------------------------------------------------------

\* The invariant holds throughout, whatever events arrive in whatever order.
THEOREM LifecycleInvariant == LifecycleSpec => []LifecycleInv
BY LifecycleInitInv, LifecycleStep, PTL DEF LifecycleSpec

\* Type correctness of the lifecycle.
THEOREM LifecycleTypeCorrect == LifecycleSpec => []LifecycleTypeOK
<1>1. LifecycleInv => LifecycleTypeOK
  BY DEF LifecycleInv
<1>2. QED
  BY <1>1, LifecycleInvariant, PTL

\* For any number of forks: an answered branch is the selected one of an
\* established call, or a BYE was emitted for it.
THEOREM EveryAnswerKeptOrHungUp == LifecycleSpec => []NoOrphanAnswer
<1>1. LifecycleInv => NoOrphanAnswer
  BY DEF LifecycleInv
<1>2. QED
  BY <1>1, LifecycleInvariant, PTL

\* For any number of forks: a hangup requested before the answer prevails.
THEOREM HangupPrevails == LifecycleSpec => []HangupBeatsAnswer
<1>1. LifecycleInv => HangupBeatsAnswer
  BY DEF LifecycleInv
<1>2. QED
  BY <1>1, LifecycleInvariant, PTL

\* For any number of forks: a failure outcome leaves no live branch behind.
THEOREM FailureLeavesNothing == LifecycleSpec => []FailureMeansNothingLeft
<1>1. LifecycleInv => FailureMeansNothingLeft
  BY DEF LifecycleInv
<1>2. QED
  BY <1>1, LifecycleInvariant, PTL

\* The lifecycle only moves forward: selections, terminal states and their
\* reasons are never taken back.
THEOREM LifecycleOnlyForward == LifecycleSpec => OnlyForward
<1> DEFINE Forward ==
      /\ selected # NoBranch => selected' = selected
      /\ state = "Ended" => state' = "Ended" /\ reason' = reason
      /\ state = "Terminating" => state' \in {"Terminating", "Ended"}
      /\ state = "Established" => state' \in {"Established", "Terminating", "Ended"}
      /\ state = "Cancelling" => state' \in {"Cancelling", "Terminating", "Ended"}
<1>1. LifecycleInv /\ [LifecycleNext]_lifecycleVars => [Forward]_lifecycleVars
  <2> SUFFICES ASSUME LifecycleInv, LifecycleNext PROVE Forward
    OBVIOUS
  <2>1. CASE Start \/ Hangup \/ CancelAccepted \/ ForceEnd \/ AlreadyEnded
    BY <2>1 DEF Start, Hangup, HangupUnanswered, CancelAccepted, ForceEnd, AlreadyEnded, End,
                Alive, forkVars, LifecycleInv, StateMatchesFlags
  <2>2. CASE \E op \in {"SendRefer", "SendReferReplaces", "ApplySessionModification"} :
                 InEstablished(op)
    BY <2>2 DEF InEstablished, forkVars
  <2>3. CASE \E b \in Branches, has_sdp \in BOOLEAN : Provisional(b, has_sdp)
    BY <2>3 DEF Provisional
  <2>4. CASE \E b \in Branches : Accepted(b)
    <3>1. PICK b \in Branches : Accepted(b)
      BY <2>4
    <3>2. CASE Unwanted
      BY <3>1, <3>2 DEF Accepted, Alive, forkVars
    <3>3. CASE ~Unwanted
      BY <3>1, <3>3 DEF Accepted, Alive, forkVars, Unwanted, LifecycleInv,
                        StateMatchesFlags, HangupBeatsAnswer, LifecycleTypeOK, States
    <3>4. QED
      BY <3>2, <3>3
  <2>5. CASE \E b \in Branches, status \in Statuses : Rejected(b, status)
    BY <2>5 DEF Rejected, End, Alive
  <2>6. CASE \E b \in Branches : ByeCompleted(b)
    BY <2>6 DEF ByeCompleted, End, Alive
  <2>7. CASE \E why \in {"RemoteHangup", "SignalingTimeout", "MediaTimeout",
                         "TransportFailure"} : EndedBy(why)
    BY <2>7 DEF EndedBy, End, Alive, forkVars
  <2>8. QED
    BY <2>1, <2>2, <2>3, <2>4, <2>5, <2>6, <2>7 DEF LifecycleNext
<1>2. QED
  BY <1>1, LifecycleInvariant, PTL DEF LifecycleSpec, OnlyForward
=============================================================================
