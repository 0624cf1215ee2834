------------------------- MODULE TransactionMachines -------------------------
(***************************************************************************)
(* The four RFC 3261 transaction machines as they are written in           *)
(* sip/transaction/state.rs, client.rs and server.rs.  A machine is a      *)
(* record; an operation is an operator from records to records.  "Invalid" *)
(* is the state an operation answers with an error.                        *)
(***************************************************************************)
EXTENDS Integers

ClientStates == {"Calling", "Trying", "Proceeding", "Completed", "Accepted", "Terminated"}

PreFinal == {"Calling", "Trying", "Proceeding"}

Final == {"Completed", "Accepted"}

Provisionals == 100 .. 199

Successes == 200 .. 299

Failures == 300 .. 699

kind(method) == IF method = "INVITE" THEN "Invite" ELSE "NonInvite"

-----------------------------------------------------------------------------
(* Client side. *)

\* ClientMachine::on_response.
ClientOnResponse(k, s, status) ==
    CASE s \in PreFinal /\ status \in Provisionals -> "Proceeding"
      [] k = "Invite" /\ s \in PreFinal \cup Final /\ status \in Successes -> "Accepted"
      [] k = "Invite" /\ s \in PreFinal \cup {"Completed"} /\ status \in Failures -> "Completed"
      [] k = "NonInvite" /\ s \in PreFinal \cup {"Completed"} /\ status \in Successes \cup Failures
             -> "Completed"
      [] OTHER -> "Invalid"

\* `reliable` is the reliability of the transport the request goes over.
ClientNew(method, reliable) ==
    [kind |-> kind(method), reliable |-> reliable,
     state |-> IF method = "INVITE" THEN "Calling" ELSE "Trying",
     timers |-> {"RequestTimeout"} \cup (IF reliable THEN {} ELSE {"Retransmit"}), ack |-> FALSE]

\* Completed needs no linger on a reliable transport; Accepted always lingers.
Lingers(c, state) == ~c.reliable \/ state = "Accepted"

ClientReceiveMutant(c, status) ==
    LET next == ClientOnResponse(c.kind, c.state, status)
    IN  [c EXCEPT !.state = next, !.ack = @ \/ (c.kind = "Invite" /\ status \in Failures),
                  !.timers = @ \cup (IF next \in Final THEN {"Linger"} ELSE {})]

\* ClientTransaction::on_response, timers and transitions together.
ClientReceive(c, status) ==
    LET next == ClientOnResponse(c.kind, c.state, status)
        finished == next \in Final /\ c.state \notin Final
    IN  [c EXCEPT
            !.state = IF finished /\ ~Lingers(c, next) THEN "Terminated" ELSE next,
            !.ack = @ \/ (c.kind = "Invite" /\ status \in Failures),
            !.timers = IF finished THEN (IF Lingers(c, next) THEN {"Linger"} ELSE {})
                       ELSE IF c.kind = "Invite" /\ c.state = "Calling" THEN @ \ {"Retransmit"}
                       ELSE IF c.state = "Completed" /\ next = "Accepted" THEN {"Linger"}
                       ELSE @]

\* A retransmitted INVITE failure is acknowledged again but not delivered.
ClientDelivers(c, status) ==
    ~(c.kind = "Invite" /\ status \in Failures /\ c.state = "Completed")

\* The states in which ClientTransaction::on_timer accepts a timer; there is no
\* next_retransmit on a reliable transport.
ClientAllows(c, timer) ==
    CASE timer = "RequestTimeout" -> c.state \in PreFinal
      [] timer = "Linger" -> c.state \in Final
      [] timer = "Retransmit" ->
             /\ ~c.reliable
             /\ c.state \in (IF c.kind = "Invite" THEN {"Calling"} ELSE {"Trying", "Proceeding"})

\* A retransmission re-arms itself; the other timers end the transaction.
ClientOnTimer(c, timer) ==
    IF timer = "Retransmit" THEN c ELSE [c EXCEPT !.state = "Terminated", !.timers = {}]

-----------------------------------------------------------------------------
(* Server side. *)

ServerStates == {"Proceeding", "Completed", "Confirmed", "Accepted", "Terminated"}

\* ServerMachine::on_response.
ServerOnResponse(k, s, status) ==
    CASE s = "Proceeding" /\ status \in Provisionals -> "Proceeding"
      [] k = "Invite" /\ s \in {"Proceeding", "Accepted"} /\ status \in Successes -> "Accepted"
      [] k = "Invite" /\ s \in {"Proceeding", "Completed"} /\ status \in Failures -> "Completed"
      [] k = "NonInvite" /\ s \in {"Proceeding", "Completed"}
             /\ status \in Successes \cup Failures -> "Completed"
      [] OTHER -> "Invalid"

\* `response` is the status of last_response, 0 for None.
ServerNew(method, reliable) ==
    [kind |-> kind(method), reliable |-> reliable, state |-> "Proceeding", response |-> 0,
     timers |-> IF method = "INVITE" THEN {"Trying"} ELSE {}]

ServerRespondMutant(t, status) ==
    LET next == ServerOnResponse(t.kind, t.state, status)
        finished == next # t.state /\ next \in Final
    IN  [t EXCEPT !.state = next, !.response = status,
                  !.timers = @ \cup (IF finished THEN {"FinalResponseLifetime"} ELSE {})]

\* ServerTransaction::send_response.
ServerRespond(t, status) ==
    LET next == ServerOnResponse(t.kind, t.state, status)
        finished == next # t.state /\ next \in Final
    IN  [t EXCEPT
            !.state = IF finished /\ t.kind = "NonInvite" /\ t.reliable THEN "Terminated" ELSE next,
            !.response = status,
            !.timers =
                (@ \ {"Trying"}) \cup
                (IF ~finished THEN {}
                 ELSE IF t.kind = "NonInvite" THEN (IF t.reliable THEN {} ELSE {"Termination"})
                 ELSE {"FinalResponseLifetime"}
                      \cup (IF next = "Completed" /\ ~t.reliable THEN {"Retransmit"} ELSE {}))]

\* ServerTransaction::on_ack, in Completed state.
ServerAck(t) ==
    IF t.reliable THEN [t EXCEPT !.state = "Terminated", !.timers = {}]
    ELSE [t EXCEPT !.state = "Confirmed",
                   !.timers = (@ \ {"Retransmit", "FinalResponseLifetime"}) \cup {"Termination"}]

\* The states in which ServerTransaction::on_timer accepts a timer.
ServerAllows(t, timer) ==
    CASE timer = "Trying" -> t.kind = "Invite" /\ t.state = "Proceeding" /\ t.response = 0
      [] timer = "Retransmit" -> ~t.reliable /\ t.state = "Completed"
      [] timer = "FinalResponseLifetime" -> t.state \in {"Completed", "Accepted"}
      [] timer = "Termination" -> t.state \in {"Completed", "Confirmed"}

ServerOnTimer(t, timer) ==
    CASE timer = "Trying" -> [t EXCEPT !.response = 100, !.timers = @ \ {"Trying"}]
      [] timer = "Retransmit" -> t
      [] OTHER -> [t EXCEPT !.state = "Terminated", !.timers = {}]

\* What a duplicate of the request is answered with: 0 is "absorbed".
ServerReplay(t) ==
    IF t.state \in {"Accepted", "Confirmed", "Terminated"} THEN 0 ELSE t.response
=============================================================================
