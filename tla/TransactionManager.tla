-------------------------- MODULE TransactionManager --------------------------
(***************************************************************************)
(* The per-call transaction registry, sip/transaction/manager.rs: client   *)
(* and server transactions by key, generation-fenced tokens, the shutdown  *)
(* fence, the capacity and the tombstones of completion.rs.  A caller may  *)
(* use any token it was ever given, as late as it likes, and a key may be  *)
(* used again once its transaction is gone.                                *)
(***************************************************************************)
EXTENDS TransactionMachines, FiniteSets

CONSTANTS
    Keys,               \* transaction keys
    InviteKeys,         \* those whose method is INVITE
    Maximum,            \* TransactionManager.maximum
    MaxGeneration,      \* bound: u64::MAX, where next_generation stops
    Codes               \* statuses the peer or the user may send

ASSUME InviteKeysAssumption == InviteKeys \subseteq Keys
ASSUME MaximumAssumption == Maximum \in Nat \ {0}
ASSUME MaxGenerationAssumption == MaxGeneration \in Nat \ {0}
ASSUME CodesAssumption == Codes \subseteq 100 .. 699

VARIABLES
    clients,            \* key -> generation (0: no entry) and machine
    servers,
    next_generation,
    shutting_down,
    completions,        \* key -> generation of its tombstone, 0 for none
    failure_acks,       \* keys whose tombstone keeps the ACK of a failure
    issued,             \* history: every token handed out
    called,             \* the token the last operation was called with
    result              \* what the last operation returned

completionVars == <<completions, failure_acks>>

tableVars == <<clients, servers, completionVars>>
vars == <<clients, servers, next_generation, shutting_down, completionVars, issued, called, result>>

method(k) == IF k \in InviteKeys THEN "INVITE" ELSE "BYE"

Token(k, g, role) == [key |-> k, gen |-> g, role |-> role]

NoToken == [key |-> "none", gen |-> 0, role |-> "none"]

Live(table) == {k \in Keys : table[k].gen # 0}

Entry(g, machine) == [gen |-> g, t |-> machine]

\* An empty slot; its machine is never looked at.
NoClient(k) == Entry(0, ClientNew(method(k), FALSE))

NoServer(k) == Entry(0, ServerNew(method(k), FALSE))

Init ==
    /\ clients = [k \in Keys |-> NoClient(k)]
    /\ servers = [k \in Keys |-> NoServer(k)]
    /\ next_generation = 1
    /\ shutting_down = FALSE
    /\ completions = [k \in Keys |-> 0]
    /\ failure_acks = {}
    /\ issued = {}
    /\ called = NoToken
    /\ result = "Ok"

\* An operation that changes no table and returns r.
Answers(r) ==
    /\ result' = r
    /\ UNCHANGED <<tableVars, next_generation, shutting_down, issued>>

-----------------------------------------------------------------------------
(* Admission. *)

FullMutant == Cardinality(Live(clients)) >= Maximum

\* The capacity is shared by both roles.
Full == Cardinality(Live(clients)) + Cardinality(Live(servers)) >= Maximum

\* admit() in the order of its tests.
Admission(table, k) ==
    IF shutting_down THEN "ShuttingDown"
    ELSE IF Full THEN "Capacity"
    ELSE IF k \in Live(table) THEN "Duplicate"
    ELSE "Ok"

TakeGenerationMutant(k, role) ==
    /\ UNCHANGED next_generation
    /\ issued' = issued \cup {Token(k, next_generation, role)}

TakeGeneration(k, role) ==
    /\ next_generation' = next_generation + 1
    /\ issued' = issued \cup {Token(k, next_generation, role)}

start_client(k, reliable) ==
    /\ called' = NoToken
    /\ \/ Admission(clients, k) # "Ok" /\ Answers(Admission(clients, k))
       \/ /\ Admission(clients, k) = "Ok" /\ next_generation = MaxGeneration
          /\ Answers("GenerationExhausted")
       \/ /\ Admission(clients, k) = "Ok" /\ next_generation < MaxGeneration
          /\ TakeGeneration(k, "Client")
          /\ clients' = [clients EXCEPT ![k] = Entry(next_generation, ClientNew(method(k), reliable))]
          /\ result' = "Ok"
          /\ UNCHANGED <<servers, completionVars, shutting_down>>

start_server(k, reliable) ==
    /\ called' = NoToken
    /\ \/ Admission(servers, k) # "Ok" /\ Answers(Admission(servers, k))
       \/ /\ Admission(servers, k) = "Ok" /\ next_generation = MaxGeneration
          /\ Answers("GenerationExhausted")
       \/ /\ Admission(servers, k) = "Ok" /\ next_generation < MaxGeneration
          /\ TakeGeneration(k, "Server")
          /\ servers' = [servers EXCEPT ![k] = Entry(next_generation, ServerNew(method(k), reliable))]
          /\ result' = "Ok"
          /\ UNCHANGED <<clients, completionVars, shutting_down>>

begin_shutdown ==
    /\ ~shutting_down
    /\ shutting_down' = TRUE
    /\ called' = NoToken /\ result' = "Ok"
    /\ UNCHANGED <<tableVars, next_generation, issued>>

-----------------------------------------------------------------------------
(* Routing by key. *)

RejectedMutant(machine) == FALSE

\* The machine answered with an error and was left as it was.
Rejected(machine) == machine.state = "Invalid"

SetClient(k, c) == clients' = [clients EXCEPT ![k] = Entry(clients[k].gen, c)]

SetServer(k, t) == servers' = [servers EXCEPT ![k] = Entry(servers[k].gen, t)]

Tombstones == {k \in Keys : completions[k] # 0}

Forget(expired) ==
    /\ completions' = [k \in Keys |-> IF k \in expired THEN 0 ELSE completions[k]]
    /\ failure_acks' = failure_acks \ expired

\* route_response_at: live state first, then the tombstone, which route() drops
\* when its time is up.
route_response_at(k, status) ==
    LET c == clients[k].t
        next == ClientReceive(c, status)
    IN  /\ called' = NoToken
        /\ \/ k \in Live(clients) /\ Rejected(next) /\ Answers("InvalidTransition")
           \/ /\ k \in Live(clients) /\ ~Rejected(next)
              /\ SetClient(k, next)
              /\ result' = IF ClientDelivers(c, status) THEN "Deliver" ELSE "SendAck"
              /\ UNCHANGED <<servers, completionVars, next_generation, shutting_down, issued>>
           \/ /\ k \notin Live(clients)
              /\ Answers(IF completions[k] = 0 THEN "Unknown"
                         ELSE IF status \in Successes THEN "DeliverLateSuccess"
                         ELSE IF status \in Failures /\ k \in failure_acks THEN "ResendFailureAck"
                         ELSE "Absorb")
           \/ /\ k \in Tombstones \ Live(clients)
              /\ Forget({k})
              /\ result' = "Unknown"
              /\ UNCHANGED <<clients, servers, next_generation, shutting_down, issued>>

sweep_completions(expired) ==
    /\ Forget(expired)
    /\ called' = NoToken /\ result' = "Ok"
    /\ UNCHANGED <<clients, servers, next_generation, shutting_down, issued>>

\* A request without entry is New, and the owner starts a transaction for it; a
\* duplicate is answered from the entry and changes nothing.
route_request(k) ==
    /\ called' = NoToken
    /\ Answers(IF k \notin Live(servers) THEN "New"
               ELSE IF ServerReplay(servers[k].t) = 0 THEN "Absorb"
               ELSE "ReplayResponse")

route_ack(k) ==
    /\ k \in InviteKeys
    /\ called' = NoToken
    /\ \/ /\ k \in Live(servers) /\ servers[k].t.state = "Completed"
          /\ SetServer(k, ServerAck(servers[k].t))
          /\ result' = "Transaction"
          /\ UNCHANGED <<clients, completionVars, next_generation, shutting_down, issued>>
       \/ /\ k \in Live(servers) /\ servers[k].t.state = "Confirmed"
          /\ Answers("Transaction")
       \/ /\ k \notin Live(servers) \/ servers[k].t.state \notin {"Completed", "Confirmed"}
          /\ Answers("Dialog")

-----------------------------------------------------------------------------
(* Operations on a token. *)

VerifyMutant(table, token) == IF token.key \in Live(table) THEN "Ok" ELSE "Unknown"

\* The checks of respond_server, client_timer and server_timer.
Verify(table, token) ==
    IF token.key \notin Live(table) THEN "Unknown"
    ELSE IF table[token.key].gen # token.gen THEN "StaleGeneration"
    ELSE "Ok"

respond_server(token, status) ==
    LET next == ServerRespond(servers[token.key].t, status)
    IN  /\ called' = token
        /\ \/ token.role # "Server" /\ Answers("WrongRole")
           \/ /\ token.role = "Server"
              /\ Verify(servers, token) # "Ok" /\ Answers(Verify(servers, token))
           \/ /\ token.role = "Server" /\ Verify(servers, token) = "Ok"
              /\ Rejected(next) /\ Answers("InvalidTransition")
           \/ /\ token.role = "Server" /\ Verify(servers, token) = "Ok"
              /\ ~Rejected(next)
              /\ SetServer(token.key, next)
              /\ result' = "Ok"
              /\ UNCHANGED <<clients, completionVars, next_generation, shutting_down, issued>>

client_timer(token, timer) ==
    LET c == clients[token.key].t
    IN  /\ called' = token
        /\ \/ token.role # "Client" /\ Answers("WrongRole")
           \/ /\ token.role = "Client"
              /\ Verify(clients, token) # "Ok" /\ Answers(Verify(clients, token))
           \/ /\ token.role = "Client" /\ Verify(clients, token) = "Ok"
              /\ ~ClientAllows(c, timer) /\ Answers("InvalidTimer")
           \/ /\ token.role = "Client" /\ Verify(clients, token) = "Ok"
              /\ ClientAllows(c, timer)
              /\ SetClient(token.key, ClientOnTimer(c, timer))
              /\ result' = "Ok"
              /\ UNCHANGED <<servers, completionVars, next_generation, shutting_down, issued>>

server_timer(token, timer) ==
    LET t == servers[token.key].t
    IN  /\ called' = token
        /\ \/ token.role # "Server" /\ Answers("WrongRole")
           \/ /\ token.role = "Server"
              /\ Verify(servers, token) # "Ok" /\ Answers(Verify(servers, token))
           \/ /\ token.role = "Server" /\ Verify(servers, token) = "Ok"
              /\ ~ServerAllows(t, timer) /\ Answers("InvalidTimer")
           \/ /\ token.role = "Server" /\ Verify(servers, token) = "Ok"
              /\ ServerAllows(t, timer)
              /\ SetServer(token.key, ServerOnTimer(t, timer))
              /\ result' = "Ok"
              /\ UNCHANGED <<clients, completionVars, next_generation, shutting_down, issued>>

\* remove_generation on the role's table.
Matches(table, token) == token.key \in Live(table) /\ table[token.key].gen = token.gen

RemoveClientMutant(k) == UNCHANGED clients

RemoveClient(k) == clients' = [clients EXCEPT ![k] = NoClient(k)]

RemoveServer(k) == servers' = [servers EXCEPT ![k] = NoServer(k)]

remove(token) ==
    /\ called' = token
    /\ \/ /\ token.role = "Client" /\ Matches(clients, token)
          /\ RemoveClient(token.key)
          /\ result' = "Ok"
          /\ UNCHANGED <<servers, completionVars, next_generation, shutting_down, issued>>
       \/ /\ token.role = "Server" /\ Matches(servers, token)
          /\ RemoveServer(token.key)
          /\ result' = "Ok"
          /\ UNCHANGED <<clients, completionVars, next_generation, shutting_down, issued>>
       \/ /\ ~Matches(IF token.role = "Client" THEN clients ELSE servers, token)
          /\ Answers("NotFound")

\* An INVITE with an answer to repeat, or an ACK to resend, is remembered.
Retained(c) == c.kind = "Invite" /\ (c.state \in Final \/ c.ack)

\* complete_at for a client: the entry is removed before the tombstone is
\* stored, and stays removed when the store is full.
CompleteClient(k) ==
    /\ RemoveClient(k)
    /\ \/ /\ ~Retained(clients[k].t)
          /\ result' = "Ok"
          /\ UNCHANGED completionVars
       \/ /\ Retained(clients[k].t)
          /\ k \in Tombstones \/ Cardinality(Tombstones) < Maximum
          /\ completions' = [completions EXCEPT ![k] = clients[k].gen]
          /\ failure_acks' = IF clients[k].t.ack THEN failure_acks \cup {k} ELSE failure_acks \ {k}
          /\ result' = "Ok"
       \/ /\ Retained(clients[k].t)
          /\ k \notin Tombstones /\ Cardinality(Tombstones) >= Maximum
          /\ result' = "CompletionCapacity"
          /\ UNCHANGED completionVars
    /\ UNCHANGED <<servers, next_generation, shutting_down, issued>>

complete_at(token) ==
    /\ called' = token
    /\ \/ token.role = "Client" /\ Matches(clients, token) /\ CompleteClient(token.key)
       \/ /\ token.role = "Server" /\ Matches(servers, token)
          /\ RemoveServer(token.key)
          /\ result' = "Ok"
          /\ UNCHANGED <<clients, completionVars, next_generation, shutting_down, issued>>
       \/ /\ ~Matches(IF token.role = "Client" THEN clients ELSE servers, token)
          /\ Answers("NotFound")

ClientTimers == {"RequestTimeout", "Retransmit", "Linger"}

ServerTimers == {"Trying", "Retransmit", "FinalResponseLifetime", "Termination"}

Next ==
    \/ \E k \in Keys, reliable \in BOOLEAN : start_client(k, reliable) \/ start_server(k, reliable)
    \/ \E k \in Keys : route_request(k) \/ route_ack(k)
    \/ \E expired \in SUBSET Tombstones \ {{}} : sweep_completions(expired)
    \/ begin_shutdown
    \/ \E k \in Keys, status \in Codes : route_response_at(k, status)
    \/ \E token \in issued : remove(token) \/ complete_at(token)
    \/ \E token \in issued, status \in Codes : respond_server(token, status)
    \/ \E token \in issued, timer \in ClientTimers : client_timer(token, timer)
    \/ \E token \in issued, timer \in ServerTimers : server_timer(token, timer)

Spec == Init /\ [][Next]_vars

-----------------------------------------------------------------------------
(* Properties. *)

Roles == {"Client", "Server"}

Results == {"Ok", "ShuttingDown", "Capacity", "Duplicate", "InvalidTransition", "Deliver", "SendAck",
            "Unknown", "DeliverLateSuccess", "ResendFailureAck", "Absorb", "Transaction", "Dialog",
            "StaleGeneration", "WrongRole", "InvalidTimer", "NotFound", "CompletionCapacity", "GenerationExhausted", "New", "ReplayResponse"}

ClientMachines ==
    [kind : {"Invite", "NonInvite"}, reliable : BOOLEAN, state : ClientStates,
     timers : SUBSET ClientTimers, ack : BOOLEAN]

ServerMachines ==
    [kind : {"Invite", "NonInvite"}, reliable : BOOLEAN, state : ServerStates, response : {0, 100} \cup Codes,
     timers : SUBSET ServerTimers]

\* Every variable keeps its type, and every machine a state of state.rs.
TypeOK ==
    /\ next_generation \in Nat \ {0}
    /\ shutting_down \in BOOLEAN
    /\ clients \in [Keys -> [gen : Nat, t : ClientMachines]]
    /\ servers \in [Keys -> [gen : Nat, t : ServerMachines]]
    /\ completions \in [Keys -> Nat]
    /\ failure_acks \subseteq Keys
    /\ issued \subseteq [key : Keys, gen : Nat, role : Roles]
    /\ result \in Results

\* Clients and servers together never exceed the configured capacity (admit()).
WithinCapacity == Cardinality(Live(clients)) + Cardinality(Live(servers)) <= Maximum

\* A generation is given out once: no two live transactions share one, and the
\* entry under a key is the newest that key ever had, so an older token of the
\* key can never be mistaken for it (token(), start_client, start_server).
GenerationsFresh ==
    /\ \A x, y \in issued : x.gen = y.gen => x = y
    /\ \A x \in issued : x.gen < next_generation
    /\ \A k \in Keys : /\ clients[k].gen # 0 => Token(k, clients[k].gen, "Client") \in issued
                       /\ servers[k].gen # 0 => Token(k, servers[k].gen, "Server") \in issued

\* A tombstone belongs to an earlier transaction than the live one under the
\* same key (complete_at, retain()): late responses to the old transaction can
\* never be confused with a newer completion.
TombstoneIsOlder ==
    \A k \in Keys : completions[k] # 0 =>
        /\ Token(k, completions[k], "Client") \in issued
        /\ clients[k].gen # 0 => completions[k] < clients[k].gen

\* An operation on a token changes nothing but the transaction the token was
\* issued for, however late it comes and whoever uses the key meanwhile
\* (docs/CONCURRENCY.md: generation-fenced handles).
StaleTokensHarmless ==
    [][called' # NoToken =>
           \A k \in Keys :
               /\ clients'[k] # clients[k] => called' = Token(k, clients[k].gen, "Client")
               /\ servers'[k] # servers[k] => called' = Token(k, servers[k].gen, "Server")]_vars

\* A server transaction that has sent a final response has a timer that ends
\* it, or has ended, and every timer it armed is one it accepts (send_response,
\* on_ack, on_timer), on reliable and unreliable transports.
ServerTimersFit ==
    \A k \in Live(servers) :
        LET t == servers[k].t
        IN  /\ \A timer \in t.timers : ServerAllows(t, timer)
            /\ t.state \in {"Completed", "Accepted", "Confirmed"}
                   => t.timers \cap {"FinalResponseLifetime", "Termination"} # {}
=============================================================================
