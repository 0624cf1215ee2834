----------------------- MODULE TransactionManagerProofs -----------------------
(***************************************************************************)
(* Proofs that the generation fence of the transaction registry holds for  *)
(* any number of keys, any capacity and any number of generations.         *)
(***************************************************************************)
EXTENDS TransactionManager, FiniteSetTheorems, TLAPS

\* The part of the types the fence rests on: both tables are functions on the
\* keys, with natural generations.
TablesOK ==
    /\ next_generation \in Nat \ {0}
    /\ clients = [k \in Keys |-> clients[k]]
    /\ servers = [k \in Keys |-> servers[k]]
    /\ \A k \in Keys : clients[k].gen \in Nat /\ servers[k].gen \in Nat
    /\ completions \in [Keys -> Nat]
    /\ issued \subseteq [key : Keys, gen : Nat, role : Roles]

\* The inductive invariant.
FenceInv == TablesOK /\ GenerationsFresh /\ TombstoneIsOlder

\* What every operation but starting, removing and expiring does to the fence.
GenerationsKept ==
    /\ UNCHANGED <<next_generation, issued, completions>>
    /\ clients' = [k \in Keys |-> clients'[k]]
    /\ servers' = [k \in Keys |-> servers'[k]]
    /\ \A k \in Keys : clients'[k].gen = clients[k].gen /\ servers'[k].gen = servers[k].gen

\* Initially nothing was issued.
LEMMA FenceInit == Init => FenceInv
<1>1. \A x : Entry(0, x).gen = 0
  BY DEF Entry
<1>2. \A k \in Keys : NoClient(k).gen = 0 /\ NoServer(k).gen = 0
  BY <1>1, Zenon DEF NoClient, NoServer
<1> QED
  BY <1>2 DEF Init, FenceInv, TablesOK, GenerationsFresh, TombstoneIsOlder

\* Steps that keep every generation keep the invariant.
LEMMA KeptPreserves == FenceInv /\ GenerationsKept => FenceInv'
BY DEF FenceInv, TablesOK, GenerationsFresh, TombstoneIsOlder, GenerationsKept, Token

\* An operation that only answers keeps every generation.
LEMMA AnswersKeeps == ASSUME NEW r, TablesOK, Answers(r) PROVE GenerationsKept
BY DEF Answers, tableVars, completionVars, TablesOK, GenerationsKept

\* Replacing the machine of a client keeps its generation.
LEMMA SetClientKeeps ==
    ASSUME TablesOK, NEW k \in Keys, NEW c, SetClient(k, c),
           UNCHANGED <<servers, completions, next_generation, issued>>
    PROVE  GenerationsKept
BY DEF TablesOK, SetClient, Entry, GenerationsKept

\* Replacing the machine of a server keeps its generation.
LEMMA SetServerKeeps ==
    ASSUME TablesOK, NEW k \in Keys, NEW t, SetServer(k, t),
           UNCHANGED <<clients, completions, next_generation, issued>>
    PROVE  GenerationsKept
BY DEF TablesOK, SetServer, Entry, GenerationsKept

\* The generation taken is above every one issued before.
LEMMA TakenIsFresh ==
    ASSUME TablesOK, GenerationsFresh, NEW k \in Keys, NEW role, TakeGeneration(k, role)
    PROVE  /\ (\A x, y \in issued : x.gen = y.gen => x = y)'
           /\ (\A x \in issued : x.gen < next_generation)'
<1>1. \A x \in issued' : x \in issued \/ x = Token(k, next_generation, role)
  BY DEF TakeGeneration
<1>2. \A x \in issued : x.gen \in Nat /\ x.gen < next_generation
  BY DEF TablesOK, GenerationsFresh
<1>3. Token(k, next_generation, role).gen = next_generation
  BY DEF Token
<1>4. next_generation \in Nat /\ next_generation' = next_generation + 1
  BY DEF TablesOK, TakeGeneration
<1>5. \A x \in issued' : x.gen < next_generation'
  BY <1>1, <1>2, <1>3, <1>4
<1>6. ASSUME NEW x \in issued', NEW y \in issued', x.gen = y.gen PROVE x = y
  BY <1>1, <1>2, <1>3, <1>4, <1>6 DEF GenerationsFresh
<1> QED  BY <1>5, <1>6

\* A started client takes a generation nobody holds.
LEMMA StartClientPreserves ==
    ASSUME FenceInv, NEW k \in Keys, NEW reliable \in BOOLEAN, start_client(k, reliable) PROVE FenceInv'
<1>1. CASE \E r : Answers(r)
  BY <1>1, AnswersKeeps, KeptPreserves DEF FenceInv
<1>2. CASE /\ TakeGeneration(k, "Client")
           /\ clients' = [clients EXCEPT ![k] = Entry(next_generation, ClientNew(method(k), reliable))]
           /\ UNCHANGED <<servers, completions>>
  <2>1. TablesOK'
    BY <1>2 DEF FenceInv, TablesOK, TakeGeneration, Token, Entry, Roles
  <2>2. (\A x, y \in issued : x.gen = y.gen => x = y)' /\ (\A x \in issued : x.gen < next_generation)'
    BY <1>2, TakenIsFresh DEF FenceInv
  <2>3. clients'[k].gen = next_generation /\ Token(k, next_generation, "Client") \in issued'
    BY <1>2 DEF FenceInv, TablesOK, TakeGeneration, Entry
  <2>4. \A j \in Keys : /\ j # k => clients'[j] = clients[j]
                       /\ servers'[j] = servers[j]
    BY <1>2 DEF FenceInv, TablesOK
  <2>5. issued \subseteq issued'
    BY <1>2 DEF TakeGeneration
  <2>6. GenerationsFresh'
    BY <2>2, <2>3, <2>4, <2>5 DEF FenceInv, GenerationsFresh
  <2>7. TombstoneIsOlder'
    BY <1>2 DEF FenceInv, TablesOK, GenerationsFresh, TombstoneIsOlder, TakeGeneration, Token, Entry
  <2> QED  BY <2>1, <2>6, <2>7 DEF FenceInv
<1> QED  BY <1>1, <1>2 DEF start_client, completionVars

\* A started server takes a generation nobody holds.
LEMMA StartServerPreserves ==
    ASSUME FenceInv, NEW k \in Keys, NEW reliable \in BOOLEAN, start_server(k, reliable) PROVE FenceInv'
<1>1. CASE \E r : Answers(r)
  BY <1>1, AnswersKeeps, KeptPreserves DEF FenceInv
<1>2. CASE /\ TakeGeneration(k, "Server")
           /\ servers' = [servers EXCEPT ![k] = Entry(next_generation, ServerNew(method(k), reliable))]
           /\ UNCHANGED <<clients, completions>>
  <2>1. TablesOK'
    BY <1>2 DEF FenceInv, TablesOK, TakeGeneration, Token, Entry, Roles
  <2>2. (\A x, y \in issued : x.gen = y.gen => x = y)' /\ (\A x \in issued : x.gen < next_generation)'
    BY <1>2, TakenIsFresh DEF FenceInv
  <2>3. servers'[k].gen = next_generation /\ Token(k, next_generation, "Server") \in issued'
    BY <1>2 DEF FenceInv, TablesOK, TakeGeneration, Entry
  <2>4. \A j \in Keys : /\ j # k => servers'[j] = servers[j]
                       /\ clients'[j] = clients[j]
    BY <1>2 DEF FenceInv, TablesOK
  <2>5. issued \subseteq issued'
    BY <1>2 DEF TakeGeneration
  <2>6. GenerationsFresh'
    BY <2>2, <2>3, <2>4, <2>5 DEF FenceInv, GenerationsFresh
  <2>7. TombstoneIsOlder'
    BY <1>2 DEF FenceInv, TablesOK, GenerationsFresh, TombstoneIsOlder, TakeGeneration, Token, Entry
  <2> QED  BY <2>1, <2>6, <2>7 DEF FenceInv
<1> QED  BY <1>1, <1>2 DEF start_server, completionVars

\* Removing a client, with or without a tombstone of its own generation.
LEMMA RemoveClientPreserves ==
    ASSUME FenceInv, NEW k \in Keys, k \in Live(clients), RemoveClient(k),
           UNCHANGED <<servers, next_generation, issued>>,
           completions' = completions \/ completions' = [completions EXCEPT ![k] = clients[k].gen]
    PROVE  FenceInv'
<1>1. clients'[k].gen = 0 /\ \A j \in Keys \ {k} : clients'[j] = clients[j]
  BY DEF FenceInv, TablesOK, RemoveClient, NoClient, Entry
<1>2. TablesOK'
  BY <1>1 DEF FenceInv, TablesOK, RemoveClient
<1>3. GenerationsFresh'
  BY <1>1 DEF FenceInv, TablesOK, GenerationsFresh
<1>4. TombstoneIsOlder'
  BY <1>1 DEF FenceInv, TablesOK, GenerationsFresh, TombstoneIsOlder, Live
<1> QED  BY <1>2, <1>3, <1>4 DEF FenceInv

\* Removing a server.
LEMMA RemoveServerPreserves ==
    ASSUME FenceInv, NEW k \in Keys, RemoveServer(k),
           UNCHANGED <<clients, completions, next_generation, issued>>
    PROVE  FenceInv'
<1>1. servers'[k].gen = 0 /\ \A j \in Keys \ {k} : servers'[j] = servers[j]
  BY DEF FenceInv, TablesOK, RemoveServer, NoServer, Entry
<1>2. TablesOK'
  BY <1>1 DEF FenceInv, TablesOK, RemoveServer
<1>3. GenerationsFresh' /\ TombstoneIsOlder'
  BY <1>1 DEF FenceInv, TablesOK, GenerationsFresh, TombstoneIsOlder
<1> QED  BY <1>2, <1>3 DEF FenceInv

\* Every step keeps the invariant.
LEMMA FenceStep == FenceInv /\ [Next]_vars => FenceInv'
<1> SUFFICES ASSUME FenceInv, [Next]_vars PROVE FenceInv'  OBVIOUS
<1> USE DEF FenceInv
<1>1. ASSUME NEW k \in Keys, NEW reliable \in BOOLEAN, start_client(k, reliable) PROVE FenceInv'
  BY <1>1, StartClientPreserves
<1>2. ASSUME NEW k \in Keys, NEW reliable \in BOOLEAN, start_server(k, reliable) PROVE FenceInv'
  BY <1>2, StartServerPreserves
<1>3. ASSUME NEW expired, Forget(expired), UNCHANGED <<clients, servers, next_generation, issued>> PROVE FenceInv'
  BY <1>3 DEF Forget, TablesOK, GenerationsFresh, TombstoneIsOlder
<1>4. ASSUME NEW k \in Keys, route_ack(k) PROVE FenceInv'
  <2>1. CASE SetServer(k, ServerAck(servers[k].t)) /\ UNCHANGED <<clients, completions, next_generation, issued>>
    <3>1. PICK t : t = ServerAck(servers[k].t)  OBVIOUS
    <3> QED  BY <2>1, <3>1, SetServerKeeps, KeptPreserves
  <2>2. CASE Answers("Transaction") \/ Answers("Dialog")
    BY <2>2, AnswersKeeps, KeptPreserves
  <2> QED  BY <1>4, <2>1, <2>2 DEF route_ack, completionVars
<1>5. ASSUME begin_shutdown PROVE FenceInv'
  BY <1>5, KeptPreserves DEF begin_shutdown, tableVars, completionVars, GenerationsKept, TablesOK
<1>6. ASSUME NEW k \in Keys, NEW status \in Codes, route_response_at(k, status) PROVE FenceInv'
  <2>1. PICK c : c = ClientReceive(clients[k].t, status)  OBVIOUS
  <2>2. CASE SetClient(k, c) /\ UNCHANGED <<servers, completions, next_generation, issued>>
    BY <2>2, SetClientKeeps, KeptPreserves
  <2>3. CASE \E r : Answers(r)
    BY <2>3, AnswersKeeps, KeptPreserves
  <2>4. CASE Forget({k}) /\ UNCHANGED <<clients, servers, next_generation, issued>>
    BY <1>3, <2>4
  <2> QED  BY <1>6, <2>1, <2>2, <2>3, <2>4 DEF route_response_at, completionVars
<1>7. ASSUME NEW token \in issued, remove(token) PROVE FenceInv'
  <2>1. token.key \in Keys  BY DEF TablesOK
  <2>2. PICK k \in Keys : k = token.key  BY <2>1
  <2>3. CASE \E r : Answers(r)
    BY <2>3, AnswersKeeps, KeptPreserves
  <2>4. CASE Matches(clients, token) /\ RemoveClient(k) /\ UNCHANGED <<servers, completions, next_generation, issued>>
    BY <2>2, <2>4, RemoveClientPreserves DEF Matches
  <2>5. CASE RemoveServer(k) /\ UNCHANGED <<clients, completions, next_generation, issued>>
    BY <2>5, RemoveServerPreserves
  <2> QED  BY <1>7, <2>2, <2>3, <2>4, <2>5 DEF remove, completionVars
<1>8. ASSUME NEW token \in issued, complete_at(token) PROVE FenceInv'
  <2>1. token.key \in Keys  BY DEF TablesOK
  <2>2. PICK k \in Keys : k = token.key  BY <2>1
  <2>3. CASE \E r : Answers(r)
    BY <2>3, AnswersKeeps, KeptPreserves
  <2>4. CASE Matches(clients, token) /\ CompleteClient(k)
    <3>1. completions' = completions \/ completions' = [completions EXCEPT ![k] = clients[k].gen]
      BY <2>4 DEF CompleteClient, completionVars
    <3> QED  BY <2>2, <2>4, <3>1, RemoveClientPreserves DEF Matches, CompleteClient
  <2>5. CASE RemoveServer(k) /\ UNCHANGED <<clients, completions, next_generation, issued>>
    BY <2>5, RemoveServerPreserves
  <2> QED  BY <1>8, <2>2, <2>3, <2>4, <2>5 DEF complete_at, completionVars
<1>9. ASSUME NEW token \in issued, NEW status \in Codes, respond_server(token, status) PROVE FenceInv'
  <2>1. token.key \in Keys  BY DEF TablesOK
  <2>2. PICK k \in Keys : k = token.key  BY <2>1
  <2>5. PICK t : t = ServerRespond(servers[k].t, status)  OBVIOUS
  <2>3. CASE \E r : Answers(r)
    BY <2>3, AnswersKeeps, KeptPreserves
  <2>4. CASE SetServer(k, t) /\ UNCHANGED <<clients, completions, next_generation, issued>>
    BY <2>4, SetServerKeeps, KeptPreserves
  <2> QED  BY <1>9, <2>2, <2>3, <2>4, <2>5 DEF respond_server, completionVars
<1>10. ASSUME NEW token \in issued, NEW timer \in ClientTimers, client_timer(token, timer) PROVE FenceInv'
  <2>1. token.key \in Keys  BY DEF TablesOK
  <2>2. PICK k \in Keys : k = token.key  BY <2>1
  <2>5. PICK c : c = ClientOnTimer(clients[k].t, timer)  OBVIOUS
  <2>3. CASE \E r : Answers(r)
    BY <2>3, AnswersKeeps, KeptPreserves
  <2>4. CASE SetClient(k, c) /\ UNCHANGED <<servers, completions, next_generation, issued>>
    BY <2>4, SetClientKeeps, KeptPreserves
  <2> QED  BY <1>10, <2>2, <2>3, <2>4, <2>5 DEF client_timer, completionVars
<1>11. ASSUME NEW token \in issued, NEW timer \in ServerTimers, server_timer(token, timer) PROVE FenceInv'
  <2>1. token.key \in Keys  BY DEF TablesOK
  <2>2. PICK k \in Keys : k = token.key  BY <2>1
  <2>5. PICK t : t = ServerOnTimer(servers[k].t, timer)  OBVIOUS
  <2>3. CASE \E r : Answers(r)
    BY <2>3, AnswersKeeps, KeptPreserves
  <2>4. CASE SetServer(k, t) /\ UNCHANGED <<clients, completions, next_generation, issued>>
    BY <2>4, SetServerKeeps, KeptPreserves
  <2> QED  BY <1>11, <2>2, <2>3, <2>4, <2>5 DEF server_timer, completionVars
<1>12. CASE UNCHANGED vars
  BY <1>12, KeptPreserves DEF vars, completionVars, GenerationsKept, TablesOK
<1>13. ASSUME NEW expired, sweep_completions(expired) PROVE FenceInv'
  BY <1>3, <1>13 DEF sweep_completions
<1>14. ASSUME NEW k \in Keys, route_request(k) PROVE FenceInv'
  <2>1. \E r : Answers(r)  BY <1>14 DEF route_request
  <2> QED  BY <2>1, AnswersKeeps, KeptPreserves
<1> QED
  BY <1>1, <1>2, <1>4, <1>5, <1>6, <1>7, <1>8, <1>9, <1>10, <1>11, <1>12, <1>13, <1>14 DEF Next

\* Starting transactions, routing, timers, removal and completion in any order
\* never give a generation out twice (TransactionManager::token).
THEOREM GenerationsAlwaysFresh == Spec => []GenerationsFresh
<1>1. FenceInv => GenerationsFresh  BY DEF FenceInv
<1> QED  BY <1>1, FenceInit, FenceStep, PTL DEF Spec

\* A tombstone always belongs to an earlier transaction than the live one under
\* the same key (complete_at, CompletionStore::retain).
THEOREM TombstonesAlwaysOlder == Spec => []TombstoneIsOlder
<1>1. FenceInv => TombstoneIsOlder  BY DEF FenceInv
<1> QED  BY <1>1, FenceInit, FenceStep, PTL DEF Spec

-----------------------------------------------------------------------------
(* Tokens. *)

\* What a step may do to the tables under the token it was called with.
OnlyTheTokensOwn ==
    called' # NoToken =>
        \A k \in Keys :
            /\ clients'[k] # clients[k] => called' = Token(k, clients[k].gen, "Client")
            /\ servers'[k] # servers[k] => called' = Token(k, servers[k].gen, "Server")

\* An operation that only answers changes no entry.
LEMMA AnswersHarmless == ASSUME NEW r, Answers(r) PROVE OnlyTheTokensOwn
BY DEF Answers, tableVars, OnlyTheTokensOwn

\* A client step on a token of the entry's generation changes that entry only.
LEMMA ClientTokenHarmless ==
    ASSUME TablesOK, NEW token \in issued, called' = token, token.role = "Client",
           clients[token.key].gen = token.gen, NEW e,
           clients' = [clients EXCEPT ![token.key] = e], UNCHANGED servers
    PROVE  OnlyTheTokensOwn
<1>1. token = Token(token.key, clients[token.key].gen, "Client") /\ token.key \in Keys
  BY DEF TablesOK, Token
<1>2. \A k \in Keys : k # token.key => clients'[k] = clients[k]
  BY DEF TablesOK
<1> QED  BY <1>1, <1>2 DEF OnlyTheTokensOwn

\* A server step on a token of the entry's generation changes that entry only.
LEMMA ServerTokenHarmless ==
    ASSUME TablesOK, NEW token \in issued, called' = token, token.role = "Server",
           servers[token.key].gen = token.gen, NEW e,
           servers' = [servers EXCEPT ![token.key] = e], UNCHANGED clients
    PROVE  OnlyTheTokensOwn
<1>1. token = Token(token.key, servers[token.key].gen, "Server") /\ token.key \in Keys
  BY DEF TablesOK, Token
<1>2. \A k \in Keys : k # token.key => servers'[k] = servers[k]
  BY DEF TablesOK
<1> QED  BY <1>1, <1>2 DEF OnlyTheTokensOwn

\* Every step changes at most the entry its token was issued for.
LEMMA TokenStep == FenceInv /\ [Next]_vars => OnlyTheTokensOwn \/ UNCHANGED vars
<1> SUFFICES ASSUME FenceInv, Next PROVE OnlyTheTokensOwn  OBVIOUS
<1> USE DEF FenceInv
<1>1. ASSUME called' = NoToken PROVE OnlyTheTokensOwn
  BY <1>1 DEF OnlyTheTokensOwn
<1>2. ASSUME NEW token \in issued, remove(token) \/ complete_at(token) PROVE OnlyTheTokensOwn
  <2>1. CASE \E r : Answers(r)  BY <2>1, AnswersHarmless
  <2>2. CASE token.role = "Client" /\ Matches(clients, token) /\ RemoveClient(token.key) /\ UNCHANGED servers
    <3>1. PICK e : e = NoClient(token.key)  OBVIOUS
    <3>2. called' = token  BY <1>2 DEF remove, complete_at
    <3> QED  BY <2>2, <3>1, <3>2, ClientTokenHarmless DEF Matches, RemoveClient
  <2>3. CASE token.role = "Server" /\ Matches(servers, token) /\ RemoveServer(token.key) /\ UNCHANGED clients
    <3>1. PICK e : e = NoServer(token.key)  OBVIOUS
    <3>2. called' = token  BY <1>2 DEF remove, complete_at
    <3> QED  BY <2>3, <3>1, <3>2, ServerTokenHarmless DEF Matches, RemoveServer
  <2> QED  BY <1>2, <2>1, <2>2, <2>3 DEF remove, complete_at, CompleteClient
<1>3. ASSUME NEW token \in issued, NEW status \in Codes, respond_server(token, status) PROVE OnlyTheTokensOwn
  <2>1. CASE \E r : Answers(r)  BY <2>1, AnswersHarmless
  <2>2. PICK t : t = ServerRespond(servers[token.key].t, status)  OBVIOUS
  <2>3. CASE token.role = "Server" /\ Verify(servers, token) = "Ok" /\ SetServer(token.key, t) /\ UNCHANGED clients
    <3>1. PICK e : e = Entry(servers[token.key].gen, t)  OBVIOUS
    <3>2. called' = token  BY <1>3 DEF respond_server, completionVars
    <3> QED  BY <2>3, <3>1, <3>2, ServerTokenHarmless DEF Verify, SetServer
  <2> QED  BY <1>3, <2>1, <2>2, <2>3 DEF respond_server, completionVars
<1>4. ASSUME NEW token \in issued, NEW timer \in ClientTimers, client_timer(token, timer) PROVE OnlyTheTokensOwn
  <2>1. CASE \E r : Answers(r)  BY <2>1, AnswersHarmless
  <2>2. PICK c : c = ClientOnTimer(clients[token.key].t, timer)  OBVIOUS
  <2>3. CASE token.role = "Client" /\ Verify(clients, token) = "Ok" /\ SetClient(token.key, c) /\ UNCHANGED servers
    <3>1. PICK e : e = Entry(clients[token.key].gen, c)  OBVIOUS
    <3>2. called' = token  BY <1>4 DEF client_timer, completionVars
    <3> QED  BY <2>3, <3>1, <3>2, ClientTokenHarmless DEF Verify, SetClient
  <2> QED  BY <1>4, <2>1, <2>2, <2>3 DEF client_timer, completionVars
<1>5. ASSUME NEW token \in issued, NEW timer \in ServerTimers, server_timer(token, timer) PROVE OnlyTheTokensOwn
  <2>1. CASE \E r : Answers(r)  BY <2>1, AnswersHarmless
  <2>2. PICK t : t = ServerOnTimer(servers[token.key].t, timer)  OBVIOUS
  <2>3. CASE token.role = "Server" /\ Verify(servers, token) = "Ok" /\ SetServer(token.key, t) /\ UNCHANGED clients
    <3>1. PICK e : e = Entry(servers[token.key].gen, t)  OBVIOUS
    <3>2. called' = token  BY <1>5 DEF server_timer, completionVars
    <3> QED  BY <2>3, <3>1, <3>2, ServerTokenHarmless DEF Verify, SetServer
  <2> QED  BY <1>5, <2>1, <2>2, <2>3 DEF server_timer, completionVars
<1>6. ASSUME NEW k \in Keys, NEW reliable \in BOOLEAN,
             start_client(k, reliable) \/ start_server(k, reliable) \/ route_request(k) \/ route_ack(k)
      PROVE  called' = NoToken
  BY <1>6 DEF start_client, start_server, route_request, route_ack
<1>7. ASSUME NEW k \in Keys, NEW status \in Codes, route_response_at(k, status) PROVE called' = NoToken
  BY <1>7 DEF route_response_at
<1>8. ASSUME begin_shutdown PROVE called' = NoToken
  BY <1>8 DEF begin_shutdown
<1>9. ASSUME NEW expired, sweep_completions(expired) PROVE called' = NoToken
  BY <1>9 DEF sweep_completions
<1> QED  BY <1>1, <1>2, <1>3, <1>4, <1>5, <1>6, <1>7, <1>8, <1>9 DEF Next

\* A token, however old, acts on no other transaction than its own, whatever was
\* started under its key since (respond_server, client_timer, server_timer,
\* remove, complete_at).
THEOREM TokensFenced == Spec => StaleTokensHarmless
<1>1. FenceInv /\ [Next]_vars => [OnlyTheTokensOwn]_vars  BY TokenStep
<1> QED  BY <1>1, FenceInit, FenceStep, PTL DEF Spec, StaleTokensHarmless, OnlyTheTokensOwn

-----------------------------------------------------------------------------
(* Capacity. *)

\* The capacity bound, with the finiteness its cardinalities need.
CapacityInv ==
    /\ IsFiniteSet(Live(clients))
    /\ IsFiniteSet(Live(servers))
    /\ WithinCapacity

\* No step adds an entry.
Shrinks == Live(clients)' \subseteq Live(clients) /\ Live(servers)' \subseteq Live(servers)

\* A step that finds room adds one entry.
Grows ==
    /\ ~Full
    /\ \E k \in Keys : \/ Live(clients)' \subseteq Live(clients) \cup {k} /\ Live(servers)' = Live(servers)
                       \/ Live(servers)' \subseteq Live(servers) \cup {k} /\ Live(clients)' = Live(clients)

\* Losing entries keeps within the capacity.
LEMMA ShrinksPreserves == CapacityInv /\ Shrinks => CapacityInv'
<1> SUFFICES ASSUME CapacityInv, Shrinks PROVE CapacityInv'  OBVIOUS
<1>1. /\ IsFiniteSet(Live(clients)') /\ Cardinality(Live(clients)') <= Cardinality(Live(clients))
      /\ IsFiniteSet(Live(servers)') /\ Cardinality(Live(servers)') <= Cardinality(Live(servers))
  BY FS_Subset DEF CapacityInv, Shrinks
<1>2. /\ Cardinality(Live(clients)) \in Nat /\ Cardinality(Live(clients)') \in Nat
      /\ Cardinality(Live(servers)) \in Nat /\ Cardinality(Live(servers)') \in Nat
  BY <1>1, FS_CardinalityType DEF CapacityInv
<1> QED  BY <1>1, <1>2, MaximumAssumption DEF CapacityInv, WithinCapacity

\* One entry more keeps within the capacity when there was room.
LEMMA GrowsPreserves == CapacityInv /\ Grows => CapacityInv'
<1> SUFFICES ASSUME CapacityInv, Grows PROVE CapacityInv'  OBVIOUS
<1>1. PICK k \in Keys :
          \/ Live(clients)' \subseteq Live(clients) \cup {k} /\ Live(servers)' = Live(servers)
          \/ Live(servers)' \subseteq Live(servers) \cup {k} /\ Live(clients)' = Live(clients)
  BY DEF Grows
<1>2. ASSUME NEW S, NEW T, IsFiniteSet(S), T \subseteq S \cup {k}
      PROVE  /\ IsFiniteSet(T) /\ Cardinality(S) \in Nat /\ Cardinality(T) \in Nat
             /\ Cardinality(T) <= Cardinality(S) + 1
  <2>1. IsFiniteSet(S \cup {k}) /\ Cardinality(S \cup {k}) <= Cardinality(S) + 1 /\ Cardinality(S) \in Nat
    BY <1>2, FS_AddElement, FS_CardinalityType
  <2>2. IsFiniteSet(T) /\ Cardinality(T) <= Cardinality(S \cup {k})
    BY <1>2, <2>1, FS_Subset
  <2>3. Cardinality(T) \in Nat /\ Cardinality(S \cup {k}) \in Nat
    BY <2>1, <2>2, FS_CardinalityType
  <2> QED  BY <2>1, <2>2, <2>3
<1>3. Cardinality(Live(clients)) \in Nat /\ Cardinality(Live(servers)) \in Nat
  BY FS_CardinalityType DEF CapacityInv
<1>4. Cardinality(Live(clients)) + Cardinality(Live(servers)) < Maximum
  BY <1>3, MaximumAssumption DEF Grows, Full
<1>5. CASE Live(clients)' \subseteq Live(clients) \cup {k} /\ Live(servers)' = Live(servers)
  <2>1. /\ IsFiniteSet(Live(clients)') /\ Cardinality(Live(clients)') \in Nat
        /\ Cardinality(Live(clients)') <= Cardinality(Live(clients)) + 1
    BY <1>2, <1>5 DEF CapacityInv
  <2> QED  BY <1>3, <1>4, <1>5, <2>1, MaximumAssumption DEF CapacityInv, WithinCapacity
<1>6. CASE Live(servers)' \subseteq Live(servers) \cup {k} /\ Live(clients)' = Live(clients)
  <2>1. /\ IsFiniteSet(Live(servers)') /\ Cardinality(Live(servers)') \in Nat
        /\ Cardinality(Live(servers)') <= Cardinality(Live(servers)) + 1
    BY <1>2, <1>6 DEF CapacityInv
  <2> QED  BY <1>3, <1>4, <1>6, <2>1, MaximumAssumption DEF CapacityInv, WithinCapacity
<1> QED  BY <1>1, <1>5, <1>6

\* Keeping every generation keeps the live entries.
LEMMA KeptShrinks == GenerationsKept => Shrinks
BY DEF GenerationsKept, Shrinks, Live

\* Every step keeps or loses entries, or adds one where admit() found room.
LEMMA StepShape == FenceInv /\ [Next]_vars => Shrinks \/ Grows
<1> SUFFICES ASSUME FenceInv, [Next]_vars PROVE Shrinks \/ Grows  OBVIOUS
<1> USE DEF FenceInv
<1>1. ASSUME NEW r, Answers(r) PROVE Shrinks
  BY <1>1, AnswersKeeps, KeptShrinks
<1>2. ASSUME NEW k \in Keys, NEW reliable \in BOOLEAN, start_client(k, reliable) PROVE Shrinks \/ Grows
  <2>1. CASE \E r : Answers(r)  BY <2>1, <1>1
  <2>2. PICK c : c = ClientNew(method(k), reliable)  OBVIOUS
  <2>3. CASE /\ Admission(clients, k) = "Ok" /\ UNCHANGED servers
             /\ clients' = [clients EXCEPT ![k] = Entry(next_generation, c)]
    <3>1. ~Full  BY <2>3 DEF Admission
    <3>2. \A j \in Keys : j # k => clients'[j] = clients[j]  BY <2>3 DEF TablesOK
    <3> QED  BY <2>3, <3>1, <3>2 DEF Grows, Live
  <2> QED  BY <1>2, <2>1, <2>2, <2>3 DEF start_client, completionVars
<1>3. ASSUME NEW k \in Keys, NEW reliable \in BOOLEAN, start_server(k, reliable) PROVE Shrinks \/ Grows
  <2>1. CASE \E r : Answers(r)  BY <2>1, <1>1
  <2>2. PICK t : t = ServerNew(method(k), reliable)  OBVIOUS
  <2>3. CASE /\ Admission(servers, k) = "Ok" /\ UNCHANGED clients
             /\ servers' = [servers EXCEPT ![k] = Entry(next_generation, t)]
    <3>1. ~Full  BY <2>3 DEF Admission
    <3>2. \A j \in Keys : j # k => servers'[j] = servers[j]  BY <2>3 DEF TablesOK
    <3> QED  BY <2>3, <3>1, <3>2 DEF Grows, Live
  <2> QED  BY <1>3, <2>1, <2>2, <2>3 DEF start_server, completionVars
<1>4. ASSUME UNCHANGED <<clients, servers>> PROVE Shrinks
  BY <1>4 DEF Shrinks, Live
<1>5. ASSUME NEW k \in Keys, NEW c, SetClient(k, c), UNCHANGED servers PROVE Shrinks
  BY <1>5 DEF SetClient, Entry, Shrinks, Live, TablesOK
<1>6. ASSUME NEW k \in Keys, NEW t, SetServer(k, t), UNCHANGED clients PROVE Shrinks
  BY <1>6 DEF SetServer, Entry, Shrinks, Live, TablesOK
<1>7. ASSUME NEW k \in Keys, RemoveClient(k), UNCHANGED servers PROVE Shrinks
  BY <1>7 DEF RemoveClient, NoClient, Entry, Shrinks, Live, TablesOK
<1>8. ASSUME NEW k \in Keys, RemoveServer(k), UNCHANGED clients PROVE Shrinks
  BY <1>8 DEF RemoveServer, NoServer, Entry, Shrinks, Live, TablesOK
<1>9. ASSUME NEW token \in issued PROVE token.key \in Keys
  BY DEF TablesOK
<1>10. ASSUME NEW expired, sweep_completions(expired) PROVE Shrinks
  BY <1>4, <1>10 DEF sweep_completions
<1>11. ASSUME NEW k \in Keys, route_ack(k) PROVE Shrinks
  <2>1. PICK t : t = ServerAck(servers[k].t)  OBVIOUS
  <2> QED  BY <1>1, <1>6, <1>11, <2>1 DEF route_ack, completionVars
<1>12. ASSUME begin_shutdown PROVE Shrinks
  BY <1>4, <1>12 DEF begin_shutdown, tableVars
<1>13. ASSUME NEW k \in Keys, NEW status \in Codes, route_response_at(k, status) PROVE Shrinks
  <2>1. PICK c : c = ClientReceive(clients[k].t, status)  OBVIOUS
  <2> QED  BY <1>1, <1>4, <1>5, <1>13, <2>1 DEF route_response_at
<1>14. ASSUME NEW token \in issued, remove(token) \/ complete_at(token) PROVE Shrinks
  BY <1>1, <1>7, <1>8, <1>9, <1>14 DEF remove, complete_at, CompleteClient
<1>15. ASSUME NEW token \in issued, NEW status \in Codes, respond_server(token, status) PROVE Shrinks
  <2>1. PICK t : t = ServerRespond(servers[token.key].t, status)  OBVIOUS
  <2> QED  BY <1>1, <1>6, <1>9, <1>15, <2>1 DEF respond_server, completionVars
<1>16. ASSUME NEW token \in issued, NEW timer \in ClientTimers, client_timer(token, timer) PROVE Shrinks
  <2>1. PICK c : c = ClientOnTimer(clients[token.key].t, timer)  OBVIOUS
  <2> QED  BY <1>1, <1>5, <1>9, <1>16, <2>1 DEF client_timer, completionVars
<1>17. ASSUME NEW token \in issued, NEW timer \in ServerTimers, server_timer(token, timer) PROVE Shrinks
  <2>1. PICK t : t = ServerOnTimer(servers[token.key].t, timer)  OBVIOUS
  <2> QED  BY <1>1, <1>6, <1>9, <1>17, <2>1 DEF server_timer, completionVars
<1>18. CASE UNCHANGED vars
  BY <1>4, <1>18 DEF vars
<1>19. ASSUME NEW k \in Keys, route_request(k) PROVE Shrinks
  BY <1>1, <1>19 DEF route_request
<1> QED
  BY <1>2, <1>3, <1>10, <1>11, <1>12, <1>13, <1>14, <1>15, <1>16, <1>17, <1>18, <1>19 DEF Next

\* Initially both tables are empty.
LEMMA CapacityInit == Init => CapacityInv
<1> SUFFICES ASSUME Init PROVE CapacityInv  OBVIOUS
<1>1. Live(clients) = {} /\ Live(servers) = {}
  BY DEF Init, Live, NoClient, NoServer, Entry
<1> QED  BY <1>1, FS_EmptySet, MaximumAssumption DEF CapacityInv, WithinCapacity

\* Clients and servers together never exceed the configured capacity, whatever
\* the keys and however many (TransactionManager::admit).
THEOREM CapacityHolds == Spec => []WithinCapacity
<1>1. FenceInv /\ CapacityInv /\ [Next]_vars => CapacityInv'
  BY StepShape, ShrinksPreserves, GrowsPreserves
<1>2. CapacityInv => WithinCapacity  BY DEF CapacityInv
<1> QED  BY <1>1, <1>2, FenceInit, FenceStep, CapacityInit, PTL DEF Spec
=============================================================================
