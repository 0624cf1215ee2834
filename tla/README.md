# A TLA+ model of LiveAISIP

LiveAISIP is an outbound SIP/RTP runtime in Rust. One call is one operating
system thread that exclusively owns one `CallRuntime`; everything outside the
thread talks to it through a bounded mailbox and reads from it through bounded
queues of observations. This directory models that system, checks it with TLC on
small instances and proves the central properties with TLAPS for every instance.

Source paths below are relative to `src/src/`.

## 1. The parts of the system

| Part | State it keeps | Operations | What makes it correct |
|---|---|---|---|
| Call lifecycle (`call/model`) | call state, fork set, selected branch, cancel flags | one per call event, `force_end` | an answer is kept or hung up, a hangup beats a later answer, the end is final |
| Deadline scheduler (`call/execution/deadline.rs`) | heap with tombstones, active set, next id | schedule, cancel, poll, next_deadline | bounded, no armed deadline lost, each fires once, in order |
| Call mailbox and handle (`call/execution/handle.rs`) | reserved depth, channel, wake pipe, status, join slot | submit, request_shutdown, receive, drop | bounded, a shutdown always finds room, no lost wakeup |
| Call thread (`call/execution/thread.rs`) | backlog, mailbox_open, shutdown flags | run loop, panic containment, cleanup | every message is handled, the thread ends, cleanup happens once |
| Call runtime (`call/execution/runtime.rs`) | context, signaling, media, deadlines, shutdown deadline | handle, poll_signaling, process_due_deadlines, begin_shutdown | protocol effects executed in order, bounded shutdown |
| Call manager (`call/execution/manager.rs`) | token table, capacity, accepting flag | spawn, submit, remove, reap, shutdown_all | generation-fenced tokens, capacity |
| Call reactor (`call/execution/reactor.rs`) | registered sources, wake pipe | wait, wake, drain | no lost wakeup |
| Signaling engine (`call/signaling`) | INVITE template, transactions, dialogs, timers, auth attempt | start, poll, execute_call_actions, on_deadline | ACK every 2xx, CANCEL/BYE reach the wire, stale timers harmless |
| Transactions (`sip/transaction`) | client and server machines, tokens, tombstones | insert, start, route, respond, timer, complete, sweep | RFC 3261 state machines, generation fencing, replay of final responses |
| Dialogs (`sip/dialog`) | dialog table, CSeq, route set, RSeq, session timer, subscriptions | insert, confirm, next CSeq, observe, refresh | CSeq order, PRACK matching, refresh before expiry |
| SDP offer/answer (`sip/sdp`) | negotiation generation, pending offer | begin, complete, abort | no glare, stale answers rejected |
| Authentication (`sip/auth`) | nonce counts, challenge, cache | challenge, response | nonce count never reused |
| Call media (`call/media`) | sessions by generation, offers, hold state | create offer, apply answer, replace, close | transactional replacement, stale generation fenced |
| Media formats (`media`) | codecs, payload types, clock | encode/decode tables | pure data |
| Port allocator (`rtp/transport/allocator.rs`) | bitmap, cursor | allocate, reserve, release, lease drop | a pair has one owner, release once |
| Symmetric RTP (`rtp/transport/symmetric.rs`) | learned and candidate source per component | observe, validate, reset | no re-latching without proof |
| RTP sequence statistics (`rtp/stats`) | cycles, max sequence, probation | observe, snapshot | wrap-around, loss counts |
| RTP source registry, queue, liveness (`rtp`) | sources, queue, last activity | observe, push/pop, poll | bounded, oldest dropped, timeout |
| DTMF (`rtp/dtmf`) | active event, retransmissions | observe, send | one report per key press |
| RTP session and packets (`rtp/session`, `rtp/packet`, `rtp/security`) | SSRC, send/receive state, RTCP schedule | send, receive, tick | parsing, RTCP interval |
| Admission (`runtime/admission`) | active count, accepting flag, leases, retry suppression | try_admit, drop, close | never more leases than the limit, released once |
| Runtime engine, service, worker, shutdown (`runtime`) | engine state, notification queue, terminal outcomes, phases | dial, pump, acknowledge, drain, force | outcomes queryable until acknowledged, drain ends |
| SIP transport (`sip/transport`) | connections, flows, failover targets, backoff, reactor commands | open, send, close, retry, poll | ordered failover, bounded queues, one owner per flow |
| SIP message layer (`sip/types`, `sip/headers`, `sip/parser`, `sip/serializer`, `sip/validation`, `sip/builder`) | none (pure functions over bytes) | parse, print, validate, build | round trip, bounds |
| Network primitives, utilities, observability (`net`, `util`, `observability`) | addresses, clocks, timeline | bounded helpers | pure or I/O |

### How they interact

`RuntimeService` and `CallEngine` admit a call, spawn it through the call manager
and submit `Start`. The call thread loops: due deadlines, ready sockets, up to 64
commands, then a wait. Network input becomes call events in the signaling engine
(through the transaction and dialog tables), the lifecycle turns events into
actions, and the runtime hands the actions back to the signaling engine, which
starts transactions and arms deadlines. Everything observable is published after
the fact, through bounded queues. Dropping the thread's resources releases its
admission lease and its ports.

### The behaviours that are hard here

* CANCEL crossing a 200, several forks answering, retransmitted and reordered
  responses, a BYE racing a BYE.
* Timers that were cancelled or replaced after they were already due.
* Tokens (transaction, dialog, call, media, offer) used after the slot was reused.
* Mailbox full, shutdown slot, wakeups between "queue is empty" and "sleep".
* Shutdown in any state, with transactions already fenced.
* A failing step among several (an answer that cannot be inserted, a media
  answer without a pending offer).
* Panics and errors while resources are held.

## 2. The modules and the code they stand for

Every definition that models code is listed with its lines in `PROJECT.json`
under "map"; an action is one whole handler, or one step of it where another
thread can come in between. Operators whose names end in `Mutant` are the bugs
the properties are tried against: they stand before the definition they would
replace and are used nowhere.

| Module | Stands for | Uses |
|---|---|---|
| `DeadlineSet` | what a scheduler promises: a set of armed deadlines, the earliest due one is returned | |
| `DeadlineScheduler` | `deadline.rs`: heap, tombstones, compaction, identifiers | refines `DeadlineSet` |
| `CallLifecycle` | `lifecycle.rs`, `branch.rs`: one action per arm of `handle`, and `force_end` | |
| `TransactionMachines` | the four RFC 3261 machines of `client.rs` and `server.rs` as functions on records | |
| `TransactionManager` | `manager.rs`, `completion.rs`: registry, tokens, capacity, tombstones | `TransactionMachines` |
| `CallSignaling` | one call at work: `run_call`, `CallRuntime` and `UdpSignaling` against the network | `CallLifecycle`, `TransactionMachines` |
| `CallMailbox` | `handle.rs`, `reactor.rs` and the loop of `thread.rs`, at the grain of atomics, channel and pipe | |
| `RuntimeWorker` | `runtime/` above the calls, with `manager.rs` and the admission gate | |
| `*Proofs` | the theorems about the module they are named after | |
| `MC*` | the instance TLC checks | |

**DeadlineScheduler.** `heap` and `active` are the fields of the same names; a
cancelled deadline leaves `active` and stays in `heap` as a tombstone until a
poll, a `next_deadline` or the compaction of `schedule` drops it. `spent` is
history: how each identifier left.

**CallLifecycle.** `state`, `reason`, the branches, `selected`, the cancel flags
and `last_status` are the struct's fields. `actions` and `error` are what the
last call to `handle` returned; `byed` is the history of the BYEs it asked for.

**TransactionMachines and TransactionManager.** A machine is a record of its
state, its armed timers and what it retains. The manager maps keys to entries
with a generation; tokens are pairs of key and generation, and every token ever
issued may be used at any later time, which is how a stale timer or a late
response reaches the manager.

**CallSignaling.** A turn of `run_call` is the phases `deadlines`, `poll`,
`apply` and `commands`. A poll takes a batch of responses and requests out of
the network, moves the transactions and dialogs, and leaves outcomes; `apply`
feeds these to the lifecycle one at a time and executes the actions. The
network offers any response any fork may have sent, again and in any order, so
loss is a response that is never taken and duplication one that is taken twice.
An error anywhere ends the thread with `Failed`, as the `?` of the loop does:
a request behind the fence, a message that cannot be sent, a challenge that
`AuthContext::install` refuses, a media answer without an offer.
`slots` holds, for 401 and for 407, whether a challenge is installed and how often
it was recovered as stale; a challenge is fresh, stale, repeated or unusable. A
remote BYE has a CSeq, which its dialog accepts only when it is higher than the
last. A media answer is a member of `Sessions` (a negotiated session with its
remote address, which is what the code compares), disabled, unusable or absent.

**CallMailbox.** A submission is three steps (reservation, channel, byte in the
wake pipe) and so is a receive; the thread's loop, its two checks of the
mailbox, its wait and the drain of the pipe are separate steps too. Handles may
be dropped at any time, in the order their fields are.

**RuntimeWorker.** The worker is one thread, but each place where it looks at a
call thread (a receive, a status, a join) is a step of its own, because the call
thread goes on: it publishes, cleans up, announces its end, closes its queues
and returns. In particular the pump finds a queue empty in one step and reads the
status in the next. `maximum`, the configured number of calls, is chosen at the
start and never changes.

## 3. What TLC checks

| Run | Distinct states | Question |
|---|---|---|
| `deadline` | 12,421 | Is the heap bounded, is no armed deadline lost, does each leave once, and is it a set of deadlines? |
| `lifecycle` | 2,704 | In every order of events, is an answer kept or hung up, and is the end final? |
| `transactions` | 117,613 | Are generations fresh, stale tokens harmless, tombstones older and timers meaningful? |
| `signaling_forks` | 1,018,147 | Two forks against hangup and shutdown: timers, ACKs, BYEs, and the media of the selected fork |
| `signaling_auth` | 402,061 | Retries against CANCEL and answers; does a shutdown start nothing and end? |
| `mailbox` | 379,841 | Wakeups, the shutdown slot, the count, the end of the thread |
| `worker` | 996,350 | Leases, registries, outcomes, order of notifications, the end of a drain |
| `observed_unexecuted`, `surplus_bye`, `inviting_alone`, `terminating_alone`, `retry_uncancelled` | | five statements of the repository that the code does not keep (section 6) |

### Bounds, and why they are enough to see the cases

* `deadline`: capacity 2 and five identifiers fill the heap with tombstones and
  force the compaction more than once; two instants order the deadlines and let
  two be due together.
* `lifecycle`: three branches where two fit reach the branch limit, a second
  answer and a late one. Branches are interchangeable, and the run has no
  liveness, so symmetry is sound.
* `transactions`: room for one live transaction makes clients and servers
  compete and fills the tombstone store; four generations reuse a key twice.
* signaling: two forks where the question is about forks, one where it is not;
  batches of two events, since the order within a poll matters. `MaxHangups`
  bounds the commands and `MaxByes` the CSeq of a remote BYE: two BYEs of one
  dialog can both be accepted in one poll. `MaxTx` and `MaxInvites` bound the
  transactions a behaviour starts: beyond them no hangup is submitted, and no 2xx
  and no challenge is received that would make the call start another one.
  Challenges that start nothing are received at any time: in `signaling_auth` the
  second INVITE is challenged again, by the same or by the other scope, and the
  repeated nonce, the unusable challenge and the stale one that exceeds the limit
  all end the call. The limit is 0 there so that two INVITEs exceed it (the code has
  2); `retry_uncancelled` has three INVITEs. The only status a BYE gets in
  the passing runs is 200; `terminating_alone` shows what another one does.
  Two sessions let an answer repeat the early media or change it; a 2xx without a
  body is in `signaling_auth`. The run with liveness uses no symmetry.
* `mailbox`: two events and two shutdowns, capacity 2, a pipe of one byte and a
  batch of one: mailbox, pipe and batch all run full.
* `worker`: two identities and two generations, with room for one call or for
  two: with one, an outcome that was not acknowledged keeps the second call out.
  A queue of two notifications overflows. Two batches are published in all and a
  pump reads one per call, so that a batch can be left behind by the limit, or
  come after the queue was found empty, and be dropped with the call.

### Fairness

* A running thread goes on: weak fairness on the steps of the call thread's loop
  and on the worker's operation in progress. The application calls `poll`
  again and again; it owes nothing else (no reading, no acknowledging, no
  hangup).
* A submitter that holds a reservation finishes its submission, and a drop that
  began is completed, since neither blocks.
* Time passes: the grace deadlines expire.
* A call that was asked to shut down ends. This is what `ShutdownEnds` shows of
  `CallSignaling` and `ShutdownRequestEnds` of `CallMailbox`; `RuntimeWorker`
  takes it as an assumption on threads that were asked. A call that was not
  asked may run for ever.
* The network owes nothing.

## 4. What is proved

The theorems hold for every value of the constants that the named assumptions
allow. The properties they
state were checked by TLC on the instances above first.

**DeadlineSchedulerProofs.** `IInv` is the type invariant with `HeapBounded`,
`ActiveInHeap`, `SpentOnce` and `SpentBelowNext`. The last one is the
strengthening: an identifier is spent or in the heap only if it was handed out,
so a fresh one cannot collide. From it: `HeapStaysBounded`,
`NoArmedDeadlineLost`, `SpentAtMostOnce`, and `SchedulerImplementsSet`, where
the refinement maps the heap to its entries that are still active.

**CallLifecycleProofs.** `LifecycleInv` adds `StateMatchesFlags` (which flags go
with which state) to the safety properties. `EveryAnswerKeptOrHungUp`,
`HangupPrevails` and `FailureLeavesNothing` are its conjuncts for any number of
forks; `LifecycleOnlyForward` is an action property of the same invariant.

**TransactionManagerProofs.** `GenerationsAlwaysFresh` needs only that every
generation in use is below the next one; `TombstonesAlwaysOlder` and
`TokensFenced` rest on it. `CapacityHolds` is about the cardinality of two sets
of keys and uses the theorems on finite sets.

**CallMailboxProofs.** `MailboxInv` says where each message is and that the
depth counts those that hold a reservation; `MailboxCounts` and
`ShutdownNeverCrowdedOut` follow, the latter because a full mailbox without a
shutdown would hold more events than there is room for. `WakeInv` relates the
loop's position to the pipe and gives `WakeupsNeverLost`.

**Only model-checked.** Liveness (`EveryDeadlineLeaves`, `ShutdownEnds`,
`ShutdownRequestEnds`, `MailboxDrains`, `DrainEnds`) and anything with ENABLED
is outside the prover's reach, as are facts by induction over data and modules
with recursive operators. The properties of `CallSignaling` and `RuntimeWorker`
are safety properties that could be proved and have not been yet.

## 5. What is left out

* The message layer, packets and formats are functions over bytes; the models
  have message classes.
* Allocation failure (`try_reserve`) is not modelled anywhere.
* In `CallSignaling`: inbound requests other than BYE (answered without an
  event), retransmissions of our own requests, socket errors while receiving or
  retransmitting (they only end the call, as a send that fails does), the nonce
  count (a retry always follows an installed challenge, so it is 1), RTP sockets
  and the media clock, call-owned deadlines that nothing schedules.
* In `CallMailbox`: the variant for systems without `poll`, joining, counters.
* In `RuntimeWorker`: commands to running calls (they are `CallMailbox`),
  snapshots, and a join that fails because a panic escaped both guards.
* The parts listed as `not_modelled` in `PROJECT.json`, with the reason there.

## 6. Where the code and its documentation disagree

* `observed_unexecuted`: when a call with a live INVITE or dialog is shut down,
  the CANCEL or BYE the lifecycle asks for is published and never sent
  (`runtime.rs:786`), while a notification is described as produced "after
  internal effects executed".
* `inviting_alone`: one tag rings, the INVITE fails with the tag of another. The
  branch that rang counts as live for ever (`lifecycle.rs:204`), so the call stays
  `Inviting`, "Initial INVITE is outstanding" (`state.rs:22`), with no INVITE and
  no timer. After a hangup it is `Cancelling` in the same way. The same test in
  `bye_completed` (`lifecycle.rs:219`) keeps a call `Terminating` after every BYE was
  confirmed when one fork only rang.
* `terminating_alone`: a BYE that is refused is not reported to the lifecycle
  (`wire.rs:86`). The call stays `Terminating`, "BYE cleanup is in progress"
  (`state.rs:28`), with no BYE and no timer; only a shutdown ends it.
* `retry_uncancelled`: a challenge that crosses the CANCEL is answered with a new
  INVITE (`engine.rs:911`), which nothing cancels: the lifecycle has sent its CANCEL.
  `events.rs:115` says of a hangup "Cancel an outstanding attempt or BYE an
  established call." With further challenges there are further such attempts.
* `surplus_bye`: a BYE from a fork that was not selected ends the established
  call, and the selected dialog gets no BYE (`engine.rs:529`).

## 7. Plan

1. The transport service (`sip/transport/service`, `manager.rs`, `model/`):
   queues, the in-flight message and what a failed write reports; failover with
   retained attempts; dial backoff. Abstract specification: every admitted
   message is reported as committed, unknown or not sent, once.
2. The media controller with the offer arbiter: generations, stale answers,
   drain and close; then the composition with `CallSignaling`, where a media
   answer is now a single value.
3. Dialogs: CSeq order, RSeq and PRACK, the session timer.
4. RTP: port pool with leases, source registry and symmetric latching, sequence
   numbers with a small modulus, telephone events, queue and liveness.
5. Pure algorithms against reference definitions: sequence arithmetic, offer
   answering, framing, the header validation tables.
6. Proofs: `RuntimeWorker` (leases and registries), the safety properties of
   `CallSignaling` that do not depend on the network's bounds, and the modules
   above as they come.
