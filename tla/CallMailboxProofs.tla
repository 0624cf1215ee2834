-------------------------- MODULE CallMailboxProofs --------------------------
(***************************************************************************)
(* Proofs that the mailbox counts its reservations exactly, keeps the slot *)
(* for a shutdown and loses no wakeup, for any number of submissions and   *)
(* any capacities.                                                         *)
(***************************************************************************)
EXTENDS CallMailbox, FiniteSetTheorems, SequenceTheorems, TLAPS

AtStates == {"before", "send", "notify", "ok", "full", "closed"}

Sent == {"notify", "ok"}

\* Where a message is: each one is queued at most once, only after it was sent,
\* and the one the thread has just taken is no longer queued.
PlacesOK ==
    /\ at \in [Messages -> AtStates]
    /\ queue \in Seq(Messages)
    /\ \A i, j \in 1 .. Len(queue) : queue[i] = queue[j] => i = j
    /\ \A i \in 1 .. Len(queue) : at[queue[i]] \in Sent
    /\ pc = "release" => /\ hand \in Messages /\ at[hand] \in Sent
                         /\ \A i \in 1 .. Len(queue) : queue[i] # hand

\* What the count is, while there is a receiver.
CountOK ==
    receiver_open => /\ depth = Cardinality(Held)
                     /\ depth <= Capacity
                     /\ Cardinality(Held \cap Events) <= Capacity - 1

\* The inductive invariant.
MailboxInv == PlacesOK /\ CountOK

\* The messages in the channel.
Queued == {queue[i] : i \in 1 .. Len(queue)}

-----------------------------------------------------------------------------
(* Facts about Held. *)

LEMMA MessagesFinite == IsFiniteSet(Messages)
BY MessagesAssumption, FS_Union DEF Messages

\* What Held is made of.
LEMMA HeldIs ==
    ASSUME PlacesOK
    PROVE  /\ \A m : m \in Held <=>
                  \/ m \in Messages /\ at[m] = "send"
                  \/ m \in Queued
                  \/ pc = "release" /\ m = hand
           /\ Queued \subseteq Messages
           /\ Held \subseteq Messages
<1>1. DOMAIN queue = 1 .. Len(queue)
  BY DEF PlacesOK
<1>2. Queued \subseteq Messages
  BY DEF PlacesOK, Queued
<1> QED
  BY <1>1, <1>2 DEF PlacesOK, Held, Queued

\* The same after a step.
LEMMA HeldIsNext ==
    ASSUME PlacesOK'
    PROVE  \A m : m \in Held' <=>
               \/ m \in Messages /\ at'[m] = "send"
               \/ m \in Queued'
               \/ pc' = "release" /\ m = hand'
<1>1. DOMAIN queue' = 1 .. Len(queue')
  BY DEF PlacesOK
<1> QED
  BY <1>1 DEF PlacesOK, Held, Queued

LEMMA HeldFinite ==
    ASSUME PlacesOK
    PROVE  IsFiniteSet(Held) /\ Cardinality(Held) \in Nat
<1>1. Held \subseteq Messages
  BY HeldIs
<1> QED
  BY <1>1, MessagesFinite, FS_Subset, FS_CardinalityType

\* The channel holds no more messages than there are reservations.
LEMMA QueuedFits ==
    ASSUME PlacesOK
    PROVE  /\ IsFiniteSet(Queued)
           /\ Cardinality(Queued) = Len(queue)
           /\ Len(queue) \in Nat
<1>1. Len(queue) \in Nat /\ queue \in [1 .. Len(queue) -> Queued]
  BY DEF PlacesOK, Queued
<1>2. queue \in Surjection(1 .. Len(queue), Queued)
  BY <1>1 DEF Surjection, Queued
<1>3. queue \in Injection(1 .. Len(queue), Queued)
  BY <1>1 DEF Injection, IsInjective, PlacesOK
<1>4. IsFiniteSet(1 .. Len(queue)) /\ Cardinality(1 .. Len(queue)) = Len(queue)
  BY <1>1, FS_Interval
<1> QED
  BY <1>1, <1>2, <1>3, <1>4, FS_Surjection

\* The count after a step that adds no reservation.
LEMMA CountKept ==
    ASSUME PlacesOK, CountOK, PlacesOK', Held' = Held, depth' = depth, receiver_open' => receiver_open
    PROVE  CountOK'
BY DEF CountOK

\* The count after a reservation was taken for m.
LEMMA CountTaken ==
    ASSUME PlacesOK, CountOK, PlacesOK', NEW m \in Messages, m \notin Held,
           Held' = Held \cup {m}, depth < Limit(m), depth' = depth + 1,
           receiver_open' => receiver_open
    PROVE  CountOK'
<1> SUFFICES ASSUME receiver_open, receiver_open' PROVE CountOK'
  BY DEF CountOK
<1>1. /\ IsFiniteSet(Held) /\ Cardinality(Held) \in Nat
      /\ Cardinality(Held') = Cardinality(Held) + 1
  BY HeldFinite, FS_AddElement
<1>2. /\ IsFiniteSet(Held \cap Events) /\ Cardinality(Held \cap Events) \in Nat
      /\ Cardinality(Held \cap Events) <= Cardinality(Held)
  BY <1>1, FS_Subset, FS_CardinalityType
<1>3. CASE m \in Events
  <2>1. Held' \cap Events = (Held \cap Events) \cup {m} /\ m \notin Held \cap Events
    BY <1>3
  <2>2. Cardinality(Held' \cap Events) = Cardinality(Held \cap Events) + 1
    BY <1>2, <2>1, FS_AddElement
  <2>3. Limit(m) = Capacity - 1
    BY <1>3, MessagesAssumption DEF Limit
  <2> QED
    BY <1>1, <1>2, <2>2, <2>3, CapacityAssumption DEF CountOK
<1>4. CASE m \notin Events
  <2>1. Held' \cap Events = Held \cap Events
    BY <1>4
  <2>2. Limit(m) = Capacity
    BY <1>4 DEF Limit, Messages
  <2> QED
    BY <1>1, <2>1, <2>2, CapacityAssumption DEF CountOK
<1> QED
  BY <1>3, <1>4

\* The count after the reservation of m was released.
LEMMA CountReleased ==
    ASSUME PlacesOK, CountOK, PlacesOK', NEW m \in Held, Held' = Held \ {m}, depth' = depth - 1,
           receiver_open' => receiver_open
    PROVE  CountOK'
<1> SUFFICES ASSUME receiver_open, receiver_open' PROVE CountOK'
  BY DEF CountOK
<1>1. /\ IsFiniteSet(Held) /\ Cardinality(Held) \in Nat
      /\ Cardinality(Held') = Cardinality(Held) - 1
  BY HeldFinite, FS_RemoveElement
<1>2. /\ IsFiniteSet(Held \cap Events) /\ Cardinality(Held \cap Events) \in Nat
  BY <1>1, FS_Subset, FS_CardinalityType
<1>3. Held' \cap Events \in SUBSET (Held \cap Events)
  OBVIOUS
<1>4. /\ Cardinality(Held' \cap Events) \in Nat
      /\ Cardinality(Held' \cap Events) <= Cardinality(Held \cap Events)
  BY <1>2, <1>3, FS_Subset, FS_CardinalityType
<1> QED
  BY <1>1, <1>2, <1>4, CapacityAssumption DEF CountOK

\* A message with a reservation finds room in the channel.
LEMMA RoomForHeld ==
    ASSUME MailboxInv, receiver_open, NEW m \in Messages, at[m] = "send"
    PROVE  Len(queue) < Capacity
<1>1. m \in Held /\ m \notin Queued /\ Queued \subseteq Held
  BY HeldIs DEF MailboxInv, PlacesOK, Queued, Sent
<1>2. Cardinality(Queued \cup {m}) = Len(queue) + 1 /\ Len(queue) \in Nat
  BY <1>1, QueuedFits, FS_AddElement DEF MailboxInv
<1>3. Queued \cup {m} \in SUBSET Held
  BY <1>1
<1>4. Cardinality(Queued \cup {m}) <= Cardinality(Held) /\ Cardinality(Held) \in Nat
  BY <1>3, HeldFinite, FS_Subset DEF MailboxInv
<1> QED
  BY <1>2, <1>4, CapacityAssumption DEF MailboxInv, CountOK

-----------------------------------------------------------------------------
(* The steps. *)

\* Steps that leave submissions and channel alone.
CallerQuiet ==
    /\ UNCHANGED callerVars
    /\ pc # "release" /\ pc' # "release"
    /\ receiver_open' => receiver_open

LEMMA QuietPreserves == MailboxInv /\ CallerQuiet => MailboxInv'
<1> SUFFICES ASSUME MailboxInv, CallerQuiet PROVE MailboxInv'
  OBVIOUS
<1>1. PlacesOK'
  BY DEF MailboxInv, PlacesOK, CallerQuiet, callerVars
<1>2. Held' = Held
  BY DEF Held, CallerQuiet, callerVars
<1> QED
  BY <1>1, <1>2, CountKept DEF MailboxInv, CallerQuiet, callerVars

\* Steps that leave everything alone the invariant speaks of.
LEMMA SamePlacesPreserve ==
    ASSUME MailboxInv, UNCHANGED callerVars, pc' = pc, hand' = hand, receiver_open' = receiver_open
    PROVE  MailboxInv'
<1>1. PlacesOK'
  BY DEF MailboxInv, PlacesOK, callerVars
<1>2. Held' = Held
  BY DEF Held, callerVars
<1> QED
  BY <1>1, <1>2, CountKept DEF MailboxInv, callerVars

\* Initially nothing holds a reservation.
LEMMA MailboxInit == Init => MailboxInv
<1> SUFFICES ASSUME Init PROVE MailboxInv
  OBVIOUS
<1>1. queue \in Seq(Messages) /\ Len(queue) = 0
  BY EmptySeq DEF Init
<1>2. PlacesOK
  BY <1>1 DEF Init, PlacesOK, AtStates
<1>3. Held = {}
  <2>1. Queued = {}
    BY <1>1 DEF Queued
  <2> QED
    BY <1>2, <2>1, HeldIs DEF Init
<1>4. Held \cap Events = {}
  BY <1>3
<1> QED
  BY <1>2, <1>3, <1>4, FS_EmptySet, CapacityAssumption DEF Init, MailboxInv, CountOK

LEMMA ReservePreserves ==
    ASSUME MailboxInv, NEW m \in Messages, Reserve(m) PROVE MailboxInv'
<1>0. PlacesOK /\ CountOK /\ at[m] = "before"
  BY DEF MailboxInv, Reserve
<1>. receiver_open' = receiver_open
  BY DEF Reserve, exitVars
<1>1. PlacesOK /\ CountOK /\ m \notin Held
  <2>1. m \notin Queued
    BY <1>0 DEF PlacesOK, Queued, Sent
  <2>2. ~(pc = "release" /\ m = hand)
    BY <1>0 DEF PlacesOK, Sent
  <2> QED
    BY <1>0, <2>1, <2>2, HeldIs
<1>2. CASE depth < Limit(m) /\ depth' = depth + 1 /\ at' = [at EXCEPT ![m] = "send"]
  <2>1. PlacesOK'
    BY <1>1, <1>2 DEF Reserve, PlacesOK, AtStates, Sent, turnVars
  <2>2. Held' = Held \cup {m}
    BY <1>1, <1>2 DEF Reserve, Held, turnVars, PlacesOK
  <2> QED
    BY <1>1, <1>2, <2>1, <2>2, CountTaken DEF MailboxInv
<1>3. CASE at' = [at EXCEPT ![m] = "full"] /\ UNCHANGED depth
  <2>1. PlacesOK'
    BY <1>1, <1>3 DEF Reserve, PlacesOK, AtStates, Sent, turnVars
  <2>2. Held' = Held
    BY <1>1, <1>3 DEF Reserve, Held, turnVars, PlacesOK
  <2> QED
    BY <1>1, <1>3, <2>1, <2>2, CountKept DEF MailboxInv
<1> QED
  BY <1>2, <1>3 DEF Reserve

LEMMA SendPreserves ==
    ASSUME MailboxInv, NEW m \in Messages, Send(m) PROVE MailboxInv'
<1>0. PlacesOK /\ CountOK /\ at[m] = "send" /\ m \notin Queued /\ m \in Held
  <2>1. PlacesOK /\ CountOK /\ at[m] = "send"
    BY DEF MailboxInv, Send
  <2> QED
    BY <2>1, HeldIs DEF PlacesOK, Queued, Sent
<1>. pc' = pc /\ hand' = hand /\ receiver_open' = receiver_open
  BY DEF Send, exitVars, turnVars
<1>1. CASE queue' = Append(queue, m) /\ at' = [at EXCEPT ![m] = "notify"] /\ UNCHANGED depth
  <2>1. /\ queue' \in Seq(Messages) /\ Len(queue') = Len(queue) + 1 /\ Len(queue) \in Nat
        /\ \A i \in 1 .. Len(queue) : queue'[i] = queue[i]
        /\ queue'[Len(queue) + 1] = m
    BY <1>0, <1>1, AppendProperties, LenProperties DEF PlacesOK
  <2>2. \A i \in 1 .. Len(queue) : queue[i] # m
    BY <1>0 DEF Queued
  <2>3. \A i, j \in 1 .. Len(queue') : queue'[i] = queue'[j] => i = j
    BY <1>0, <2>1, <2>2 DEF PlacesOK
  <2>4. \A i \in 1 .. Len(queue') : at'[queue'[i]] \in Sent
    BY <1>0, <1>1, <2>1, <2>2 DEF PlacesOK, Sent
  <2>5. pc = "release" => hand # m
    BY <1>0 DEF PlacesOK, Sent
  <2>6. PlacesOK'
    BY <1>0, <1>1, <2>1, <2>3, <2>4, <2>5 DEF PlacesOK, AtStates, Sent
  <2>7. Queued' = Queued \cup {m}
    BY <2>1 DEF Queued
  <2>8. \A x : x \in Messages /\ at'[x] = "send" <=> x \in Messages /\ at[x] = "send" /\ x # m
    BY <1>0, <1>1 DEF PlacesOK
  <2>9. \A x : x \in Held' <=> \/ x \in Messages /\ at'[x] = "send"
                               \/ x \in Queued'
                               \/ pc' = "release" /\ x = hand'
    BY <2>6, HeldIsNext
  <2>10. \A x : x \in Held' <=> x \in Held
    BY <1>0, <2>7, <2>8, <2>9, HeldIs
  <2>11. Held' = Held
    BY <2>10
  <2> QED
    BY <1>0, <1>1, <2>6, <2>11, CountKept DEF MailboxInv
<1>2. CASE /\ depth' = depth - 1 /\ queue' = queue
           /\ \/ at' = [at EXCEPT ![m] = "full"]
              \/ at' = [at EXCEPT ![m] = "closed"]
  <2>1. PlacesOK'
    BY <1>0, <1>2 DEF PlacesOK, AtStates, Sent, Queued
  <2>2. Held' = Held \ {m}
    <3>1. \A x : x \in Messages /\ at'[x] = "send" <=> x \in Messages /\ at[x] = "send" /\ x # m
      BY <1>0, <1>2 DEF PlacesOK
    <3>2. Queued' = Queued /\ ~(pc = "release" /\ hand = m)
      BY <1>0, <1>2 DEF Queued, PlacesOK, Sent
    <3>3. \A x : x \in Held' <=> \/ x \in Messages /\ at'[x] = "send"
                                 \/ x \in Queued'
                                 \/ pc' = "release" /\ x = hand'
      BY <2>1, HeldIsNext
    <3>4. \A x : x \in Held' <=> x \in Held /\ x # m
      BY <1>0, <3>1, <3>2, <3>3, HeldIs
    <3> QED
      BY <3>4
  <2> QED
    BY <1>0, <1>2, <2>1, <2>2, CountReleased DEF MailboxInv
<1> QED
  BY <1>1, <1>2 DEF Send

LEMMA NotifyPreserves ==
    ASSUME MailboxInv, NEW m \in Messages, Notify(m) PROVE MailboxInv'
<1>0. /\ PlacesOK /\ CountOK
      /\ pc' = pc /\ hand' = hand /\ receiver_open' = receiver_open /\ queue' = queue /\ depth' = depth
      /\ at[m] = "notify" /\ at' = [at EXCEPT ![m] = "ok"]
  BY DEF MailboxInv, Notify, exitVars, turnVars
<1>1. PlacesOK'
  BY <1>0 DEF PlacesOK, AtStates, Sent
<1>2. Held' = Held
  BY <1>0 DEF Held, PlacesOK
<1> QED
  BY <1>0, <1>1, <1>2, CountKept DEF MailboxInv

\* Taking a message out of the channel moves its reservation to the hand.
LEMMA ReceivePreserves == ASSUME MailboxInv, Receive PROVE MailboxInv'
<1>0. PlacesOK /\ CountOK /\ pc = "recv" /\ at' = at /\ depth' = depth /\ receiver_open' = receiver_open
  BY DEF MailboxInv, Receive, Goto, exitVars
<1>1. CASE queue # <<>> /\ hand' = Head(queue) /\ queue' = Tail(queue) /\ pc' = "release"
  <2>1. /\ queue' \in Seq(Messages) /\ Len(queue') = Len(queue) - 1 /\ Len(queue) \in Nat
        /\ Len(queue) > 0
        /\ \A i \in 1 .. Len(queue') : queue'[i] = queue[i + 1]
        /\ hand' = queue[1]
    BY <1>0, <1>1, HeadTailProperties, EmptySeq DEF PlacesOK
  <2>2. \A i \in 1 .. Len(queue') : queue'[i] # hand' /\ i + 1 \in 1 .. Len(queue)
    BY <1>0, <2>1 DEF PlacesOK
  <2>3. hand' \in Messages /\ at'[hand'] \in Sent
    BY <1>0, <2>1 DEF PlacesOK
  <2>4. \A i, j \in 1 .. Len(queue') : queue'[i] = queue'[j] => i = j
    BY <1>0, <2>1, <2>2 DEF PlacesOK
  <2>5. \A i \in 1 .. Len(queue') : at'[queue'[i]] \in Sent
    BY <1>0, <2>1, <2>2 DEF PlacesOK
  <2>6. PlacesOK'
    BY <1>0, <2>1, <2>2, <2>3, <2>4, <2>5 DEF PlacesOK
  <2>7. \A x : x \in Queued <=> x \in Queued' \/ x = hand'
    <3>1. \A i \in 1 .. Len(queue) : i = 1 \/ (i - 1 \in 1 .. Len(queue') /\ queue'[i - 1] = queue[i])
      BY <2>1
    <3>2. \A i \in 1 .. Len(queue) : queue[i] \in Queued' \/ queue[i] = hand'
      BY <2>1, <3>1 DEF Queued
    <3>3. \A i \in 1 .. Len(queue') : queue'[i] \in Queued
      BY <2>1, <2>2 DEF Queued
    <3> QED
      BY <2>1, <3>2, <3>3 DEF Queued
  <2>8. \A x : x \in Held' <=> \/ x \in Messages /\ at'[x] = "send"
                               \/ x \in Queued'
                               \/ pc' = "release" /\ x = hand'
    BY <2>6, HeldIsNext
  <2>9. \A x : x \in Held' <=> x \in Held
    BY <1>0, <1>1, <2>7, <2>8, HeldIs
  <2>10. Held' = Held
    BY <2>9
  <2> QED
    BY <1>0, <2>6, <2>10, CountKept DEF MailboxInv
<1>2. CASE queue' = queue /\ pc' = "turn"
  BY <1>0, <1>2, QuietPreserves DEF CallerQuiet, callerVars
<1> QED
  BY <1>1, <1>2 DEF Receive, Goto

\* Releasing drops the reservation of the message in the hand.
LEMMA ReleasePreserves == ASSUME MailboxInv, Release PROVE MailboxInv'
<1>0. /\ PlacesOK /\ CountOK /\ pc = "release" /\ pc' = "handle" /\ depth' = depth - 1
      /\ at' = at /\ queue' = queue /\ hand' = hand /\ receiver_open' = receiver_open
  BY DEF MailboxInv, Release, Goto, exitVars, turnVars
<1>1. PlacesOK'
  BY <1>0 DEF PlacesOK
<1>2. Held' = Held \ {hand} /\ hand \in Held
  <2>1. Queued' = Queued /\ hand \notin Queued /\ at[hand] # "send"
    BY <1>0 DEF Queued, PlacesOK, Sent
  <2>2. \A x : x \in Held' <=> \/ x \in Messages /\ at'[x] = "send"
                               \/ x \in Queued'
                               \/ pc' = "release" /\ x = hand'
    BY <1>1, HeldIsNext
  <2>3. \A x : x \in Held' <=> x \in Held /\ x # hand
    BY <1>0, <2>1, <2>2, HeldIs
  <2> QED
    BY <1>0, <2>3, HeldIs
<1>3. PICK m \in Held : Held' = Held \ {m}
  BY <1>2
<1> QED
  BY <1>0, <1>1, <1>3, CountReleased DEF MailboxInv

\* Every step keeps the invariant.
LEMMA MailboxStep == MailboxInv /\ [Next]_vars => MailboxInv'
<1> SUFFICES ASSUME MailboxInv, [Next]_vars PROVE MailboxInv'
  OBVIOUS
<1>1. ASSUME NEW m \in Messages, Reserve(m) \/ Send(m) \/ Notify(m) PROVE MailboxInv'
  BY <1>1, ReservePreserves, SendPreserves, NotifyPreserves
<1>2. CASE DropHandle
  <2>1. UNCHANGED callerVars /\ pc' = pc /\ hand' = hand /\ receiver_open' = receiver_open
    BY <1>2 DEF DropHandle, exitVars, turnVars
  <2> QED
    BY <2>1, SamePlacesPreserve
<1>3. CASE GraceExpires
  <2>1. UNCHANGED callerVars /\ pc' = pc /\ hand' = hand /\ receiver_open' = receiver_open
    BY <1>3 DEF GraceExpires, exitVars, turnVars
  <2> QED
    BY <2>1, SamePlacesPreserve
<1>4. CASE UNCHANGED vars
  <2>1. UNCHANGED callerVars /\ pc' = pc /\ hand' = hand /\ receiver_open' = receiver_open
    BY <1>4 DEF vars, exitVars, turnVars
  <2> QED
    BY <2>1, SamePlacesPreserve
<1>5. CASE Receive
  BY <1>5, ReceivePreserves
<1>6. CASE Release
  BY <1>6, ReleasePreserves
<1>7. CASE DropReceiver
  <2>1. /\ queue' = <<>> /\ at' = at /\ pc' = "exited" /\ ~receiver_open'
    BY <1>7 DEF DropReceiver
  <2>2. queue' \in Seq(Messages) /\ Len(queue') = 0
    BY <2>1, EmptySeq
  <2>3. PlacesOK'
    BY <2>1, <2>2 DEF MailboxInv, PlacesOK
  <2> QED
    BY <2>1, <2>3 DEF MailboxInv, CountOK
<1>8. CASE StartThread
  BY <1>8, QuietPreserves DEF StartThread, CallerQuiet
<1>9. CASE Deadlines
  BY <1>9, QuietPreserves DEF Deadlines, Handled, Goto, Exit, exitVars, CallerQuiet
<1>10. CASE Check
  BY <1>10, QuietPreserves DEF Check, Goto, Exit, exitVars, CallerQuiet
<1>11. CASE Handle
  BY <1>11, QuietPreserves DEF Handle, Handled, Goto, Exit, exitVars, CallerQuiet
<1>12. CASE EndTurn
  BY <1>12, QuietPreserves DEF EndTurn, Handled, Goto, Exit, exitVars, CallerQuiet
<1>13. CASE SecondCheck
  BY <1>13, QuietPreserves DEF SecondCheck, Goto, Exit, exitVars, CallerQuiet
<1>14. CASE Wait \/ Network
  <2>1. CASE Returns /\ pc = "wait"
    BY <2>1, QuietPreserves DEF Returns, Goto, exitVars, CallerQuiet
  <2>2. CASE Exit("Failed") /\ pc = "wait" /\ UNCHANGED callerVars
    BY <2>2, QuietPreserves DEF Exit, CallerQuiet
  <2> QED
    BY <1>14, <2>1, <2>2 DEF Wait, Network
<1>15. CASE DrainWake
  BY <1>15, QuietPreserves DEF DrainWake, Goto, exitVars, CallerQuiet
<1>16. CASE DropReactor
  BY <1>16, QuietPreserves DEF DropReactor, Goto, exitVars, CallerQuiet
<1>17. CASE Cleanup
  BY <1>17, QuietPreserves DEF Cleanup, CallerQuiet
<1> QED
  BY <1>1, <1>2, <1>3, <1>4, <1>5, <1>6, <1>7, <1>8, <1>9, <1>10, <1>11, <1>12, <1>13, <1>14,
     <1>15, <1>16, <1>17 DEF Next, Thread, Done

\* The invariant gives the exact count.
LEMMA InvImpliesCounts == MailboxInv => DepthCounts
<1> SUFFICES ASSUME MailboxInv, receiver_open PROVE depth = Cardinality(Held) /\ Len(queue) <= depth
  BY DEF DepthCounts
<1>1. Queued \in SUBSET Held
  BY HeldIs DEF MailboxInv
<1>2. Cardinality(Queued) <= Cardinality(Held)
  BY <1>1, HeldFinite, FS_Subset DEF MailboxInv
<1> QED
  BY <1>2, QueuedFits DEF MailboxInv, CountOK

\* The count of reservations (QueueMetrics) is exact in every interleaving of
\* submissions and receives, so the channel never refuses a message that got a
\* reservation.
THEOREM MailboxCounts == Spec => []DepthCounts
<1>1. Init => MailboxInv
  BY MailboxInit
<1>2. MailboxInv /\ [Next]_vars => MailboxInv'
  BY MailboxStep
<1>3. MailboxInv => DepthCounts
  BY InvImpliesCounts
<1> QED
  BY <1>1, <1>2, <1>3, PTL DEF Spec

\* Only its own try_send answers a submission.
LEMMA OtherStepsKeepAt ==
    ASSUME Next, NEW m \in Messages, at' # at PROVE \E n \in Messages : Reserve(n) \/ Send(n) \/ Notify(n)
BY DEF Next, DropHandle, Thread, Network, GraceExpires, Done, vars, callerVars, StartThread, Deadlines,
       Check, Receive, Release, Handle, EndTurn, SecondCheck, Wait, DrainWake, DropReactor, Cleanup,
       DropReceiver, Returns

\* A full mailbox holds a shutdown: the events alone never fill it.
LEMMA FullHoldsShutdown ==
    ASSUME MailboxInv, receiver_open, depth >= Capacity
    PROVE  \E other \in Shutdowns : other \in Held
<1>1. Held \subseteq Messages
  BY HeldIs DEF MailboxInv
<1>2. Cardinality(Held \cap Events) # Cardinality(Held)
  <2>1. Held \cap Events \in SUBSET Held /\ IsFiniteSet(Held) /\ Cardinality(Held) \in Nat
    BY HeldFinite DEF MailboxInv
  <2>2. Cardinality(Held \cap Events) \in Nat
    BY <2>1, FS_Subset, FS_CardinalityType
  <2> QED
    BY <2>1, <2>2, CapacityAssumption DEF MailboxInv, CountOK
<1>3. Held \cap Events # Held
  BY <1>2
<1> QED
  BY <1>1, <1>3 DEF Messages

\* The slot a mailbox keeps for Shutdown (ordinary_limit in CommandSender): no
\* amount of other traffic makes try_send refuse a shutdown.
THEOREM ShutdownNeverCrowdedOut == Spec => ShutdownSlotKept
<1>1. Init => MailboxInv
  BY MailboxInit
<1>2. MailboxInv /\ [Next]_vars => MailboxInv'
  BY MailboxStep
<1> DEFINE Kept == \A m \in Shutdowns :
                       receiver_open /\ at[m] \in {"before", "send"} /\ at'[m] = "full"
                           => \E other \in Shutdowns \ {m} : other \in Held
<1>3. MailboxInv /\ [Next]_vars => [Kept]_vars
  <2> SUFFICES ASSUME MailboxInv, Next, NEW m \in Shutdowns,
                      receiver_open, at[m] \in {"before", "send"}, at'[m] = "full"
               PROVE  \E other \in Shutdowns \ {m} : other \in Held
    OBVIOUS
  <2>1. m \in Messages /\ PlacesOK
    BY DEF Messages, MailboxInv
  <2>2. PICK n \in Messages : Reserve(n) \/ Send(n) \/ Notify(n)
    <3>1. at' # at
      OBVIOUS
    <3> QED
      BY <2>1, <3>1, OtherStepsKeepAt
  <2>3. n = m /\ ~Notify(n)
    BY <2>1, <2>2 DEF Reserve, Send, Notify, PlacesOK
  <2>4. CASE Reserve(m)
    <3>1. depth >= Capacity /\ at[m] = "before"
      BY <2>1, <2>4 DEF Reserve, Limit, PlacesOK
    <3>2. PICK other \in Shutdowns : other \in Held
      BY <3>1, FullHoldsShutdown
    <3>3. m \notin Held
      BY <2>1, <3>1, HeldIs DEF PlacesOK, Queued, Sent
    <3> QED
      BY <3>2, <3>3
  <2>5. CASE Send(m)
    <3>1. Len(queue) >= Capacity /\ at[m] = "send"
      BY <2>1, <2>5 DEF Send, PlacesOK
    <3>2. Len(queue) < Capacity /\ Len(queue) \in Nat
      BY <2>1, <3>1, RoomForHeld, QueuedFits
    <3> QED
      BY <3>1, <3>2, CapacityAssumption
  <2> QED
    BY <2>2, <2>3, <2>4, <2>5
<1> QED
  BY <1>1, <1>2, <1>3, PTL DEF Spec, ShutdownSlotKept

-----------------------------------------------------------------------------
(* Wakeups. *)

\* What the loop keeps so that no wakeup is lost: it handles a message only with
\* a backlog, drains the pipe only after it noted why, and listens to the pipe
\* until it leaves.
WakeInv ==
    /\ NoLostWakeup
    /\ at \in [Messages -> AtStates]
    /\ wake \in Nat
    /\ pc \in {"release", "handle"} => command_backlog
    /\ pc = "drain" => ready
    /\ pc \notin {"cleanup", "drop", "exited"} => reader_open

LEMMA WakeInit == Init => WakeInv
BY DEF Init, WakeInv, NoLostWakeup, AtStates

\* A submission: one that enqueues is about to notify, and notifying leaves a byte.
LEMMA SubmissionWakes ==
    ASSUME WakeInv, NEW m \in Messages, Reserve(m) \/ Send(m) \/ Notify(m)
    PROVE  WakeInv'
<1>1. CASE Reserve(m)
  BY <1>1 DEF Reserve, WakeInv, NoLostWakeup, WakeReadable, NotifierOpen, AtStates, pipeVars, turnVars
<1>2. CASE Send(m)
  BY <1>2 DEF Send, WakeInv, NoLostWakeup, WakeReadable, NotifierOpen, AtStates, pipeVars, turnVars
<1>3. CASE Notify(m)
  <2>1. wake' \in Nat /\ (reader_open => wake' > 0)
    BY <1>3, LimitsAssumption DEF Notify, WakeInv
  <2> QED
    BY <1>3, <2>1 DEF Notify, WakeInv, NoLostWakeup, WakeReadable, AtStates, turnVars
<1> QED
  BY <1>1, <1>2, <1>3

LEMMA WakeStep == WakeInv /\ [Next]_vars => WakeInv'
<1> SUFFICES ASSUME WakeInv, [Next]_vars PROVE WakeInv'
  OBVIOUS
<1> USE DEF WakeInv, NoLostWakeup, WakeReadable, NotifierOpen, callerVars, pipeVars, turnVars, exitVars
<1>1. ASSUME NEW m \in Messages, Reserve(m) \/ Send(m) \/ Notify(m) PROVE WakeInv'
  BY <1>1, SubmissionWakes
<1>2. CASE DropHandle
  BY <1>2 DEF DropHandle
<1>3. CASE GraceExpires
  BY <1>3 DEF GraceExpires
<1>4. CASE UNCHANGED vars
  BY <1>4 DEF vars
<1>5. CASE StartThread
  BY <1>5 DEF StartThread
<1>6. CASE Deadlines
  BY <1>6 DEF Deadlines, Handled, Goto, Exit
<1>7. CASE Check
  BY <1>7 DEF Check, Goto, Exit
<1>8. CASE Receive
  BY <1>8 DEF Receive, Goto
<1>9. CASE Release
  BY <1>9 DEF Release, Goto
<1>10. CASE Handle
  BY <1>10 DEF Handle, Handled, Goto, Exit
<1>11. CASE EndTurn
  BY <1>11 DEF EndTurn, Handled, Goto, Exit
<1>12. CASE SecondCheck
  BY <1>12 DEF SecondCheck, Goto, Exit
<1>13. CASE Wait \/ Network
  <2>1. CASE Returns /\ pc = "wait" /\ (wake > 0 \/ ~NotifierOpen)
    <3>1. ready'
      BY <2>1 DEF Returns
    <3> QED
      BY <2>1, <3>1 DEF Returns, Goto
  <2>2. CASE Returns /\ pc = "wait" /\ ~(wake > 0 \/ ~NotifierOpen)
    <3>1. pc' = "deadlines"
      BY <2>2 DEF Returns, Goto
    <3> QED
      BY <2>2, <3>1 DEF Returns, Goto
  <2>3. CASE Exit("Failed") /\ pc = "wait" /\ UNCHANGED <<callerVars, pipeVars, handles, turnVars>>
    BY <2>3 DEF Exit
  <2> QED
    BY <1>13, <2>1, <2>2, <2>3 DEF Wait, Network
<1>14. CASE DrainWake
  BY <1>14 DEF DrainWake, Goto
<1>15. CASE DropReactor
  BY <1>15 DEF DropReactor, Goto
<1>16. CASE Cleanup
  BY <1>16 DEF Cleanup
<1>17. CASE DropReceiver
  BY <1>17 DEF DropReceiver
<1> QED
  BY <1>1, <1>2, <1>3, <1>4, <1>5, <1>6, <1>7, <1>8, <1>9, <1>10, <1>11, <1>12, <1>13, <1>14,
     <1>15, <1>16, <1>17 DEF Next, Thread, Done

\* The order of run_call (drain the pipe, note the wakeup, look into the mailbox,
\* and only then wait) and of try_send (enqueue, then notify) loses no wakeup.
THEOREM WakeupsNeverLost == Spec => []NoLostWakeup
<1>1. Init => WakeInv
  BY WakeInit
<1>2. WakeInv /\ [Next]_vars => WakeInv'
  BY WakeStep
<1>3. WakeInv => NoLostWakeup
  BY DEF WakeInv
<1> QED
  BY <1>1, <1>2, <1>3, PTL DEF Spec
=============================================================================
