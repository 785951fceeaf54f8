------------------------------ MODULE ApiProofs ------------------------------
(***************************************************************************)
(* Proofs about internal/api: that the thin client tells git what happened *)
(* to its own request, for every number of requests and every capacity of  *)
(* the connections' queues; and that a login token is redeemed at most     *)
(* once before it expires, for every number of tokens and requests.        *)
(***************************************************************************)
EXTENDS SignFlow, LoginAuth, SequenceTheorems, TLAPS

-----------------------------------------------------------------------------
(* Signing *)

\* What a message with this result says of the request.
Told(r, type, failed) ==
    /\ type = "approved" => request[r] = "approved" /\ gpg[r] = IF failed THEN "failed" ELSE "signed"
    /\ type = "auto_approved" => request[r] = "auto_approved" /\ ~failed
    /\ type \in {"denied", "cancelled"} => request[r] \in {"denied", "cancelled"}
    /\ type = "expired" => timer[r] = "ended"

\* The messages that do not lie about a request of a thin client.
TrueMessages ==
    {m \in Messages : m # Other /\ m.id \in Reqs => Told(m.id, m.type, m.failed)}

\* All that is queued, under way or about to be sent is true.
Queues ==
    /\ send \in [Reqs -> Seq(TrueMessages)]
    /\ wire \in [Reqs -> Seq(TrueMessages)]
    /\ event \in [Reqs -> Seq(TrueMessages)]
    /\ \A r \in Reqs : Len(send[r]) <= Buffer

\* A request is posted once, so it is created once and its timer armed once.
Once ==
    \A r \in Reqs :
        /\ client[r] \in {"start", "dialed"} => handler[r] = "none"
        /\ handler[r] \in {"none", "serving", "signing"} => request[r] = "none"
        /\ handler[r] \in {"none", "serving", "signing", "announcing"} => timer[r] = "none"

\* What the exit of one client says.
ExitTrue(r) ==
    /\ exit[r] = "ok" => \/ request[r] = "approved" /\ gpg[r] = "signed"
                         \/ request[r] = "auto_approved"
    /\ exit[r] = "denied" => request[r] \in {"denied", "cancelled"}
    /\ exit[r] = "gpg" => request[r] = "approved" /\ gpg[r] = "failed"
    /\ exit[r] = "timeout" => timer[r] = "ended"

\* The inductive invariant.
SignInv == Queues /\ Once /\ ExitTruthful

\* What no step undoes: a decision and the end of a timer.
Final ==
    \A r \in Reqs :
        /\ \/ request[r] \in {"none", "pending"}
           \/ request'[r] = request[r] /\ gpg'[r] = gpg[r]
        /\ timer[r] = "ended" => timer'[r] = "ended"

\* Sequences over a set are sequences over a larger one.
LEMMA SeqLarger == ASSUME NEW S, NEW T, S \subseteq T PROVE Seq(S) \subseteq Seq(T)
<1> SUFFICES ASSUME NEW s \in Seq(S) PROVE s \in Seq(T)
  OBVIOUS
<1>1. Len(s) \in Nat /\ s = [i \in 1..Len(s) |-> s[i]] /\ \A i \in 1..Len(s) : s[i] \in T
  BY LenProperties, ElementOfSeq
<1>2. QED
  BY <1>1, IsASeq

\* So are functions to them.
LEMMA QueuesLarger ==
    ASSUME NEW S, NEW T, S \subseteq T
    PROVE  [Reqs -> Seq(S)] \subseteq [Reqs -> Seq(T)]
  BY SeqLarger

\* What was true stays true.
LEMMA TruthStays ==
    ASSUME Final
    PROVE  TrueMessages \subseteq TrueMessages'
<1> SUFFICES ASSUME NEW m \in TrueMessages, m # Other, m.id \in Reqs
             PROVE  Told(m.id, m.type, m.failed)'
  BY DEF TrueMessages
<1>1. Told(m.id, m.type, m.failed)
  BY DEF TrueMessages
<1>2. QED
  BY <1>1 DEF Told, Final

\* A queue takes what fits, and nothing else.
LEMMA EnqueueFits ==
    ASSUME NEW T, NEW q \in Seq(T), NEW msgs \in Seq(T), Len(q) <= Buffer
    PROVE  Enqueue(q, msgs) \in Seq(T) /\ Len(Enqueue(q, msgs)) <= Buffer
<1>1. q \o msgs \in Seq(T) /\ Len(q \o msgs) \in Nat
  BY ConcatProperties, LenProperties
<1>2. CASE Len(q \o msgs) <= Buffer
  BY <1>1, <1>2 DEF Enqueue
<1>3. CASE ~(Len(q \o msgs) <= Buffer)
  <2>1. Buffer \in Nat /\ Buffer < Len(q \o msgs)
    BY <1>1, <1>3, BufferAssumption
  <2>2. \A i \in 1..Buffer : (q \o msgs)[i] \in T
    BY <1>1, <2>1, ElementOfSeq
  <2>3. SubSeq(q \o msgs, 1, Buffer) \in Seq(T) /\ Len(SubSeq(q \o msgs, 1, Buffer)) = Buffer
    BY <1>1, <2>1, <2>2, SubSeqProperties
  <2>4. QED
    BY <1>3, <2>1, <2>3 DEF Enqueue
<1>4. QED
  BY <1>2, <1>3

\* notify and broadcast: the queues of the connections they reach.
LEMMA NotifyFits ==
    ASSUME NEW T, NEW S, NEW msgs \in Seq(T), send \in [Reqs -> Seq(T)],
           \A r \in Reqs : Len(send[r]) <= Buffer, NotifyTo(S, msgs)
    PROVE  send' \in [Reqs -> Seq(T)] /\ \A r \in Reqs : Len(send'[r]) <= Buffer
<1>1. \A r \in Reqs : Enqueue(send[r], msgs) \in Seq(T) /\ Len(Enqueue(send[r], msgs)) <= Buffer
  BY EnqueueFits
<1>2. QED
  BY <1>1 DEF NotifyTo

\* An exit that is not a new one stays true.
LEMMA ExitStays ==
    ASSUME Final, NEW r \in Reqs, exit'[r] = exit[r], ExitTrue(r)
    PROVE  ExitTrue(r)'
  BY DEF Final, ExitTrue

\* The part of the types that the queues have no part in.
Typed ==
    /\ client \in [Reqs -> {"start", "dialed", "posting", "reading", "interrupted", "exited"}]
    /\ exit \in [Reqs -> {"none", "ok", "denied", "timeout", "gpg", "system",
                          "lost", "interrupted", "killed"}]
    /\ handler \in [Reqs -> {"none", "serving", "signing", "announcing",
                             "replying", "refusing", "done"}]
    /\ conn \in [Reqs -> {"none", "accepted", "registered", "subscribed", "open", "closed"}]
    /\ request \in [Reqs -> Decisions \cup {"none", "pending", "auto_approved", "expired"}]
    /\ gpg \in [Reqs -> {"none", "signed", "failed"}]
    /\ timer \in [Reqs -> {"none", "armed", "expiring", "ended"}]
    /\ noise \in 0 .. MaxNoise

LEMMA TypesOf ==
    /\ SignInv <=> Queues /\ Once /\ Typed /\ \A r \in Reqs : ExitTrue(r)
    /\ SignInv' <=> Queues' /\ Once' /\ Typed' /\ \A r \in Reqs : ExitTrue(r)'
<1>1. TrueMessages \subseteq Messages /\ TrueMessages' \subseteq Messages
  BY DEF TrueMessages, Messages, Other, Results
<1>2. Seq(TrueMessages) \subseteq Seq(Messages) /\ Seq(TrueMessages') \subseteq Seq(Messages)
  BY <1>1, SeqLarger
<1>3. SignInv <=> Queues /\ Once /\ Typed /\ \A r \in Reqs : ExitTrue(r)
  BY <1>2 DEF SignInv, Queues, Typed, ExitTruthful, TypeOK, ExitTrue
<1>4. SignInv' <=> Queues' /\ Once' /\ Typed' /\ \A r \in Reqs : ExitTrue(r)'
  BY <1>2
     DEF SignInv, Queues, Typed, ExitTruthful, TypeOK, ExitTrue, Messages, Other, Results,
         Decisions
<1>5. QED
  BY <1>3, <1>4

\* What a step finds in the queues is true after it as well.
LEMMA OldQueues ==
    ASSUME SignInv, Final
    PROVE  /\ send \in [Reqs -> Seq(TrueMessages')]
           /\ wire \in [Reqs -> Seq(TrueMessages')]
           /\ event \in [Reqs -> Seq(TrueMessages')]
           /\ \A r \in Reqs : Len(send[r]) <= Buffer
  BY TruthStays, QueuesLarger DEF SignInv, Queues

\* A step that puts only true messages into the queues, and lets a client
\* exit only with the truth, keeps the invariant.
LEMMA TrueStep ==
    ASSUME SignInv, Final, Typed', Once',
           UNCHANGED send \/ (send' \in [Reqs -> Seq(TrueMessages')]
                                 /\ \A r \in Reqs : Len(send'[r]) <= Buffer),
           UNCHANGED wire \/ wire' \in [Reqs -> Seq(TrueMessages')],
           UNCHANGED event \/ event' \in [Reqs -> Seq(TrueMessages')],
           \A r \in Reqs : exit'[r] = exit[r] \/ ExitTrue(r)'
    PROVE  SignInv'
<1>1. Queues'
  BY OldQueues DEF Queues
<1>2. \A r \in Reqs : ExitTrue(r)'
  BY TypesOf, ExitStays
<1>3. QED
  BY <1>1, <1>2, TypesOf

\* Messages that are about nothing are true.
LEMMA OtherIsTrue ==
    /\ Other \in TrueMessages'
    /\ <<Other>> \in Seq(TrueMessages')
<1>1. Other \in TrueMessages'
  BY DEF TrueMessages, Messages
<1>2. QED
  BY <1>1

\* The message about a request and its history entry are true if the message is.
LEMMA NewsIsTrue ==
    ASSUME NEW r \in Reqs, NEW type \in Results, NEW failed \in BOOLEAN, Told(r, type, failed)'
    PROVE  <<Message(r, type, failed), Other>> \in Seq(TrueMessages')
<1>1. Message(r, type, failed) \in TrueMessages'
  BY DEF TrueMessages, Messages, Message
<1>2. QED
  BY <1>1, OtherIsTrue

\* A step of the connection, the handler or the client that decides nothing,
\* sends nothing and exits with nothing.
LEMMA SilentKeeps ==
    ASSUME SignInv, NEW r \in Reqs,
           \/ Accept(r) \/ Register(r) \/ Subscribe(r) \/ Post(r) \/ Trusted(r)
           \/ Refuse(r) \/ Interrupt(r) \/ CreateGPGSignRequest(r) \/ TimerSeesDecision(r)
           \/ Expire(r)
    PROVE  SignInv'
<1>1. Typed /\ Once
  BY TypesOf
<1>2. UNCHANGED <<send, wire, event, exit>>
  BY DEF Accept, Register, Subscribe, Post, Trusted, Refuse, Interrupt, CreateGPGSignRequest,
         TimerSeesDecision, Expire, connVars, clientVars, requestVars
<1>3. CASE Accept(r)
  BY <1>1, <1>2, <1>3, TrueStep DEF Accept, requestVars, Final, Typed, Once
<1>4. CASE Register(r)
  BY <1>1, <1>2, <1>4, TrueStep DEF Register, clientVars, requestVars, Final, Typed, Once
<1>5. CASE Subscribe(r)
  BY <1>1, <1>2, <1>5, TrueStep DEF Subscribe, clientVars, requestVars, Final, Typed, Once
<1>6. CASE Post(r)
  BY <1>1, <1>2, <1>6, TrueStep DEF Post, connVars, requestVars, Final, Typed, Once
<1>7. CASE Trusted(r)
  BY <1>1, <1>2, <1>7, TrueStep DEF Trusted, clientVars, connVars, requestVars, Final, Typed, Once
<1>8. CASE Refuse(r)
  BY <1>1, <1>2, <1>8, TrueStep DEF Refuse, clientVars, connVars, requestVars, Final, Typed, Once
<1>9. CASE Interrupt(r)
  BY <1>1, <1>2, <1>9, TrueStep DEF Interrupt, connVars, requestVars, Final, Typed, Once
<1>10. CASE CreateGPGSignRequest(r)
  BY <1>1, <1>2, <1>10, TrueStep
     DEF CreateGPGSignRequest, clientVars, connVars, Final, Typed, Once
<1>11. CASE TimerSeesDecision(r)
  BY <1>1, <1>2, <1>11, TrueStep DEF TimerSeesDecision, clientVars, connVars, Final, Typed, Once
<1>12. CASE Expire(r)
  BY <1>1, <1>2, <1>12, TrueStep DEF Expire, clientVars, connVars, Final, Typed, Once
<1>13. QED
  BY <1>3, <1>4, <1>5, <1>6, <1>7, <1>8, <1>9, <1>10, <1>11, <1>12

\* The connection's own steps move messages, and do not make them.
LEMMA ConnectionKeeps ==
    ASSUME SignInv, NEW r \in Reqs, SendSnapshot(r) \/ WritePump(r) \/ Close(r)
    PROVE  SignInv'
<1>1. Typed /\ Once
  BY TypesOf
<1>2. Final /\ UNCHANGED <<event, exit>>
  BY DEF SendSnapshot, WritePump, Close, clientVars, requestVars, Final
<1>3. /\ send[r] \in Seq(TrueMessages') /\ wire[r] \in Seq(TrueMessages')
      /\ wire \in [Reqs -> Seq(TrueMessages')] /\ send \in [Reqs -> Seq(TrueMessages')]
      /\ \A q \in Reqs : Len(send[q]) <= Buffer
  BY <1>2, OldQueues
<1>4. Typed' /\ Once'
  BY <1>1 DEF SendSnapshot, WritePump, Close, clientVars, requestVars, Typed, Once
<1>5. CASE SendSnapshot(r)
  <2>1. Append(wire[r], Other) \in Seq(TrueMessages')
    BY <1>3, OtherIsTrue
  <2>2. wire' \in [Reqs -> Seq(TrueMessages')] /\ UNCHANGED send
    BY <1>3, <1>5, <2>1 DEF SendSnapshot
  <2>3. QED
    BY <1>2, <1>4, <2>2, TrueStep
<1>6. CASE WritePump(r)
  <2>1. /\ Head(send[r]) \in TrueMessages'
        /\ Tail(send[r]) \in Seq(TrueMessages') /\ Len(Tail(send[r])) <= Buffer
    <3>1. send[r] # <<>>
      BY <1>6 DEF WritePump
    <3>2. QED
      BY <1>3, <3>1, HeadTailProperties, LenProperties, BufferAssumption
  <2>2. Append(wire[r], Head(send[r])) \in Seq(TrueMessages')
    BY <1>3, <2>1
  <2>3. wire' \in [Reqs -> Seq(TrueMessages')]
    BY <1>3, <1>6, <2>2 DEF WritePump
  <2>4. send' \in [Reqs -> Seq(TrueMessages')] /\ \A q \in Reqs : Len(send'[q]) <= Buffer
    BY <1>3, <1>6, <2>1 DEF WritePump
  <2>5. QED
    BY <1>2, <1>4, <2>3, <2>4, TrueStep
<1>7. CASE Close(r)
  <2>1. send' \in [Reqs -> Seq(TrueMessages')] /\ \A q \in Reqs : Len(send'[q]) <= Buffer
    BY <1>3, <1>7, BufferAssumption DEF Close
  <2>2. UNCHANGED wire
    BY <1>7 DEF Close
  <2>3. QED
    BY <1>2, <1>4, <2>1, <2>2, TrueStep
<1>8. QED
  BY <1>5, <1>6, <1>7

\* An announcement of true messages, to whichever connections.
LEMMA AnnounceKeeps ==
    ASSUME SignInv, Final, Typed', Once', UNCHANGED <<wire, exit>>,
           UNCHANGED event \/ event' \in [Reqs -> Seq(TrueMessages')],
           NEW S, NEW msgs \in Seq(TrueMessages'), NotifyTo(S, msgs)
    PROVE  SignInv'
<1>1. send' \in [Reqs -> Seq(TrueMessages')] /\ \A r \in Reqs : Len(send'[r]) <= Buffer
  BY OldQueues, NotifyFits
<1>2. QED
  BY <1>1, TrueStep

\* The events of other things and of other clients.
LEMMA NoiseKeeps ==
    ASSUME SignInv, Broadcast \/ ResolvedElsewhere
    PROVE  SignInv'
<1>1. Typed /\ Once
  BY TypesOf
<1>2. Final /\ UNCHANGED <<wire, exit, event>>
  BY DEF Broadcast, ResolvedElsewhere, clientVars, requestVars, Final
<1>3. Typed' /\ Once'
  BY <1>1, BufferAssumption DEF Broadcast, ResolvedElsewhere, clientVars, requestVars, Typed, Once
<1>4. CASE Broadcast
  BY <1>2, <1>3, <1>4, OtherIsTrue, AnnounceKeeps DEF Broadcast
<1>5. CASE ResolvedElsewhere
  <2>1. PICK type \in Results, failed \in BOOLEAN :
           NotifyTo(Subscribed, <<Message(Elsewhere, type, failed), Other>>)
    BY <1>5 DEF ResolvedElsewhere, Notify
  <2>2. Message(Elsewhere, type, failed) \in TrueMessages'
    BY ElsewhereAssumption DEF TrueMessages, Messages, Message
  <2>3. <<Message(Elsewhere, type, failed), Other>> \in Seq(TrueMessages')
    BY <2>2, OtherIsTrue
  <2>4. QED
    BY <1>2, <1>3, <2>1, <2>3, AnnounceKeeps
<1>6. QED
  BY <1>4, <1>5

\* The handler and the timeout goroutine announce what is so by then.
LEMMA ManagerKeeps ==
    ASSUME SignInv, NEW r \in Reqs,
           RecordAutoApproved(r) \/ AnnounceCreated(r) \/ AnnounceExpired(r) \/ AnnounceDecision(r)
    PROVE  SignInv'
<1>1. Typed /\ Once
  BY TypesOf
<1>2. CASE RecordAutoApproved(r)
  <2>1. PICK result \in {"signed", "failed"} : gpg' = [gpg EXCEPT ![r] = result]
    BY <1>2 DEF RecordAutoApproved
  <2>2. /\ handler[r] = "signing" /\ request[r] = "none"
        /\ request' = [request EXCEPT ![r] = "auto_approved"]
        /\ handler' = [handler EXCEPT ![r] = "replying"]
        /\ UNCHANGED <<client, exit, conn, wire, event, timer, noise>>
        /\ NotifyTo(Subscribed, <<Message(r, "auto_approved", FALSE), Other>>)
    BY <1>1, <1>2 DEF RecordAutoApproved, Notify, clientVars, Once
  <2>3. Final /\ Typed' /\ Once'
    BY <1>1, <2>1, <2>2 DEF Final, Typed, Once
  <2>4. <<Message(r, "auto_approved", FALSE), Other>> \in Seq(TrueMessages')
    <3>1. Told(r, "auto_approved", FALSE)'
      BY <1>1, <2>2 DEF Told, Typed
    <3>2. QED
      BY <3>1, NewsIsTrue DEF Results
  <2>5. QED
    BY <2>2, <2>3, <2>4, AnnounceKeeps
<1>3. CASE AnnounceCreated(r)
  <2>1. Final /\ Typed' /\ Once' /\ UNCHANGED <<wire, exit, event>>
    BY <1>1, <1>3 DEF AnnounceCreated, clientVars, Final, Typed, Once
  <2>2. QED
    BY <1>3, <2>1, OtherIsTrue, AnnounceKeeps DEF AnnounceCreated, Notify
<1>4. CASE AnnounceExpired(r)
  <2>1. /\ timer[r] = "expiring" /\ timer' = [timer EXCEPT ![r] = "ended"]
        /\ UNCHANGED <<client, exit, handler, conn, wire, request, gpg, event, noise>>
        /\ NotifyTo(Subscribed, <<Message(r, "expired", FALSE), Other>>)
    BY <1>4 DEF AnnounceExpired, Notify, clientVars
  <2>2. Final /\ Typed' /\ Once'
    BY <1>1, <2>1 DEF Final, Typed, Once
  <2>3. <<Message(r, "expired", FALSE), Other>> \in Seq(TrueMessages')
    <3>1. Told(r, "expired", FALSE)'
      BY <1>1, <2>1 DEF Told, Typed
    <3>2. QED
      BY <3>1, NewsIsTrue DEF Results
  <2>4. QED
    BY <2>1, <2>2, <2>3, AnnounceKeeps
<1>5. CASE AnnounceDecision(r)
  <2>1. /\ event' = [event EXCEPT ![r] = <<>>]
        /\ UNCHANGED <<client, exit, handler, conn, wire, request, gpg, timer, noise>>
        /\ NotifyTo(Subscribed, event[r])
    BY <1>5 DEF AnnounceDecision, Notify, clientVars
  <2>2. Final /\ Typed' /\ Once'
    BY <1>1, <2>1 DEF Final, Typed, Once
  <2>3. event[r] \in Seq(TrueMessages') /\ event \in [Reqs -> Seq(TrueMessages')]
    BY <2>2, OldQueues
  <2>4. event' \in [Reqs -> Seq(TrueMessages')]
    BY <2>1, <2>3
  <2>5. QED
    BY <2>1, <2>2, <2>3, <2>4, AnnounceKeeps
<1>6. QED
  BY <1>2, <1>3, <1>4, <1>5

\* A decision: there was none before, and its event says what it is.
LEMMA DecideKeeps ==
    ASSUME SignInv, NEW r \in Reqs, UNCHANGED <<clientVars, handler, connVars>>,
           NEW decision \in Decisions, NEW result \in {"none", "signed", "failed"},
           (decision = "approved") <=> (result # "none"), Decide(r, decision, result)
    PROVE  SignInv'
<1>1. Typed /\ Once
  BY TypesOf
<1>2. /\ request[r] = "pending" /\ request' = [request EXCEPT ![r] = decision]
      /\ gpg' = [gpg EXCEPT ![r] = result]
      /\ event' = [event EXCEPT ![r] = <<Message(r, decision, result = "failed"), Other>>]
      /\ UNCHANGED <<client, exit, handler, conn, send, wire, timer, noise>>
  BY DEF Decide, clientVars, connVars
<1>3. Final /\ Typed' /\ Once'
  BY <1>1, <1>2 DEF Final, Typed, Once
<1>4. Told(r, decision, result = "failed")'
  BY <1>1, <1>2 DEF Told, Typed, Decisions
<1>5. <<Message(r, decision, result = "failed"), Other>> \in Seq(TrueMessages')
  BY <1>4, NewsIsTrue DEF Results, Decisions
<1>6. event' \in [Reqs -> Seq(TrueMessages')]
  BY <1>2, <1>3, <1>5, OldQueues
<1>7. QED
  BY <1>2, <1>3, <1>6, TrueStep

\* The client exits with something that says nothing of the request.
LEMMA GiveUpKeeps ==
    ASSUME SignInv, NEW r \in Reqs,
           Respond(r) \/ StartFails(r) \/ Kill(r) \/ ReadFails(r) \/ ExitInterrupted(r)
    PROVE  SignInv'
<1>1. Typed /\ Once
  BY TypesOf
<1>2. Final /\ UNCHANGED <<send, wire, event>>
  BY DEF Respond, StartFails, Kill, ReadFails, ExitInterrupted, connVars, requestVars, Final
<1>3. Typed' /\ \A q \in Reqs : exit'[q] \in {exit[q], "system", "killed", "lost", "interrupted"}
  BY <1>1 DEF Respond, StartFails, Kill, ReadFails, ExitInterrupted, Exit, clientVars, connVars,
              requestVars, Typed
<1>4. Once'
  BY <1>1 DEF Respond, StartFails, Kill, ReadFails, ExitInterrupted, Exit, clientVars, requestVars,
              Typed, Once
<1>5. \A q \in Reqs : exit'[q] = exit[q] \/ ExitTrue(q)'
  BY <1>3 DEF ExitTrue
<1>6. QED
  BY <1>2, <1>3, <1>4, <1>5, TrueStep

\* The client reads: what it exits with is what a true message about its own
\* request told it.
LEMMA ReadKeeps ==
    ASSUME SignInv, NEW r \in Reqs, Read(r)
    PROVE  SignInv'
<1>1. Typed /\ Once
  BY TypesOf
<1>2. Final /\ UNCHANGED <<send, event, handler, conn, request, gpg, timer, noise>>
  BY DEF Read, requestVars, Final
<1>3. wire[r] \in Seq(TrueMessages') /\ wire[r] # <<>> /\ wire \in [Reqs -> Seq(TrueMessages')]
  BY <1>2, OldQueues DEF Read
<1>4. Head(wire[r]) \in TrueMessages' /\ Tail(wire[r]) \in Seq(TrueMessages')
  BY <1>3, HeadTailProperties
<1>5. wire' \in [Reqs -> Seq(TrueMessages')]
  BY <1>3, <1>4 DEF Read
<1>6. CASE ~Concerns(r, Head(wire[r]))
  <2>1. UNCHANGED <<client, exit>>
    BY <1>6 DEF Read, clientVars
  <2>2. Typed' /\ Once'
    BY <1>1, <1>2, <2>1 DEF Typed, Once
  <2>3. QED
    BY <1>2, <1>5, <2>1, <2>2, TrueStep
<1>7. CASE Concerns(r, Head(wire[r]))
  <2>1. PICK m \in TrueMessages' : m = Head(wire[r])
    BY <1>4
  <2>2. /\ m.type \in Results /\ m.failed \in BOOLEAN
        /\ Told(r, m.type, m.failed)'
    BY <1>7, <2>1 DEF Concerns, TrueMessages, Messages
  <2>3. PICK code : code = ExitCode(m)
    OBVIOUS
  <2>4. client' = [client EXCEPT ![r] = "exited"] /\ exit' = [exit EXCEPT ![r] = code]
    BY <1>7, <2>1, <2>3 DEF Read, Exit
  <2>5. /\ m.type \in {"denied", "cancelled"} => code = "denied"
        /\ m.type = "expired" => code = "timeout"
        /\ m.type \in {"approved", "auto_approved"} => code = IF m.failed THEN "gpg" ELSE "ok"
    <3>1. CASE m.type \in {"denied", "cancelled"}
      BY <2>3, <3>1 DEF ExitCode
    <3>2. CASE m.type = "expired"
      BY <2>3, <3>2 DEF ExitCode
    <3>3. CASE m.type \in {"approved", "auto_approved"}
      BY <2>3, <3>3 DEF ExitCode
    <3>4. QED
      BY <2>2, <3>1, <3>2, <3>3 DEF Results
  <2>6. code \in {"ok", "denied", "timeout", "gpg"}
    BY <2>2, <2>5 DEF Results
  <2>7. Typed' /\ Once'
    BY <1>1, <1>2, <2>4, <2>6 DEF Typed, Once
  <2>8. exit'[r] = code /\ \A q \in Reqs : q # r => exit'[q] = exit[q]
    BY <1>1, <2>4 DEF Typed
  <2>9. ExitTrue(r)'
    BY <2>2, <2>5, <2>8 DEF ExitTrue, Told, Results
  <2>10. QED
    BY <1>2, <1>5, <2>7, <2>8, <2>9, TrueStep
<1>8. QED
  BY <1>6, <1>7

LEMMA SignInit == Init => SignInv
<1> SUFFICES ASSUME Init PROVE SignInv
  OBVIOUS
<1>1. Queues
  BY BufferAssumption DEF Init, Queues
<1>2. Once /\ \A r \in Reqs : ExitTrue(r)
  BY DEF Init, Once, ExitTrue
<1>3. Typed
  BY BufferAssumption DEF Init, Typed
<1>4. QED
  BY <1>1, <1>2, <1>3, TypesOf

\* Every step keeps the invariant.
LEMMA SignStep == SignInv /\ [Next]_vars => SignInv'
<1> SUFFICES ASSUME SignInv, [Next]_vars PROVE SignInv'
  OBVIOUS
<1>1. ASSUME NEW r \in Reqs, ServerStep(r) PROVE SignInv'
  BY <1>1, SilentKeeps, ConnectionKeeps, ManagerKeeps, GiveUpKeeps DEF ServerStep
<1>2. ASSUME NEW r \in Reqs, ClientStep(r) PROVE SignInv'
  BY <1>2, SilentKeeps, ReadKeeps, GiveUpKeeps DEF ClientStep
<1>3. ASSUME NEW r \in Reqs, UserDecides(r) PROVE SignInv'
  BY <1>3, DecideKeeps DEF UserDecides, Decisions
<1>4. ASSUME NEW r \in Reqs, CancelSigningRequest(r) PROVE SignInv'
  BY <1>4, DecideKeeps DEF CancelSigningRequest, Decisions
<1>5. ASSUME NEW r \in Reqs, Chance(r) PROVE SignInv'
  BY <1>3, <1>4, <1>5, SilentKeeps, ConnectionKeeps, GiveUpKeeps DEF Chance
<1>6. CASE UNCHANGED vars
  <2>1. Typed /\ Once
    BY TypesOf
  <2>2. Final /\ Typed' /\ Once' /\ UNCHANGED <<send, wire, event, exit>>
    BY <1>6, <2>1 DEF vars, clientVars, connVars, requestVars, Final, Typed, Once
  <2>3. QED
    BY <2>2, TrueStep
<1>7. QED
  BY <1>1, <1>2, <1>5, <1>6, NoiseKeeps DEF Next

LEMMA SignInvariance == Spec => []SignInv
BY SignInit, SignStep, PTL DEF Spec

\* git is told what happened to this request, whatever else is announced on
\* the connection, however full its queue and in whatever order the decision
\* and the timeout reach the client.
THEOREM ExitsAreTrue == Spec => []ExitTruthful
BY SignInvariance, PTL DEF SignInv

-----------------------------------------------------------------------------
(* Login tokens *)

\* What the steps of a request leave behind: only a minted token is redeemed,
\* a request is redeemed once and not in the future.
Redemptions ==
    \A p \in Posts :
        /\ pc[p] \in {"idle", "valid"} => redeemed[p] = NoTime
        /\ pc[p] = "valid" => exp[TokenOf[p]] # NoTime
        /\ redeemed[p] # NoTime => exp[TokenOf[p]] # NoTime /\ redeemedIn[p] <= run

\* The inductive invariant.
LoginInv ==
    /\ LoginTypeOK
    /\ Redemptions
    /\ NonceKept
    /\ NoReplayInWindow

LEMMA LoginStart == LoginInit => LoginInv
BY DEF LoginInit, LoginInv, LoginTypeOK, Redemptions, NonceKept, NoReplayInWindow, NoTime

\* The step that matters: a nonce that is on record stops the second
\* redemption, and recording one nonce keeps those that are still needed.
LEMMA ConsumeStep ==
    ASSUME LoginInv, NEW p \in Posts, ConsumeJTI(p)
    PROVE  LoginInv'
<1> USE LoginAssumption DEF NoTime
<1> DEFINE t == TokenOf[p]
<1>1. t \in Tokens /\ exp[t] \in Nat /\ now \in Nat /\ run \in Nat
  BY DEF LoginInv, LoginTypeOK, Redemptions, ConsumeJTI
<1>2. \A u \in Tokens : Pruned[u] = IF usedJTIs[u] <= now THEN NoTime ELSE usedJTIs[u]
  BY DEF Pruned
<1>3. Pruned \in [Tokens -> Nat \cup {NoTime}]
  BY DEF LoginInv, LoginTypeOK, Pruned
<1>4. CASE Pruned[t] # NoTime
  <2>1. /\ usedJTIs' = Pruned
        /\ pc' = [pc EXCEPT ![p] = "rejected"]
        /\ UNCHANGED <<redeemed, redeemedIn, now, run, exp>>
    BY <1>4 DEF ConsumeJTI
  <2>2. LoginTypeOK' /\ Redemptions' /\ NoReplayInWindow'
    BY <1>3, <2>1 DEF LoginInv, LoginTypeOK, Redemptions, NoReplayInWindow, SameLogin
  <2>3. NonceKept'
    BY <1>2, <2>1 DEF LoginInv, LoginTypeOK, NonceKept
  <2>4. QED
    BY <2>2, <2>3 DEF LoginInv
<1>5. CASE Pruned[t] = NoTime
  <2>1. /\ usedJTIs' = [Pruned EXCEPT ![t] = exp[t]]
        /\ pc' = [pc EXCEPT ![p] = "redeemed"]
        /\ redeemed' = [redeemed EXCEPT ![p] = now]
        /\ redeemedIn' = [redeemedIn EXCEPT ![p] = run]
        /\ UNCHANGED <<now, run, exp>>
    BY <1>5 DEF ConsumeJTI
  <2>2. LoginTypeOK' /\ Redemptions'
    BY <1>1, <1>3, <2>1 DEF LoginInv, LoginTypeOK, Redemptions
  <2>3. NonceKept'
    BY <1>1, <1>2, <1>3, <2>1 DEF LoginInv, LoginTypeOK, NonceKept
  <2>4. ASSUME NEW q \in Posts, q # p, TokenOf[q] = t, redeemed[q] # NoTime, redeemedIn[q] = run
        PROVE  now >= exp[t]
    BY <1>1, <1>2, <1>5, <2>4 DEF LoginInv, NonceKept
  <2>5. NoReplayInWindow'
    <3> SUFFICES ASSUME NEW a \in Posts, NEW b \in Posts, SameLogin(a, b)',
                        redeemed'[a] # NoTime, redeemed'[b] # NoTime
                 PROVE  redeemed'[a] >= exp[TokenOf[a]] \/ redeemed'[b] >= exp[TokenOf[a]]
      BY <2>1 DEF NoReplayInWindow
    <3>1. CASE a # p /\ b # p
      BY <2>1, <3>1 DEF LoginInv, LoginTypeOK, NoReplayInWindow, SameLogin
    <3>2. CASE a = p
      BY <2>1, <2>4, <3>2 DEF LoginInv, LoginTypeOK, SameLogin
    <3>3. CASE b = p
      BY <2>1, <2>4, <3>3 DEF LoginInv, LoginTypeOK, SameLogin
    <3>4. QED
      BY <3>1, <3>2, <3>3
  <2>6. QED
    BY <2>2, <2>3, <2>5 DEF LoginInv
<1>6. QED
  BY <1>4, <1>5

\* Every step keeps the invariant.
LEMMA LoginStep == LoginInv /\ [LoginNext]_loginVars => LoginInv'
<1> SUFFICES ASSUME LoginInv, [LoginNext]_loginVars PROVE LoginInv'
  OBVIOUS
<1> USE LoginAssumption DEF NoTime
<1>1. ASSUME NEW t \in Tokens, GenerateJWT(t) PROVE LoginInv'
  BY <1>1
     DEF LoginInv, LoginTypeOK, Redemptions, NonceKept, NoReplayInWindow,
         SameLogin, GenerateJWT
<1>2. ASSUME NEW p \in Posts, ValidateJWT(p) PROVE LoginInv'
  BY <1>2
     DEF LoginInv, LoginTypeOK, Redemptions, NonceKept, NoReplayInWindow,
         SameLogin, ValidateJWT
<1>3. ASSUME NEW p \in Posts, SetSessionCookie(p) PROVE LoginInv'
  BY <1>3
     DEF LoginInv, LoginTypeOK, Redemptions, NonceKept, NoReplayInWindow,
         SameLogin, SetSessionCookie
<1>4. CASE Restart
  BY <1>4
     DEF LoginInv, LoginTypeOK, Redemptions, NonceKept, NoReplayInWindow,
         SameLogin, Restart
<1>5. CASE Tick
  BY <1>5
     DEF LoginInv, LoginTypeOK, Redemptions, NonceKept, NoReplayInWindow,
         SameLogin, Tick
<1>6. CASE UNCHANGED loginVars
  BY <1>6
     DEF LoginInv, LoginTypeOK, Redemptions, NonceKept, NoReplayInWindow,
         SameLogin, loginVars
<1>7. QED
  BY <1>1, <1>2, <1>3, <1>4, <1>5, <1>6, ConsumeStep DEF LoginNext

\* Two redemptions of one login token in one run of the daemon: the later is
\* not before the token's expiry.
THEOREM NoReplay == LoginSpec => []NoReplayInWindow
<1>1. LoginInv => NoReplayInWindow
  BY DEF LoginInv
<1>2. QED
  BY <1>1, LoginStart, LoginStep, PTL DEF LoginSpec
=============================================================================
