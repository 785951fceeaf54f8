------------------------------- MODULE SignFlow -------------------------------
(***************************************************************************)
(* Signing a commit, from end to end: the gpg-sign thin client that git    *)
(* runs (internal/gpgsign/run.go, daemon.go), the HTTP handler it posts to *)
(* (internal/api/gpgsign.go) and the WebSocket on which it is told the     *)
(* result (internal/api/websocket.go).                                     *)
(*                                                                         *)
(* Every request r has a thin client, which dials the WebSocket first,     *)
(* then posts, then reads messages until one names its request.  On the    *)
(* server the connection has a goroutine that sets it up, a write pump and *)
(* a bounded queue; every connection hears the events of every request,    *)
(* and a message that finds the queue full is dropped.                     *)
(*                                                                         *)
(* The approval manager is reduced to what the flow sees of it: a request  *)
(* is decided once, its event is sent in a step of its own, and the        *)
(* timeout goroutine may choose the timeout although the request has been  *)
(* decided (ApprovalManager has the rest).  External: the network, which   *)
(* delivers in order, gpg, the user, and signals to the thin client.       *)
(***************************************************************************)
EXTENDS Integers, Sequences

CONSTANTS
    Reqs,       \* signing requests, each with its thin client
    Elsewhere,  \* a request of any other client
    Buffer,     \* capacity of wsConnection.send
    MaxNoise    \* bound on the events about other things

ASSUME BufferAssumption == Buffer \in Nat /\ MaxNoise \in Nat
ASSUME ElsewhereAssumption == Elsewhere \notin Reqs

VARIABLES
    client,     \* where a thin client is
    exit,       \* what it exits with
    handler,    \* where HandleGPGSignRequest is
    conn,       \* where the server's side of a connection is
    send,       \* wsConnection.send
    wire,       \* what was written to the connection and not read
    request,    \* the request in the approval manager
    gpg,        \* what gpg did for a request
    event,      \* the event that a resolver has still to send
    timer,      \* the timeout goroutine of a pending request
    noise       \* events about other things so far

clientVars  == <<client, exit>>
connVars    == <<conn, send, wire>>
requestVars == <<request, gpg, event, timer>>
vars == <<clientVars, handler, connVars, requestVars, noise>>

\* A message names a request, unless it is about something else; result and
\* failed (a non-zero exit_code) are those of request_resolved.
Other == [type |-> "other"]
Message(r, type, failed) == [type |-> type, id |-> r, failed |-> failed]
Results == {"approved", "auto_approved", "denied", "cancelled", "expired"}
Messages == {Other} \cup [type : Results, id : Reqs \cup {Elsewhere}, failed : BOOLEAN]

Init ==
    /\ client = [r \in Reqs |-> "start"]
    /\ exit = [r \in Reqs |-> "none"]
    /\ handler = [r \in Reqs |-> "none"]
    /\ conn = [r \in Reqs |-> "none"]
    /\ send = [r \in Reqs |-> <<>>]
    /\ wire = [r \in Reqs |-> <<>>]
    /\ request = [r \in Reqs |-> "none"]
    /\ gpg = [r \in Reqs |-> "none"]
    /\ event = [r \in Reqs |-> <<>>]
    /\ timer = [r \in Reqs |-> "none"]
    /\ noise = 0

Exit(r, code) ==
    /\ client' = [client EXCEPT ![r] = "exited"]
    /\ exit' = [exit EXCEPT ![r] = code]

-----------------------------------------------------------------------------
(* The connection, on the server *)

Subscribed == {r \in Reqs : conn[r] \in {"subscribed", "open"}}
Registered == {r \in Reqs : conn[r] \in {"registered", "subscribed", "open"}}

\* A non-blocking send of each message: what does not fit is dropped.
Enqueue(q, msgs) ==
    IF Len(q \o msgs) <= Buffer THEN q \o msgs ELSE SubSeq(q \o msgs, 1, Buffer)

NotifyTo(S, msgs) ==
    send' = [r \in Reqs |-> IF r \in S THEN Enqueue(send[r], msgs) ELSE send[r]]

\* Manager.notify calls OnEvent of every observer under observersMu: the
\* message, and for a terminal event the history entry.
Notify(msgs) == NotifyTo(Subscribed, msgs)

\* websocket.Accept: the client's Dial returns with it.
Accept(r) ==
    /\ client[r] = "start"
    /\ client' = [client EXCEPT ![r] = "dialed"]
    /\ conn' = [conn EXCEPT ![r] = "accepted"]
    /\ UNCHANGED <<exit, handler, send, wire, requestVars, noise>>

Register(r) ==
    /\ conn[r] = "accepted"
    /\ conn' = [conn EXCEPT ![r] = "registered"]
    /\ UNCHANGED <<clientVars, handler, send, wire, requestVars, noise>>

Subscribe(r) ==
    /\ conn[r] = "registered"
    /\ conn' = [conn EXCEPT ![r] = "subscribed"]
    /\ UNCHANGED <<clientVars, handler, send, wire, requestVars, noise>>

\* sendSnapshot writes directly; then the pumps are started.
SendSnapshot(r) ==
    /\ conn[r] = "subscribed"
    /\ conn' = [conn EXCEPT ![r] = "open"]
    /\ wire' = [wire EXCEPT ![r] = Append(@, Other)]
    /\ UNCHANGED <<clientVars, handler, send, requestVars, noise>>

\* Mutant: the pump starts when there is a backlog.
WritePumpOfBacklog(r) ==
    /\ conn[r] = "open"
    /\ Len(send[r]) > 1
    /\ wire' = [wire EXCEPT ![r] = Append(@, Head(send[r]))]
    /\ send' = [send EXCEPT ![r] = Tail(@)]
    /\ UNCHANGED <<clientVars, handler, conn, requestVars, noise>>

WritePump(r) ==
    /\ conn[r] = "open"
    /\ send[r] # <<>>
    /\ wire' = [wire EXCEPT ![r] = Append(@, Head(send[r]))]
    /\ send' = [send EXCEPT ![r] = Tail(@)]
    /\ UNCHANGED <<clientVars, handler, conn, requestVars, noise>>

\* A failed write, a ping that is not answered in time or the end of the
\* connection.  Pings are answered by a client that is reading only.
Close(r) ==
    /\ conn[r] \in {"subscribed", "open"}
    /\ client[r] # "reading"
    /\ conn' = [conn EXCEPT ![r] = "closed"]
    /\ send' = [send EXCEPT ![r] = <<>>]
    /\ UNCHANGED <<clientVars, handler, wire, requestVars, noise>>

\* BroadcastClientConnected, BroadcastClientDisconnected.
Broadcast ==
    /\ noise < MaxNoise
    /\ noise' = noise + 1
    /\ NotifyTo(Registered, <<Other>>)
    /\ UNCHANGED <<clientVars, handler, conn, wire, requestVars>>

\* The end of some other request is announced to every connection.
ResolvedElsewhere ==
    /\ noise < MaxNoise
    /\ noise' = noise + 1
    /\ \E type \in Results, failed \in BOOLEAN :
          /\ failed => type = "approved"
          /\ Notify(<<Message(Elsewhere, type, failed), Other>>)
    /\ UNCHANGED <<clientVars, handler, conn, wire, requestVars>>

-----------------------------------------------------------------------------
(* The handler of POST /api/v1/gpg-sign/request *)

Post(r) ==
    /\ client[r] = "dialed"
    /\ client' = [client EXCEPT ![r] = "posting"]
    /\ handler' = [handler EXCEPT ![r] = "serving"]
    /\ UNCHANGED <<exit, connVars, requestVars, noise>>

\* CheckTrustedSigner or CheckAutoApproveRules accepts the request.
Trusted(r) ==
    /\ handler[r] = "serving"
    /\ handler' = [handler EXCEPT ![r] = "signing"]
    /\ UNCHANGED <<clientVars, connVars, requestVars, noise>>

\* signAndRecordAutoApproved: the exit code of gpg is not recorded.
RecordAutoApproved(r) ==
    /\ handler[r] = "signing"
    /\ \E result \in {"signed", "failed"} : gpg' = [gpg EXCEPT ![r] = result]
    /\ request' = [request EXCEPT ![r] = "auto_approved"]
    /\ Notify(<<Message(r, "auto_approved", FALSE), Other>>)
    /\ handler' = [handler EXCEPT ![r] = "replying"]
    /\ UNCHANGED <<clientVars, conn, wire, event, timer, noise>>

\* gpg cannot be run, or the body is refused.
Refuse(r) ==
    /\ handler[r] \in {"serving", "signing"}
    /\ handler' = [handler EXCEPT ![r] = "refusing"]
    /\ UNCHANGED <<clientVars, connVars, requestVars, noise>>

CreateGPGSignRequest(r) ==
    /\ handler[r] = "serving"
    /\ request' = [request EXCEPT ![r] = "pending"]
    /\ handler' = [handler EXCEPT ![r] = "announcing"]
    /\ UNCHANGED <<clientVars, connVars, gpg, event, timer, noise>>

AnnounceCreated(r) ==
    /\ handler[r] = "announcing"
    /\ Notify(<<Other>>)
    /\ timer' = [timer EXCEPT ![r] = "armed"]
    /\ handler' = [handler EXCEPT ![r] = "replying"]
    /\ UNCHANGED <<clientVars, conn, wire, request, gpg, event, noise>>

\* The response reaches the client, if it is still there.
Respond(r) ==
    /\ handler[r] \in {"replying", "refusing"}
    /\ handler' = [handler EXCEPT ![r] = "done"]
    /\ IF client[r] # "posting" THEN UNCHANGED clientVars
       ELSE IF handler[r] = "refusing" THEN Exit(r, "system")
       ELSE client' = [client EXCEPT ![r] = "reading"] /\ UNCHANGED exit
    /\ UNCHANGED <<connVars, requestVars, noise>>

-----------------------------------------------------------------------------
(* The approval manager *)

Decisions == {"approved", "denied", "cancelled"}

\* Approve (after gpg ran), Deny and Cancel: the critical section.
Decide(r, decision, result) ==
    /\ request[r] = "pending"
    /\ request' = [request EXCEPT ![r] = decision]
    /\ gpg' = [gpg EXCEPT ![r] = result]
    /\ event' = [event EXCEPT ![r] = <<Message(r, decision, result = "failed"), Other>>]
    /\ UNCHANGED <<timer, noise>>

UserDecides(r) ==
    /\ \/ Decide(r, "approved", "signed")
       \/ Decide(r, "approved", "failed")
       \/ Decide(r, "denied", "none")
    /\ UNCHANGED <<clientVars, handler, connVars>>

AnnounceDecision(r) ==
    /\ event[r] # <<>>
    /\ Notify(event[r])
    /\ event' = [event EXCEPT ![r] = <<>>]
    /\ UNCHANGED <<clientVars, handler, conn, wire, request, gpg, timer, noise>>

\* The timeout goroutine ends, by the decision or by the timeout.
TimerSeesDecision(r) ==
    /\ timer[r] = "armed"
    /\ request[r] # "pending"
    /\ timer' = [timer EXCEPT ![r] = "ended"]
    /\ UNCHANGED <<clientVars, handler, connVars, request, gpg, event, noise>>

Expire(r) ==
    /\ timer[r] = "armed"
    /\ timer' = [timer EXCEPT ![r] = "expiring"]
    /\ request' = [request EXCEPT ![r] = IF @ = "pending" THEN "expired" ELSE @]
    /\ UNCHANGED <<clientVars, handler, connVars, gpg, event, noise>>

AnnounceExpired(r) ==
    /\ timer[r] = "expiring"
    /\ timer' = [timer EXCEPT ![r] = "ended"]
    /\ Notify(<<Message(r, "expired", FALSE), Other>>)
    /\ UNCHANGED <<clientVars, handler, conn, wire, request, gpg, event, noise>>

-----------------------------------------------------------------------------
(* The thin client *)

\* No token, or the daemon cannot be reached.
StartFails(r) ==
    /\ client[r] = "start"
    /\ Exit(r, "system")
    /\ UNCHANGED <<handler, connVars, requestVars, noise>>

\* SIGINT before the handler for it is installed.  The server's handler goes
\* on: it does not look at the context of the HTTP request.
Kill(r) ==
    /\ client[r] \in {"dialed", "posting"}
    /\ Exit(r, "killed")
    /\ UNCHANGED <<handler, connVars, requestVars, noise>>

\* What WaitForResolution and Run make of a message about the request.
ExitCode(m) ==
    CASE m.type \in {"denied", "cancelled"} -> "denied"
      [] m.type = "expired" -> "timeout"
      [] m.type \in {"approved", "auto_approved"} -> IF m.failed THEN "gpg" ELSE "ok"

\* Mutant: WaitForResolution takes the first resolution for its own.
ConcernsAny(r, m) == m # Other

Concerns(r, m) == m # Other /\ m.id = r

Read(r) ==
    /\ client[r] = "reading"
    /\ wire[r] # <<>>
    /\ wire' = [wire EXCEPT ![r] = Tail(@)]
    /\ IF Concerns(r, Head(wire[r])) THEN Exit(r, ExitCode(Head(wire[r])))
       ELSE UNCHANGED clientVars
    /\ UNCHANGED <<handler, conn, send, requestVars, noise>>

ReadFails(r) ==
    /\ client[r] = "reading"
    /\ wire[r] = <<>>
    /\ conn[r] = "closed"
    /\ Exit(r, "lost")
    /\ UNCHANGED <<handler, connVars, requestVars, noise>>

\* wsCancel: from here the goroutine that cancels races with Run's return.
Interrupt(r) ==
    /\ client[r] = "reading"
    /\ client' = [client EXCEPT ![r] = "interrupted"]
    /\ UNCHANGED <<exit, handler, connVars, requestVars, noise>>

CancelSigningRequest(r) ==
    /\ client[r] = "interrupted"
    /\ Decide(r, "cancelled", "none")
    /\ UNCHANGED <<clientVars, handler, connVars>>

ExitInterrupted(r) ==
    /\ client[r] = "interrupted"
    /\ Exit(r, "interrupted")
    /\ UNCHANGED <<handler, connVars, requestVars, noise>>

-----------------------------------------------------------------------------
ServerStep(r) ==
    \/ Register(r) \/ Subscribe(r) \/ SendSnapshot(r) \/ WritePump(r)
    \/ Refuse(r) \/ RecordAutoApproved(r) \/ CreateGPGSignRequest(r)
    \/ AnnounceCreated(r) \/ Respond(r)
    \/ AnnounceDecision(r) \/ TimerSeesDecision(r) \/ Expire(r) \/ AnnounceExpired(r)

ClientStep(r) == Post(r) \/ Read(r) \/ ReadFails(r) \/ ExitInterrupted(r)

\* What nobody is bound to do, and what a timer or a signal may do.
Chance(r) ==
    \/ Accept(r) \/ StartFails(r) \/ Trusted(r) \/ UserDecides(r)
    \/ Close(r) \/ Kill(r) \/ Interrupt(r) \/ CancelSigningRequest(r)

Next ==
    \/ \E r \in Reqs : ServerStep(r) \/ ClientStep(r) \/ Chance(r)
    \/ Broadcast \/ ResolvedElsewhere

Spec == Init /\ [][Next]_vars

\* Goroutines that can go on do: the one that sets the connection up, the
\* write pump, the HTTP handler, the resolver, the timeout goroutine; and so
\* does the thin client.  Nothing is assumed of the user, of signals or of
\* the network's failures.
Fairness ==
    \A r \in Reqs :
        /\ WF_vars(Register(r) \/ Subscribe(r) \/ SendSnapshot(r))
        /\ WF_vars(WritePump(r))
        /\ WF_vars(Refuse(r) \/ RecordAutoApproved(r) \/ CreateGPGSignRequest(r)
                     \/ AnnounceCreated(r) \/ Respond(r))
        /\ WF_vars(AnnounceDecision(r))
        /\ WF_vars(TimerSeesDecision(r) \/ Expire(r))
        /\ WF_vars(AnnounceExpired(r))
        /\ WF_vars(ClientStep(r))

FairSpec == Spec /\ Fairness

-----------------------------------------------------------------------------
(* Properties *)

\* The state is well formed, and no connection's queue grows past the
\* capacity of wsConnection.send however many events OnEvent and broadcast
\* push at it.
TypeOK ==
    /\ client \in [Reqs -> {"start", "dialed", "posting", "reading", "interrupted", "exited"}]
    /\ exit \in [Reqs -> {"none", "ok", "denied", "timeout", "gpg", "system",
                          "lost", "interrupted", "killed"}]
    /\ handler \in [Reqs -> {"none", "serving", "signing", "announcing",
                             "replying", "refusing", "done"}]
    /\ conn \in [Reqs -> {"none", "accepted", "registered", "subscribed", "open", "closed"}]
    /\ \A r \in Reqs :
          /\ send[r] \in Seq(Messages) /\ Len(send[r]) <= Buffer
          /\ wire[r] \in Seq(Messages) /\ event[r] \in Seq(Messages)
    /\ request \in [Reqs -> Decisions \cup {"none", "pending", "auto_approved", "expired"}]
    /\ gpg \in [Reqs -> {"none", "signed", "failed"}]
    /\ timer \in [Reqs -> {"none", "armed", "expiring", "ended"}]
    /\ noise \in 0 .. MaxNoise

\* Whatever else is announced on the connection, and in whatever order the
\* decision and the timeout of one request reach the client, git is told what
\* happened to this request: success only if it was granted, a denial only if
\* it was denied or cancelled, gpg's failure only if gpg failed after an
\* approval, a timeout only if its own timer fired.
ExitTruthful ==
    /\ TypeOK
    /\ \A r \in Reqs :
          /\ exit[r] = "ok" =>
                \/ request[r] = "approved" /\ gpg[r] = "signed"
                \/ request[r] = "auto_approved"
          /\ exit[r] = "denied" => request[r] \in {"denied", "cancelled"}
          /\ exit[r] = "gpg" => request[r] = "approved" /\ gpg[r] = "failed"
          /\ exit[r] = "timeout" => timer[r] = "ended"

\* A result that OnEvent put in the queue of the client's connection ends the
\* client: with that result, or with an error when the connection is lost.
DeliveredExits ==
    \A r \in Reqs :
        (\E i \in DOMAIN send[r] : send[r][i] # Other /\ send[r][i].id = r)
            ~> client[r] = "exited"

\* A client that has posted its request is told the result, so git does not
\* wait for ever (run.go, step 8: the WebSocket is dialled first so that the
\* resolution is not missed).
EveryClientExits ==
    \A r \in Reqs : client[r] = "posting" ~> client[r] = "exited"

=============================================================================
