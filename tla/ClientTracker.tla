---------------------------- MODULE ClientTracker ----------------------------
(***************************************************************************)
(* The client tracker of internal/proxy/tracker.go: it gives every D-Bus   *)
(* call a context that ends when the client that made the call leaves the  *)
(* bus.  A call registers itself under the mutex, then asks the bus        *)
(* without the mutex whether its sender is still there, while another      *)
(* goroutine handles the bus's NameOwnerChanged signals.                   *)
(*                                                                         *)
(* The bus is external: a sender that left never comes back (unique names  *)
(* are not reused), and its NameOwnerChanged is delivered once, at any     *)
(* later time and in any order with the signals of other senders.  A call  *)
(* of GetNameOwner may fail for another reason than the sender's absence.  *)
(***************************************************************************)
EXTENDS Integers

CONSTANTS
    Reqs,        \* calls that ask for a context
    Senders,     \* unique names
    SenderOf     \* who makes each call

ASSUME SenderAssumption == SenderOf \in [Reqs -> Senders]

VARIABLES
    bus,        \* senders connected to the bus
    signals,    \* NameOwnerChanged signals that processSignals has not seen yet
    pc,         \* where each call is
    clients,    \* clientTracker.clients, as the set of registered calls
    closed,     \* close() ran: done is closed and clients is nil
    ended,      \* calls whose context is cancelled
    unanswered  \* history: calls whose GetNameOwner failed although the sender was there

trackerVars == <<bus, signals, pc, clients, closed, ended, unanswered>>

Of(s) == {r \in Reqs : SenderOf[r] = s}

TrackerInit ==
    /\ bus = Senders
    /\ signals = {}
    /\ pc = [r \in Reqs |-> "idle"]
    /\ clients = {}
    /\ closed = FALSE
    /\ ended = {}
    /\ unanswered = {}

\* A panic in a handler takes the whole daemon down.
Running == \A r \in Reqs : pc[r] # "panicked"

-----------------------------------------------------------------------------
(* External: the bus *)

Disconnect(s) ==
    /\ s \in bus
    /\ bus' = bus \ {s}
    /\ signals' = signals \cup {s}
    /\ UNCHANGED <<pc, clients, closed, ended, unanswered>>

-----------------------------------------------------------------------------
(* The tracker *)

\* contextForSender up to the unlock.
Register(r) ==
    /\ pc[r] = "idle"
    /\ ~closed
    /\ pc' = [pc EXCEPT ![r] = "checking"]
    /\ clients' = clients \cup {r}
    /\ UNCHANGED <<bus, signals, closed, ended, unanswered>>

\* contextForSender after close(): an assignment into a nil map.
RegisterAfterClose(r) ==
    /\ pc[r] = "idle"
    /\ closed
    /\ pc' = [pc EXCEPT ![r] = "panicked"]
    /\ UNCHANGED <<bus, signals, clients, closed, ended, unanswered>>

\* Mutant: the release function of the first implementation, which forgot
\* and cancelled every call of the sender.
ReleaseSender(r) ==
    /\ clients' = IF r \in clients THEN clients \ Of(SenderOf[r]) ELSE clients
    /\ ended' = IF r \in clients THEN ended \cup (clients \cap Of(SenderOf[r])) ELSE ended

\* Mutant: the call is cancelled and stays in the map.
ReleaseWithoutDelete(r) ==
    /\ ended' = IF r \in clients THEN ended \cup {r} ELSE ended
    /\ UNCHANGED clients

\* release(): cancel and forget this one call, if it is still registered.
Release(r) ==
    /\ clients' = clients \ {r}
    /\ ended' = IF r \in clients THEN ended \cup {r} ELSE ended

\* Mutant: contextForSender without its second half.
CheckNothing(r) ==
    /\ pc[r] = "checking"
    /\ pc' = [pc EXCEPT ![r] = "active"]
    /\ UNCHANGED <<bus, signals, clients, closed, ended, unanswered>>

\* GetNameOwner finds the sender ...
OwnerFound(r) ==
    /\ SenderOf[r] \in bus
    /\ UNCHANGED <<clients, ended, unanswered>>

\* ... or returns an error, and any error counts as a client that is gone.
OwnerError(r) ==
    /\ Release(r)
    /\ unanswered' = IF SenderOf[r] \in bus THEN unanswered \cup {r} ELSE unanswered

CheckOwner(r) ==
    /\ pc[r] = "checking"
    /\ pc' = [pc EXCEPT ![r] = "active"]
    /\ OwnerFound(r) \/ OwnerError(r)
    /\ UNCHANGED <<bus, signals, closed>>

\* The handler is done and its deferred release runs.
Finish(r) ==
    /\ pc[r] = "active"
    /\ pc' = [pc EXCEPT ![r] = "released"]
    /\ Release(r)
    /\ UNCHANGED <<bus, signals, closed, unanswered>>

\* processSignals and clientDisconnected; after close() nobody reads signals.
ClientDisconnected(s) ==
    /\ s \in signals
    /\ ~closed
    /\ signals' = signals \ {s}
    /\ clients' = clients \ Of(s)
    /\ ended' = ended \cup (clients \cap Of(s))
    /\ UNCHANGED <<bus, pc, closed, unanswered>>

Close ==
    /\ ~closed
    /\ closed' = TRUE
    /\ ended' = ended \cup clients
    /\ clients' = {}
    /\ UNCHANGED <<bus, signals, pc, unanswered>>

-----------------------------------------------------------------------------

CallStep(r) == Register(r) \/ RegisterAfterClose(r) \/ CheckOwner(r) \/ Finish(r)

TrackerNext ==
    /\ Running
    /\ \/ \E r \in Reqs : CallStep(r)
       \/ \E s \in Senders : Disconnect(s) \/ ClientDisconnected(s)
       \/ Close

TrackerSpec == TrackerInit /\ [][TrackerNext]_trackerVars

(***************************************************************************)
(* processSignals runs until close(), and the bus answers GetNameOwner.    *)
(* A handler need not finish: it may wait for an approval for long.        *)
(***************************************************************************)
TrackerFairness ==
    /\ \A s \in Senders : WF_trackerVars(Running /\ ClientDisconnected(s))
    /\ \A r \in Reqs : WF_trackerVars(Running /\ CheckOwner(r))

FairTrackerSpec == TrackerSpec /\ TrackerFairness

-----------------------------------------------------------------------------
(* Properties *)

InProgress == {"checking", "active"}

\* The types; the map is empty (nil) once close() ran, and only a sender that
\* left has a NameOwnerChanged under way.
TrackerTypeOK ==
    /\ bus \subseteq Senders
    /\ signals \subseteq Senders \ bus
    /\ pc \in [Reqs -> InProgress \cup {"idle", "released", "panicked"}]
    /\ clients \subseteq Reqs
    /\ closed \in BOOLEAN
    /\ closed => clients = {}
    /\ ended \subseteq Reqs
    /\ unanswered \subseteq Reqs

\* The map holds exactly the calls that a disconnect has to reach: those in
\* progress whose context still lives.  No finished call leaks, and none in
\* progress is forgotten while release, disconnect and close race.
TrackedWhileInProgress ==
    \A r \in Reqs : r \in clients <=> (pc[r] \in InProgress /\ r \notin ended)

\* No disconnect is lost: a call past its check whose client left is
\* cancelled, or the signal that will cancel it is still to be handled.  This
\* is the race contextForSender's GetNameOwner is there for.
NoLostDisconnect ==
    \A r \in Reqs :
        pc[r] = "active" /\ SenderOf[r] \notin bus =>
            r \in ended \/ SenderOf[r] \in signals

\* Overlapping calls of one sender never cancel one another: a call in
\* progress is cancelled only if its client left, the tracker was closed or
\* the bus failed to answer this very call's GetNameOwner (contextForSender,
\* release).
NoCrossCancel ==
    \A r \in Reqs :
        pc[r] \in InProgress /\ r \in ended =>
            SenderOf[r] \notin bus \/ closed \/ r \in unanswered

\* A call whose client left is eventually cancelled, unless it ended before
\* or the daemon went down.
DisconnectCancels ==
    \A r \in Reqs :
        (pc[r] \in InProgress /\ SenderOf[r] \notin bus) ~>
            (r \in ended \/ pc[r] = "released" \/ ~Running)

=============================================================================
