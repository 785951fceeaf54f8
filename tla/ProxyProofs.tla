----------------------------- MODULE ProxyProofs -----------------------------
(***************************************************************************)
(* Proofs about internal/proxy: that the manager's entries and the events  *)
(* it sends fit the proxies there are, for every number of sockets and     *)
(* proxies; and that the client tracker of a proxy loses no disconnect and *)
(* lets no call cancel another, for every number of clients and calls.     *)
(***************************************************************************)
EXTENDS ProxyManager, ClientTracker, FiniteSetTheorems, TLAPS

-----------------------------------------------------------------------------
(* The proxy manager *)

\* The proxies of a socket that were announced as connected and not yet as
\* disconnected.
Announced(s) ==
    {i \in Instances : sockOf[i] = s /\ state[i] \in {"running", "returned", "removed"}}

\* The inductive invariant: the two properties, and that a proxy in use has
\* its socket.
ProxyInv ==
    /\ EntriesLive
    /\ EventsBalanced
    /\ \A i \in Instances : state[i] # "unused" => sockOf[i] \in Sockets

\* The proxies of a socket can be counted.
LEMMA Countable ==
    \A s \in Sockets : IsFiniteSet(Announced(s)) /\ Cardinality(Announced(s)) \in Nat
<1>1. \A s \in Sockets : Announced(s) \subseteq Instances
  BY DEF Announced
<1>2. QED
  BY <1>1, ProxyAssumption, FS_Subset, FS_CardinalityType

\* Where no proxy is announced, and none is announced as gone, the counts
\* stay.
LEMMA CountsStay ==
    ASSUME EventsBalanced, UNCHANGED seen,
           \A s \in Sockets : Announced(s)' = Announced(s)
    PROVE  EventsBalanced'
  BY DEF EventsBalanced, Announced

LEMMA ProxyInit == Init => ProxyInv
<1> SUFFICES ASSUME Init PROVE ProxyInv
  OBVIOUS
<1>1. /\ shutdown \in BOOLEAN
      /\ loop = "announce" <=> current # None
      /\ current # None => state[current] = "starting"
  BY Zenon DEF Init
<1>2. /\ queue \in Seq(Events) /\ files \subseteq Sockets /\ current \in Instances \cup {None}
      /\ loop \in {"start", "list", "scan", "announce", "idle", "stopped", "exited"}
      /\ todo \subseteq Sockets /\ cancelled \subseteq Instances /\ severed \subseteq Instances
  BY DEF Init
<1>3. /\ state \in [Instances -> States]
      /\ seen \in [Sockets -> Nat]
      /\ proxies \in [Sockets -> Instances \cup {None}]
      /\ sockOf \in [Instances -> Sockets \cup {None}]
  BY DEF Init, States
<1>4. TypeOK
  BY <1>1, <1>2, <1>3 DEF TypeOK
<1>5. EntriesLive /\ \A i \in Instances : state[i] # "unused" => sockOf[i] \in Sockets
  BY <1>4 DEF Init, EntriesLive
<1>6. \A s \in Sockets : Announced(s) = {}
  BY DEF Init, Announced
<1>7. EventsBalanced
  BY <1>6, FS_EmptySet DEF Init, EventsBalanced, Announced
<1>8. QED
  BY <1>5, <1>7 DEF ProxyInv

\* startProxy: the new proxy is one that no entry names, and it is not
\* announced yet.
LEMMA StartKeeps ==
    ASSUME ProxyInv, NEW s \in Sockets, NEW left, StartProxy(s, left),
           loop # "announce", todo' \subseteq Sockets, queue' \in Seq(Events),
           UNCHANGED <<files, shutdown, severed, cancelled, seen>>
    PROVE  ProxyInv'
<1>1. CASE StartNothing(left)
  <2>1. EntriesLive' /\ \A i \in Instances : state'[i] # "unused" => sockOf'[i] \in Sockets
    BY <1>1 DEF StartNothing, Back, ProxyInv, EntriesLive, TypeOK
  <2>2. EventsBalanced'
    BY <1>1, CountsStay DEF StartNothing, ProxyInv, Announced
  <2>3. QED
    BY <2>1, <2>2 DEF ProxyInv
<1>2. CASE StartConnected(s)
  <2>1. PICK i \in Instances :
           /\ state[i] = "unused"
           /\ proxies' = [proxies EXCEPT ![s] = i]
           /\ sockOf' = [sockOf EXCEPT ![i] = s]
           /\ state' = [state EXCEPT ![i] = "starting"]
           /\ current' = i
           /\ loop' = "announce"
    BY <1>2 DEF StartConnected, Unused
  <2>2. \A t \in Sockets : proxies[t] # i
    BY <2>1, ProxyAssumption DEF ProxyInv, EntriesLive
  <2>3. TypeOK'
    BY <2>1, ProxyAssumption DEF ProxyInv, EntriesLive, TypeOK, States
  <2>4. EntriesLive'
    BY <2>1, <2>2, <2>3 DEF ProxyInv, EntriesLive, TypeOK
  <2>5. \A j \in Instances : state'[j] # "unused" => sockOf'[j] \in Sockets
    BY <2>1 DEF ProxyInv, EntriesLive, TypeOK
  <2>6. \A t \in Sockets : Announced(t)' = Announced(t)
    BY <2>1 DEF Announced, ProxyInv, EntriesLive, TypeOK
  <2>7. EventsBalanced'
    BY <2>6, CountsStay DEF ProxyInv
  <2>8. QED
    BY <2>4, <2>5, <2>7 DEF ProxyInv
<1>3. QED
  BY <1>1, <1>2 DEF StartProxy

\* notifyConnected: one more proxy of the socket is announced, and the
\* observers are told of one more connection.
LEMMA NotifyConnectedKeeps ==
    ASSUME ProxyInv, NotifyConnected
    PROVE  ProxyInv'
<1>1. current \in Instances /\ state[current] = "starting"
  BY DEF NotifyConnected, ProxyInv, EntriesLive, TypeOK
<1>2. PICK s \in Sockets : s = sockOf[current]
  BY <1>1 DEF ProxyInv
<1>3. /\ seen' = [seen EXCEPT ![s] = seen[s] + 1]
      /\ state' = [state EXCEPT ![current] = "running"]
      /\ current' = None /\ loop' = Back(todo)
      /\ UNCHANGED <<files, queue, todo, shutdown, proxies, sockOf, severed, cancelled>>
  BY <1>2 DEF NotifyConnected, dirVars
<1>4. /\ \A i \in Instances : state'[i] = IF i = current THEN "running" ELSE state[i]
      /\ \A t \in Sockets : seen'[t] = IF t = s THEN seen[t] + 1 ELSE seen[t]
  BY <1>1, <1>3 DEF ProxyInv, EntriesLive, TypeOK
<1>5. TypeOK'
  BY <1>1, <1>3 DEF ProxyInv, EntriesLive, TypeOK, States, Back
<1>6. EntriesLive' /\ \A i \in Instances : state'[i] # "unused" => sockOf'[i] \in Sockets
  BY <1>1, <1>2, <1>3, <1>4, <1>5 DEF ProxyInv, EntriesLive
<1>7. /\ Announced(s)' = Announced(s) \cup {current}
      /\ current \notin Announced(s)
      /\ \A t \in Sockets : t # s => Announced(t)' = Announced(t)
  BY <1>1, <1>2, <1>3, <1>4 DEF Announced
<1>8. Cardinality(Announced(s)') = Cardinality(Announced(s)) + 1
  BY <1>7, Countable, FS_AddElement
<1>9. \A t \in Sockets : seen[t] = Cardinality(Announced(t))
  BY DEF ProxyInv, EventsBalanced, Announced
<1>10. \A t \in Sockets : seen'[t] = Cardinality(Announced(t)')
  BY <1>4, <1>7, <1>8, <1>9
<1>11. EventsBalanced'
  BY <1>10 DEF EventsBalanced, Announced
<1>12. QED
  BY <1>6, <1>11 DEF ProxyInv

\* notifyDisconnected: one proxy less, and one connection less.
LEMMA NotifyDisconnectedKeeps ==
    ASSUME ProxyInv, NEW i \in Instances, NotifyDisconnected(i)
    PROVE  ProxyInv'
<1>1. state[i] = "removed"
  BY DEF NotifyDisconnected
<1>2. PICK s \in Sockets : s = sockOf[i]
  BY <1>1 DEF ProxyInv
<1>3. /\ seen' = [seen EXCEPT ![s] = seen[s] - 1]
      /\ state' = [state EXCEPT ![i] = "gone"]
      /\ UNCHANGED <<files, queue, loop, todo, current, shutdown, proxies, sockOf, severed, cancelled>>
  BY <1>2 DEF NotifyDisconnected, dirVars, loopVars
<1>4. /\ \A j \in Instances : state'[j] = IF j = i THEN "gone" ELSE state[j]
      /\ \A t \in Sockets : seen'[t] = IF t = s THEN seen[t] - 1 ELSE seen[t]
  BY <1>3 DEF ProxyInv, EntriesLive, TypeOK
<1>5. /\ Announced(s)' = Announced(s) \ {i}
      /\ i \in Announced(s)
      /\ \A t \in Sockets : t # s => Announced(t)' = Announced(t)
  BY <1>1, <1>2, <1>3, <1>4 DEF Announced
<1>6. /\ Cardinality(Announced(s)') = Cardinality(Announced(s)) - 1
      /\ Cardinality(Announced(s)') \in Nat
  BY <1>5, Countable, FS_RemoveElement, FS_CardinalityType
<1>7. \A t \in Sockets : seen[t] = Cardinality(Announced(t))
  BY DEF ProxyInv, EventsBalanced, Announced
<1>8. TypeOK'
  BY <1>1, <1>3, <1>6, <1>7 DEF ProxyInv, EntriesLive, TypeOK, States
<1>9. EntriesLive' /\ \A j \in Instances : state'[j] # "unused" => sockOf'[j] \in Sockets
  BY <1>1, <1>2, <1>3, <1>4, <1>8 DEF ProxyInv, EntriesLive
<1>10. \A t \in Sockets : seen'[t] = Cardinality(Announced(t)')
  BY <1>4, <1>5, <1>6, <1>7
<1>11. EventsBalanced'
  BY <1>10 DEF EventsBalanced, Announced
<1>12. QED
  BY <1>9, <1>11 DEF ProxyInv

\* Every step keeps the invariant.
LEMMA ProxyStep == ProxyInv /\ [Next]_vars => ProxyInv'
<1> SUFFICES ASSUME ProxyInv, [Next]_vars PROVE ProxyInv'
  OBVIOUS
<1>1. ASSUME UNCHANGED <<sockOf, seen>>, EntriesLive',
             \A i \in Instances :
                 \/ state'[i] = state[i]
                 \/ state[i] = "running" /\ state'[i] = "returned"
                 \/ state[i] = "returned" /\ state'[i] = "removed"
      PROVE  ProxyInv'
  <2>1. \A s \in Sockets : Announced(s)' = Announced(s)
    BY <1>1 DEF Announced, ProxyInv, EntriesLive, TypeOK
  <2>2. \A i \in Instances : state'[i] # "unused" => sockOf'[i] \in Sockets
    BY <1>1 DEF ProxyInv
  <2>3. QED
    BY <1>1, <2>1, <2>2, CountsStay DEF ProxyInv
<1>2. ASSUME NEW s \in Sockets, CreateSocket(s) \/ RemoveSocket(s) PROVE ProxyInv'
  <2>1. queue' \in Seq(Events) /\ files' \subseteq Sockets
    <3>1. [kind |-> "create", sock |-> s] \in Events /\ [kind |-> "remove", sock |-> s] \in Events
      BY DEF Events
    <3>2. queue \in Seq(Events) /\ files \subseteq Sockets
      BY DEF ProxyInv, EntriesLive, TypeOK
    <3>3. QED
      BY <1>2, <3>1, <3>2 DEF CreateSocket, RemoveSocket, Queue
  <2>2. UNCHANGED <<loopVars, shutdown, proxies, instVars, cancelled, seen>>
    BY <1>2 DEF CreateSocket, RemoveSocket
  <2>3. EntriesLive'
    BY <2>1, <2>2 DEF loopVars, instVars, ProxyInv, EntriesLive, TypeOK
  <2>4. QED
    BY <1>1, <2>2, <2>3 DEF instVars
<1>3. ASSUME NEW i \in Instances, Sever(i) PROVE ProxyInv'
  <2>1. EntriesLive'
    BY <1>3 DEF Sever, dirVars, loopVars, ProxyInv, EntriesLive, TypeOK
  <2>2. QED
    BY <1>1, <1>3, <2>1 DEF Sever
<1>4. CASE Shutdown
  <2>1. EntriesLive'
    BY <1>4 DEF Shutdown, dirVars, loopVars, instVars, ProxyInv, EntriesLive, TypeOK
  <2>2. QED
    BY <1>1, <1>4, <2>1 DEF Shutdown, instVars
<1>5. CASE AddWatch \/ ReadDir
  <2>1. EntriesLive'
    BY <1>5 DEF AddWatch, ReadDir, Back, dirVars, instVars, ProxyInv, EntriesLive, TypeOK
  <2>2. QED
    BY <1>1, <1>5, <2>1 DEF AddWatch, ReadDir, instVars
<1>6. ASSUME NEW s \in Sockets, ScanSocket(s) PROVE ProxyInv'
  BY <1>6, StartKeeps DEF ScanSocket, dirVars, ProxyInv, EntriesLive, TypeOK
<1>7. ASSUME NEW s \in Sockets, HandleCreate(s) PROVE ProxyInv'
  <2>1. queue' \in Seq(Events)
    BY <1>7 DEF HandleCreate, ProxyInv, EntriesLive, TypeOK
  <2>2. QED
    BY <1>7, <2>1, StartKeeps DEF HandleCreate, ProxyInv, EntriesLive, TypeOK
<1>8. ASSUME NEW s \in Sockets, HandleRemove(s) PROVE ProxyInv'
  <2>1. queue' \in Seq(Events)
    BY <1>8 DEF HandleRemove, ProxyInv, EntriesLive, TypeOK
  <2>2. EntriesLive'
    BY <1>8, <2>1 DEF HandleRemove, StopProxy, loopVars, instVars, ProxyInv, EntriesLive, TypeOK
  <2>3. QED
    BY <1>1, <1>8, <2>2 DEF HandleRemove, StopProxy, instVars
<1>9. CASE StopAllProxies
  <2>1. EntriesLive'
    BY <1>9 DEF StopAllProxies, dirVars, instVars, ProxyInv, EntriesLive, TypeOK
  <2>2. QED
    BY <1>1, <1>9, <2>1 DEF StopAllProxies, instVars
<1>10. CASE Exit
  <2>1. EntriesLive'
    BY <1>10 DEF Exit, dirVars, instVars, ProxyInv, EntriesLive, TypeOK
  <2>2. QED
    BY <1>1, <1>10, <2>1 DEF Exit, instVars
<1>11. ASSUME NEW i \in Instances, RunReturns(i) PROVE ProxyInv'
  <2>1. TypeOK'
    BY <1>11 DEF RunReturns, dirVars, loopVars, ProxyInv, EntriesLive, TypeOK, States
  <2>2. EntriesLive'
    BY <1>11, <2>1 DEF RunReturns, ProxyInv, EntriesLive, TypeOK
  <2>3. \A j \in Instances :
           \/ state'[j] = state[j]
           \/ state[j] = "running" /\ state'[j] = "returned"
    BY <1>11 DEF RunReturns, ProxyInv, EntriesLive, TypeOK
  <2>4. QED
    BY <1>1, <1>11, <2>2, <2>3 DEF RunReturns
<1>12. ASSUME NEW i \in Instances, RemoveEntry(i) PROVE ProxyInv'
  <2>1. TypeOK'
    BY <1>12 DEF RemoveEntry, dirVars, loopVars, ProxyInv, EntriesLive, TypeOK, States
  <2>2. EntriesLive'
    BY <1>12, <2>1 DEF RemoveEntry, ProxyInv, EntriesLive, TypeOK
  <2>3. \A j \in Instances :
           \/ state'[j] = state[j]
           \/ state[j] = "returned" /\ state'[j] = "removed"
    BY <1>12 DEF RemoveEntry, ProxyInv, EntriesLive, TypeOK
  <2>4. QED
    BY <1>1, <1>12, <2>2, <2>3 DEF RemoveEntry
<1>13. CASE UNCHANGED vars
  <2>1. EntriesLive'
    BY <1>13 DEF vars, dirVars, loopVars, instVars, ProxyInv, EntriesLive, TypeOK
  <2>2. QED
    BY <1>1, <1>13, <2>1 DEF vars, instVars
<1>14. QED
  BY <1>2, <1>3, <1>4, <1>5, <1>6, <1>7, <1>8, <1>9, <1>10, <1>11, <1>12, <1>13,
     NotifyConnectedKeeps, NotifyDisconnectedKeeps
     DEF Next, Environment, RunStep, InstanceStep

LEMMA ProxyInvariance == Spec => []ProxyInv
BY ProxyInit, ProxyStep, PTL DEF Spec

\* Clients never lists a proxy that is gone, whoever deletes the entry first:
\* the removal of the socket, the proxy's own goroutine or the shutdown.
THEOREM EntriesNameLiveProxies == Spec => []EntriesLive
BY ProxyInvariance, PTL DEF ProxyInv

\* The observers are told of every connection and every disconnection once,
\* however many proxies of one socket overlap.
THEOREM EventsAddUp == Spec => []EventsBalanced
BY ProxyInvariance, PTL DEF ProxyInv

-----------------------------------------------------------------------------
(* The client tracker *)

\* The inductive invariant: the three properties, and that nothing cancels a
\* call before it is registered.
TrackerInv ==
    /\ TrackerTypeOK
    /\ TrackedWhileInProgress
    /\ NoLostDisconnect
    /\ NoCrossCancel
    /\ \A r \in Reqs : pc[r] \in {"idle", "panicked"} => r \notin ended

LEMMA TrackerStart == TrackerInit => TrackerInv
BY DEF TrackerInit, TrackerInv, TrackerTypeOK, TrackedWhileInProgress, NoLostDisconnect,
       NoCrossCancel, InProgress

\* release() of one call touches that call only.
LEMMA ReleaseOne ==
    ASSUME NEW r \in Reqs, Release(r), clients \subseteq Reqs, ended \subseteq Reqs
    PROVE  /\ clients' \subseteq Reqs /\ ended' \subseteq Reqs
           /\ r \notin clients'
           /\ r \in ended' <=> (r \in clients \/ r \in ended)
           /\ \A q \in Reqs \ {r} : /\ q \in clients' <=> q \in clients
                                    /\ q \in ended' <=> q \in ended
           /\ clients = {} => clients' = {}
BY DEF Release

\* Every step keeps the invariant.
LEMMA TrackerStep == TrackerInv /\ [TrackerNext]_trackerVars => TrackerInv'
<1> SUFFICES ASSUME TrackerInv, [TrackerNext]_trackerVars PROVE TrackerInv'
  OBVIOUS
<1> USE SenderAssumption DEF TrackerInv, TrackerTypeOK, TrackedWhileInProgress,
                             NoLostDisconnect, NoCrossCancel, InProgress
<1>1. ASSUME NEW r \in Reqs, Register(r) PROVE TrackerInv'
  BY <1>1 DEF Register
<1>2. ASSUME NEW r \in Reqs, RegisterAfterClose(r) PROVE TrackerInv'
  BY <1>2 DEF RegisterAfterClose
<1>3. ASSUME NEW r \in Reqs, CheckOwner(r) PROVE TrackerInv'
  <2>1. CASE OwnerFound(r)
    BY <1>3, <2>1 DEF CheckOwner, OwnerFound
  <2>2. CASE OwnerError(r)
    BY <1>3, <2>2, ReleaseOne DEF CheckOwner, OwnerError
  <2>3. QED
    BY <1>3, <2>1, <2>2 DEF CheckOwner
<1>4. ASSUME NEW r \in Reqs, Finish(r) PROVE TrackerInv'
  BY <1>4, ReleaseOne DEF Finish
<1>5. ASSUME NEW s \in Senders, Disconnect(s) PROVE TrackerInv'
  BY <1>5 DEF Disconnect
<1>6. ASSUME NEW s \in Senders, ClientDisconnected(s) PROVE TrackerInv'
  BY <1>6 DEF ClientDisconnected, Of
<1>7. CASE Close
  BY <1>7 DEF Close
<1>8. CASE UNCHANGED trackerVars
  BY <1>8 DEF trackerVars
<1>9. QED
  BY <1>1, <1>2, <1>3, <1>4, <1>5, <1>6, <1>7, <1>8 DEF TrackerNext, CallStep

LEMMA TrackerInvariance == TrackerSpec => []TrackerInv
BY TrackerStart, TrackerStep, PTL DEF TrackerSpec

\* A call whose client left before or after the owner check is cancelled or
\* will be, however signals, checks, releases and close() interleave.
THEOREM DisconnectsReach == TrackerSpec => []NoLostDisconnect
BY TrackerInvariance, PTL DEF TrackerInv

\* Only a disconnect, close() or a failed check of its own ends the context of
\* a call in progress.
THEOREM CallsIndependent == TrackerSpec => []NoCrossCancel
BY TrackerInvariance, PTL DEF TrackerInv

\* The map holds exactly the live calls.
THEOREM NoLeakedCall == TrackerSpec => []TrackedWhileInProgress
BY TrackerInvariance, PTL DEF TrackerInv
=============================================================================
