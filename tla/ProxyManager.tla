---------------------------- MODULE ProxyManager ----------------------------
(***************************************************************************)
(* The proxy manager of internal/proxy/manager.go: it watches a directory  *)
(* for sockets of remote clients and runs one proxy per socket.            *)
(*                                                                         *)
(* Run is one goroutine (its place is `loop'): it scans the directory,     *)
(* then handles the watcher's events one at a time.  Every proxy it starts *)
(* has a goroutine of its own (its place is state[i]) that waits for the   *)
(* end of its context or of the front connection and then cleans up.       *)
(*                                                                         *)
(* Nothing waits for those goroutines: main returns once the downstreams'  *)
(* runners have, and the process takes with it what still runs (Exit).     *)
(*                                                                         *)
(* The directory and the fsnotify queue are external.  Rename is a remove, *)
(* as in handleEvent; a socket moved over an existing one is a create      *)
(* without a remove.                                                       *)
(***************************************************************************)
EXTENDS Integers, Sequences, FiniteSets

CONSTANTS
    Sockets,     \* socket paths
    Instances,   \* proxies that can be started: a bound
    None,
    MaxQueue     \* bound on the events waiting in the watcher

ASSUME ProxyAssumption ==
    /\ None \notin Instances
    /\ IsFiniteSet(Instances)
    /\ MaxQueue \in Nat

VARIABLES
    files,      \* the sockets in socketsDir
    queue,      \* watcher.Events
    loop,       \* where Run is; "exited" once the process is gone
    todo,       \* sockets that scanExistingSockets has yet to look at
    current,    \* the proxy whose connection is about to be announced
    shutdown,   \* the context of Run is cancelled
    proxies,    \* Manager.proxies
    sockOf,     \* the socket a proxy serves
    state,      \* where a proxy's goroutine is
    cancelled,  \* proxies whose cancel() was called
    severed,    \* proxies whose front connection is closed by the peer
    seen        \* connections minus disconnections the observers were told of

dirVars  == <<files, queue>>
loopVars == <<loop, todo, current>>
instVars == <<sockOf, state, severed>>
vars == <<dirVars, loopVars, shutdown, proxies, instVars, cancelled, seen>>

Events == [kind : {"create", "remove"}, sock : Sockets]

Init ==
    /\ files \in SUBSET Sockets
    /\ queue = <<>>
    /\ loop = "start"
    /\ todo = {}
    /\ current = None
    /\ shutdown = FALSE
    /\ proxies = [s \in Sockets |-> None]
    /\ sockOf = [i \in Instances |-> None]
    /\ state = [i \in Instances |-> "unused"]
    /\ cancelled = {}
    /\ severed = {}
    /\ seen = [s \in Sockets |-> 0]

-----------------------------------------------------------------------------
(* External: the directory, the peers and the daemon's shutdown *)

\* Nothing is queued before watcher.Add.
Queue(kind, s) ==
    IF loop = "start" THEN UNCHANGED queue
    ELSE /\ Len(queue) < MaxQueue
         /\ queue' = Append(queue, [kind |-> kind, sock |-> s])

\* The socket is new, or moved over an existing one.
CreateSocket(s) ==
    /\ files' = files \cup {s}
    /\ Queue("create", s)
    /\ UNCHANGED <<loopVars, shutdown, proxies, instVars, cancelled, seen>>

RemoveSocket(s) ==
    /\ s \in files
    /\ files' = files \ {s}
    /\ Queue("remove", s)
    /\ UNCHANGED <<loopVars, shutdown, proxies, instVars, cancelled, seen>>

Sever(i) ==
    /\ state[i] \in {"starting", "running"}
    /\ severed' = severed \cup {i}
    /\ UNCHANGED <<dirVars, loopVars, shutdown, proxies, sockOf, state, cancelled, seen>>

Shutdown ==
    /\ ~shutdown
    /\ shutdown' = TRUE
    /\ UNCHANGED <<dirVars, loopVars, proxies, instVars, cancelled, seen>>

-----------------------------------------------------------------------------
(* Run *)

Unused == {i \in Instances : state[i] = "unused"}

\* Where Run is when startProxy returns.
Back(left) == IF left # {} THEN "scan" ELSE "idle"

\* startProxy: nothing to do for a socket that has an entry, and an upstream,
\* a socket or a set-up that fails leaves no trace.
StartNothing(left) ==
    /\ loop' = Back(left)
    /\ UNCHANGED <<current, proxies, sockOf, state>>

\* ... or the proxy is connected and entered; its announcement comes next.
StartConnected(s) ==
    /\ proxies[s] = None
    /\ s \in files
    /\ \E i \in Unused :
          /\ proxies' = [proxies EXCEPT ![s] = i]
          /\ sockOf' = [sockOf EXCEPT ![i] = s]
          /\ state' = [state EXCEPT ![i] = "starting"]
          /\ current' = i
    /\ loop' = "announce"

StartProxy(s, left) == StartNothing(left) \/ StartConnected(s)

\* Mutant: stopProxy tells the observers, too.
StopProxyAnnouncing(s) ==
    /\ proxies' = [proxies EXCEPT ![s] = None]
    /\ cancelled' = cancelled \cup ({proxies[s]} \ {None})
    /\ seen' = [seen EXCEPT ![s] = IF proxies[s] = None THEN @ ELSE @ - 1]

\* stopProxy: delete the entry, then cancel the proxy it had.
StopProxy(s) ==
    /\ proxies' = [proxies EXCEPT ![s] = None]
    /\ cancelled' = cancelled \cup ({proxies[s]} \ {None})
    /\ UNCHANGED seen

\* watcher.Add comes before the scan, so that no socket is missed.
AddWatch ==
    /\ loop = "start"
    /\ loop' = "list"
    /\ UNCHANGED <<dirVars, todo, current, shutdown, proxies, instVars, cancelled, seen>>

ReadDir ==
    /\ loop = "list"
    /\ todo' = files
    /\ loop' = Back(files)
    /\ UNCHANGED <<dirVars, current, shutdown, proxies, instVars, cancelled, seen>>

\* scanExistingSockets: one socket.
ScanSocket(s) ==
    /\ loop = "scan"
    /\ s \in todo
    /\ todo' = todo \ {s}
    /\ StartProxy(s, todo')
    /\ UNCHANGED <<dirVars, shutdown, severed, cancelled, seen>>

\* startProxy, continued: notifyConnected, then the goroutine is started.
NotifyConnected ==
    /\ loop = "announce"
    /\ seen' = [seen EXCEPT ![sockOf[current]] = @ + 1]
    /\ state' = [state EXCEPT ![current] = "running"]
    /\ current' = None
    /\ loop' = Back(todo)
    /\ UNCHANGED <<dirVars, todo, shutdown, proxies, sockOf, severed, cancelled>>

HandleCreate(s) ==
    /\ loop = "idle"
    /\ queue # <<>> /\ Head(queue) = [kind |-> "create", sock |-> s]
    /\ queue' = Tail(queue)
    /\ StartProxy(s, {})
    /\ UNCHANGED <<files, todo, shutdown, severed, cancelled, seen>>

HandleRemove(s) ==
    /\ loop = "idle"
    /\ queue # <<>> /\ Head(queue) = [kind |-> "remove", sock |-> s]
    /\ queue' = Tail(queue)
    /\ StopProxy(s)
    /\ UNCHANGED <<files, loopVars, shutdown, instVars>>

StopAllProxies ==
    /\ loop = "idle"
    /\ shutdown
    /\ cancelled' = cancelled \cup {i \in Instances : \E s \in Sockets : proxies[s] = i}
    /\ proxies' = [s \in Sockets |-> None]
    /\ loop' = "stopped"
    /\ UNCHANGED <<dirVars, todo, current, shutdown, instVars, seen>>

\* main: Run has returned, and when the runners of the other downstreams have
\* too the process exits, whatever the proxies' goroutines are at.
Exit ==
    /\ loop = "stopped"
    /\ loop' = "exited"
    /\ UNCHANGED <<dirVars, todo, current, shutdown, proxies, instVars, cancelled, seen>>

-----------------------------------------------------------------------------
(* The goroutine of a proxy *)

\* Mutant: the proxy's context is not derived from Run's.
RunReturnsDetached(i) ==
    /\ state[i] = "running"
    /\ i \in cancelled \cup severed
    /\ state' = [state EXCEPT ![i] = "returned"]
    /\ UNCHANGED <<dirVars, loopVars, shutdown, proxies, sockOf, severed, cancelled, seen>>

\* Proxy.Run returns and Proxy.Close closes both connections.
RunReturns(i) ==
    /\ state[i] = "running"
    /\ i \in cancelled \cup severed \/ shutdown
    /\ state' = [state EXCEPT ![i] = "returned"]
    /\ UNCHANGED <<dirVars, loopVars, shutdown, proxies, sockOf, severed, cancelled, seen>>

\* Mutant: only stopProxy and stopAllProxies delete entries.
RemoveNothing(i) ==
    /\ state[i] = "returned"
    /\ state' = [state EXCEPT ![i] = "removed"]
    /\ UNCHANGED <<dirVars, loopVars, shutdown, proxies, sockOf, severed, cancelled, seen>>

\* The entry of the socket is deleted, whichever proxy it names by now.
RemoveEntry(i) ==
    /\ state[i] = "returned"
    /\ proxies' = [proxies EXCEPT ![sockOf[i]] = None]
    /\ state' = [state EXCEPT ![i] = "removed"]
    /\ UNCHANGED <<dirVars, loopVars, shutdown, sockOf, severed, cancelled, seen>>

NotifyDisconnected(i) ==
    /\ state[i] = "removed"
    /\ seen' = [seen EXCEPT ![sockOf[i]] = @ - 1]
    /\ state' = [state EXCEPT ![i] = "gone"]
    /\ UNCHANGED <<dirVars, loopVars, shutdown, proxies, sockOf, severed, cancelled>>

-----------------------------------------------------------------------------

RunStep ==
    \/ AddWatch \/ ReadDir \/ NotifyConnected
    \/ \E s \in Sockets : ScanSocket(s) \/ HandleCreate(s) \/ HandleRemove(s)

InstanceStep(i) == RunReturns(i) \/ RemoveEntry(i) \/ NotifyDisconnected(i)

Environment ==
    \/ \E s \in Sockets : CreateSocket(s) \/ RemoveSocket(s)
    \/ \E i \in Instances : Sever(i)
    \/ Shutdown

Alive == loop # "exited"

Next ==
    /\ Alive
    /\ \/ Environment
       \/ RunStep
       \/ StopAllProxies
       \/ Exit
       \/ \E i \in Instances : InstanceStep(i)

Spec == Init /\ [][Next]_vars

(***************************************************************************)
(* Goroutines are scheduled for as long as the process lives, and not      *)
(* beyond (Alive).  Exit is not fair: main waits for every downstream's    *)
(* runner, and one that hangs keeps the process and its goroutines alive.  *)
(* Run's select picks at random among the ready cases, so it does not      *)
(* overlook the cancelled context for ever: strong fairness of             *)
(* StopAllProxies.                                                         *)
(***************************************************************************)
Fairness ==
    /\ WF_vars(Alive /\ RunStep)
    /\ SF_vars(Alive /\ StopAllProxies)
    /\ \A i \in Instances : WF_vars(Alive /\ InstanceStep(i))

FairSpec == Spec /\ Fairness

-----------------------------------------------------------------------------
(* Properties *)

States == {"unused", "starting", "running", "returned", "removed", "gone"}

\* The types: in particular no socket has more disconnections than
\* connections, and Run announces a connection only for a proxy it started.
TypeOK ==
    /\ files \subseteq Sockets
    /\ queue \in Seq(Events)
    /\ loop \in {"start", "list", "scan", "announce", "idle", "stopped", "exited"}
    /\ todo \subseteq Sockets
    /\ current \in Instances \cup {None}
    /\ shutdown \in BOOLEAN
    /\ proxies \in [Sockets -> Instances \cup {None}]
    /\ sockOf \in [Instances -> Sockets \cup {None}]
    /\ state \in [Instances -> States]
    /\ cancelled \subseteq Instances
    /\ severed \subseteq Instances
    /\ seen \in [Sockets -> Nat]
    /\ loop = "announce" <=> current # None
    /\ current # None => state[current] = "starting"

\* Clients never lists a proxy that is gone: an entry names a proxy of that
\* socket whose goroutine has still to delete it.
EntriesLive ==
    /\ TypeOK
    /\ \A s \in Sockets :
          proxies[s] # None =>
              /\ sockOf[proxies[s]] = s
              /\ state[proxies[s]] \in {"starting", "running", "returned"}

\* The observers' counts add up: for every socket they were told of as many
\* connections less disconnections as there are proxies between the two
\* notifications, in whatever order removals, reconnections and shutdown
\* come (notifyConnected, notifyDisconnected).
EventsBalanced ==
    \A s \in Sockets :
        seen[s] = Cardinality({i \in Instances :
                      sockOf[i] = s /\ state[i] \in {"running", "returned", "removed"}})

\* When the daemon shuts down, Run stops, and every proxy ends and is announced
\* as disconnected, also one that no entry names any more, unless the process
\* exits first: nothing waits for the proxies' goroutines (stopAllProxies,
\* main), but a daemon that another downstream keeps alive serves nobody.
ShutdownEndsAll ==
    shutdown ~>
        \/ loop = "exited"
        \/ loop = "stopped" /\ \A i \in Instances : state[i] \in {"unused", "gone"}

=============================================================================
