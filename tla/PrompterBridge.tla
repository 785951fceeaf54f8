---------------------------- MODULE PrompterBridge ----------------------------
(***************************************************************************)
(* How a locked keyring is unlocked through the dispatcher: the client's   *)
(* Prompt call (prompt.go), the keyring's conversation with the desktop's  *)
(* prompter across the two buses (prompter.go, forward.go) and the         *)
(* Completed signal on its way back (signals.go), from ConnectWith to      *)
(* Close (proxy.go).                                                       *)
(*                                                                         *)
(* External: the keyring, which numbers its callback objects from one in   *)
(* every life and may die at any time; the shell, which has one prompt per *)
(* callback path, whoever it is for, and drops it when its callback fails; *)
(* and the fallback prompter, which the private bus starts for whoever     *)
(* calls an unowned SystemPrompter.                                        *)
(***************************************************************************)
EXTENDS Naturals, Sequences, FiniteSets

CONSTANTS
    Unlocks,     \* prompts that clients ask for
    MaxLives     \* bound: lives of the keyring

ASSUME LivesAssumption == MaxLives \in Nat \ {0}

NoUnlock == "none"

\* Clients ask for finitely many prompts, and no prompt is the absent one.
ASSUME UnlocksAssumption == IsFiniteSet(Unlocks) /\ NoUnlock \notin Unlocks

Lives == 1..MaxLives
Paths == 1..Cardinality(Unlocks)    \* callback paths /org/gnome/keyring/Prompt/pN
NoLife == 0

VARIABLES
    stage,       \* where ConnectWith and Close are
    prompter,    \* owner of SystemPrompter on the private bus
    bridge,      \* the prompterBridge
    life,        \* the keyring that runs
    begun,       \* prompts that it has begun: its last callback path
    conv,        \* the conversation of each unlock, seen from its keyring
    by,          \* the life that serves an unlock
    path,        \* its callback path
    handler,     \* the bridge's goroutine for a call of the conversation
    callbacks,   \* exported callback proxies: the life they forward to
    shell,       \* the unlock whose BeginPrompting a path of the shell's comes from
    signals,     \* the signalForwarder's goroutine
    queue,       \* signals in signalForwarder.ch
    failed       \* history: unlocks whose BeginPrompting failed

vars == <<stage, prompter, bridge, life, begun, conv, by, path, handler, callbacks, shell, signals, queue, failed>>

Init ==
    /\ stage = "connecting"
    /\ prompter = "none"
    /\ bridge = "none"
    /\ life = 1
    /\ begun = 0
    /\ conv = [u \in Unlocks |-> "idle"]
    /\ by = [u \in Unlocks |-> NoLife]
    /\ path = [u \in Unlocks |-> 0]
    /\ handler = [u \in Unlocks |-> "none"]
    /\ callbacks = [p \in Paths |-> NoLife]
    /\ shell = [p \in Paths |-> NoUnlock]
    /\ signals = "none"
    /\ queue = <<>>
    /\ failed = {}

keyringVars == <<life, begun, by, path>>
proxyVars == <<stage, prompter, bridge>>

-----------------------------------------------------------------------------
(* ConnectWith and Close *)

\* The handlers are exported and the name on the front bus is ours: from now
\* on clients may ask for an unlock.
RequestName ==
    /\ stage = "connecting"
    /\ stage' = "named"
    /\ UNCHANGED <<prompter, bridge, keyringVars, conv, handler, callbacks, shell, signals, queue, failed>>

\* newSignalForwarder: what the backend emitted before is lost.
StartSignals ==
    /\ stage = "named"
    /\ stage' = "signals"
    /\ signals' = "running"
    /\ UNCHANGED <<prompter, bridge, keyringVars, conv, handler, callbacks, shell, queue, failed>>

\* newPrompterBridge and activate: no bridge where the name is owned already ...
ClaimPrompter ==
    /\ stage = "signals"
    /\ IF prompter = "none"
       THEN prompter' = "bridge" /\ stage' = "claimed"
       ELSE stage' = "up" /\ UNCHANGED prompter
    /\ UNCHANGED <<bridge, keyringVars, conv, handler, callbacks, shell, signals, queue, failed>>

\* ... and it is exported only after its name was claimed.
StartBridge ==
    /\ stage = "claimed"
    /\ stage' = "up"
    /\ bridge' = "active"
    /\ UNCHANGED <<prompter, keyringVars, conv, handler, callbacks, shell, signals, queue, failed>>

\* Proxy.Close, at the end of Run or on an error of ConnectWith:
\* prompterBridge.close and the release of the name, if there is a bridge ...
CloseBridge ==
    /\ stage \in {"connecting", "named", "signals", "up"}
    /\ stage' = "closing"
    /\ IF bridge = "active"
       THEN bridge' = "closed" /\ prompter' = "none" /\ callbacks' = [p \in Paths |-> NoLife]
       ELSE UNCHANGED <<bridge, prompter, callbacks>>
    /\ UNCHANGED <<keyringVars, conv, handler, shell, signals, queue, failed>>

\* ... signalForwarder.close: its goroutine leaves when it next sees done ...
CloseSignals ==
    /\ stage = "closing"
    /\ stage' = "deaf"
    /\ signals' = IF signals = "running" THEN "done" ELSE signals
    /\ UNCHANGED <<prompter, bridge, keyringVars, conv, handler, callbacks, shell, queue, failed>>

ForwarderLeaves ==
    /\ signals = "done"
    /\ signals' = "none"
    /\ queue' = <<>>
    /\ UNCHANGED <<proxyVars, keyringVars, conv, handler, callbacks, shell, failed>>

\* ... and the connections, with everything exported on them.
CloseConnections ==
    /\ stage = "deaf"
    /\ stage' = "closed"
    /\ callbacks' = [p \in Paths |-> NoLife]
    /\ UNCHANGED <<prompter, bridge, keyringVars, conv, handler, shell, signals, queue, failed>>

Connected == stage # "closed"
Served == stage \notin {"connecting", "closed"}    \* the front name is ours

-----------------------------------------------------------------------------
(* The client's side *)

\* PromptHandler.Prompt forwards the call; the keyring answers at once.
Prompt(u) ==
    /\ Served
    /\ conv[u] = "idle"
    /\ life # NoLife
    /\ conv' = [conv EXCEPT ![u] = "asked"]
    /\ by' = [by EXCEPT ![u] = life]
    /\ UNCHANGED <<proxyVars, life, begun, path, handler, callbacks, shell, signals, queue, failed>>

Alive(u) == by[u] = life /\ life # NoLife

\* PromptHandler.Dismiss forwards too: the keyring gives the prompt up.
Dismiss(u) ==
    /\ Served
    /\ Alive(u)
    /\ conv[u] \in {"begun", "ready", "performing"}
    /\ conv' = [conv EXCEPT ![u] = "answered"]
    /\ UNCHANGED <<proxyVars, keyringVars, handler, callbacks, shell, signals, queue, failed>>

\* Mutant: the name filter of run() does not let Completed through.
SkipSignal ==
    /\ signals # "none"
    /\ Connected
    /\ queue # <<>>
    /\ queue' = Tail(queue)
    /\ UNCHANGED <<proxyVars, keyringVars, conv, handler, callbacks, shell, signals, failed>>

\* The forwarder's goroutine re-emits the oldest signal, and may still do so
\* after close(): select picks any case that is ready.
ForwardSignal ==
    /\ signals # "none"
    /\ Connected
    /\ queue # <<>>
    /\ queue' = Tail(queue)
    /\ conv' = [conv EXCEPT ![Head(queue)] = "seen"]
    /\ UNCHANGED <<proxyVars, keyringVars, handler, callbacks, shell, signals, failed>>

-----------------------------------------------------------------------------
(* External: the keyring, life by life *)

\* The keyring makes a callback object and calls BeginPrompting on whoever
\* owns SystemPrompter: the bridge, or its connection, which refuses a call of
\* what is not exported yet; the bus starts the fallback if nobody does.
BeginCall(u) ==
    /\ conv[u] = "asked"
    /\ Alive(u)
    /\ begun' = begun + 1
    /\ path' = [path EXCEPT ![u] = begun']
    /\ \/ /\ prompter = "bridge" /\ bridge = "active"
          /\ conv' = [conv EXCEPT ![u] = "beginning"]
          /\ handler' = [handler EXCEPT ![u] = "BeginPrompting"]
          /\ UNCHANGED prompter
       \/ /\ prompter = "bridge" /\ bridge # "active"
          /\ conv' = [conv EXCEPT ![u] = "ended"]
          /\ UNCHANGED <<handler, prompter>>
       \/ /\ prompter # "bridge"
          /\ conv' = [conv EXCEPT ![u] = "elsewhere"]
          /\ prompter' = "fallback"
          /\ UNCHANGED handler
    /\ UNCHANGED <<stage, bridge, life, by, callbacks, shell, signals, queue, failed>>

\* PerformPrompt is a pure pass-through; a prompt the shell dropped is an error.
PerformPrompt(u) ==
    /\ conv[u] = "ready"
    /\ Alive(u)
    /\ Connected
    /\ conv' = [conv EXCEPT ![u] = IF shell[path[u]] = u THEN "performing" ELSE "answered"]
    /\ UNCHANGED <<proxyVars, keyringVars, handler, callbacks, shell, signals, queue, failed>>

StopCall(u) ==
    /\ conv[u] = "answered"
    /\ Alive(u)
    /\ Connected
    /\ conv' = [conv EXCEPT ![u] = "stopping"]
    /\ handler' = [handler EXCEPT ![u] = "StopPrompting"]
    /\ UNCHANGED <<proxyVars, keyringVars, callbacks, shell, signals, queue, failed>>

\* Completed, to the channel of the forwarder, once there is one.
EmitCompleted(u) ==
    /\ conv[u] = "ended"
    /\ Alive(u)
    /\ conv' = [conv EXCEPT ![u] = "completed"]
    /\ queue' = IF signals = "running" THEN Append(queue, u) ELSE queue
    /\ UNCHANGED <<proxyVars, keyringVars, handler, callbacks, shell, signals, failed>>

\* The fallback, which may have no display, ends a prompt or does not.
FallbackEnds(u) ==
    /\ conv[u] = "elsewhere"
    /\ Alive(u)
    /\ conv' = [conv EXCEPT ![u] = "ended"]
    /\ UNCHANGED <<proxyVars, keyringVars, handler, callbacks, shell, signals, queue, failed>>

\* The keyring dies and another is started: its unit has no Restart=, but a
\* login, an installation or systemctl starts it again.
Die ==
    /\ life # NoLife
    /\ life < MaxLives
    /\ life' = life + 1
    /\ begun' = 0
    /\ UNCHANGED <<proxyVars, conv, by, path, handler, callbacks, shell, signals, queue, failed>>

-----------------------------------------------------------------------------
(* The bridge: calls of the keyring *)

\* Mutant: BeginPrompting forwards without a callback proxy.
NoExport(u) ==
    /\ handler[u] = "BeginPrompting"
    /\ Connected
    /\ handler' = [handler EXCEPT ![u] = "exported"]
    /\ UNCHANGED <<proxyVars, keyringVars, conv, callbacks, shell, signals, queue, failed>>

\* exportCallback: a path that has a proxy already keeps it.
ExportCallback(u) ==
    /\ handler[u] = "BeginPrompting"
    /\ Connected
    /\ handler' = [handler EXCEPT ![u] = "exported"]
    /\ callbacks' = IF callbacks[path[u]] = NoLife THEN [callbacks EXCEPT ![path[u]] = by[u]] ELSE callbacks
    /\ UNCHANGED <<proxyVars, keyringVars, conv, shell, signals, queue, failed>>

\* The reply of the handler, which a keyring that died does not get.
Reply(u, place) == conv' = IF Alive(u) THEN [conv EXCEPT ![u] = place] ELSE conv

\* forwardVoid(BeginPrompting): the shell refuses a path it has a prompt for.
ForwardBegin(u) ==
    /\ handler[u] = "exported"
    /\ Connected
    /\ handler' = [handler EXCEPT ![u] = "none"]
    /\ IF shell[path[u]] = NoUnlock
       THEN /\ shell' = [shell EXCEPT ![path[u]] = u]
            /\ Reply(u, "begun")
            /\ UNCHANGED failed
       ELSE /\ failed' = failed \cup {u}
            /\ Reply(u, "ended")
            /\ UNCHANGED shell
    /\ UNCHANGED <<proxyVars, keyringVars, callbacks, signals, queue>>

\* Nobody owns the prompter on the front bus, or it fails the call.
ForwardBeginFails(u) ==
    /\ handler[u] = "exported"
    /\ handler' = [handler EXCEPT ![u] = "none"]
    /\ failed' = failed \cup {u}
    /\ Reply(u, "ended")
    /\ UNCHANGED <<proxyVars, keyringVars, callbacks, shell, signals, queue>>

\* forwardVoid(StopPrompting); its error does not keep the proxy.
ForwardStop(u) ==
    /\ handler[u] = "StopPrompting"
    /\ Connected
    /\ handler' = [handler EXCEPT ![u] = "stopped"]
    /\ shell' = IF shell[path[u]] # NoUnlock THEN [shell EXCEPT ![path[u]] = NoUnlock] ELSE shell
    /\ UNCHANGED <<proxyVars, keyringVars, conv, callbacks, signals, queue, failed>>

\* Mutant: StopPrompting returns without unexportCallback.
KeepCallback(u) ==
    /\ handler[u] = "stopped"
    /\ handler' = [handler EXCEPT ![u] = "none"]
    /\ Reply(u, "ended")
    /\ UNCHANGED <<proxyVars, keyringVars, callbacks, shell, signals, queue, failed>>

\* unexportCallback, and StopPrompting returns.
UnexportCallback(u) ==
    /\ handler[u] = "stopped"
    /\ handler' = [handler EXCEPT ![u] = "none"]
    /\ callbacks' = [callbacks EXCEPT ![path[u]] = NoLife]
    /\ Reply(u, "ended")
    /\ UNCHANGED <<proxyVars, keyringVars, shell, signals, queue, failed>>

-----------------------------------------------------------------------------
(* The bridge: callbacks of the shell *)

\* A call of the shell's on path p reaches the keyring that waits for it:
\* prompterCallback forwards to the life it was made for.
Heard(p) == Connected /\ Alive(shell[p]) /\ callbacks[p] = by[shell[p]]

\* The shell calls PromptReady when its turn has come, and when the user
\* answered or cancelled the dialog; it drops the prompt when the call fails.
PromptReady(p) ==
    /\ shell[p] # NoUnlock
    /\ \/ /\ Heard(p)
          /\ conv[shell[p]] \in {"begun", "performing"}
          /\ conv' = [conv EXCEPT ![shell[p]] = IF @ = "begun" THEN "ready" ELSE "answered"]
          /\ UNCHANGED shell
       \/ /\ ~Heard(p)
          /\ shell' = [shell EXCEPT ![p] = NoUnlock]
          /\ UNCHANGED conv
    /\ UNCHANGED <<proxyVars, keyringVars, handler, callbacks, signals, queue, failed>>

\* The shell gives a prompt up (PromptDone), and the keyring, if it hears of
\* it, stops the prompt.
PromptDone(p) ==
    /\ shell[p] # NoUnlock
    /\ shell' = [shell EXCEPT ![p] = NoUnlock]
    /\ conv' = IF Heard(p) /\ conv[shell[p]] \in {"begun", "ready", "performing"}
               THEN [conv EXCEPT ![shell[p]] = "answered"]
               ELSE conv
    /\ UNCHANGED <<proxyVars, keyringVars, handler, callbacks, signals, queue, failed>>

-----------------------------------------------------------------------------

Lifecycle == RequestName \/ StartSignals \/ ClaimPrompter \/ StartBridge
Closing == CloseBridge \/ CloseSignals \/ ForwarderLeaves \/ CloseConnections

KeyringStep(u) == BeginCall(u) \/ PerformPrompt(u) \/ StopCall(u) \/ EmitCompleted(u)

BridgeStep(u) ==
    \/ ExportCallback(u) \/ ForwardBegin(u) \/ ForwardBeginFails(u)
    \/ ForwardStop(u) \/ UnexportCallback(u)

Next ==
    \/ Lifecycle
    \/ Closing
    \/ \E u \in Unlocks : Prompt(u) \/ Dismiss(u) \/ KeyringStep(u) \/ FallbackEnds(u) \/ BridgeStep(u)
    \/ \E p \in Paths : PromptReady(p) \/ PromptDone(p)
    \/ ForwardSignal
    \/ Die

Spec == Init /\ [][Next]_vars

\* Handlers, the forwarder and the two peers do not stop half-way; the user
\* answers or cancels a dialog.  Nothing makes the fallback end a prompt.
FairSpec ==
    /\ Spec
    /\ \A u \in Unlocks : WF_vars(KeyringStep(u)) /\ WF_vars(BridgeStep(u))
    /\ \A p \in Paths : WF_vars(PromptReady(p))
    /\ WF_vars(ForwardSignal)

-----------------------------------------------------------------------------
(* Properties *)

Convs ==
    {"idle", "asked", "elsewhere", "beginning", "begun", "ready", "performing",
     "answered", "stopping", "ended", "completed", "seen"}

\* Types: who owns the prompter (the bridge from its claim until close(), so the
\* fallback is free to serve once that ran), how far every conversation and
\* goroutine is, and which keyring each exported callback proxy forwards to.
TypeOK ==
    /\ stage \in {"connecting", "named", "signals", "claimed", "up", "closing", "deaf", "closed"}
    /\ prompter \in {"none", "bridge", "fallback"}
    /\ bridge \in {"none", "active", "closed"}
    /\ prompter = "bridge" <=> bridge = "active" \/ stage = "claimed"
    /\ life \in Lives
    /\ begun \in 0..Cardinality(Unlocks)
    /\ conv \in [Unlocks -> Convs]
    /\ by \in [Unlocks -> Lives \cup {NoLife}]
    /\ path \in [Unlocks -> 0..Cardinality(Unlocks)]
    /\ handler \in [Unlocks -> {"none", "BeginPrompting", "exported", "StopPrompting", "stopped"}]
    /\ callbacks \in [Paths -> Lives \cup {NoLife}]
    /\ shell \in [Paths -> Unlocks \cup {NoUnlock}]
    /\ signals \in {"none", "running", "done"}
    /\ queue \in Seq(Unlocks)
    /\ failed \subseteq Unlocks

InConversation == {"beginning", "begun", "ready", "performing", "answered", "stopping"}

\* A path is haunted if a keyring that is gone used it for a conversation that
\* did not end with StopPrompting: BeginPrompting failed, or it died before.
Haunted(p) ==
    \E u \in Unlocks :
        /\ path[u] = p
        /\ by[u] # life
        /\ u \in failed \/ conv[u] \in InConversation

\* While the shell prompts for an unlock, its calls reach the keyring that
\* asked: BeginPrompting exports the callback before it forwards, and only that
\* conversation's StopPrompting or close() takes it away.  The exception is the
\* code's: exportCallback keeps a proxy that an earlier keyring left there.
CallbackOwned ==
    \A p \in Paths :
        (shell[p] # NoUnlock /\ bridge = "active" /\ Alive(shell[p]) /\ ~Haunted(p))
            => callbacks[p] = by[shell[p]]

\* No callback proxy outlives its conversation, except the ones the code never
\* unexports: of a BeginPrompting that failed, and of a keyring that died in
\* the middle of its conversation, which never gets to StopPrompting.
NoLeakedCallback ==
    /\ TypeOK
    /\ \A p \in Paths :
          callbacks[p] # NoLife =>
              \E u \in Unlocks :
                  /\ path[u] = p
                  /\ by[u] = callbacks[p]
                  /\ conv[u] \in InConversation \/ u \in failed

\* A client that asks for an unlock while the bridge is up gets Completed:
\* through BeginPrompting, PromptReady, PerformPrompt, PromptReady,
\* StopPrompting and the forwarded signal, each of which may fail.  The ways
\* out are Close, a dead keyring, the fallback prompter and a haunted path.
UnlockCompletes ==
    \A u \in Unlocks :
        (conv[u] = "asked" /\ bridge = "active")
            ~> \/ conv[u] = "seen"
               \/ stage # "up"
               \/ ~Alive(u)
               \/ path[u] # 0 /\ Haunted(path[u])

=============================================================================
