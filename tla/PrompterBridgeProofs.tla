------------------------- MODULE PrompterBridgeProofs -------------------------
(***************************************************************************)
(* Proofs about PrompterBridge, for any number of unlocks and of lives of  *)
(* the keyring: the callback proxies belong to the conversations they were *)
(* exported for, and none outlives its own.                                *)
(***************************************************************************)
EXTENDS PrompterBridge, FiniteSetTheorems, SequenceTheorems, TLAPS

\* The unlocks that the keyring of this life has begun.
Begun == {u \in Unlocks : by[u] = life /\ path[u] # 0}

\* A keyring numbers its callback paths from one and uses each of them once.
Numbered ==
    /\ \A u \in Unlocks :
          /\ by[u] <= life
          /\ conv[u] # "idle" => by[u] # NoLife
          /\ path[u] = 0 <=> conv[u] \in {"idle", "asked"}
          /\ by[u] = life => path[u] <= begun
    /\ \A u, v \in Unlocks : path[u] # 0 /\ path[u] = path[v] /\ by[u] = by[v] => u = v
    /\ Cardinality(Begun) = begun

\* There is a conversation with the bridge only after it was active, and it is
\* active only while the proxy is up.
NoConversation == {"idle", "asked", "elsewhere", "ended", "completed", "seen"}

Staged ==
    /\ bridge = "active" => stage = "up"
    /\ stage \in {"connecting", "named", "signals", "claimed"} => bridge = "none"
    /\ bridge = "none" =>
          /\ \A u \in Unlocks : handler[u] = "none" /\ conv[u] \in NoConversation
          /\ \A p \in Paths : shell[p] = NoUnlock

\* Where a conversation is while the bridge handles a call of it, also when
\* its keyring is gone.
Handled ==
    \A u \in Unlocks :
        /\ handler[u] \in {"BeginPrompting", "exported"} => conv[u] = "beginning"
        /\ handler[u] \in {"StopPrompting", "stopped"} => conv[u] = "stopping"
        /\ u \in failed => path[u] # 0

\* The shell has a path of whoever came from there, until he was stopped.
Shown ==
    /\ \A p \in Paths : shell[p] # NoUnlock => path[shell[p]] = p
    /\ \A u \in Unlocks : handler[u] = "stopped" => shell[path[u]] # u

\* The signals under way are about conversations that are over.
Queued == \A i \in 1..Len(queue) : conv[queue[i]] \in {"completed", "seen"}

\* Every proxy belongs to a conversation that is not over, or that failed.
Leakless ==
    \A p \in Paths :
        callbacks[p] # NoLife =>
            \E u \in Unlocks :
                /\ path[u] = p
                /\ by[u] = callbacks[p]
                /\ conv[u] \in InConversation \/ u \in failed

\* The proxy is there from its export on, before the shell hears of it, and
\* as long as the shell prompts.
Expects(u) == handler[u] = "exported" \/ (path[u] \in Paths /\ shell[path[u]] = u)

ProxyOwned ==
    \A u \in Unlocks :
        (Expects(u) /\ bridge = "active" /\ Alive(u) /\ ~Haunted(path[u])) => callbacks[path[u]] = by[u]

BridgeInv ==
    TypeOK /\ Numbered /\ Staged /\ Handled /\ Shown /\ Queued /\ Leakless /\ ProxyOwned


-----------------------------------------------------------------------------

\* The number of unlocks.
LEMMA UnlocksCount == Cardinality(Unlocks) \in Nat
  BY UnlocksAssumption, FS_CardinalityType

\* BeginCall: one more of the unlocks is begun, so there is a path for it.
LEMMA BegunGrows ==
    ASSUME TypeOK, Numbered, NEW u \in Unlocks, BeginCall(u)
    PROVE  /\ begun' = begun + 1 /\ begun' \in 1..Cardinality(Unlocks)
           /\ Cardinality(Begun') = begun'
<1>1. /\ conv[u] = "asked" /\ by[u] = life /\ begun' = begun + 1 /\ path' = [path EXCEPT ![u] = begun']
      /\ by' = by /\ life' = life
  BY DEF BeginCall, Alive
<1>2. u \notin Begun /\ begun \in Nat /\ Cardinality(Begun) = begun
  BY <1>1 DEF Numbered, Begun, TypeOK
<1>3. Begun' = Begun \cup {u}
  BY <1>1, <1>2 DEF Begun, TypeOK
<1>4. Begun \subseteq Unlocks /\ Begun' \subseteq Unlocks /\ IsFiniteSet(Unlocks)
  BY <1>3, UnlocksAssumption DEF Begun
<1>5. IsFiniteSet(Begun) /\ Cardinality(Begun') <= Cardinality(Unlocks)
  BY <1>4, FS_Subset
<1>6. Cardinality(Begun') = begun + 1
  BY <1>2, <1>3, <1>5, FS_AddElement
<1>7. QED
  BY <1>1, <1>2, <1>5, <1>6, UnlocksCount

\* Every step keeps the types.
LEMMA TypesKept ==
    ASSUME TypeOK, Numbered, [Next]_vars
    PROVE  TypeOK'
<1> USE LivesAssumption, UnlocksAssumption, UnlocksCount DEF TypeOK
<1>1. CASE RequestName
  BY <1>1 DEF RequestName, keyringVars, proxyVars, Lives
<1>2. CASE StartSignals
  BY <1>2 DEF StartSignals, keyringVars, proxyVars, Lives
<1>3. CASE StartBridge
  BY <1>3 DEF StartBridge, keyringVars, proxyVars, Lives
<1>26. CASE ClaimPrompter
  BY <1>26 DEF ClaimPrompter, keyringVars, proxyVars, Lives
<1>4. CASE CloseBridge
  BY <1>4 DEF CloseBridge, keyringVars, proxyVars, Lives
<1>5. CASE CloseSignals
  BY <1>5 DEF CloseSignals, keyringVars, proxyVars, Lives
<1>6. CASE ForwarderLeaves
  BY <1>6 DEF ForwarderLeaves, keyringVars, proxyVars, Lives
<1>7. CASE CloseConnections
  BY <1>7 DEF CloseConnections, keyringVars, proxyVars, Lives
<1>8. ASSUME NEW u \in Unlocks, Prompt(u) PROVE TypeOK'
  BY <1>8 DEF Prompt, keyringVars, proxyVars, Lives, Convs
<1>9. ASSUME NEW u \in Unlocks, Dismiss(u) PROVE TypeOK'
  BY <1>9 DEF Dismiss, keyringVars, proxyVars, Lives, Convs
<1>10. ASSUME NEW u \in Unlocks, BeginCall(u) PROVE TypeOK'
  <2>1. begun' \in 0..Cardinality(Unlocks)
    BY <1>10 , BegunGrows
  <2>2. path' \in [Unlocks -> 0..Cardinality(Unlocks)]
    BY <1>10, <2>1 DEF BeginCall
  <2>3. QED
    BY <1>10, <2>1, <2>2 DEF BeginCall, Convs
<1>11. ASSUME NEW u \in Unlocks, PerformPrompt(u) PROVE TypeOK'
  BY <1>11 DEF PerformPrompt, keyringVars, proxyVars, Lives, Convs
<1>12. ASSUME NEW u \in Unlocks, StopCall(u) PROVE TypeOK'
  BY <1>12 DEF StopCall, keyringVars, proxyVars, Lives, Convs
<1>13. ASSUME NEW u \in Unlocks, EmitCompleted(u) PROVE TypeOK'
  BY <1>13 DEF EmitCompleted, keyringVars, proxyVars, Lives, Convs
<1>14. ASSUME NEW u \in Unlocks, FallbackEnds(u) PROVE TypeOK'
  BY <1>14 DEF FallbackEnds, keyringVars, proxyVars, Lives, Convs
<1>15. ASSUME NEW u \in Unlocks, ExportCallback(u) PROVE TypeOK'
  BY <1>15 DEF ExportCallback, keyringVars, proxyVars, Lives, Convs
<1>16. ASSUME NEW u \in Unlocks, ForwardBegin(u) PROVE TypeOK'
  BY <1>16 DEF ForwardBegin, keyringVars, proxyVars, Lives, Reply, Convs
<1>17. ASSUME NEW u \in Unlocks, ForwardBeginFails(u) PROVE TypeOK'
  BY <1>17 DEF ForwardBeginFails, keyringVars, proxyVars, Lives, Reply, Convs
<1>18. ASSUME NEW u \in Unlocks, ForwardStop(u) PROVE TypeOK'
  BY <1>18 DEF ForwardStop, keyringVars, proxyVars, Lives
<1>19. ASSUME NEW u \in Unlocks, UnexportCallback(u) PROVE TypeOK'
  BY <1>19 DEF UnexportCallback, keyringVars, proxyVars, Lives, Reply, Convs
<1>20. ASSUME NEW p \in Paths, PromptReady(p) PROVE TypeOK'
  <2>1. conv' \in [Unlocks -> Convs]
    BY <1>20 DEF PromptReady, Convs
  <2>2. shell' \in [Paths -> Unlocks \cup {NoUnlock}]
    BY <1>20 DEF PromptReady
  <2>3. UNCHANGED <<stage, prompter, bridge, life, begun, by, path, handler, callbacks, signals, queue, failed>>
    BY <1>20 DEF PromptReady, keyringVars, proxyVars
  <2>4. QED
    BY <2>1, <2>2, <2>3
<1>21. ASSUME NEW p \in Paths, PromptDone(p) PROVE TypeOK'
  BY <1>21 DEF PromptDone, keyringVars, proxyVars, Lives, Convs
<1>22. CASE ForwardSignal
  BY <1>22 DEF ForwardSignal, keyringVars, proxyVars, Lives, Convs
<1>23. CASE Die
  BY <1>23 DEF Die, keyringVars, proxyVars, Lives
<1>24. CASE UNCHANGED vars
  BY <1>24 DEF vars, keyringVars, proxyVars, Lives
<1>25. QED
  BY <1>1, <1>2, <1>3, <1>4, <1>5, <1>6, <1>7, <1>8, <1>9, <1>10, <1>11, <1>12, <1>13, <1>14,
     <1>15, <1>16, <1>17, <1>18, <1>19, <1>20, <1>21, <1>22, <1>23, <1>24, <1>26
     DEF Next, Lifecycle, Closing, KeyringStep, BridgeStep

\* The oldest signal.
LEMMA QueueHead ==
    ASSUME TypeOK, Queued, queue # <<>>
    PROVE  /\ Head(queue) \in Unlocks /\ conv[Head(queue)] \in {"completed", "seen"}
           /\ \A i \in 1..Len(Tail(queue)) : Tail(queue)[i] \in Unlocks /\ conv[Tail(queue)[i]] \in {"completed", "seen"}
<1>1. /\ queue \in Seq(Unlocks) /\ Len(queue) \in Nat \ {0} /\ Head(queue) = queue[1]
      /\ \A i \in 1..Len(queue) : queue[i] \in Unlocks
  BY EmptySeq, LenProperties, ElementOfSeq, HeadTailProperties DEF TypeOK
<1>2. /\ Len(Tail(queue)) = Len(queue) - 1
      /\ \A i \in 1..Len(Tail(queue)) : Tail(queue)[i] = queue[i + 1]
  BY <1>1, HeadTailProperties DEF TypeOK
<1>3. QED
  BY <1>1, <1>2 DEF Queued

\* Nothing about the paths changes while conversations go on.
LEMMA NumberedStays ==
    ASSUME Numbered, UNCHANGED <<life, begun, by, path>>,
           \A u \in Unlocks : conv'[u] \in {"idle", "asked"} <=> conv[u] \in {"idle", "asked"},
           \A u \in Unlocks : conv'[u] # "idle" => by[u] # NoLife
    PROVE  Numbered'
<1>1. Begun' = Begun
  BY DEF Begun
<1>2. QED
  BY <1>1 DEF Numbered

\* The keyring numbers its callbacks.
LEMMA NumberedKept ==
    ASSUME TypeOK, Numbered, Handled, Queued, [Next]_vars
    PROVE  Numbered'
<1>1. CASE RequestName
  <2>1. UNCHANGED <<life, begun, by, path, conv>>
    BY <1>1 DEF RequestName, keyringVars
  <2>2. QED
    BY <2>1, NumberedStays DEF Numbered
<1>2. CASE StartSignals
  <2>1. UNCHANGED <<life, begun, by, path, conv>>
    BY <1>2 DEF StartSignals, keyringVars
  <2>2. QED
    BY <2>1, NumberedStays DEF Numbered
<1>3. CASE StartBridge
  <2>1. UNCHANGED <<life, begun, by, path, conv>>
    BY <1>3 DEF StartBridge, keyringVars
  <2>2. QED
    BY <2>1, NumberedStays DEF Numbered
<1>26. CASE ClaimPrompter
  <2>1. UNCHANGED <<life, begun, by, path, conv>>
    BY <1>26 DEF ClaimPrompter, keyringVars
  <2>2. QED
    BY <2>1, NumberedStays DEF Numbered
<1>4. CASE CloseBridge
  <2>1. UNCHANGED <<life, begun, by, path, conv>>
    BY <1>4 DEF CloseBridge, keyringVars
  <2>2. QED
    BY <2>1, NumberedStays DEF Numbered
<1>5. CASE CloseSignals
  <2>1. UNCHANGED <<life, begun, by, path, conv>>
    BY <1>5 DEF CloseSignals, keyringVars
  <2>2. QED
    BY <2>1, NumberedStays DEF Numbered
<1>6. CASE ForwarderLeaves
  <2>1. UNCHANGED <<life, begun, by, path, conv>>
    BY <1>6 DEF ForwarderLeaves, keyringVars
  <2>2. QED
    BY <2>1, NumberedStays DEF Numbered
<1>7. CASE CloseConnections
  <2>1. UNCHANGED <<life, begun, by, path, conv>>
    BY <1>7 DEF CloseConnections, keyringVars
  <2>2. QED
    BY <2>1, NumberedStays DEF Numbered
<1>8. ASSUME NEW u \in Unlocks, Prompt(u) PROVE Numbered'
  <2>1. /\ conv' = [conv EXCEPT ![u] = "asked"] /\ by' = [by EXCEPT ![u] = life] /\ conv[u] = "idle"
        /\ UNCHANGED <<life, begun, path>> /\ life # NoLife
    BY <1>8 DEF Prompt
  <2>2. path[u] = 0
    BY <2>1 DEF Numbered
  <2>3. Begun' = Begun
    BY <2>1, <2>2 DEF Begun, TypeOK
  <2>4. \A v \in Unlocks : v # u => by'[v] = by[v] /\ conv'[v] = conv[v]
    BY <2>1 DEF TypeOK
  <2>5. by'[u] = life /\ conv'[u] = "asked" /\ life \in Nat /\ begun \in Nat
    BY <2>1 DEF TypeOK, Lives
  <2>6. QED
    BY <2>1, <2>2, <2>3, <2>4, <2>5 DEF Numbered
<1>9. ASSUME NEW u \in Unlocks, Dismiss(u) PROVE Numbered'
  <2>1. UNCHANGED <<life, begun, by, path>>
    BY <1>9 DEF Dismiss, keyringVars
  <2>2. \A v \in Unlocks : /\ conv'[v] \in {"idle", "asked"} <=> conv[v] \in {"idle", "asked"}
                           /\ conv'[v] # "idle" => by[v] # NoLife
    BY <1>9 DEF Dismiss, TypeOK, Numbered
  <2>3. QED
    BY <2>1, <2>2, NumberedStays
<1>10. ASSUME NEW u \in Unlocks, BeginCall(u) PROVE Numbered'
  <2>1. /\ path' = [path EXCEPT ![u] = begun'] /\ UNCHANGED <<life, by>>
        /\ conv[u] = "asked" /\ conv' \in {[conv EXCEPT ![u] = "beginning"], [conv EXCEPT ![u] = "elsewhere"],
                                           [conv EXCEPT ![u] = "ended"]}
        /\ by[u] = life
    BY <1>10 DEF BeginCall, Alive
  <2>2. begun' = begun + 1 /\ begun' \in 1..Cardinality(Unlocks) /\ Cardinality(Begun') = begun' /\ begun \in Nat
    BY <1>10, BegunGrows DEF TypeOK
  <2>3. path'[u] = begun' /\ conv'[u] \notin {"idle", "asked"} /\ \A v \in Unlocks : v # u => path'[v] = path[v] /\ conv'[v] = conv[v]
    BY <2>1 DEF TypeOK
  <2>4. \A v \in Unlocks : path[v] \in Nat /\ (by[v] = life => path[v] < begun')
    BY <2>2 DEF TypeOK, Numbered
  <2>5. QED
    BY <2>1, <2>2, <2>3, <2>4 DEF Numbered
<1>11. ASSUME NEW u \in Unlocks, PerformPrompt(u) PROVE Numbered'
  <2>1. UNCHANGED <<life, begun, by, path>>
    BY <1>11 DEF PerformPrompt, keyringVars
  <2>2. \A v \in Unlocks : /\ conv'[v] \in {"idle", "asked"} <=> conv[v] \in {"idle", "asked"}
                           /\ conv'[v] # "idle" => by[v] # NoLife
    BY <1>11 DEF PerformPrompt, TypeOK, Numbered
  <2>3. QED
    BY <2>1, <2>2, NumberedStays
<1>12. ASSUME NEW u \in Unlocks, StopCall(u) PROVE Numbered'
  <2>1. UNCHANGED <<life, begun, by, path>>
    BY <1>12 DEF StopCall, keyringVars
  <2>2. \A v \in Unlocks : /\ conv'[v] \in {"idle", "asked"} <=> conv[v] \in {"idle", "asked"}
                           /\ conv'[v] # "idle" => by[v] # NoLife
    BY <1>12 DEF StopCall, TypeOK, Numbered
  <2>3. QED
    BY <2>1, <2>2, NumberedStays
<1>13. ASSUME NEW u \in Unlocks, EmitCompleted(u) PROVE Numbered'
  <2>1. UNCHANGED <<life, begun, by, path>>
    BY <1>13 DEF EmitCompleted, keyringVars
  <2>2. \A v \in Unlocks : /\ conv'[v] \in {"idle", "asked"} <=> conv[v] \in {"idle", "asked"}
                           /\ conv'[v] # "idle" => by[v] # NoLife
    BY <1>13 DEF EmitCompleted, TypeOK, Numbered
  <2>3. QED
    BY <2>1, <2>2, NumberedStays
<1>14. ASSUME NEW u \in Unlocks, FallbackEnds(u) PROVE Numbered'
  <2>1. UNCHANGED <<life, begun, by, path>>
    BY <1>14 DEF FallbackEnds, keyringVars
  <2>2. \A v \in Unlocks : /\ conv'[v] \in {"idle", "asked"} <=> conv[v] \in {"idle", "asked"}
                           /\ conv'[v] # "idle" => by[v] # NoLife
    BY <1>14 DEF FallbackEnds, TypeOK, Numbered
  <2>3. QED
    BY <2>1, <2>2, NumberedStays
<1>15. ASSUME NEW u \in Unlocks, ExportCallback(u) PROVE Numbered'
  <2>1. UNCHANGED <<life, begun, by, path, conv>>
    BY <1>15 DEF ExportCallback, keyringVars
  <2>2. QED
    BY <2>1, NumberedStays DEF Numbered
<1>16. ASSUME NEW u \in Unlocks, ForwardBegin(u) PROVE Numbered'
  <2>1. UNCHANGED <<life, begun, by, path>>
    BY <1>16 DEF ForwardBegin, keyringVars
  <2>2. \A v \in Unlocks : /\ conv'[v] \in {"idle", "asked"} <=> conv[v] \in {"idle", "asked"}
                           /\ conv'[v] # "idle" => by[v] # NoLife
    BY <1>16 DEF ForwardBegin, TypeOK, Numbered, Reply, Handled
  <2>3. QED
    BY <2>1, <2>2, NumberedStays
<1>17. ASSUME NEW u \in Unlocks, ForwardBeginFails(u) PROVE Numbered'
  <2>1. UNCHANGED <<life, begun, by, path>>
    BY <1>17 DEF ForwardBeginFails, keyringVars
  <2>2. \A v \in Unlocks : /\ conv'[v] \in {"idle", "asked"} <=> conv[v] \in {"idle", "asked"}
                           /\ conv'[v] # "idle" => by[v] # NoLife
    BY <1>17 DEF ForwardBeginFails, TypeOK, Numbered, Reply, Handled
  <2>3. QED
    BY <2>1, <2>2, NumberedStays
<1>18. ASSUME NEW u \in Unlocks, ForwardStop(u) PROVE Numbered'
  <2>1. UNCHANGED <<life, begun, by, path, conv>>
    BY <1>18 DEF ForwardStop, keyringVars
  <2>2. QED
    BY <2>1, NumberedStays DEF Numbered
<1>19. ASSUME NEW u \in Unlocks, UnexportCallback(u) PROVE Numbered'
  <2>1. UNCHANGED <<life, begun, by, path>>
    BY <1>19 DEF UnexportCallback, keyringVars
  <2>2. \A v \in Unlocks : /\ conv'[v] \in {"idle", "asked"} <=> conv[v] \in {"idle", "asked"}
                           /\ conv'[v] # "idle" => by[v] # NoLife
    BY <1>19 DEF UnexportCallback, TypeOK, Numbered, Reply, Handled
  <2>3. QED
    BY <2>1, <2>2, NumberedStays
<1>20. ASSUME NEW p \in Paths, PromptReady(p) PROVE Numbered'
  <2>1. UNCHANGED <<life, begun, by, path>>
    BY <1>20 DEF PromptReady, keyringVars
  <2>2. \A v \in Unlocks : /\ conv'[v] \in {"idle", "asked"} <=> conv[v] \in {"idle", "asked"}
                           /\ conv'[v] # "idle" => by[v] # NoLife
    BY <1>20 DEF PromptReady, TypeOK, Numbered
  <2>3. QED
    BY <2>1, <2>2, NumberedStays
<1>21. ASSUME NEW p \in Paths, PromptDone(p) PROVE Numbered'
  <2>1. UNCHANGED <<life, begun, by, path>>
    BY <1>21 DEF PromptDone, keyringVars
  <2>2. \A v \in Unlocks : /\ conv'[v] \in {"idle", "asked"} <=> conv[v] \in {"idle", "asked"}
                           /\ conv'[v] # "idle" => by[v] # NoLife
    BY <1>21 DEF PromptDone, TypeOK, Numbered
  <2>3. QED
    BY <2>1, <2>2, NumberedStays
<1>22. CASE ForwardSignal
  <2>1. UNCHANGED <<life, begun, by, path>>
    BY <1>22 DEF ForwardSignal, keyringVars
  <2>2. Head(queue) \in Unlocks /\ conv[Head(queue)] \in {"completed", "seen"}
    BY <1>22, QueueHead DEF ForwardSignal
  <2>4. \A v \in Unlocks : /\ conv'[v] \in {"idle", "asked"} <=> conv[v] \in {"idle", "asked"}
                           /\ conv'[v] # "idle" => by[v] # NoLife
    BY <1>22, <2>2 DEF ForwardSignal, TypeOK, Numbered
  <2>5. QED
    BY <2>1, <2>4, NumberedStays
<1>23. CASE Die
  <2>1. life' = life + 1 /\ begun' = 0 /\ UNCHANGED <<by, path, conv>> /\ life \in Nat /\ \A v \in Unlocks : by[v] \in Nat /\ by[v] <= life
    BY <1>23 DEF Die, TypeOK, Lives, NoLife, Numbered
  <2>2. Begun' = {}
    BY <2>1 DEF Begun
  <2>3. QED
    BY <2>1, <2>2, FS_EmptySet DEF Numbered
<1>24. CASE UNCHANGED vars
  <2>1. UNCHANGED <<life, begun, by, path, conv>>
    BY <1>24 DEF vars, keyringVars, keyringVars
  <2>2. QED
    BY <2>1, NumberedStays DEF Numbered
<1>25. QED
  BY <1>1, <1>2, <1>3, <1>4, <1>5, <1>6, <1>7, <1>8, <1>9, <1>10, <1>11, <1>12, <1>13, <1>14,
     <1>15, <1>16, <1>17, <1>18, <1>19, <1>20, <1>21, <1>22, <1>23, <1>24, <1>26
     DEF Next, Lifecycle, Closing, KeyringStep, BridgeStep

\* The bridge is active between StartBridge and CloseBridge.
LEMMA StagedKept ==
    ASSUME TypeOK, Staged, Handled, Queued, [Next]_vars
    PROVE  Staged'
<1> USE DEF Staged
<1>1. CASE RequestName
  BY <1>1 DEF RequestName, keyringVars, proxyVars, NoConversation, TypeOK
<1>2. CASE StartSignals
  BY <1>2 DEF StartSignals, keyringVars, proxyVars, NoConversation, TypeOK
<1>3. CASE StartBridge
  BY <1>3 DEF StartBridge, keyringVars, proxyVars, NoConversation, TypeOK
<1>26. CASE ClaimPrompter
  BY <1>26 DEF ClaimPrompter, keyringVars, proxyVars, NoConversation, TypeOK
<1>4. CASE CloseBridge
  BY <1>4 DEF CloseBridge, keyringVars, proxyVars, NoConversation, TypeOK
<1>5. CASE CloseSignals
  BY <1>5 DEF CloseSignals, keyringVars, proxyVars, NoConversation, TypeOK
<1>6. CASE ForwarderLeaves
  BY <1>6 DEF ForwarderLeaves, keyringVars, proxyVars, NoConversation, TypeOK
<1>7. CASE CloseConnections
  BY <1>7 DEF CloseConnections, keyringVars, proxyVars, NoConversation, TypeOK
<1>8. ASSUME NEW u \in Unlocks, Prompt(u) PROVE Staged'
  BY <1>8 DEF Prompt, keyringVars, proxyVars, NoConversation, TypeOK
<1>9. ASSUME NEW u \in Unlocks, Dismiss(u) PROVE Staged'
  BY <1>9 DEF Dismiss, keyringVars, proxyVars, NoConversation, TypeOK
<1>10. ASSUME NEW u \in Unlocks, BeginCall(u) PROVE Staged'
  BY <1>10 DEF BeginCall, keyringVars, proxyVars, NoConversation, TypeOK
<1>11. ASSUME NEW u \in Unlocks, PerformPrompt(u) PROVE Staged'
  BY <1>11 DEF PerformPrompt, keyringVars, proxyVars, NoConversation, TypeOK
<1>12. ASSUME NEW u \in Unlocks, StopCall(u) PROVE Staged'
  BY <1>12 DEF StopCall, keyringVars, proxyVars, NoConversation, TypeOK
<1>13. ASSUME NEW u \in Unlocks, EmitCompleted(u) PROVE Staged'
  BY <1>13 DEF EmitCompleted, keyringVars, proxyVars, NoConversation, TypeOK
<1>14. ASSUME NEW u \in Unlocks, FallbackEnds(u) PROVE Staged'
  BY <1>14 DEF FallbackEnds, keyringVars, proxyVars, NoConversation, TypeOK
<1>15. ASSUME NEW u \in Unlocks, ExportCallback(u) PROVE Staged'
  BY <1>15 DEF ExportCallback, keyringVars, proxyVars, NoConversation, TypeOK
<1>16. ASSUME NEW u \in Unlocks, ForwardBegin(u) PROVE Staged'
  BY <1>16 DEF ForwardBegin, keyringVars, proxyVars, NoConversation, TypeOK, Reply
<1>17. ASSUME NEW u \in Unlocks, ForwardBeginFails(u) PROVE Staged'
  BY <1>17 DEF ForwardBeginFails, keyringVars, proxyVars, NoConversation, TypeOK, Reply
<1>18. ASSUME NEW u \in Unlocks, ForwardStop(u) PROVE Staged'
  BY <1>18 DEF ForwardStop, keyringVars, proxyVars, NoConversation, TypeOK
<1>19. ASSUME NEW u \in Unlocks, UnexportCallback(u) PROVE Staged'
  BY <1>19 DEF UnexportCallback, keyringVars, proxyVars, NoConversation, TypeOK, Reply
<1>20. ASSUME NEW p \in Paths, PromptReady(p) PROVE Staged'
  BY <1>20 DEF PromptReady, keyringVars, proxyVars, NoConversation, TypeOK
<1>21. ASSUME NEW p \in Paths, PromptDone(p) PROVE Staged'
  BY <1>21 DEF PromptDone, keyringVars, proxyVars, NoConversation, TypeOK
<1>22. CASE ForwardSignal
  BY <1>22 DEF ForwardSignal, keyringVars, proxyVars, NoConversation, TypeOK
<1>23. CASE Die
  BY <1>23 DEF Die, keyringVars, proxyVars, NoConversation, TypeOK
<1>24. CASE UNCHANGED vars
  BY <1>24 DEF vars, keyringVars, proxyVars, NoConversation, TypeOK
<1>25. QED
  BY <1>1, <1>2, <1>3, <1>4, <1>5, <1>6, <1>7, <1>8, <1>9, <1>10, <1>11, <1>12, <1>13, <1>14,
     <1>15, <1>16, <1>17, <1>18, <1>19, <1>20, <1>21, <1>22, <1>23, <1>24, <1>26
     DEF Next, Lifecycle, Closing, KeyringStep, BridgeStep

\* Whoever the bridge handles a call of has a callback path.
LEMMA HandlerPath ==
    ASSUME TypeOK, Numbered, Handled, NEW u \in Unlocks, handler[u] # "none" \/ u \in failed
    PROVE  path[u] \in Paths /\ by[u] # NoLife
<1>1. path[u] # 0
  BY DEF TypeOK, Numbered, Handled
<1>2. QED
  BY <1>1, UnlocksCount DEF TypeOK, Numbered, Handled, Paths

\* A handler and its conversation go together.
LEMMA HandledKept ==
    ASSUME TypeOK, Numbered, Handled, Queued, Shown, [Next]_vars
    PROVE  Handled'
<1> USE DEF Handled
<1>1. CASE RequestName
  BY <1>1 DEF RequestName, keyringVars, proxyVars, TypeOK, Numbered, Alive, Shown
<1>2. CASE StartSignals
  BY <1>2 DEF StartSignals, keyringVars, proxyVars, TypeOK, Numbered, Alive, Shown
<1>3. CASE StartBridge
  BY <1>3 DEF StartBridge, keyringVars, proxyVars, TypeOK, Numbered, Alive, Shown
<1>26. CASE ClaimPrompter
  BY <1>26 DEF ClaimPrompter, keyringVars, proxyVars, TypeOK, Numbered, Alive, Shown
<1>4. CASE CloseBridge
  BY <1>4 DEF CloseBridge, keyringVars, proxyVars, TypeOK, Numbered, Alive, Shown
<1>5. CASE CloseSignals
  BY <1>5 DEF CloseSignals, keyringVars, proxyVars, TypeOK, Numbered, Alive, Shown
<1>6. CASE ForwarderLeaves
  BY <1>6 DEF ForwarderLeaves, keyringVars, proxyVars, TypeOK, Numbered, Alive, Shown
<1>7. CASE CloseConnections
  BY <1>7 DEF CloseConnections, keyringVars, proxyVars, TypeOK, Numbered, Alive, Shown
<1>8. ASSUME NEW u \in Unlocks, Prompt(u) PROVE Handled'
  BY <1>8 DEF Prompt, keyringVars, proxyVars, TypeOK, Numbered, Alive, Shown
<1>9. ASSUME NEW u \in Unlocks, Dismiss(u) PROVE Handled'
  BY <1>9 DEF Dismiss, keyringVars, proxyVars, TypeOK, Numbered, Alive, Shown
<1>10. ASSUME NEW u \in Unlocks, BeginCall(u) PROVE Handled'
  BY <1>10, BegunGrows DEF BeginCall, keyringVars, proxyVars, TypeOK, Numbered, Alive, Shown
<1>11. ASSUME NEW u \in Unlocks, PerformPrompt(u) PROVE Handled'
  BY <1>11 DEF PerformPrompt, keyringVars, proxyVars, TypeOK, Numbered, Alive, Shown
<1>12. ASSUME NEW u \in Unlocks, StopCall(u) PROVE Handled'
  BY <1>12 DEF StopCall, keyringVars, proxyVars, TypeOK, Numbered, Alive, Shown
<1>13. ASSUME NEW u \in Unlocks, EmitCompleted(u) PROVE Handled'
  BY <1>13 DEF EmitCompleted, keyringVars, proxyVars, TypeOK, Numbered, Alive, Shown
<1>14. ASSUME NEW u \in Unlocks, FallbackEnds(u) PROVE Handled'
  BY <1>14 DEF FallbackEnds, keyringVars, proxyVars, TypeOK, Numbered, Alive, Shown
<1>15. ASSUME NEW u \in Unlocks, ExportCallback(u) PROVE Handled'
  BY <1>15 DEF ExportCallback, keyringVars, proxyVars, TypeOK, Numbered, Alive, Shown
<1>16. ASSUME NEW u \in Unlocks, ForwardBegin(u) PROVE Handled'
  BY <1>16 DEF ForwardBegin, keyringVars, proxyVars, TypeOK, Numbered, Alive, Shown, Reply
<1>17. ASSUME NEW u \in Unlocks, ForwardBeginFails(u) PROVE Handled'
  BY <1>17 DEF ForwardBeginFails, keyringVars, proxyVars, TypeOK, Numbered, Alive, Shown, Reply
<1>18. ASSUME NEW u \in Unlocks, ForwardStop(u) PROVE Handled'
  BY <1>18 DEF ForwardStop, keyringVars, proxyVars, TypeOK, Numbered, Alive, Shown
<1>19. ASSUME NEW u \in Unlocks, UnexportCallback(u) PROVE Handled'
  BY <1>19 DEF UnexportCallback, keyringVars, proxyVars, TypeOK, Numbered, Alive, Shown, Reply
<1>20. ASSUME NEW p \in Paths, PromptReady(p) PROVE Handled'
  BY <1>20 DEF PromptReady, keyringVars, proxyVars, TypeOK, Numbered, Alive, Shown
<1>21. ASSUME NEW p \in Paths, PromptDone(p) PROVE Handled'
  BY <1>21 DEF PromptDone, keyringVars, proxyVars, TypeOK, Numbered, Alive, Shown
<1>22. CASE ForwardSignal
  BY <1>22, QueueHead DEF ForwardSignal, keyringVars, proxyVars, TypeOK, Numbered, Alive, Shown
<1>23. CASE Die
  BY <1>23 DEF Die, keyringVars, proxyVars, TypeOK, Numbered, Alive, Shown
<1>24. CASE UNCHANGED vars
  BY <1>24 DEF vars, keyringVars, proxyVars, TypeOK, Numbered, Alive, Shown
<1>25. QED
  BY <1>1, <1>2, <1>3, <1>4, <1>5, <1>6, <1>7, <1>8, <1>9, <1>10, <1>11, <1>12, <1>13, <1>14,
     <1>15, <1>16, <1>17, <1>18, <1>19, <1>20, <1>21, <1>22, <1>23, <1>24, <1>26
     DEF Next, Lifecycle, Closing, KeyringStep, BridgeStep

\* The shell knows an unlock by its path.
LEMMA ShownKept ==
    ASSUME TypeOK, Numbered, Handled, Shown, [Next]_vars
    PROVE  Shown'
<1> USE DEF Shown
<1>1. CASE RequestName
  BY <1>1 DEF RequestName, keyringVars, proxyVars, TypeOK, Numbered, Handled, Paths
<1>2. CASE StartSignals
  BY <1>2 DEF StartSignals, keyringVars, proxyVars, TypeOK, Numbered, Handled, Paths
<1>3. CASE StartBridge
  BY <1>3 DEF StartBridge, keyringVars, proxyVars, TypeOK, Numbered, Handled, Paths
<1>26. CASE ClaimPrompter
  BY <1>26 DEF ClaimPrompter, keyringVars, proxyVars, TypeOK, Numbered, Handled, Paths
<1>4. CASE CloseBridge
  BY <1>4 DEF CloseBridge, keyringVars, proxyVars, TypeOK, Numbered, Handled, Paths
<1>5. CASE CloseSignals
  BY <1>5 DEF CloseSignals, keyringVars, proxyVars, TypeOK, Numbered, Handled, Paths
<1>6. CASE ForwarderLeaves
  BY <1>6 DEF ForwarderLeaves, keyringVars, proxyVars, TypeOK, Numbered, Handled, Paths
<1>7. CASE CloseConnections
  BY <1>7 DEF CloseConnections, keyringVars, proxyVars, TypeOK, Numbered, Handled, Paths
<1>8. ASSUME NEW u \in Unlocks, Prompt(u) PROVE Shown'
  BY <1>8 DEF Prompt, keyringVars, proxyVars, TypeOK, Numbered, Handled, Paths
<1>9. ASSUME NEW u \in Unlocks, Dismiss(u) PROVE Shown'
  BY <1>9 DEF Dismiss, keyringVars, proxyVars, TypeOK, Numbered, Handled, Paths
<1>10. ASSUME NEW u \in Unlocks, BeginCall(u) PROVE Shown'
  BY <1>10, BegunGrows DEF BeginCall, keyringVars, proxyVars, TypeOK, Numbered, Handled, Paths
<1>11. ASSUME NEW u \in Unlocks, PerformPrompt(u) PROVE Shown'
  BY <1>11 DEF PerformPrompt, keyringVars, proxyVars, TypeOK, Numbered, Handled, Paths
<1>12. ASSUME NEW u \in Unlocks, StopCall(u) PROVE Shown'
  BY <1>12 DEF StopCall, keyringVars, proxyVars, TypeOK, Numbered, Handled, Paths
<1>13. ASSUME NEW u \in Unlocks, EmitCompleted(u) PROVE Shown'
  BY <1>13 DEF EmitCompleted, keyringVars, proxyVars, TypeOK, Numbered, Handled, Paths
<1>14. ASSUME NEW u \in Unlocks, FallbackEnds(u) PROVE Shown'
  BY <1>14 DEF FallbackEnds, keyringVars, proxyVars, TypeOK, Numbered, Handled, Paths
<1>15. ASSUME NEW u \in Unlocks, ExportCallback(u) PROVE Shown'
  BY <1>15 DEF ExportCallback, keyringVars, proxyVars, TypeOK, Numbered, Handled, Paths
<1>16. ASSUME NEW u \in Unlocks, ForwardBegin(u) PROVE Shown'
  <2>1. /\ shell' \in {shell, [shell EXCEPT ![path[u]] = u]} /\ path' = path /\ handler[u] = "exported"
        /\ handler' = [handler EXCEPT ![u] = "none"]
    BY <1>16 DEF ForwardBegin, keyringVars
  <2>2. path[u] \in Paths
    BY <2>1, HandlerPath
  <2>3. ASSUME NEW p \in Paths, shell'[p] # NoUnlock PROVE path[shell'[p]] = p
    BY <2>1, <2>2, <2>3 DEF TypeOK
  <2>4. ASSUME NEW v \in Unlocks, handler'[v] = "stopped" PROVE shell'[path[v]] # v
    <3>1. v # u /\ handler[v] = "stopped" /\ path[v] \in Paths
      BY <2>1, <2>4, HandlerPath DEF TypeOK
    <3>2. shell'[path[v]] \in {shell[path[v]], u}
      BY <2>1, <2>2, <3>1 DEF TypeOK
    <3>3. QED
      BY <3>1, <3>2
  <2>5. QED
    BY <2>1, <2>3, <2>4
<1>17. ASSUME NEW u \in Unlocks, ForwardBeginFails(u) PROVE Shown'
  BY <1>17 DEF ForwardBeginFails, keyringVars, proxyVars, TypeOK, Numbered, Handled, Paths, Reply
<1>18. ASSUME NEW u \in Unlocks, ForwardStop(u) PROVE Shown'
  BY <1>18, HandlerPath, UnlocksAssumption
     DEF ForwardStop, keyringVars, proxyVars, TypeOK, Numbered, Handled, Paths
<1>19. ASSUME NEW u \in Unlocks, UnexportCallback(u) PROVE Shown'
  BY <1>19 DEF UnexportCallback, keyringVars, proxyVars, TypeOK, Numbered, Handled, Paths, Reply
<1>20. ASSUME NEW p \in Paths, PromptReady(p) PROVE Shown'
  <2>1. shell' \in {shell, [shell EXCEPT ![p] = NoUnlock]} /\ path' = path /\ handler' = handler
    BY <1>20 DEF PromptReady, keyringVars
  <2>2. \A v \in Unlocks : handler[v] = "stopped" => path[v] \in Paths
    BY HandlerPath
  <2>3. QED
    BY <2>1, <2>2, UnlocksAssumption DEF Shown, TypeOK
<1>21. ASSUME NEW p \in Paths, PromptDone(p) PROVE Shown'
  BY <1>21, UnlocksAssumption
     DEF PromptDone, keyringVars, proxyVars, TypeOK, Numbered, Handled, Paths
<1>22. CASE ForwardSignal
  BY <1>22, QueueHead DEF ForwardSignal, keyringVars, proxyVars, TypeOK, Numbered, Handled, Paths
<1>23. CASE Die
  BY <1>23 DEF Die, keyringVars, proxyVars, TypeOK, Numbered, Handled, Paths
<1>24. CASE UNCHANGED vars
  BY <1>24 DEF vars, keyringVars, proxyVars, TypeOK, Numbered, Handled, Paths
<1>25. QED
  BY <1>1, <1>2, <1>3, <1>4, <1>5, <1>6, <1>7, <1>8, <1>9, <1>10, <1>11, <1>12, <1>13, <1>14,
     <1>15, <1>16, <1>17, <1>18, <1>19, <1>20, <1>21, <1>22, <1>23, <1>24, <1>26
     DEF Next, Lifecycle, Closing, KeyringStep, BridgeStep

\* A conversation that is over stays over.
LEMMA QueuedKept ==
    ASSUME TypeOK, Numbered, Handled, Shown, Queued, [Next]_vars
    PROVE  Queued'
<1> USE DEF Queued
<1>1. CASE RequestName
  BY <1>1 DEF RequestName, keyringVars, proxyVars, TypeOK, Numbered, Handled, Paths
<1>2. CASE StartSignals
  BY <1>2 DEF StartSignals, keyringVars, proxyVars, TypeOK, Numbered, Handled, Paths
<1>3. CASE StartBridge
  BY <1>3 DEF StartBridge, keyringVars, proxyVars, TypeOK, Numbered, Handled, Paths
<1>26. CASE ClaimPrompter
  BY <1>26 DEF ClaimPrompter, keyringVars, proxyVars, TypeOK, Numbered, Handled, Paths
<1>4. CASE CloseBridge
  BY <1>4 DEF CloseBridge, keyringVars, proxyVars, TypeOK, Numbered, Handled, Paths
<1>5. CASE CloseSignals
  BY <1>5 DEF CloseSignals, keyringVars, proxyVars, TypeOK, Numbered, Handled, Paths
<1>6. CASE ForwarderLeaves
  BY <1>6 DEF ForwarderLeaves, keyringVars, proxyVars, TypeOK, Numbered, Handled, Paths
<1>7. CASE CloseConnections
  BY <1>7 DEF CloseConnections, keyringVars, proxyVars, TypeOK, Numbered, Handled, Paths
<1>8. ASSUME NEW u \in Unlocks, Prompt(u) PROVE Queued'
  BY <1>8 DEF Prompt, keyringVars, proxyVars, TypeOK, Numbered, Handled, Paths
<1>9. ASSUME NEW u \in Unlocks, Dismiss(u) PROVE Queued'
  BY <1>9 DEF Dismiss, keyringVars, proxyVars, TypeOK, Numbered, Handled, Paths
<1>10. ASSUME NEW u \in Unlocks, BeginCall(u) PROVE Queued'
  <2>1. conv[u] = "asked" /\ queue' = queue /\ \A v \in Unlocks : v # u => conv'[v] = conv[v]
    BY <1>10 DEF BeginCall, TypeOK
  <2>2. \A i \in 1..Len(queue) : queue[i] \in Unlocks /\ queue[i] # u
    BY <2>1, ElementOfSeq DEF TypeOK, Queued
  <2>3. QED
    BY <2>1, <2>2 DEF Queued
<1>11. ASSUME NEW u \in Unlocks, PerformPrompt(u) PROVE Queued'
  BY <1>11 DEF PerformPrompt, keyringVars, proxyVars, TypeOK, Numbered, Handled, Paths
<1>12. ASSUME NEW u \in Unlocks, StopCall(u) PROVE Queued'
  BY <1>12 DEF StopCall, keyringVars, proxyVars, TypeOK, Numbered, Handled, Paths
<1>13. ASSUME NEW u \in Unlocks, EmitCompleted(u) PROVE Queued'
  BY <1>13 DEF EmitCompleted, keyringVars, proxyVars, TypeOK, Numbered, Handled, Paths
<1>14. ASSUME NEW u \in Unlocks, FallbackEnds(u) PROVE Queued'
  BY <1>14 DEF FallbackEnds, keyringVars, proxyVars, TypeOK, Numbered, Handled, Paths
<1>15. ASSUME NEW u \in Unlocks, ExportCallback(u) PROVE Queued'
  BY <1>15 DEF ExportCallback, keyringVars, proxyVars, TypeOK, Numbered, Handled, Paths
<1>16. ASSUME NEW u \in Unlocks, ForwardBegin(u) PROVE Queued'
  BY <1>16 DEF ForwardBegin, keyringVars, proxyVars, TypeOK, Numbered, Handled, Paths, Reply
<1>17. ASSUME NEW u \in Unlocks, ForwardBeginFails(u) PROVE Queued'
  BY <1>17 DEF ForwardBeginFails, keyringVars, proxyVars, TypeOK, Numbered, Handled, Paths, Reply
<1>18. ASSUME NEW u \in Unlocks, ForwardStop(u) PROVE Queued'
  BY <1>18 DEF ForwardStop, keyringVars, proxyVars, TypeOK, Numbered, Handled, Paths
<1>19. ASSUME NEW u \in Unlocks, UnexportCallback(u) PROVE Queued'
  BY <1>19 DEF UnexportCallback, keyringVars, proxyVars, TypeOK, Numbered, Handled, Paths, Reply
<1>20. ASSUME NEW p \in Paths, PromptReady(p) PROVE Queued'
  BY <1>20 DEF PromptReady, keyringVars, proxyVars, TypeOK, Numbered, Handled, Paths
<1>21. ASSUME NEW p \in Paths, PromptDone(p) PROVE Queued'
  BY <1>21 DEF PromptDone, keyringVars, proxyVars, TypeOK, Numbered, Handled, Paths
<1>22. CASE ForwardSignal
  BY <1>22, QueueHead DEF ForwardSignal, keyringVars, proxyVars, TypeOK, Numbered, Handled, Paths
<1>23. CASE Die
  BY <1>23 DEF Die, keyringVars, proxyVars, TypeOK, Numbered, Handled, Paths
<1>24. CASE UNCHANGED vars
  BY <1>24 DEF vars, keyringVars, proxyVars, TypeOK, Numbered, Handled, Paths
<1>25. QED
  BY <1>1, <1>2, <1>3, <1>4, <1>5, <1>6, <1>7, <1>8, <1>9, <1>10, <1>11, <1>12, <1>13, <1>14,
     <1>15, <1>16, <1>17, <1>18, <1>19, <1>20, <1>21, <1>22, <1>23, <1>24, <1>26
     DEF Next, Lifecycle, Closing, KeyringStep, BridgeStep

\* A proxy goes when its conversation is over.
LEMMA LeaklessKept ==
    ASSUME TypeOK, Numbered, Handled, Queued, Leakless, [Next]_vars
    PROVE  Leakless'
<1> USE DEF Leakless
<1>1. CASE RequestName
  BY <1>1 DEF RequestName, keyringVars, proxyVars, TypeOK, Numbered, Handled, InConversation
<1>2. CASE StartSignals
  BY <1>2 DEF StartSignals, keyringVars, proxyVars, TypeOK, Numbered, Handled, InConversation
<1>3. CASE StartBridge
  BY <1>3 DEF StartBridge, keyringVars, proxyVars, TypeOK, Numbered, Handled, InConversation
<1>26. CASE ClaimPrompter
  BY <1>26 DEF ClaimPrompter, keyringVars, proxyVars, TypeOK, Numbered, Handled, InConversation
<1>4. CASE CloseBridge
  BY <1>4 DEF CloseBridge, keyringVars, proxyVars, TypeOK, Numbered, Handled, InConversation
<1>5. CASE CloseSignals
  BY <1>5 DEF CloseSignals, keyringVars, proxyVars, TypeOK, Numbered, Handled, InConversation
<1>6. CASE ForwarderLeaves
  BY <1>6 DEF ForwarderLeaves, keyringVars, proxyVars, TypeOK, Numbered, Handled, InConversation
<1>7. CASE CloseConnections
  BY <1>7 DEF CloseConnections, keyringVars, proxyVars, TypeOK, Numbered, Handled, InConversation
<1>8. ASSUME NEW u \in Unlocks, Prompt(u) PROVE Leakless'
  BY ZenonT(60), <1>8 DEF Prompt, keyringVars, proxyVars, TypeOK, Numbered, Handled, InConversation
<1>9. ASSUME NEW u \in Unlocks, Dismiss(u) PROVE Leakless'
  BY <1>9 DEF Dismiss, keyringVars, proxyVars, TypeOK, Numbered, Handled, InConversation
<1>10. ASSUME NEW u \in Unlocks, BeginCall(u) PROVE Leakless'
  <2>1. /\ conv[u] = "asked" /\ path' = [path EXCEPT ![u] = begun'] /\ UNCHANGED <<callbacks, by, failed>>
        /\ \A v \in Unlocks : v # u => conv'[v] = conv[v]
    BY <1>10 DEF BeginCall, TypeOK
  <2>2. path[u] = 0
    BY <2>1 DEF Numbered
  <2>3. \A v \in Unlocks : path[v] # 0 => path'[v] = path[v] /\ conv'[v] = conv[v]
    BY <2>1, <2>2 DEF TypeOK
  <2>4. \A p \in Paths : p # 0
    BY UnlocksCount DEF Paths
  <2>5. QED
    BY <2>1, <2>3, <2>4 DEF Leakless
<1>11. ASSUME NEW u \in Unlocks, PerformPrompt(u) PROVE Leakless'
  BY <1>11 DEF PerformPrompt, keyringVars, proxyVars, TypeOK, Numbered, Handled, InConversation
<1>12. ASSUME NEW u \in Unlocks, StopCall(u) PROVE Leakless'
  BY <1>12 DEF StopCall, keyringVars, proxyVars, TypeOK, Numbered, Handled, InConversation
<1>13. ASSUME NEW u \in Unlocks, EmitCompleted(u) PROVE Leakless'
  BY <1>13 DEF EmitCompleted, keyringVars, proxyVars, TypeOK, Numbered, Handled, InConversation
<1>14. ASSUME NEW u \in Unlocks, FallbackEnds(u) PROVE Leakless'
  BY ZenonT(60), <1>14 DEF FallbackEnds, keyringVars, proxyVars, TypeOK, Numbered, Handled, InConversation
<1>15. ASSUME NEW u \in Unlocks, ExportCallback(u) PROVE Leakless'
  BY <1>15 DEF ExportCallback, keyringVars, proxyVars, TypeOK, Numbered, Handled, InConversation
<1>16. ASSUME NEW u \in Unlocks, ForwardBegin(u) PROVE Leakless'
  <2>1. UNCHANGED <<callbacks, path, by>> /\ handler[u] = "exported"
    BY <1>16 DEF ForwardBegin, keyringVars
  <2>2. \A v \in Unlocks : conv[v] \in InConversation \/ v \in failed => (conv[v] \in InConversation \/ v \in failed)'
    BY <1>16 DEF ForwardBegin, Reply, InConversation, TypeOK
  <2>3. QED
    BY <2>1, <2>2 DEF Leakless
<1>17. ASSUME NEW u \in Unlocks, ForwardBeginFails(u) PROVE Leakless'
  BY <1>17
     DEF ForwardBeginFails, keyringVars, proxyVars, TypeOK, Numbered, Handled, InConversation,
         Reply
<1>18. ASSUME NEW u \in Unlocks, ForwardStop(u) PROVE Leakless'
  BY <1>18 DEF ForwardStop, keyringVars, proxyVars, TypeOK, Numbered, Handled, InConversation
<1>19. ASSUME NEW u \in Unlocks, UnexportCallback(u) PROVE Leakless'
  BY <1>19
     DEF UnexportCallback, keyringVars, proxyVars, TypeOK, Numbered, Handled, InConversation,
         Reply
<1>20. ASSUME NEW p \in Paths, PromptReady(p) PROVE Leakless'
  <2>1. UNCHANGED <<callbacks, path, by, failed>>
    BY <1>20 DEF PromptReady, keyringVars
  <2>2. \A v \in Unlocks : conv[v] \in InConversation => conv'[v] \in InConversation
    BY <1>20 DEF PromptReady, InConversation, TypeOK
  <2>3. QED
    BY <2>1, <2>2 DEF Leakless
<1>21. ASSUME NEW p \in Paths, PromptDone(p) PROVE Leakless'
  <2>1. UNCHANGED <<callbacks, path, by, failed>>
    BY <1>21 DEF PromptDone, keyringVars
  <2>2. \A v \in Unlocks : conv[v] \in InConversation => conv'[v] \in InConversation
    BY <1>21 DEF PromptDone, InConversation, TypeOK
  <2>3. QED
    BY <2>1, <2>2 DEF Leakless
<1>22. CASE ForwardSignal
  <2>1. UNCHANGED <<callbacks, path, by, failed>>
    BY <1>22 DEF ForwardSignal, keyringVars
  <2>2. \A v \in Unlocks : conv[v] \in InConversation => conv'[v] \in InConversation
    BY <1>22, QueueHead DEF ForwardSignal, InConversation, TypeOK
  <2>3. QED
    BY <2>1, <2>2 DEF Leakless
<1>23. CASE Die
  BY <1>23 DEF Die, keyringVars, proxyVars, TypeOK, Numbered, Handled, InConversation
<1>24. CASE UNCHANGED vars
  BY <1>24 DEF vars, keyringVars, proxyVars, TypeOK, Numbered, Handled, InConversation
<1>25. QED
  BY <1>1, <1>2, <1>3, <1>4, <1>5, <1>6, <1>7, <1>8, <1>9, <1>10, <1>11, <1>12, <1>13, <1>14,
     <1>15, <1>16, <1>17, <1>18, <1>19, <1>20, <1>21, <1>22, <1>23, <1>24, <1>26
     DEF Next, Lifecycle, Closing, KeyringStep, BridgeStep

\* A path that is haunted remains so.
LEMMA HauntedStays ==
    ASSUME TypeOK, Numbered, Handled, Queued, NEW q \in Paths, Haunted(q), [Next]_vars
    PROVE  Haunted(q)'
<1> USE DEF Haunted
<1>1. CASE RequestName
  BY <1>1 DEF RequestName, keyringVars, proxyVars, TypeOK, Numbered, Handled, InConversation
<1>2. CASE StartSignals
  BY <1>2 DEF StartSignals, keyringVars, proxyVars, TypeOK, Numbered, Handled, InConversation
<1>3. CASE StartBridge
  BY <1>3 DEF StartBridge, keyringVars, proxyVars, TypeOK, Numbered, Handled, InConversation
<1>26. CASE ClaimPrompter
  BY <1>26 DEF ClaimPrompter, keyringVars, proxyVars, TypeOK, Numbered, Handled, InConversation
<1>4. CASE CloseBridge
  BY <1>4 DEF CloseBridge, keyringVars, proxyVars, TypeOK, Numbered, Handled, InConversation
<1>5. CASE CloseSignals
  BY <1>5 DEF CloseSignals, keyringVars, proxyVars, TypeOK, Numbered, Handled, InConversation
<1>6. CASE ForwarderLeaves
  BY <1>6 DEF ForwarderLeaves, keyringVars, proxyVars, TypeOK, Numbered, Handled, InConversation
<1>7. CASE CloseConnections
  BY <1>7 DEF CloseConnections, keyringVars, proxyVars, TypeOK, Numbered, Handled, InConversation
<1>8. ASSUME NEW u \in Unlocks, Prompt(u) PROVE Haunted(q)'
  BY <1>8 DEF Prompt, keyringVars, proxyVars, TypeOK, Numbered, Handled, InConversation
<1>9. ASSUME NEW u \in Unlocks, Dismiss(u) PROVE Haunted(q)'
  BY <1>9 DEF Dismiss, keyringVars, proxyVars, TypeOK, Numbered, Handled, InConversation, Alive
<1>10. ASSUME NEW u \in Unlocks, BeginCall(u) PROVE Haunted(q)'
  BY <1>10 DEF BeginCall, keyringVars, proxyVars, TypeOK, Numbered, Handled, InConversation, Alive
<1>11. ASSUME NEW u \in Unlocks, PerformPrompt(u) PROVE Haunted(q)'
  BY <1>11
     DEF PerformPrompt, keyringVars, proxyVars, TypeOK, Numbered, Handled, InConversation, Alive
<1>12. ASSUME NEW u \in Unlocks, StopCall(u) PROVE Haunted(q)'
  BY <1>12 DEF StopCall, keyringVars, proxyVars, TypeOK, Numbered, Handled, InConversation, Alive
<1>13. ASSUME NEW u \in Unlocks, EmitCompleted(u) PROVE Haunted(q)'
  BY <1>13
     DEF EmitCompleted, keyringVars, proxyVars, TypeOK, Numbered, Handled, InConversation, Alive
<1>14. ASSUME NEW u \in Unlocks, FallbackEnds(u) PROVE Haunted(q)'
  BY <1>14
     DEF FallbackEnds, keyringVars, proxyVars, TypeOK, Numbered, Handled, InConversation, Alive
<1>15. ASSUME NEW u \in Unlocks, ExportCallback(u) PROVE Haunted(q)'
  BY <1>15 DEF ExportCallback, keyringVars, proxyVars, TypeOK, Numbered, Handled, InConversation
<1>16. ASSUME NEW u \in Unlocks, ForwardBegin(u) PROVE Haunted(q)'
  BY <1>16
     DEF ForwardBegin, keyringVars, proxyVars, TypeOK, Numbered, Handled, InConversation, Reply,
         Alive
<1>17. ASSUME NEW u \in Unlocks, ForwardBeginFails(u) PROVE Haunted(q)'
  BY <1>17
     DEF ForwardBeginFails, keyringVars, proxyVars, TypeOK, Numbered, Handled, InConversation,
         Reply, Alive
<1>18. ASSUME NEW u \in Unlocks, ForwardStop(u) PROVE Haunted(q)'
  BY <1>18 DEF ForwardStop, keyringVars, proxyVars, TypeOK, Numbered, Handled, InConversation
<1>19. ASSUME NEW u \in Unlocks, UnexportCallback(u) PROVE Haunted(q)'
  BY <1>19
     DEF UnexportCallback, keyringVars, proxyVars, TypeOK, Numbered, Handled, InConversation,
         Reply, Alive
<1>20. ASSUME NEW p \in Paths, PromptReady(p) PROVE Haunted(q)'
  BY <1>20
     DEF PromptReady, keyringVars, proxyVars, TypeOK, Numbered, Handled, InConversation, Heard,
         Alive
<1>21. ASSUME NEW p \in Paths, PromptDone(p) PROVE Haunted(q)'
  BY <1>21
     DEF PromptDone, keyringVars, proxyVars, TypeOK, Numbered, Handled, InConversation, Heard,
         Alive
<1>22. CASE ForwardSignal
  BY <1>22, QueueHead
     DEF ForwardSignal, keyringVars, proxyVars, TypeOK, Numbered, Handled, InConversation
<1>23. CASE Die
  <2>1. life' = life + 1 /\ UNCHANGED <<by, path, conv, failed>> /\ life \in Nat
    BY <1>23 DEF Die, TypeOK, Lives
  <2>2. \A v \in Unlocks : by[v] # life'
    BY <2>1 DEF Numbered, TypeOK, Lives, NoLife
  <2>3. QED
    BY <2>1, <2>2 DEF Haunted
<1>24. CASE UNCHANGED vars
  BY <1>24 DEF vars, keyringVars, proxyVars, TypeOK, Numbered, Handled, InConversation
<1>25. QED
  BY <1>1, <1>2, <1>3, <1>4, <1>5, <1>6, <1>7, <1>8, <1>9, <1>10, <1>11, <1>12, <1>13, <1>14,
     <1>15, <1>16, <1>17, <1>18, <1>19, <1>20, <1>21, <1>22, <1>23, <1>24, <1>26
     DEF Next, Lifecycle, Closing, KeyringStep, BridgeStep

\* What was owned is owned still, where a step takes no proxy away and lets no
\* new conversation expect one.
LEMMA OwnedStays ==
    ASSUME TypeOK, Numbered, Handled, Queued, Shown, ProxyOwned, [Next]_vars,
           UNCHANGED <<callbacks, by, life, bridge>>,
           \A u \in Unlocks : Expects(u)' => Expects(u) /\ path'[u] = path[u]
    PROVE  ProxyOwned'
<1> SUFFICES ASSUME NEW u \in Unlocks, Expects(u)', bridge' = "active", Alive(u)', ~Haunted(path[u])'
             PROVE  callbacks'[path'[u]] = by'[u]
  BY DEF ProxyOwned
<1>1. Expects(u) /\ path'[u] = path[u] /\ Alive(u)
  BY DEF Alive
<1>2. path[u] \in Paths
  BY <1>1, HandlerPath DEF Expects
<1>3. ~Haunted(path[u])
  <2>1. PICK q \in Paths : q = path[u]
    BY <1>2
  <2>2. ~Haunted(q)'
    BY <1>1, <2>1 DEF Haunted
  <2>3. QED
    BY <2>1, <2>2, HauntedStays
<1>4. QED
  BY <1>1, <1>3 DEF ProxyOwned

\* Only StopPrompting and close() take a proxy away.
LEMMA OwnedKept ==
    ASSUME TypeOK, Numbered, Staged, Handled, Shown, Queued, Leakless, ProxyOwned, [Next]_vars
    PROVE  ProxyOwned'
<1>1. CASE RequestName
  <2>1. UNCHANGED <<callbacks, by, life, bridge, path, handler, shell>>
    BY <1>1 DEF RequestName, keyringVars, proxyVars
  <2>2. QED
    BY <2>1, OwnedStays DEF Expects
<1>2. CASE StartSignals
  <2>1. UNCHANGED <<callbacks, by, life, bridge, path, handler, shell>>
    BY <1>2 DEF StartSignals, keyringVars, proxyVars
  <2>2. QED
    BY <2>1, OwnedStays DEF Expects
<1>3. CASE StartBridge
  <2>1. bridge = "none" /\ UNCHANGED <<path, handler, shell>>
    BY <1>3 DEF StartBridge, Staged, keyringVars
  <2>2. \A u \in Unlocks : ~Expects(u)'
    BY <2>1, UnlocksAssumption DEF Staged, Expects
  <2>3. QED
    BY <2>2 DEF ProxyOwned
<1>26. CASE ClaimPrompter
  <2>1. bridge = "none" /\ UNCHANGED <<path, handler, shell>>
    BY <1>26 DEF ClaimPrompter, Staged, keyringVars
  <2>2. \A u \in Unlocks : ~Expects(u)'
    BY <2>1, UnlocksAssumption DEF Staged, Expects
  <2>3. QED
    BY <2>2 DEF ProxyOwned
<1>4. CASE CloseBridge
  <2>1. bridge' # "active"
    BY <1>4 DEF CloseBridge, proxyVars, Staged, TypeOK
  <2>2. QED
    BY <2>1 DEF ProxyOwned
<1>5. CASE CloseSignals
  <2>1. UNCHANGED <<callbacks, by, life, bridge, path, handler, shell>>
    BY <1>5 DEF CloseSignals, keyringVars, proxyVars
  <2>2. QED
    BY <2>1, OwnedStays DEF Expects
<1>6. CASE ForwarderLeaves
  <2>1. UNCHANGED <<callbacks, by, life, bridge, path, handler, shell>>
    BY <1>6 DEF ForwarderLeaves, keyringVars, proxyVars
  <2>2. QED
    BY <2>1, OwnedStays DEF Expects
<1>7. CASE CloseConnections
  <2>1. bridge' # "active"
    BY <1>7 DEF CloseConnections, proxyVars, Staged, TypeOK
  <2>2. QED
    BY <2>1 DEF ProxyOwned
<1>8. ASSUME NEW u \in Unlocks, Prompt(u) PROVE ProxyOwned'
  <2>1. UNCHANGED <<callbacks, life, bridge, path, handler, shell>> /\ by' = [by EXCEPT ![u] = life] /\ conv[u] = "idle"
    BY <1>8 DEF Prompt, proxyVars
  <2>2. path[u] = 0 /\ handler[u] = "none" /\ 0 \notin Paths
    <3>1. path[u] = 0
      BY <2>1 DEF Numbered
    <3>2. handler[u] = "none"
      BY <2>1 DEF Handled, TypeOK
    <3>3. 0 \notin Paths
      BY UnlocksCount DEF Paths
    <3>4. QED
      BY <3>1, <3>2, <3>3
  <2>3. ~Expects(u) /\ \A v \in Unlocks : Expects(v)' <=> Expects(v)
    BY <2>1, <2>2 DEF Expects
  <2>4. SUFFICES ASSUME NEW v \in Unlocks, Expects(v)', bridge' = "active", Alive(v)', ~Haunted(path[v])'
                 PROVE  callbacks'[path'[v]] = by'[v]
    BY DEF ProxyOwned
  <2>5. v # u /\ by'[v] = by[v] /\ Expects(v) /\ Alive(v) /\ path[v] \in Paths
    BY <2>1, <2>3, <2>4, HandlerPath DEF TypeOK, Alive, Expects
  <2>6. ~Haunted(path[v])
    BY <2>1, <2>4, <2>5, HauntedStays
  <2>7. QED
    BY <2>1, <2>4, <2>5, <2>6 DEF ProxyOwned
<1>9. ASSUME NEW u \in Unlocks, Dismiss(u) PROVE ProxyOwned'
  <2>1. UNCHANGED <<callbacks, by, life, bridge, path, handler, shell>>
    BY <1>9 DEF Dismiss, keyringVars, proxyVars
  <2>2. QED
    BY <2>1, OwnedStays DEF Expects
<1>10. ASSUME NEW u \in Unlocks, BeginCall(u) PROVE ProxyOwned'
  <2>1. UNCHANGED <<callbacks, life, by, bridge, shell>> /\ conv[u] = "asked"
        /\ path' = [path EXCEPT ![u] = begun'] /\ handler' \in {handler, [handler EXCEPT ![u] = "BeginPrompting"]}
    BY <1>10 DEF BeginCall
  <2>2. path[u] = 0 /\ handler[u] = "none" /\ 0 \notin Paths
    <3>1. path[u] = 0
      BY <2>1 DEF Numbered
    <3>2. handler[u] = "none"
      BY <2>1 DEF Handled, TypeOK
    <3>3. 0 \notin Paths
      BY UnlocksCount DEF Paths
    <3>4. QED
      BY <3>1, <3>2, <3>3
  <2>3. \A p \in Paths : shell[p] # u
    BY <2>2, UnlocksAssumption DEF Shown
  <2>4. ~Expects(u)'
    BY <2>1, <2>2, <2>3 DEF Expects, TypeOK
  <2>5. \A v \in Unlocks : Expects(v)' => Expects(v) /\ path'[v] = path[v]
    BY <2>1, <2>4 DEF Expects, TypeOK
  <2>6. QED
    BY <2>1, <2>5, OwnedStays
<1>11. ASSUME NEW u \in Unlocks, PerformPrompt(u) PROVE ProxyOwned'
  <2>1. UNCHANGED <<callbacks, by, life, bridge, path, handler, shell>>
    BY <1>11 DEF PerformPrompt, keyringVars, proxyVars
  <2>2. QED
    BY <2>1, OwnedStays DEF Expects
<1>12. ASSUME NEW u \in Unlocks, StopCall(u) PROVE ProxyOwned'
  <2>1. UNCHANGED <<callbacks, by, life, bridge, path, shell>> /\ handler' = [handler EXCEPT ![u] = "StopPrompting"]
    BY <1>12 DEF StopCall, keyringVars, proxyVars
  <2>2. QED
    BY <2>1, OwnedStays DEF Expects, TypeOK
<1>13. ASSUME NEW u \in Unlocks, EmitCompleted(u) PROVE ProxyOwned'
  <2>1. UNCHANGED <<callbacks, by, life, bridge, path, handler, shell>>
    BY <1>13 DEF EmitCompleted, keyringVars, proxyVars
  <2>2. QED
    BY <2>1, OwnedStays DEF Expects
<1>14. ASSUME NEW u \in Unlocks, FallbackEnds(u) PROVE ProxyOwned'
  <2>1. UNCHANGED <<callbacks, by, life, bridge, path, handler, shell>>
    BY <1>14 DEF FallbackEnds, keyringVars, proxyVars
  <2>2. QED
    BY <2>1, OwnedStays DEF Expects
<1>15. ASSUME NEW u \in Unlocks, ExportCallback(u) PROVE ProxyOwned'
  <2>1. /\ UNCHANGED <<by, life, bridge, path, shell, conv, failed>> /\ handler[u] = "BeginPrompting"
        /\ handler' = [handler EXCEPT ![u] = "exported"]
        /\ callbacks' = IF callbacks[path[u]] = NoLife THEN [callbacks EXCEPT ![path[u]] = by[u]] ELSE callbacks
    BY <1>15 DEF ExportCallback, keyringVars, proxyVars
  <2>2. path[u] \in Paths /\ by[u] # NoLife
    BY <2>1, HandlerPath
  <2>3. SUFFICES ASSUME NEW v \in Unlocks, Expects(v)', bridge' = "active", Alive(v)', ~Haunted(path[v])'
                 PROVE  callbacks'[path[v]] = by[v]
    BY <2>1 DEF ProxyOwned
  <2>4. Alive(v) /\ ~Haunted(path[v])
    BY <2>1, <2>3 DEF Alive, Haunted
  <2>5. CASE v = u
    <3>1. CASE callbacks[path[u]] = NoLife
      BY <2>1, <2>2, <2>5, <3>1 DEF TypeOK
    <3>2. CASE callbacks[path[u]] # NoLife
      <4>1. PICK w \in Unlocks : /\ path[w] = path[u] /\ by[w] = callbacks[path[u]]
                                 /\ conv[w] \in InConversation \/ w \in failed
        BY <2>2, <3>2 DEF Leakless
      <4>2. by[w] = life
        BY <2>4, <2>5, <4>1 DEF Haunted
      <4>3. QED
        BY <2>1, <2>4, <2>5, <3>2, <4>1, <4>2 DEF Alive
    <3>3. QED
      BY <3>1, <3>2
  <2>6. CASE v # u
    <3>1. Expects(v)
      BY <2>1, <2>3, <2>6 DEF Expects, TypeOK
    <3>2. callbacks[path[v]] = by[v] /\ by[v] # NoLife
      BY <2>1, <2>3, <2>4, <3>1 DEF ProxyOwned, Alive
    <3>3. path[v] \in Paths
      BY <3>1, HandlerPath DEF Expects
    <3>4. QED
      BY <2>1, <2>2, <3>2, <3>3 DEF TypeOK
  <2>7. QED
    BY <2>5, <2>6
<1>16. ASSUME NEW u \in Unlocks, ForwardBegin(u) PROVE ProxyOwned'
  <2>1. UNCHANGED <<callbacks, by, life, bridge, path>> /\ handler' = [handler EXCEPT ![u] = "none"]
        /\ shell' \in {shell, [shell EXCEPT ![path[u]] = u]} /\ handler[u] = "exported"
    BY <1>16 DEF ForwardBegin, keyringVars, proxyVars
  <2>2. QED
    BY <2>1, OwnedStays DEF Expects, TypeOK
<1>17. ASSUME NEW u \in Unlocks, ForwardBeginFails(u) PROVE ProxyOwned'
  <2>1. UNCHANGED <<callbacks, by, life, bridge, path, shell>> /\ handler' = [handler EXCEPT ![u] = "none"]
    BY <1>17 DEF ForwardBeginFails, keyringVars, proxyVars
  <2>2. QED
    BY <2>1, OwnedStays DEF Expects, TypeOK
<1>18. ASSUME NEW u \in Unlocks, ForwardStop(u) PROVE ProxyOwned'
  <2>1. UNCHANGED <<callbacks, by, life, bridge, path>> /\ handler' = [handler EXCEPT ![u] = "stopped"]
        /\ shell' \in {shell, [shell EXCEPT ![path[u]] = NoUnlock]}
    BY <1>18 DEF ForwardStop, keyringVars, proxyVars
  <2>2. QED
    BY <2>1, OwnedStays, UnlocksAssumption DEF Expects, TypeOK
<1>19. ASSUME NEW u \in Unlocks, UnexportCallback(u) PROVE ProxyOwned'
  <2>1. /\ UNCHANGED <<by, life, bridge, path, shell>> /\ handler[u] = "stopped"
        /\ handler' = [handler EXCEPT ![u] = "none"]
        /\ callbacks' = [callbacks EXCEPT ![path[u]] = NoLife]
    BY <1>19 DEF UnexportCallback, keyringVars, proxyVars
  <2>2. SUFFICES ASSUME NEW v \in Unlocks, Expects(v)', bridge' = "active", Alive(v)', ~Haunted(path[v])'
                 PROVE  callbacks'[path[v]] = by[v]
    BY <2>1 DEF ProxyOwned
  <2>3. Expects(v) /\ Alive(v) /\ v # u
    BY <2>1, <2>2 DEF Alive, Expects, Shown, TypeOK
  <2>4. path[v] \in Paths
    BY <2>3, HandlerPath DEF Expects
  <2>5. ~Haunted(path[v])
    BY <2>1, <2>2, <2>4, HauntedStays
  <2>6. callbacks[path[v]] = by[v]
    BY <2>1, <2>2, <2>3, <2>5 DEF ProxyOwned
  <2>7. path[u] # path[v]
    <3>1. SUFFICES ASSUME path[u] = path[v] PROVE FALSE
      OBVIOUS
    <3>2. conv[u] = "stopping" /\ path[u] # 0
      BY <2>1 DEF Handled, Numbered
    <3>3. by[u] = life
      BY <2>5, <3>1, <3>2 DEF Haunted, InConversation
    <3>4. u = v
      BY <2>3, <3>1, <3>2, <3>3 DEF Alive, Numbered
    <3>5. QED
      BY <2>3, <3>4
  <2>8. QED
    BY <2>1, <2>6, <2>7 DEF TypeOK
<1>20. ASSUME NEW p \in Paths, PromptReady(p) PROVE ProxyOwned'
  <2>1. UNCHANGED <<callbacks, by, life, bridge, path, handler>> /\ shell' \in {shell, [shell EXCEPT ![p] = NoUnlock]}
    BY <1>20 DEF PromptReady, keyringVars, proxyVars
  <2>2. QED
    BY <2>1, OwnedStays, UnlocksAssumption DEF Expects, TypeOK
<1>21. ASSUME NEW p \in Paths, PromptDone(p) PROVE ProxyOwned'
  <2>1. UNCHANGED <<callbacks, by, life, bridge, path, handler>> /\ shell' \in {shell, [shell EXCEPT ![p] = NoUnlock]}
    BY <1>21 DEF PromptDone, keyringVars, proxyVars
  <2>2. QED
    BY <2>1, OwnedStays, UnlocksAssumption DEF Expects, TypeOK
<1>22. CASE ForwardSignal
  <2>1. UNCHANGED <<callbacks, by, life, bridge, path, handler, shell>>
    BY <1>22 DEF ForwardSignal, keyringVars, proxyVars
  <2>2. QED
    BY <2>1, OwnedStays DEF Expects
<1>23. CASE Die
  <2>1. life' = life + 1 /\ by' = by /\ life \in Nat
    BY <1>23 DEF Die, TypeOK, Lives
  <2>2. \A v \in Unlocks : by[v] # life'
    BY <2>1 DEF Numbered, TypeOK, Lives, NoLife
  <2>3. QED
    BY <2>1, <2>2 DEF ProxyOwned, Alive
<1>24. CASE UNCHANGED vars
  <2>1. UNCHANGED <<callbacks, by, life, bridge, path, handler, shell>>
    BY <1>24 DEF vars
  <2>2. QED
    BY <2>1, OwnedStays DEF Expects
<1>25. QED
  BY <1>1, <1>2, <1>3, <1>4, <1>5, <1>6, <1>7, <1>8, <1>9, <1>10, <1>11, <1>12, <1>13, <1>14,
     <1>15, <1>16, <1>17, <1>18, <1>19, <1>20, <1>21, <1>22, <1>23, <1>24, <1>26
     DEF Next, Lifecycle, Closing, KeyringStep, BridgeStep

\* BridgeInv is an invariant.
LEMMA BridgeInvariance == Spec => []BridgeInv
<1>1. Init => BridgeInv
  <2> SUFFICES ASSUME Init PROVE BridgeInv
    OBVIOUS
  <2>1. /\ stage = "connecting" /\ bridge = "none" /\ begun = 0 /\ life = 1 /\ queue = <<>> /\ failed = {}
        /\ \A u \in Unlocks : conv[u] = "idle" /\ by[u] = NoLife /\ path[u] = 0 /\ handler[u] = "none"
        /\ \A p \in Paths : callbacks[p] = NoLife /\ shell[p] = NoUnlock
    BY DEF Init
  <2>2. TypeOK
    BY LivesAssumption, UnlocksCount DEF Init, TypeOK, Lives, Convs
  <2>3. Numbered
    <3>1. Begun = {}
      BY <2>1 DEF Begun
    <3>2. QED
      BY <2>1, <3>1, FS_EmptySet DEF Numbered, NoLife
  <2>4. Staged /\ Handled /\ Leakless
    BY <2>1 DEF Staged, NoConversation, Handled, Leakless
  <2>5. Shown /\ Queued
    BY <2>1 DEF Shown, Queued
  <2>6. ProxyOwned
    BY <2>1 DEF ProxyOwned
  <2>7. QED
    BY <2>2, <2>3, <2>4, <2>5, <2>6 DEF BridgeInv
<1>2. BridgeInv /\ [Next]_vars => BridgeInv'
  BY TypesKept, NumberedKept, StagedKept, HandledKept, ShownKept, QueuedKept, LeaklessKept,
     OwnedKept
     DEF BridgeInv
<1>3. QED
  BY <1>1, <1>2, PTL DEF Spec

-----------------------------------------------------------------------------
(* Theorems *)

\* While the shell prompts for an unlock, its calls reach the keyring that
\* asked, whatever other conversations, lives and closings do (exportCallback,
\* unexportCallback).
THEOREM CallbacksAreOwned == Spec => []CallbackOwned
<1>1. BridgeInv => CallbackOwned
  <2> SUFFICES ASSUME BridgeInv, NEW p \in Paths, shell[p] # NoUnlock, bridge = "active",
                      Alive(shell[p]), ~Haunted(p)
               PROVE  callbacks[p] = by[shell[p]]
    BY DEF CallbackOwned
  <2>1. shell[p] \in Unlocks /\ path[shell[p]] = p
    BY DEF BridgeInv, TypeOK, Shown
  <2>2. QED
    BY <2>1 DEF BridgeInv, ProxyOwned, Expects
<1>2. QED
  BY <1>1, BridgeInvariance, PTL

\* No callback proxy outlives its conversation, but for those of conversations
\* that failed to begin or were never stopped (StopPrompting).
THEOREM CallbacksDoNotLeak == Spec => []NoLeakedCallback
<1>1. BridgeInv => NoLeakedCallback
  BY DEF BridgeInv, Leakless, NoLeakedCallback
<1>2. QED
  BY <1>1, BridgeInvariance, PTL
=============================================================================
