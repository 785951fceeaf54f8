------------------------ MODULE ApprovalManagerProofs ------------------------
(* Proofs that the approval manager keeps its invariants for every set of  *)
(* requests, callers, items and rules, and every window and bound.         *)
EXTENDS ApprovalManager, SequenceTheorems, TLAPS

\* What addHistory leaves: a sequence of entries, at most historyMax long,
\* each of them the new entry or an old one.
LEMMA TrimmedHistory ==
    ASSUME NEW S, NEW h \in Seq(S), NEW e \in S
    PROVE  /\ Trimmed(<<e>> \o h) \in Seq(S)
           /\ Len(Trimmed(<<e>> \o h)) <= HistoryMax
           /\ \A n \in DOMAIN Trimmed(<<e>> \o h) :
                 \/ Trimmed(<<e>> \o h)[n] = e
                 \/ \E m \in DOMAIN h : Trimmed(<<e>> \o h)[n] = h[m]
<1> DEFINE g == <<e>> \o h
           k == IF Len(g) > HistoryMax THEN HistoryMax ELSE Len(g)
<1>1. /\ g \in Seq(S)
      /\ Len(g) = Len(h) + 1
      /\ \A n \in 1..Len(g) : g[n] = IF n = 1 THEN e ELSE h[n - 1]
  OBVIOUS
<1>2. k \in 0..Len(g) /\ k <= HistoryMax
  BY <1>1, BoundAssumption
<1>3. /\ SubSeq(g, 1, k) \in Seq(S)
      /\ Len(SubSeq(g, 1, k)) = k
      /\ \A n \in 1..k : SubSeq(g, 1, k)[n] = g[n]
  BY <1>1, <1>2
<1>4. \A n \in 1..k : g[n] = e \/ \E m \in DOMAIN h : g[n] = h[m]
  BY <1>1, <1>2
<1>5. QED
  BY <1>2, <1>3, <1>4 DEF Trimmed

\* notify keeps the types of what it writes.
LEMMA NotifyType ==
    ASSUME TypeOK, NEW r \in Reqs, NEW event \in Outcomes, Notify(r, event)
    PROVE  /\ history' \in Seq([req : Reqs, resolution : Resolutions])
           /\ Len(history') <= HistoryMax
           /\ events' \in [Reqs -> SUBSET Outcomes]
<1>1. events' \in [Reqs -> SUBSET Outcomes]
  BY DEF TypeOK, Notify
<1>2. CASE event = "created"
  BY <1>1, <1>2 DEF TypeOK, Notify
<1>3. CASE event # "created"
  <2>1. [req |-> r, resolution |-> event] \in [req : Reqs, resolution : Resolutions]
    BY <1>3 DEF Outcomes
  <2>2. history' = Trimmed(<<[req |-> r, resolution |-> event]>> \o history)
    BY <1>3 DEF Notify, AddHistory
  <2>3. history \in Seq([req : Reqs, resolution : Resolutions])
    BY DEF TypeOK
  <2>4. QED
    BY <1>1, <2>1, <2>2, <2>3, TrimmedHistory
<1>4. QED
  BY <1>2, <1>3

\* A step of the goroutine that serves a request keeps the types.
LEMMA ServeType ==
    ASSUME TypeOK, NEW r \in Reqs, Begin(r) \/ ServeStep(r)
    PROVE  TypeOK'
<1> USE DEF callVars, lockVars, authVars, noteVars, Points, Returns, Grants, Times, Goto, Return
<1>1. CASE Begin(r)
  BY <1>1 DEF TypeOK, Begin, Calls
<1>2. CASE CheckCacheHit(r)
  BY <1>2 DEF TypeOK, CheckCacheHit
<1>3. CASE CheckCacheMiss(r)
  BY <1>3 DEF TypeOK, CheckCacheMiss
<1>4. CASE CheckAutoApproveRules(r)
  <2>1. LiveRules \in [RuleKeys -> Times]
    BY DEF TypeOK, LiveRules
  <2>2. QED
    BY <1>4, <2>1 DEF TypeOK, CheckAutoApproveRules, Calls
<1>5. CASE CheckTrustRules(r)
  <2>1. Info[r].trust \in {"none", "approve", "ignore", "deny"}
    BY RequestAssumption DEF RequestInfo
  <2>2. QED
    BY <1>5, <2>1 DEF TypeOK, CheckTrustRules
<1>6. CASE NotifyRuled(r)
  <2>1. PICK event \in {"auto_approved", "ignored", "denied"} : Notify(r, event)
    BY <1>6 DEF NotifyRuled
  <2>2. event \in Outcomes
    BY <2>1 DEF Outcomes, Resolutions
  <2>3. QED
    BY <1>6, <2>1, <2>2, NotifyType DEF TypeOK, NotifyRuled
<1>7. CASE AutoSign(r)
  <2>1. "auto_approved" \in Outcomes /\ Notify(r, "auto_approved")
    BY <1>7 DEF Outcomes, Resolutions, AutoSign
  <2>2. QED
    BY <1>7, <2>1, NotifyType DEF TypeOK, AutoSign
<1>8. CASE AutoSignFails(r)
  BY <1>8 DEF TypeOK, AutoSignFails
<1>9. CASE Create(r)
  BY <1>9 DEF TypeOK, Create
<1>10. CASE Announce(r)
  <2>1. "created" \in Outcomes /\ Notify(r, "created")
    BY <1>10 DEF Outcomes, Announce
  <2>2. QED
    BY <1>10, <2>1, NotifyType DEF TypeOK, Announce
<1>11. CASE WaitDone(r)
  BY <1>11 DEF TypeOK, WaitDone
<1>12. CASE WaitTimer(r)
  BY <1>12 DEF TypeOK, WaitTimer
<1>13. CASE WaitCtx(r)
  BY <1>13 DEF TypeOK, WaitCtx
<1>14. CASE SignTimeout(r)
  BY <1>14 DEF TypeOK, SignTimeout
<1>15. CASE NotifyGaveUp(r)
  <2>1. PICK event \in {"expired", "cancelled"} : Notify(r, event)
    BY <1>15 DEF NotifyGaveUp
  <2>2. event \in Outcomes
    BY <2>1 DEF Outcomes, Resolutions
  <2>3. QED
    BY <1>15, <2>1, <2>2, NotifyType DEF TypeOK, NotifyGaveUp
<1>16. CASE Cleanup(r)
  BY <1>16 DEF TypeOK, Cleanup
<1>17. QED
  BY <1>1, <1>2, <1>3, <1>4, <1>5, <1>6, <1>7, <1>8, <1>9, <1>10, <1>11, <1>12,
     <1>13, <1>14, <1>15, <1>16 DEF ServeStep

\* A step of an approver keeps the types.
LEMMA ApproverType ==
    ASSUME TypeOK, NEW r \in Reqs, FinishStep(r) \/ ApproverStep(r)
    PROVE  TypeOK'
<1> USE DEF callVars, lockVars, authVars, noteVars, Times
<1>1. ASSUME NEW op \in ResolveOps, ResolveNow(r, op) PROVE TypeOK'
  BY <1>1 DEF TypeOK, ResolveNow, Resolve
<1>2. ASSUME NEW op \in Approvals, StartGPG(r, op) PROVE TypeOK'
  BY <1>2 DEF TypeOK, StartGPG
<1>3. ASSUME NEW op \in Approvals, FinishGPG(r, op) PROVE TypeOK'
  <2>1. PICK outcome \in ResolveOps : Resolve(r, outcome)
    BY <1>3 DEF FinishGPG, ResolveOps
  <2>2. QED
    BY <1>3, <2>1 DEF TypeOK, FinishGPG, Resolve
<1>4. ASSUME NEW op \in Approvals, FinishGPGTooLate(r, op) PROVE TypeOK'
  BY <1>4 DEF TypeOK, FinishGPGTooLate
<1>5. CASE NotifyResolved(r)
  <2>1. PICK event \in {"approved", "denied", "cancelled"} : Notify(r, event)
    BY <1>5 DEF NotifyResolved
  <2>2. event \in Outcomes
    BY <2>1 DEF Outcomes, Resolutions
  <2>3. QED
    BY <1>5, <2>1, <2>2, NotifyType DEF TypeOK, NotifyResolved
<1>6. CASE CacheApproval(r)
  BY <1>6 DEF TypeOK, CacheApproval
<1>7. now + RuleTTL \in Nat
  BY BoundAssumption DEF TypeOK
<1>8. CASE AddRuleOfApproved(r)
  BY <1>7, <1>8 DEF TypeOK, AddRuleOfApproved, AddAutoApproveRule
<1>9. CASE AutoApprove(r)
  BY <1>7, <1>9 DEF TypeOK, AutoApprove, AddAutoApproveRule
<1>10. QED
  BY <1>1, <1>2, <1>3, <1>4, <1>5, <1>6, <1>8, <1>9 DEF FinishStep, ApproverStep

\* Every step keeps the types.
LEMMA TypeStep == TypeOK /\ [Next]_vars => TypeOK'
<1> SUFFICES ASSUME TypeOK, [Next]_vars PROVE TypeOK'
  OBVIOUS
<1> USE DEF callVars, lockVars, authVars, noteVars
<1>1. ASSUME NEW r \in Reqs, CancelCtx(r) PROVE TypeOK'
  BY <1>1 DEF TypeOK, CancelCtx, Calls
<1>2. ASSUME NEW r \in Reqs, NEW i \in Items, CreatedItem(r, i) PROVE TypeOK'
  BY <1>2 DEF TypeOK, CreatedItem, Goto, Points, Times
<1>3. ASSUME NEW k \in RuleKeys, RemoveAutoApproveRule(k) PROVE TypeOK'
  BY <1>3 DEF TypeOK, RemoveAutoApproveRule, Times
<1>4. CASE Tick
  BY <1>4 DEF TypeOK, Tick
<1>5. CASE UNCHANGED vars
  BY <1>5 DEF TypeOK, vars
<1>6. QED
  BY <1>1, <1>2, <1>3, <1>4, <1>5, ServeType, ApproverType DEF Next, Finished

\* The types of the approval manager's state, whatever the requests.
THEOREM TypeCorrect == Spec => []TypeOK
<1>1. Init => TypeOK
  BY BoundAssumption DEF Init, TypeOK, Points, Returns, Grants, Times
<1>2. QED
  BY <1>1, TypeStep, PTL DEF Spec

-----------------------------------------------------------------------------

\* Every entry of the history after notify is the new one or an old one.
LEMMA NotifyEntries ==
    ASSUME TypeOK, NEW r \in Reqs, NEW event \in Outcomes, Notify(r, event), event # "created"
    PROVE  \A n \in DOMAIN history' :
              \/ history'[n] = [req |-> r, resolution |-> event]
              \/ \E m \in DOMAIN history : history'[n] = history[m]
<1> DEFINE e == [req |-> r, resolution |-> event]
           Entry == [req : Reqs, resolution : Resolutions]
<1>1. e \in Entry /\ history \in Seq(Entry)
  BY DEF Outcomes, TypeOK
<1>2. history' = Trimmed(<<e>> \o history)
  BY DEF Notify, AddHistory
<1> HIDE DEF e, Entry
<1>3. \A n \in DOMAIN Trimmed(<<e>> \o history) :
         \/ Trimmed(<<e>> \o history)[n] = e
         \/ \E m \in DOMAIN history : Trimmed(<<e>> \o history)[n] = history[m]
  BY <1>1, TrimmedHistory, SMTT(30)
<1>4. QED
  BY <1>2, <1>3 DEF e

\* notify keeps every event that was sent, and the history within them.
LEMMA NotifyHistory ==
    ASSUME TypeOK, HistoryWasSent, NEW r \in Reqs, NEW event \in Outcomes, Notify(r, event)
    PROVE  HistoryWasSent' /\ \A q \in Reqs : events[q] \subseteq events'[q]
<1>1. \A q \in Reqs : events[q] \subseteq events'[q]
  BY DEF TypeOK, Notify
<1>2. event \in events'[r]
  BY DEF TypeOK, Notify
<1>3. CASE event = "created"
  <2>1. history' = history
    BY <1>3 DEF Notify
  <2>2. \A n \in DOMAIN history : history[n].req \in Reqs
    <3>1. history \in Seq([req : Reqs, resolution : Resolutions])
      BY DEF TypeOK
    <3>2. \A n \in DOMAIN history : history[n] \in [req : Reqs, resolution : Resolutions]
      BY <3>1, ElementOfSeq, LenProperties
    <3>3. QED
      BY <3>2
  <2>3. QED
    BY <1>1, <2>1, <2>2 DEF HistoryWasSent
<1>4. CASE event # "created"
  <2> DEFINE e == [req |-> r, resolution |-> event]
  <2>1. e \in [req : Reqs, resolution : Resolutions]
    BY <1>4 DEF Outcomes
  <2>3. history \in Seq([req : Reqs, resolution : Resolutions])
    BY DEF TypeOK
  <2>4. \A n \in DOMAIN history' : history'[n] = e \/ \E m \in DOMAIN history : history'[n] = history[m]
    BY <1>4, NotifyEntries
  <2>5. \A m \in DOMAIN history : history[m].req \in Reqs /\ history[m].resolution \in events[history[m].req]
    <3>1. \A m \in DOMAIN history : history[m] \in [req : Reqs, resolution : Resolutions]
      BY <2>3, ElementOfSeq, LenProperties
    <3>2. QED
      BY <3>1 DEF HistoryWasSent
  <2>6. e.req = r /\ e.resolution = event
    OBVIOUS
  <2> HIDE DEF e
  <2>7. ASSUME NEW n \in DOMAIN history'
        PROVE  history'[n].resolution \in events'[history'[n].req]
    BY <1>1, <1>2, <2>4, <2>5, <2>6
  <2>8. QED
    BY <1>1, <2>7 DEF HistoryWasSent
<1>5. QED
  BY <1>3, <1>4

\* A step of the goroutine that serves a request keeps the life cycle.
LEMMA ServeLifecycle ==
    ASSUME TypeOK, Lifecycle, NEW r \in Reqs, Begin(r) \/ ServeStep(r)
    PROVE  Lifecycle'
<1> USE DEF callVars, lockVars, authVars, noteVars, TypeOK, Lifecycle, Goto, Return, InFlight, Calls
<1>1. CASE Begin(r)
  BY <1>1 DEF Begin
<1>2. CASE CheckCacheHit(r)
  BY <1>2 DEF CheckCacheHit
<1>3. CASE CheckCacheMiss(r)
  BY <1>3 DEF CheckCacheMiss
<1>4. CASE CheckAutoApproveRules(r)
  BY <1>4 DEF CheckAutoApproveRules
<1>5. CASE CheckTrustRules(r)
  <2>1. Info[r].trust \in {"none", "approve", "ignore", "deny"}
    BY RequestAssumption DEF RequestInfo
  <2>2. QED
    BY <1>5, <2>1 DEF CheckTrustRules
<1>6. CASE NotifyRuled(r)
  BY <1>6 DEF NotifyRuled
<1>7. CASE AutoSign(r)
  BY <1>7 DEF AutoSign
<1>8. CASE AutoSignFails(r)
  BY <1>8 DEF AutoSignFails
<1>9. CASE Create(r)
  BY <1>9 DEF Create
<1>10. CASE Announce(r)
  BY <1>10 DEF Announce
<1>11. CASE WaitDone(r)
  BY <1>11 DEF WaitDone
<1>12. CASE WaitTimer(r)
  BY <1>12 DEF WaitTimer, Calls
<1>13. CASE WaitCtx(r)
  BY <1>13 DEF WaitCtx
<1>14. CASE SignTimeout(r)
  BY <1>14 DEF SignTimeout
<1>15. CASE NotifyGaveUp(r)
  BY <1>15 DEF NotifyGaveUp
<1>16. CASE Cleanup(r)
  BY <1>16 DEF Cleanup
<1>17. QED
  BY <1>1, <1>2, <1>3, <1>4, <1>5, <1>6, <1>7, <1>8, <1>9, <1>10, <1>11, <1>12,
     <1>13, <1>14, <1>15, <1>16 DEF ServeStep

\* A step of an approver keeps the life cycle.
LEMMA ApproverLifecycle ==
    ASSUME TypeOK, Lifecycle, NEW r \in Reqs, FinishStep(r) \/ ApproverStep(r)
    PROVE  Lifecycle'
<1> USE DEF callVars, lockVars, authVars, noteVars, TypeOK, Lifecycle, InFlight
<1>1. ASSUME NEW op \in ResolveOps, ResolveNow(r, op) PROVE Lifecycle'
  BY <1>1 DEF ResolveNow, Resolve, ResolveOps, Approvals
<1>2. ASSUME NEW op \in Approvals, StartGPG(r, op) PROVE Lifecycle'
  BY <1>2 DEF StartGPG
<1>3. ASSUME NEW op \in Approvals, FinishGPG(r, op) PROVE Lifecycle'
  <2>1. PICK outcome \in ResolveOps : Resolve(r, outcome)
    BY <1>3 DEF FinishGPG, ResolveOps
  <2>2. QED
    BY <1>3, <2>1 DEF FinishGPG, Resolve, ResolveOps, Approvals
<1>4. ASSUME NEW op \in Approvals, FinishGPGTooLate(r, op) PROVE Lifecycle'
  BY <1>4 DEF FinishGPGTooLate
<1>5. CASE NotifyResolved(r)
  BY <1>5 DEF NotifyResolved
<1>6. CASE CacheApproval(r)
  BY <1>6 DEF CacheApproval
<1>7. CASE AddRuleOfApproved(r)
  BY <1>7 DEF AddRuleOfApproved
<1>8. CASE AutoApprove(r)
  BY <1>8 DEF AutoApprove
<1>9. QED
  BY <1>1, <1>2, <1>3, <1>4, <1>5, <1>6, <1>7, <1>8 DEF FinishStep, ApproverStep

\* Every step keeps the life cycle.
LEMMA LifecycleStep == TypeOK /\ Lifecycle /\ [Next]_vars => Lifecycle'
<1> SUFFICES ASSUME TypeOK, Lifecycle, [Next]_vars PROVE Lifecycle'
  OBVIOUS
<1> USE DEF callVars, lockVars, authVars, noteVars
<1>1. ASSUME NEW r \in Reqs, CancelCtx(r) PROVE Lifecycle'
  BY <1>1 DEF TypeOK, Lifecycle, CancelCtx, Calls
<1>2. ASSUME NEW r \in Reqs, NEW i \in Items, CreatedItem(r, i) PROVE Lifecycle'
  BY <1>2 DEF TypeOK, Lifecycle, CreatedItem, Goto, InFlight
<1>3. ASSUME NEW k \in RuleKeys, RemoveAutoApproveRule(k) PROVE Lifecycle'
  BY <1>3 DEF Lifecycle, RemoveAutoApproveRule
<1>4. CASE Tick
  BY <1>4 DEF Lifecycle, Tick
<1>5. CASE UNCHANGED vars
  BY <1>5 DEF Lifecycle, vars
<1>6. QED
  BY <1>1, <1>2, <1>3, <1>4, <1>5, ServeLifecycle, ApproverLifecycle DEF Next, Finished

\* What no step takes back: the resolver that won, the events that were sent,
\* the item that was created and the answer it was created with.
Monotone ==
    \A q \in Reqs :
        /\ winner[q] # "none" => winner'[q] = winner[q]
        /\ events[q] \subseteq events'[q]
        /\ made[q] # NoItem => made'[q] = made[q] /\ ret'[q] = ret[q]

\* Every step keeps the history within the events and is monotone.
LEMMA MonotoneStep ==
    TypeOK /\ Lifecycle /\ HistoryWasSent /\ [Next]_vars => HistoryWasSent' /\ Monotone
<1> SUFFICES ASSUME TypeOK, Lifecycle, HistoryWasSent, [Next]_vars
             PROVE  HistoryWasSent' /\ Monotone
  OBVIOUS
<1> DEFINE Sent == HistoryWasSent' /\ \A q \in Reqs : events[q] \subseteq events'[q]
           Kept == \A q \in Reqs :
                      /\ winner[q] # "none" => winner'[q] = winner[q]
                      /\ made[q] # NoItem => made'[q] = made[q] /\ ret'[q] = ret[q]
<1> USE DEF callVars, lockVars, authVars, noteVars
<1>1. ASSUME NEW r \in Reqs,
             \/ Begin(r) \/ CheckCacheHit(r) \/ CheckCacheMiss(r) \/ CheckAutoApproveRules(r)
             \/ CheckTrustRules(r) \/ AutoSignFails(r) \/ Create(r) \/ WaitDone(r)
             \/ WaitTimer(r) \/ WaitCtx(r) \/ SignTimeout(r) \/ Cleanup(r) \/ CancelCtx(r)
      PROVE  Sent /\ Kept
  <2>1. UNCHANGED <<events, history, winner, made>>
    BY <1>1 DEF Begin, CheckCacheHit, CheckCacheMiss, CheckAutoApproveRules, CheckTrustRules,
                AutoSignFails, Create, WaitDone, WaitTimer, WaitCtx, SignTimeout, Cleanup, CancelCtx
  <2>2. pc[r] # "stored" => made[r] = NoItem
    BY DEF Lifecycle
  <2>3. ret' = ret \/ (pc[r] # "stored" /\ \A q \in Reqs \ {r} : ret'[q] = ret[q])
    <3>1. CASE CheckTrustRules(r)
      <4>1. Info[r].trust \in {"none", "approve", "ignore", "deny"}
        BY RequestAssumption DEF RequestInfo
      <4>2. QED
        BY <3>1, <4>1 DEF TypeOK, CheckTrustRules
    <3>2. CASE CheckCacheHit(r) \/ AutoSignFails(r)
      BY <3>2 DEF TypeOK, CheckCacheHit, AutoSignFails, Return
    <3>3. CASE CheckAutoApproveRules(r)
      BY <3>3 DEF TypeOK, CheckAutoApproveRules
    <3>4. CASE WaitDone(r) \/ WaitTimer(r) \/ WaitCtx(r)
      BY <3>4 DEF TypeOK, WaitDone, WaitTimer, WaitCtx
    <3>5. QED
      BY <1>1, <3>1, <3>2, <3>3, <3>4
         DEF Begin, CheckCacheMiss, Create, SignTimeout, Cleanup, CancelCtx
  <2>4. QED
    BY <2>1, <2>2, <2>3 DEF HistoryWasSent
<1>2. ASSUME NEW r \in Reqs,
             \/ NotifyRuled(r) \/ AutoSign(r) \/ Announce(r) \/ NotifyGaveUp(r) \/ NotifyResolved(r)
      PROVE  Sent /\ Kept
  <2>1. PICK event \in Outcomes : Notify(r, event)
    BY <1>2 DEF NotifyRuled, AutoSign, Announce, NotifyGaveUp, NotifyResolved, Outcomes, Resolutions
  <2>2. Sent
    BY <2>1, NotifyHistory
  <2>3. UNCHANGED <<winner, made>>
    BY <1>2 DEF NotifyRuled, AutoSign, Announce, NotifyGaveUp, NotifyResolved
  <2>4. ret' = ret \/ (pc[r] # "stored" /\ \A q \in Reqs \ {r} : ret'[q] = ret[q])
    BY <1>2 DEF TypeOK, NotifyRuled, AutoSign, Announce, NotifyGaveUp, NotifyResolved, Return
  <2>5. QED
    BY <2>2, <2>3, <2>4 DEF Lifecycle
<1>3. ASSUME NEW r \in Reqs, NEW op, Resolve(r, op), UNCHANGED <<ret, made, events, history>>
      PROVE  Sent /\ Kept
  BY <1>3 DEF TypeOK, Lifecycle, Resolve, HistoryWasSent
<1>4. ASSUME NEW r \in Reqs, ApproverStep(r)
      PROVE  Sent /\ Kept
  <2>1. CASE \E op \in ResolveOps : ResolveNow(r, op)
    BY <1>3, <2>1 DEF ResolveNow
  <2>2. CASE \E op \in Approvals : FinishGPG(r, op)
    BY <1>3, <2>2 DEF FinishGPG
  <2>3. CASE (\E op \in Approvals : StartGPG(r, op) \/ FinishGPGTooLate(r, op)) \/ AutoApprove(r)
    BY <2>3 DEF StartGPG, FinishGPGTooLate, AutoApprove, HistoryWasSent
  <2>4. QED
    BY <1>4, <2>1, <2>2, <2>3 DEF ApproverStep
<1>5. ASSUME NEW r \in Reqs, CacheApproval(r) \/ AddRuleOfApproved(r)
      PROVE  Sent /\ Kept
  BY <1>5 DEF CacheApproval, AddRuleOfApproved, HistoryWasSent
<1>6. ASSUME NEW r \in Reqs, NEW i \in Items, CreatedItem(r, i)
      PROVE  Sent /\ Kept
  BY <1>6 DEF TypeOK, Lifecycle, CreatedItem, HistoryWasSent
<1>7. ASSUME Tick \/ (\E k \in RuleKeys : RemoveAutoApproveRule(k)) \/ UNCHANGED vars
      PROVE  Sent /\ Kept
  BY <1>7 DEF Tick, RemoveAutoApproveRule, vars, HistoryWasSent
<1>8. Sent /\ Kept
  BY <1>1, <1>2, <1>4, <1>5, <1>6, <1>7 DEF Next, ServeStep, FinishStep, Finished
<1>9. QED
  BY <1>8 DEF Monotone

\* A request that vouched for an item or gave rise to a rule goes on doing so.
LEMMA SourcesStay ==
    ASSUME Lifecycle, Monotone
    PROVE  \A q \in Reqs :
              /\ HumanApproved(q) => HumanApproved(q)'
              /\ RuleSource(q) => RuleSource(q)'
              /\ \A s \in Senders, i \in Items : Vouches(q, s, i) => Vouches(q, s, i)'
<1>1. \A q \in Reqs : HumanApproved(q) => HumanApproved(q)'
  BY DEF Monotone, HumanApproved, Approvals
<1>2. \A q \in Reqs : RuleSource(q) => RuleSource(q)'
  BY <1>1 DEF Monotone, RuleSource
<1>3. ASSUME NEW q \in Reqs, NEW s \in Senders, NEW i \in Items, Vouches(q, s, i)
      PROVE  Vouches(q, s, i)'
  <2>1. i # NoItem
    BY ItemAssumption
  <2>2. QED
    BY <1>1, <1>3, <2>1 DEF Monotone, Vouches
<1>4. QED
  BY <1>1, <1>2, <1>3

\* A step of any kind leaves every standing permission justified.
LEMMA StandingStep ==
    ASSUME TypeOK, Lifecycle, HistoryWasSent, StandingPermissionsJustified, [Next]_vars, Monotone
    PROVE  StandingPermissionsJustified'
<1> USE DEF callVars, lockVars, authVars, noteVars
<1>1. ASSUME NEW s \in Senders, NEW i \in Items, cache'[<<s, i>>] # NoTime
      PROVE  \E q \in Reqs : Vouches(q, s, i)'
  <2>1. \/ cache'[<<s, i>>] = cache[<<s, i>>]
        \/ \E r \in Reqs : CheckCacheMiss(r)
        \/ \E r \in Reqs, j \in Items : CreatedItem(r, j)
        \/ \E r \in Reqs : CacheApproval(r)
    BY DEF Next, ServeStep, FinishStep, ApproverStep, Finished, vars,
           Begin, CheckCacheHit, CheckAutoApproveRules, CheckTrustRules, NotifyRuled,
           AutoSign, AutoSignFails, Create, Announce, WaitDone, WaitTimer, WaitCtx, SignTimeout,
           NotifyGaveUp, Cleanup, ResolveNow, StartGPG, FinishGPG, FinishGPGTooLate, AutoApprove,
           NotifyResolved, AddRuleOfApproved, CancelCtx, RemoveAutoApproveRule, Tick
  <2>2. CASE cache'[<<s, i>>] = cache[<<s, i>>]
    BY <1>1, <2>2, SourcesStay DEF StandingPermissionsJustified
  <2>3. ASSUME NEW r \in Reqs, CheckCacheMiss(r) PROVE cache'[<<s, i>>] = cache[<<s, i>>]
    BY <1>1, <2>3 DEF TypeOK, CheckCacheMiss
  <2>4. ASSUME NEW r \in Reqs, NEW j \in Items, CreatedItem(r, j), cache'[<<s, i>>] # cache[<<s, i>>]
        PROVE  Vouches(r, s, i)'
    <3>1. s = Sender(r) /\ i = j
      BY <2>4 DEF TypeOK, CreatedItem
    <3>2. made'[r] = i /\ ret'[r] \in Grants /\ Info[r].type = "write"
      BY <2>4, <3>1 DEF TypeOK, CreatedItem
    <3>3. QED
      BY <3>1, <3>2 DEF Vouches
  <2>5. ASSUME NEW r \in Reqs, CacheApproval(r), cache'[<<s, i>>] # cache[<<s, i>>]
        PROVE  Vouches(r, s, i)'
    <3>1. s = Sender(r) /\ i \in ItemsIn(r)
      BY <2>5 DEF TypeOK, CacheApproval
    <3>2. HumanApproved(r)'
      BY <2>5 DEF Lifecycle, CacheApproval, HumanApproved
    <3>3. QED
      BY <3>1, <3>2 DEF Vouches
  <2>6. QED
    BY <2>1, <2>2, <2>3, <2>4, <2>5
<1>2. ASSUME NEW k \in RuleKeys, rules'[k] # NoTime
      PROVE  \E q \in Reqs : RuleSource(q)' /\ RuleOf(q) = k
  <2>1. \/ rules'[k] = rules[k]
        \/ \E r \in Reqs : CheckAutoApproveRules(r)
        \/ \E r \in Reqs : AddRuleOfApproved(r)
        \/ \E r \in Reqs : AutoApprove(r)
        \/ \E j \in RuleKeys : RemoveAutoApproveRule(j)
    BY ZenonT(60) DEF Next, ServeStep, FinishStep, ApproverStep, Finished, vars,
           Begin, CheckCacheHit, CheckCacheMiss, CheckTrustRules, NotifyRuled,
           AutoSign, AutoSignFails, Create, Announce, WaitDone, WaitTimer, WaitCtx, SignTimeout,
           NotifyGaveUp, Cleanup, ResolveNow, StartGPG, FinishGPG, FinishGPGTooLate,
           NotifyResolved, CacheApproval, CancelCtx, CreatedItem, Tick
  <2>2. CASE rules'[k] = rules[k]
    BY <1>2, <2>2, SourcesStay DEF StandingPermissionsJustified
  <2>3. ASSUME NEW r \in Reqs, CheckAutoApproveRules(r) PROVE rules'[k] = rules[k]
    BY <1>2, <2>3 DEF CheckAutoApproveRules, LiveRules
  <2>4. ASSUME NEW j \in RuleKeys, RemoveAutoApproveRule(j) PROVE rules'[k] = rules[k]
    BY <1>2, <2>4 DEF TypeOK, RemoveAutoApproveRule
  <2>5. ASSUME NEW r \in Reqs, AddAutoApproveRule(r), rules'[k] # rules[k]
        PROVE  RuleOf(r) = k
    BY <2>5 DEF TypeOK, AddAutoApproveRule
  <2>6. ASSUME NEW r \in Reqs, AddRuleOfApproved(r) PROVE RuleSource(r)'
    BY <2>6 DEF Lifecycle, AddRuleOfApproved, RuleSource, HumanApproved
  <2>7. ASSUME NEW r \in Reqs, AutoApprove(r) PROVE RuleSource(r)'
    <3>1. PICK n \in DOMAIN history : history[n] = [req |-> r, resolution |-> "cancelled"]
      BY <2>7 DEF AutoApprove, NewestEntryIs
    <3>2. "cancelled" \in events[r]
      BY <3>1 DEF HistoryWasSent
    <3>3. QED
      BY <3>2 DEF Monotone, RuleSource
  <2>8. QED
    BY <2>1, <2>2, <2>3, <2>4, <2>5, <2>6, <2>7 DEF AddRuleOfApproved, AutoApprove
<1>3. \A r \in Reqs : RuleOf(r)' = RuleOf(r)
  BY DEF RuleOf, Caller
<1>4. QED
  BY <1>1, <1>2, <1>3 DEF StandingPermissionsJustified

\* The steps that settle the answer of a request are its own.
LEMMA AnswerStep ==
    ASSUME TypeOK, [Next]_vars, NEW r \in Reqs, ret'[r] # ret[r]
    PROVE  \/ CheckCacheHit(r) \/ CheckAutoApproveRules(r) \/ CheckTrustRules(r)
           \/ AutoSign(r) \/ AutoSignFails(r)
           \/ WaitDone(r) \/ WaitTimer(r) \/ WaitCtx(r)
<1> USE DEF callVars, lockVars, authVars, noteVars
<1>1. ret' # ret
  OBVIOUS
<1>2. PICK q \in Reqs :
         \/ CheckCacheHit(q) \/ CheckAutoApproveRules(q) \/ CheckTrustRules(q)
         \/ AutoSign(q) \/ AutoSignFails(q)
         \/ WaitDone(q) \/ WaitTimer(q) \/ WaitCtx(q)
  BY ZenonT(60), <1>1 DEF Next, ServeStep, FinishStep, ApproverStep, Finished, vars,
         Begin, CheckCacheMiss, NotifyRuled, Create, Announce, SignTimeout,
         NotifyGaveUp, Cleanup, ResolveNow, StartGPG, FinishGPG, FinishGPGTooLate, AutoApprove,
         NotifyResolved, CacheApproval, AddRuleOfApproved, CancelCtx, CreatedItem,
         RemoveAutoApproveRule, Tick
<1>3. Info[q].trust \in {"none", "approve", "ignore", "deny"}
  BY RequestAssumption DEF RequestInfo
<1>4. \A p \in Reqs \ {q} : ret'[p] = ret[p]
  <2>1. CASE CheckCacheHit(q) \/ AutoSign(q) \/ AutoSignFails(q)
    BY <2>1 DEF TypeOK, CheckCacheHit, AutoSign, AutoSignFails, Return
  <2>2. CASE CheckAutoApproveRules(q)
    BY <2>2 DEF TypeOK, CheckAutoApproveRules
  <2>3. CASE CheckTrustRules(q)
    BY <1>3, <2>3 DEF TypeOK, CheckTrustRules
  <2>4. CASE WaitDone(q) \/ WaitTimer(q) \/ WaitCtx(q)
    BY <2>4 DEF TypeOK, WaitDone, WaitTimer, WaitCtx
  <2>5. QED
    BY <1>2, <2>1, <2>2, <2>3, <2>4
<1>5. QED
  BY <1>2, <1>4

\* A step of any kind leaves every grant justified.
LEMMA GrantsStep ==
    ASSUME TypeOK, Lifecycle, StandingPermissionsJustified, GrantsJustified, [Next]_vars, Monotone
    PROVE  GrantsJustified'
<1> SUFFICES ASSUME NEW r \in Reqs
             PROVE  /\ ret'[r] = "ok" => HumanApproved(r)'
                    /\ ret'[r] = "cached" =>
                          /\ Info[r].type \notin {"delete", "write"}
                          /\ \A i \in ItemsIn(r) : \E q \in Reqs : Vouches(q, Sender(r), i)'
                    /\ ret'[r] = "ruled" =>
                          \E q \in Reqs : RuleSource(q)' /\ Covers(q, r)
  BY DEF GrantsJustified, ItemsIn, Sender, RuleOf, Caller, Covers
<1>1. Sender(r) \in Senders
  BY RequestAssumption, CallerAssumption DEF RequestInfo, Sender
<1>2. \A i \in ItemsIn(r) : i \in Items
  <2>1. Info[r].items \in Seq(Items)
    BY RequestAssumption DEF RequestInfo
  <2>2. QED
    BY <2>1, ElementOfSeq, LenProperties DEF ItemsIn
<1>3. CASE ret'[r] = ret[r]
  BY <1>1, <1>2, <1>3, SourcesStay DEF GrantsJustified
<1>4. CASE CheckCacheHit(r)
  <2>1. ret'[r] = "cached" /\ Info[r].type \notin {"delete", "write"}
    BY <1>4 DEF TypeOK, CheckCacheHit, Return, CacheApplies
  <2>2. \A i \in ItemsIn(r) : cache[<<Sender(r), i>>] # NoTime
    BY <1>4 DEF CheckCacheHit, CacheHit, Fresh
  <2>3. \A i \in ItemsIn(r) : \E q \in Reqs : Vouches(q, Sender(r), i)
    BY <1>1, <1>2, <2>2 DEF StandingPermissionsJustified
  <2>4. QED
    BY <1>1, <1>2, <2>1, <2>3, SourcesStay
<1>5. CASE CheckAutoApproveRules(r) /\ ret'[r] # ret[r]
  <2>1. ret'[r] = "ruled"
    BY <1>5 DEF TypeOK, CheckAutoApproveRules
  <2>2. PICK k \in RuleKeys : LiveRules[k] # NoTime /\ RuleMatches(k, r)
    BY <1>5 DEF CheckAutoApproveRules
  <2>3. rules[k] # NoTime
    BY <2>2 DEF LiveRules
  <2>4. PICK q \in Reqs : RuleSource(q) /\ RuleOf(q) = k
    BY <2>3 DEF StandingPermissionsJustified
  <2>5. Info[r].items = <<>> => ItemsIn(r) = {}
    BY DEF ItemsIn
  <2>6. Covers(q, r)
    BY <2>2, <2>4, <2>5 DEF RuleMatches, RuleOf, CoversAll, Covers
  <2>7. QED
    BY <2>1, <2>4, <2>6, SourcesStay
<1>6. CASE CheckTrustRules(r) \/ AutoSignFails(r) \/ WaitTimer(r) \/ WaitCtx(r)
  <2>1. Info[r].trust \in {"none", "approve", "ignore", "deny"}
    BY RequestAssumption DEF RequestInfo
  <2>2. ret'[r] = ret[r] \/ ret'[r] \in {"trusted", "ignored", "deniedByRule", "failed", "timeout", "ctx"}
    BY <1>6, <2>1 DEF TypeOK, CheckTrustRules, AutoSignFails, WaitTimer, WaitCtx, Return
  <2>3. QED
    BY <1>3, <2>2
<1>7. CASE AutoSign(r)
  <2>1. ret'[r] = ret[r] \/ ret'[r] = "trusted"
    BY <1>7 DEF TypeOK, AutoSign, Return
  <2>2. QED
    BY <1>3, <2>1
<1>8. CASE WaitDone(r) /\ ret'[r] # ret[r]
  <2>1. ret'[r] \in {"ok", "denied"} /\ (ret'[r] = "ok" => HumanApproved(r))
    BY <1>8 DEF TypeOK, WaitDone, HumanApproved
  <2>2. QED
    BY <2>1, SourcesStay
<1>9. QED
  BY <1>3, <1>4, <1>5, <1>6, <1>7, <1>8, AnswerStep

-----------------------------------------------------------------------------

\* The inductive invariant.  A grant is justified because a standing
\* permission is, which needs the history to be within the events (a rule
\* may come from a cancelled entry) and the life cycle (only a resolver that
\* approved caches).
IInv ==
    /\ TypeOK
    /\ Lifecycle
    /\ HistoryWasSent
    /\ StandingPermissionsJustified
    /\ GrantsJustified

\* IInv is an invariant.
LEMMA Invariance == Spec => []IInv
<1>1. Init => IInv
  BY BoundAssumption
     DEF Init, IInv, TypeOK, Points, Returns, Grants, Times, Lifecycle, HistoryWasSent,
         StandingPermissionsJustified, GrantsJustified
<1>2. IInv /\ [Next]_vars => IInv'
  BY TypeStep, LifecycleStep, MonotoneStep, StandingStep, GrantsStep DEF IInv
<1>3. QED
  BY <1>1, <1>2, PTL DEF Spec

\* No interleaving of approvers, timers, cancellations and gpg runs resolves
\* a request twice or closes its channel twice.
THEOREM ResolvedOnce == Spec => []OneResolver
<1>1. IInv => OneResolver
  <2> SUFFICES ASSUME IInv, NEW r \in Reqs
               PROVE  /\ closed[r] <= 1
                      /\ winner[r] # "none" => r \notin pending /\ closed[r] = 1
                      /\ r \in pending => pc[r] \in InFlight
    BY DEF OneResolver
  <2>1. closed[r] \in Nat
    BY DEF IInv, TypeOK
  <2>2. /\ closed[r] <= 1
        /\ winner[r] # "none" => closed[r] # 0
        /\ r \in pending => winner[r] = "none" /\ pc[r] \in InFlight
    BY DEF IInv, Lifecycle
  <2>3. QED
    BY <2>1, <2>2
<1>2. QED
  BY <1>1, Invariance, PTL

\* The life cycle that the other invariants rest on.
THEOREM LifecycleHolds == Spec => []Lifecycle
BY Invariance, PTL DEF IInv

\* Every entry of the cache and every auto-approve rule goes back to a
\* decision of the user.
THEOREM PermissionsJustified == Spec => []StandingPermissionsJustified
BY Invariance, PTL DEF IInv

\* Nothing is granted without an approval of the request itself, or of
\* earlier requests that cover it.
THEOREM AccessJustified == Spec => []GrantsJustified
BY Invariance, PTL DEF IInv
-----------------------------------------------------------------------------
(* The answer of a request and what the history says of it *)

\* What the place of a request says about its answer: none before the rules
\* or the select settle it, the one that a rule or a timer gave while it is
\* being announced, and never the answer of a rule once a resolver acted.
AnswerFits ==
    \A r \in Reqs :
        /\ pc[r] \in {"idle", "cache", "rules", "trust", "create", "announce", "wait", "expire"} =>
              ret[r] = "none"
        /\ pc[r] = "autosign" => ret[r] \in {"none", "ruled"}
        /\ pc[r] = "noteAuto" => ret[r] \in {"ruled", "trusted"}
        /\ pc[r] = "noteIgnored" => ret[r] = "ignored"
        /\ pc[r] = "noteDenied" => ret[r] = "deniedByRule"
        /\ pc[r] = "expire" => r \in Signs
        /\ pc[r] = "noteExpired" => ret[r] = IF r \in Calls THEN "timeout" ELSE "none"
        /\ pc[r] = "noteCancelled" => ret[r] = "ctx"
        /\ pc[r] = "cleanup" => ret[r] \in {"ok", "denied", "timeout", "ctx"}
        /\ winner[r] # "none" => ret[r] \in {"none", "ok", "denied", "timeout", "ctx"}
        /\ rstep[r] = "notify" => winner[r] # "none"

\* Only the goroutine of a request moves it.
LEMMA AnswerFitsServe ==
    ASSUME TypeOK, Lifecycle, AnswerFits, NEW r \in Reqs, Begin(r) \/ ServeStep(r)
    PROVE  AnswerFits'
<1> USE DEF callVars, lockVars, authVars, noteVars, TypeOK, AnswerFits, Goto, Return
<1>0. Info[r].trust \in {"none", "approve", "ignore", "deny"}
  BY RequestAssumption DEF RequestInfo
<1>1. CASE Begin(r)
  BY <1>1 DEF Begin, Calls
<1>2. CASE CheckCacheHit(r)
  <2>1. winner[r] = "none"
    BY <1>2 DEF CheckCacheHit, Lifecycle, InFlight
  <2>2. QED
    BY <1>2, <2>1 DEF CheckCacheHit
<1>3. CASE CheckCacheMiss(r)
  BY <1>3 DEF CheckCacheMiss
<1>4. CASE CheckAutoApproveRules(r)
  BY <1>4 DEF CheckAutoApproveRules, Lifecycle, InFlight, Calls
<1>5. CASE CheckTrustRules(r)
  <2>1. winner[r] = "none" /\ pc[r] = "trust"
    BY <1>5 DEF CheckTrustRules, Lifecycle, InFlight
  <2>2. /\ pc' = [pc EXCEPT ![r] = pc'[r]] /\ ret' = [ret EXCEPT ![r] = ret'[r]]
        /\ \/ pc'[r] = "create" /\ ret'[r] = "none"
           \/ pc'[r] = "noteAuto" /\ ret'[r] = "trusted"
           \/ pc'[r] = "noteIgnored" /\ ret'[r] = "ignored"
           \/ pc'[r] = "noteDenied" /\ ret'[r] = "deniedByRule"
    BY <1>0, <1>5 DEF CheckTrustRules
  <2>3. UNCHANGED <<winner, rstep>>
    BY <1>5 DEF CheckTrustRules
  <2>4. ASSUME NEW q \in Reqs, q # r PROVE pc'[q] = pc[q] /\ ret'[q] = ret[q]
    BY <2>2, <2>4
  <2>5. QED
    BY <2>1, <2>2, <2>3, <2>4
<1>6. CASE NotifyRuled(r)
  BY <1>6 DEF NotifyRuled
<1>7. CASE AutoSign(r)
  <2>1. winner[r] = "none"
    BY <1>7 DEF AutoSign, Lifecycle, InFlight
  <2>2. QED
    BY <1>7, <2>1 DEF AutoSign
<1>8. CASE AutoSignFails(r)
  <2>1. winner[r] = "none"
    BY <1>8 DEF AutoSignFails, Lifecycle, InFlight
  <2>2. QED
    BY <1>8, <2>1 DEF AutoSignFails
<1>9. CASE Create(r)
  BY <1>9 DEF Create
<1>10. CASE Announce(r)
  BY <1>10 DEF Announce
<1>11. CASE WaitDone(r)
  BY <1>11 DEF WaitDone
<1>12. CASE WaitTimer(r)
  BY <1>12 DEF WaitTimer, Calls
<1>13. CASE WaitCtx(r)
  BY <1>13 DEF WaitCtx
<1>14. CASE SignTimeout(r)
  <2>1. r \notin Calls
    BY <1>14 DEF SignTimeout, Calls
  <2>2. QED
    BY <1>14, <2>1 DEF SignTimeout
<1>15. CASE NotifyGaveUp(r)
  BY <1>15 DEF NotifyGaveUp
<1>16. CASE Cleanup(r)
  BY <1>16 DEF Cleanup
<1>17. QED
  BY <1>1, <1>2, <1>3, <1>4, <1>5, <1>6, <1>7, <1>8, <1>9, <1>10, <1>11, <1>12,
     <1>13, <1>14, <1>15, <1>16 DEF ServeStep

\* Every step keeps the answers where they belong.
LEMMA AnswerFitsStep == TypeOK /\ Lifecycle /\ AnswerFits /\ [Next]_vars => AnswerFits'
<1> SUFFICES ASSUME TypeOK, Lifecycle, AnswerFits, [Next]_vars PROVE AnswerFits'
  OBVIOUS
<1> USE DEF callVars, lockVars, authVars, noteVars
<1>1. ASSUME NEW r \in Reqs, NEW op \in ResolveOps, Resolve(r, op), UNCHANGED <<pc, ret>>
      PROVE  AnswerFits'
  <2>1. pc[r] \in InFlight
    BY <1>1 DEF Resolve, Lifecycle
  <2>2. ret[r] \in {"none", "ok", "denied", "timeout", "ctx"}
    BY <2>1 DEF InFlight, AnswerFits
  <2>3. op # "none"
    BY DEF ResolveOps, Approvals
  <2>4. QED
    BY <1>1, <2>2, <2>3 DEF Resolve, AnswerFits, TypeOK
<1>2. ASSUME NEW r \in Reqs, ApproverStep(r) PROVE AnswerFits'
  <2>1. CASE \E op \in ResolveOps : ResolveNow(r, op)
    BY <1>1, <2>1 DEF ResolveNow
  <2>2. CASE \E op \in Approvals : FinishGPG(r, op)
    BY <1>1, <2>2 DEF FinishGPG, ResolveOps
  <2>3. CASE (\E op \in Approvals : StartGPG(r, op) \/ FinishGPGTooLate(r, op)) \/ AutoApprove(r)
    BY <2>3 DEF StartGPG, FinishGPGTooLate, AutoApprove, AnswerFits
  <2>4. QED
    BY <1>2, <2>1, <2>2, <2>3 DEF ApproverStep
<1>3. ASSUME NEW r \in Reqs, FinishStep(r) PROVE AnswerFits'
  BY <1>3 DEF FinishStep, NotifyResolved, CacheApproval, AddRuleOfApproved, AnswerFits, TypeOK
<1>4. ASSUME NEW r \in Reqs, NEW i \in Items, CreatedItem(r, i) PROVE AnswerFits'
  BY <1>4 DEF CreatedItem, Goto, AnswerFits, TypeOK
<1>5. ASSUME \/ \E r \in Reqs : CancelCtx(r)
             \/ \E k \in RuleKeys : RemoveAutoApproveRule(k)
             \/ Tick \/ UNCHANGED vars
      PROVE  AnswerFits'
  BY <1>5 DEF CancelCtx, RemoveAutoApproveRule, Tick, vars, AnswerFits
<1>6. QED
  BY <1>2, <1>3, <1>4, <1>5, AnswerFitsServe DEF Next, Finished

\* An answer that was settled stays, unless gpg could not be run for it.
LEMMA AnswerKept ==
    ASSUME TypeOK, AnswerFits, [Next]_vars, NEW r \in Reqs, ret[r] # "none", pc[r] # "autosign"
    PROVE  ret'[r] = ret[r]
<1>1. pc[r] \notin {"cache", "rules", "trust", "wait"}
  BY DEF AnswerFits
<1>2. QED
  BY <1>1, AnswerStep DEF CheckCacheHit, CheckAutoApproveRules, CheckTrustRules, AutoSign,
     AutoSignFails, WaitDone, WaitTimer, WaitCtx

\* No step makes a grant of a decision that went the other way, replaces the
\* decision, or takes a grant back.
LEMMA NoReversalStep ==
    ASSUME TypeOK, Lifecycle, GrantsJustified, AnswerFits, [Next]_vars, Monotone, GrantsJustified',
           AnswerFits', NEW r \in Reqs
    PROVE  /\ winner[r] \in {"deny", "cancel"} => ret'[r] \notin Grants
           /\ winner[r] # "none" => winner'[r] = winner[r]
           /\ ret[r] \in Grants /\ pc[r] # "autosign" => ret'[r] = ret[r]
<1>1. ASSUME winner[r] \in {"deny", "cancel"} PROVE ret'[r] \notin Grants
  <2>1. winner'[r] = winner[r] /\ winner'[r] \notin Approvals
    BY <1>1 DEF Monotone, Approvals
  <2>2. ret'[r] # "ok"
    BY <2>1 DEF GrantsJustified, HumanApproved
  <2>3. ret'[r] \in {"none", "ok", "denied", "timeout", "ctx"}
    BY <1>1, <2>1 DEF AnswerFits
  <2>4. QED
    BY <2>2, <2>3 DEF Grants
<1>2. ASSUME ret[r] \in Grants, pc[r] # "autosign" PROVE ret'[r] = ret[r]
  BY <1>2, AnswerKept DEF Grants
<1>3. QED
  BY <1>1, <1>2 DEF Monotone

\* What an entry of the history says of its request.  A request that is on
\* record as approved by a rule is finished: no failure of gpg can follow.
Truthful(r, resolution) ==
    /\ resolution = "approved" => winner[r] \in Approvals \cup {"gpgFailed"}
    /\ resolution = "denied" => winner[r] = "deny" \/ ret[r] = "deniedByRule"
    /\ resolution = "auto_approved" =>
          ret[r] \in {"ruled", "trusted"} /\ pc[r] \in {"returned", "stored"}
    /\ resolution = "ignored" => ret[r] = "ignored"
    /\ resolution = "expired" => (r \in Calls => ret[r] = "timeout")
    /\ resolution = "cancelled" => winner[r] = "cancel" \/ ret[r] = "ctx"

EntriesTruthful ==
    \A n \in DOMAIN history : Truthful(history[n].req, history[n].resolution)

\* A finished request stays finished.
LEMMA FinishedStays ==
    ASSUME TypeOK, [Next]_vars, NEW r \in Reqs, pc[r] \in {"returned", "stored"}
    PROVE  pc'[r] \in {"returned", "stored"}
<1> USE DEF callVars, lockVars, authVars, noteVars
<1>1. ASSUME NEW q \in Reqs, Begin(q) \/ ServeStep(q) PROVE pc'[r] = pc[r]
  <2>1. pc[q] \notin {"returned", "stored"}
    BY <1>1 DEF ServeStep, Begin, CheckCacheHit, CheckCacheMiss, CheckAutoApproveRules,
       CheckTrustRules, NotifyRuled, AutoSign, AutoSignFails, Create, Announce, WaitDone, WaitTimer,
       WaitCtx, SignTimeout, NotifyGaveUp, Cleanup
  <2>2. \E point : Goto(q, point)
    BY <1>1 DEF ServeStep, Begin, CheckCacheHit, CheckCacheMiss, CheckAutoApproveRules,
       CheckTrustRules, NotifyRuled, AutoSign, AutoSignFails, Create, Announce, WaitDone, WaitTimer,
       WaitCtx, SignTimeout, NotifyGaveUp, Cleanup, Return
  <2>3. QED
    BY <2>1, <2>2 DEF Goto, TypeOK
<1>2. ASSUME NEW q \in Reqs, NEW i \in Items, CreatedItem(q, i) PROVE pc'[r] \in {"returned", "stored"}
  BY <1>2 DEF CreatedItem, Goto, TypeOK
<1>3. ASSUME \/ \E q \in Reqs : FinishStep(q) \/ ApproverStep(q) \/ CancelCtx(q)
             \/ \E k \in RuleKeys : RemoveAutoApproveRule(k)
             \/ Tick \/ UNCHANGED vars
      PROVE  pc' = pc
  BY <1>3 DEF FinishStep, ApproverStep, CancelCtx, RemoveAutoApproveRule, Tick, vars, NotifyResolved,
     CacheApproval, AddRuleOfApproved, ResolveNow, StartGPG, FinishGPG, FinishGPGTooLate, AutoApprove
<1>4. QED
  BY <1>1, <1>2, <1>3 DEF Next, Finished

\* What an entry says of its request stays true.
LEMMA TruthStays ==
    ASSUME TypeOK, AnswerFits, [Next]_vars, Monotone, NEW r \in Reqs, NEW x, Truthful(r, x)
    PROVE  Truthful(r, x)'
<1>1. winner[r] # "none" => winner'[r] = winner[r]
  BY DEF Monotone
<1>2. pc[r] = "autosign" => ret[r] \in {"none", "ruled"}
  BY DEF AnswerFits
<1>3. ret[r] # "none" /\ pc[r] # "autosign" => ret'[r] = ret[r]
  BY AnswerKept
<1>4. pc[r] \in {"returned", "stored"} => pc'[r] \in {"returned", "stored"}
  BY FinishedStays
<1>5. QED
  BY <1>1, <1>2, <1>3, <1>4 DEF Truthful, Approvals

\* What notify puts on record is so.
LEMMA NotedTruthfully ==
    ASSUME TypeOK, Lifecycle, AnswerFits, NEW r \in Reqs,
           \/ NotifyRuled(r) \/ AutoSign(r) \/ NotifyGaveUp(r) \/ NotifyResolved(r)
    PROVE  \E event \in Resolutions : Notify(r, event) /\ Truthful(r, event)'
<1> USE DEF callVars, lockVars, authVars, noteVars, TypeOK, AnswerFits, Truthful, Resolutions
<1>1. CASE NotifyRuled(r)
  <2>1. PICK event \in {"auto_approved", "ignored", "denied"} :
           /\ Notify(r, event)
           /\ event = "auto_approved" => pc[r] = "noteAuto"
           /\ event = "ignored" => pc[r] = "noteIgnored"
           /\ event = "denied" => pc[r] = "noteDenied"
    BY <1>1 DEF NotifyRuled
  <2>2. ret'[r] = ret[r] /\ pc'[r] = "returned"
    BY <1>1 DEF NotifyRuled, Goto
  <2>3. QED
    BY <2>1, <2>2
<1>2. CASE AutoSign(r)
  <2>1. Notify(r, "auto_approved") /\ pc'[r] = "returned" /\ ret'[r] \in {"ruled", "trusted"}
    BY <1>2 DEF AutoSign, Return, Goto
  <2>2. QED
    BY <2>1
<1>3. CASE NotifyGaveUp(r)
  <2>1. PICK event \in {"expired", "cancelled"} :
           /\ Notify(r, event)
           /\ event = "expired" => pc[r] = "noteExpired"
           /\ event = "cancelled" => pc[r] = "noteCancelled"
    BY <1>3 DEF NotifyGaveUp
  <2>2. ret'[r] = ret[r]
    BY <1>3 DEF NotifyGaveUp
  <2>3. QED
    BY <2>1, <2>2
<1>4. CASE NotifyResolved(r)
  <2>1. PICK event \in {"approved", "denied", "cancelled"} :
           /\ Notify(r, event)
           /\ event = "approved" => winner[r] \in Approvals \cup {"gpgFailed"}
           /\ event = "denied" => winner[r] = "deny"
           /\ event = "cancelled" => winner[r] \notin Approvals \cup {"gpgFailed", "deny"}
    BY <1>4 DEF NotifyResolved
  <2>2. winner'[r] = winner[r] /\ winner[r] # "none"
    BY <1>4 DEF NotifyResolved
  <2>3. winner[r] \in Approvals \cup {"gpgFailed", "deny", "cancel"}
    BY <2>2 DEF ResolveOps
  <2>4. QED
    BY <2>1, <2>2, <2>3
<1>5. QED
  BY <1>1, <1>2, <1>3, <1>4

\* Every step keeps the history truthful.
LEMMA TruthfulStep ==
    ASSUME TypeOK, Lifecycle, AnswerFits, EntriesTruthful, [Next]_vars, Monotone
    PROVE  EntriesTruthful'
<1> USE DEF callVars, lockVars, authVars, noteVars
<1>1. \A n \in DOMAIN history : history[n].req \in Reqs
  <2>1. history \in Seq([req : Reqs, resolution : Resolutions])
    BY DEF TypeOK
  <2>2. \A n \in DOMAIN history : history[n] \in [req : Reqs, resolution : Resolutions]
    BY <2>1, ElementOfSeq, LenProperties
  <2>3. QED
    BY <2>2
<1>2. \A n \in DOMAIN history : Truthful(history[n].req, history[n].resolution)
  BY DEF EntriesTruthful
<1>3. ASSUME NEW n \in DOMAIN history, NEW r, NEW x, r = history[n].req, x = history[n].resolution
      PROVE  Truthful(r, x)'
  BY <1>1, <1>2, <1>3, TruthStays
<1>4. CASE history' = history
  <2>1. ASSUME NEW n \in DOMAIN history' PROVE Truthful(history[n].req, history[n].resolution)'
    BY <1>3, <1>4, <2>1
  <2>2. QED
    BY <2>1 DEF EntriesTruthful
<1>5. ASSUME NEW r \in Reqs, \/ NotifyRuled(r) \/ AutoSign(r) \/ NotifyGaveUp(r) \/ NotifyResolved(r)
      PROVE  EntriesTruthful'
  <2>1. PICK event \in Resolutions : Notify(r, event) /\ Truthful(r, event)'
    BY <1>5, NotedTruthfully
  <2>2. \A n \in DOMAIN history' :
           \/ history'[n] = [req |-> r, resolution |-> event]
           \/ \E m \in DOMAIN history : history'[n] = history[m]
    BY <2>1, NotifyEntries DEF Outcomes, Resolutions
  <2>3. ASSUME NEW n \in DOMAIN history' PROVE Truthful(history[n].req, history[n].resolution)'
    <3>1. CASE history'[n] = [req |-> r, resolution |-> event]
      <4>1. history'[n].req = r /\ history'[n].resolution = event
        BY <3>1
      <4>2. QED
        BY <2>1, <4>1 DEF Truthful
    <3>2. ASSUME NEW m \in DOMAIN history, history'[n] = history[m]
          PROVE  Truthful(history[n].req, history[n].resolution)'
      BY <1>3, <3>2 DEF Truthful
    <3>3. QED
      BY <2>2, <3>1, <3>2
  <2>4. QED
    BY <2>3 DEF EntriesTruthful
<1>6. \/ history' = history
      \/ \E r \in Reqs : NotifyRuled(r) \/ AutoSign(r) \/ NotifyGaveUp(r) \/ NotifyResolved(r)
  BY ZenonT(60) DEF Next, ServeStep, FinishStep, ApproverStep, Finished, vars,
         Begin, CheckCacheHit, CheckCacheMiss, CheckAutoApproveRules, CheckTrustRules,
         AutoSignFails, Create, Announce, Notify, WaitDone, WaitTimer, WaitCtx, SignTimeout,
         Cleanup, ResolveNow, StartGPG, FinishGPG, FinishGPGTooLate, AutoApprove,
         CacheApproval, AddRuleOfApproved, CancelCtx, CreatedItem, RemoveAutoApproveRule, Tick
<1>7. QED
  BY <1>4, <1>5, <1>6

\* The second inductive invariant: the answers, and through them the history.
AnswersInv == IInv /\ AnswerFits /\ EntriesTruthful

\* Every step keeps AnswersInv, and only adds answers.
LEMMA AnswersStep == AnswersInv /\ [Next]_vars => AnswersInv' /\ Monotone
<1> SUFFICES ASSUME AnswersInv, [Next]_vars PROVE AnswersInv' /\ Monotone
  OBVIOUS
<1> USE DEF AnswersInv, IInv
<1>1. Monotone /\ HistoryWasSent' /\ TypeOK' /\ Lifecycle'
  BY TypeStep, LifecycleStep, MonotoneStep
<1>2. StandingPermissionsJustified' /\ GrantsJustified'
  BY <1>1, StandingStep, GrantsStep
<1>3. AnswerFits' /\ EntriesTruthful'
  BY <1>1, AnswerFitsStep, TruthfulStep
<1>4. QED
  BY <1>1, <1>2, <1>3

\* AnswersInv is an invariant.
LEMMA AnswersInvariance == Spec => []AnswersInv
<1>1. Init => AnswerFits /\ EntriesTruthful
  BY DEF Init, AnswerFits, EntriesTruthful
<1>2. Init => AnswersInv
  BY <1>1, BoundAssumption
     DEF AnswersInv, Init, IInv, TypeOK, Points, Returns, Grants, Times, Lifecycle, HistoryWasSent,
         StandingPermissionsJustified, GrantsJustified
<1>3. QED
  BY <1>2, AnswersStep, PTL DEF Spec

\* The audit history is true of every request it names, for any historyMax:
\* notify runs after the mutex was released, and still nothing that other
\* goroutines do meanwhile makes its entry false.
THEOREM HistoryIsTrue == Spec => []HistoryTruthful
<1>1. AnswersInv => HistoryTruthful
  <2> SUFFICES ASSUME AnswersInv, NEW n \in DOMAIN history
               PROVE  LET r == history[n].req
                      IN CASE history[n].resolution = "approved" -> winner[r] \in Approvals \cup {"gpgFailed"}
                           [] history[n].resolution = "denied" -> winner[r] = "deny" \/ ret[r] = "deniedByRule"
                           [] history[n].resolution = "auto_approved" -> ret[r] \in {"ruled", "trusted"}
                           [] history[n].resolution = "ignored" -> ret[r] = "ignored"
                           [] history[n].resolution = "expired" -> r \in Calls => ret[r] = "timeout"
                           [] history[n].resolution = "cancelled" -> winner[r] = "cancel" \/ ret[r] = "ctx"
    BY DEF HistoryTruthful
  <2>1. history \in Seq([req : Reqs, resolution : Resolutions])
    BY DEF AnswersInv, IInv, TypeOK
  <2>2. history[n] \in [req : Reqs, resolution : Resolutions]
    BY <2>1, ElementOfSeq, LenProperties
  <2>3. history[n].resolution \in Resolutions
    BY <2>2
  <2>4. Truthful(history[n].req, history[n].resolution)
    BY DEF AnswersInv, EntriesTruthful
  <2>5. QED
    BY <2>3, <2>4 DEF Truthful, Resolutions
<1>2. QED
  BY <1>1, AnswersInvariance, PTL

\* A denial or a cancellation that won is never turned into a grant, the
\* resolver that won stays the winner, and a grant is never taken back, in
\* whatever order the select of RequireApproval sees its channels.
THEOREM NeverReversed == Spec => NoReversal
<1> DEFINE Step == \A r \in Reqs :
              /\ winner[r] \in {"deny", "cancel"} => ret'[r] \notin Grants
              /\ winner[r] # "none" => winner'[r] = winner[r]
              /\ ret[r] \in Grants /\ pc[r] # "autosign" => ret'[r] = ret[r]
<1>1. AnswersInv /\ [Next]_vars => Step
  <2> SUFFICES ASSUME AnswersInv, [Next]_vars, NEW r \in Reqs
               PROVE  /\ winner[r] \in {"deny", "cancel"} => ret'[r] \notin Grants
                      /\ winner[r] # "none" => winner'[r] = winner[r]
                      /\ ret[r] \in Grants /\ pc[r] # "autosign" => ret'[r] = ret[r]
    OBVIOUS
  <2>1. AnswersInv' /\ Monotone
    BY AnswersStep
  <2>2. QED
    BY <2>1, NoReversalStep DEF AnswersInv, IInv
<1>2. QED
  BY <1>1, AnswersInvariance, PTL DEF Spec, NoReversal
=============================================================================
