--------------------------- MODULE ApprovalManager ---------------------------
(***************************************************************************)
(* The approval manager of secrets-dispatcher: internal/approval/manager.go *)
(* and gpgsign.go, with the resolver of internal/api/resolver.go that      *)
(* drives it.                                                              *)
(*                                                                         *)
(* A request is served by a goroutine of its own: the caller blocked in    *)
(* RequireApproval, or, for gpg_sign, the HTTP handler followed by the     *)
(* timeout goroutine that CreateGPGSignRequest starts.  pc[r] is that      *)
(* goroutine's program point.  Any number of approvers (desktop actions,   *)
(* HTTP handlers, CLI) act on the same requests; since a request leaves    *)
(* `pending' when one of them wins, what the winner has left to do after   *)
(* releasing the mutex is kept per request, in rstep[r].                   *)
(*                                                                         *)
(* Every critical section is one action and every unlocked step between    *)
(* two critical sections is another, so the model has the interleavings    *)
(* the code has.  A timer fires at an arbitrary moment after it is armed:  *)
(* nothing bounds the speed of the other goroutines.  The clock `now' is   *)
(* only there to age cache entries and auto-approve rules.                 *)
(***************************************************************************)
EXTENDS Integers, Sequences

CONSTANTS
    Reqs,         \* request IDs (uuid.New)
    Callers,      \* client processes
    Senders,      \* values of SenderInfo.Sender, the D-Bus unique name
    Items,        \* item paths
    Exes,         \* executable paths
    NoExe,        \* invokerExePath resolved nothing ("")
    Scopes,       \* (collection, attributes) pairs an auto-approve rule can carry
    AnyScope,     \* the scope without collection and attributes
    Info,         \* what each request asks for, see RequestInfo
    SenderOf,     \* a caller's SenderInfo.Sender
    ExeOf,        \* invokerExePath of a caller
    ScopeOf,      \* an item's collection and attributes, as a rule's scope
    InScope,      \* the items that autoApproveCoversAll accepts for a scope
    Window,       \* approvalWindow; 0 disables the cache
    RuleTTL,      \* autoApproveDuration
    HistoryMax,   \* historyMax
    MaxTime       \* bound on the clock

NoTime == -1
NoItem == "no item"

CallTypes == {"get_secret", "delete", "write", "ssh_sign"}
Types     == CallTypes \cup {"gpg_sign"}

(***************************************************************************)
(* caller, items and type are RequireApproval's arguments.  trust is the   *)
(* verdict of the immutable configuration on the request: the action of    *)
(* the first matching trust rule, or, for gpg_sign, whether                *)
(* CheckTrustedSigner accepts it.                                          *)
(***************************************************************************)
RequestInfo ==
    [caller : Callers, items : Seq(Items), type : Types,
     trust  : {"none", "approve", "ignore", "deny"}]

ASSUME RequestAssumption == Info \in [Reqs -> RequestInfo]

ASSUME CallerAssumption ==
    /\ SenderOf \in [Callers -> Senders]
    /\ ExeOf \in [Callers -> Exes \cup {NoExe}]

ASSUME ScopeAssumption ==
    /\ AnyScope \in Scopes
    /\ ScopeOf \in [Items -> Scopes]
    /\ InScope \in [Scopes -> SUBSET Items]
    /\ InScope[AnyScope] = Items

ASSUME ItemAssumption == NoItem \notin Items

ASSUME BoundAssumption ==
    /\ Window \in Nat
    /\ RuleTTL \in Nat
    /\ HistoryMax \in Nat
    /\ MaxTime \in Nat

Signs == {r \in Reqs : Info[r].type = "gpg_sign"}
Calls == Reqs \ Signs

Caller(r)   == Info[r].caller
Sender(r)   == SenderOf[Info[r].caller]
ItemsIn(r)  == {Info[r].items[n] : n \in DOMAIN Info[r].items}
RuleKeys    == [exe : Exes \cup {NoExe}, type : Types, scope : Scopes]

VARIABLES
    now,       \* the clock
    pc,        \* program point of the goroutine that serves a request
    pending,   \* Manager.pending
    closed,    \* how often close(req.done) ran: a second time panics
    winner,    \* the resolver call that took the request out of pending;
               \* req.result is true when it is an approval
    rstep,     \* what the winner still has to do after m.mu.Unlock()
    signing,   \* approvers that are running gpg for a request
    ctxDone,   \* requests whose context the client tracker cancelled
    ret,       \* the answer RequireApproval (for gpg_sign: the HTTP handler of
               \* a request that was signed at once) settled on
    made,      \* the item a granted CreateItem went on to create
    cache,     \* Manager.cache
    rules,     \* Manager.autoApproveRules: expiry per rule
    history,   \* Manager.history, newest first
    events     \* per request, the events its observers were sent

callVars == <<pc, ctxDone, ret, made>>
lockVars == <<pending, closed, winner>>
authVars == <<cache, rules>>
noteVars == <<history, events>>
vars == <<now, callVars, lockVars, rstep, signing, authVars, noteVars>>

Approvals   == {"approve", "approveAuto"}
ResolveOps  == Approvals \cup {"gpgFailed", "deny", "cancel"}
Resolutions == {"approved", "denied", "expired", "cancelled", "auto_approved", "ignored"}
Points ==
    {"idle", "cache", "rules", "trust", "create", "announce", "wait",
     "noteAuto", "noteIgnored", "noteDenied", "autosign",
     "expire", "noteExpired", "noteCancelled", "cleanup", "returned", "stored"}
Grants  == {"ok", "cached", "ruled", "trusted"}
Returns == Grants \cup {"none", "denied", "timeout", "ctx", "ignored", "deniedByRule", "failed"}

Init ==
    /\ now = 0
    /\ pc = [r \in Reqs |-> "idle"]
    /\ pending = {}
    /\ closed = [r \in Reqs |-> 0]
    /\ winner = [r \in Reqs |-> "none"]
    /\ rstep = [r \in Reqs |-> "none"]
    /\ signing = [r \in Reqs |-> {}]
    /\ ctxDone = {}
    /\ ret = [r \in Reqs |-> "none"]
    /\ made = [r \in Reqs |-> NoItem]
    /\ cache = [p \in Senders \X Items |-> NoTime]
    /\ rules = [k \in RuleKeys |-> NoTime]
    /\ history = <<>>
    /\ events = [r \in Reqs |-> {}]

-----------------------------------------------------------------------------
(* Helpers *)

Goto(r, point) == pc' = [pc EXCEPT ![r] = point]

\* The goroutine leaves with an answer.
Return(r, answer) ==
    /\ Goto(r, "returned")
    /\ ret' = [ret EXCEPT ![r] = answer]

\* Mutant: the trim keeps one entry too many.
TrimmedOneOver(h) == SubSeq(h, 1, IF Len(h) > HistoryMax + 1 THEN HistoryMax + 1 ELSE Len(h))

\* addHistory: prepend, then trim to historyMax.
Trimmed(h) == SubSeq(h, 1, IF Len(h) > HistoryMax THEN HistoryMax ELSE Len(h))
AddHistory(r, resolution) ==
    history' = Trimmed(<<[req |-> r, resolution |-> resolution]>> \o history)

\* notify: every observer gets the event, terminal events go to the history.
Notify(r, event) ==
    /\ events' = [events EXCEPT ![r] = @ \cup {event}]
    /\ IF event = "created" THEN UNCHANGED history ELSE AddHistory(r, event)

\* GetHistoryEntry: the newest entry with the ID.
NewestEntryIs(r, resolution) ==
    \E n \in DOMAIN history :
        /\ history[n] = [req |-> r, resolution |-> resolution]
        /\ \A m \in DOMAIN history : m < n => history[m].req # r

\* checkApprovalCache: ts.Before(cutoff) is the test for a stale entry.
Fresh(s, i) == cache[<<s, i>>] # NoTime /\ cache[<<s, i>>] >= now - Window

\* Delete and write requests never use cached approvals.
CacheApplies(r) ==
    /\ Info[r].type \notin {"delete", "write"}
    /\ Window > 0
    /\ Info[r].items # <<>>

CacheHit(r) == \A i \in ItemsIn(r) : Fresh(Sender(r), i)

\* The first item without a fresh entry: its stale entry is dropped.
FirstMiss(r) ==
    LET miss == {n \in DOMAIN Info[r].items : ~Fresh(Sender(r), Info[r].items[n])}
    IN  Info[r].items[CHOOSE n \in miss : \A m \in miss : n <= m]

\* Mutant: only the first item of the batch is looked at.
CoversFirst(scope, r) ==
    IF Info[r].items = <<>> THEN scope = AnyScope
                            ELSE Head(Info[r].items) \in InScope[scope]

\* autoApproveCoversAll
CoversAll(scope, r) ==
    IF Info[r].items = <<>> THEN scope = AnyScope
                            ELSE ItemsIn(r) \subseteq InScope[scope]

RuleMatches(k, r) ==
    /\ ExeOf[Caller(r)] # NoExe
    /\ k.exe = ExeOf[Caller(r)]
    /\ k.type = Info[r].type
    /\ CoversAll(k.scope, r)

\* rule.ExpiresAt.Before(now)
LiveRules == [k \in RuleKeys |-> IF rules[k] < now THEN NoTime ELSE rules[k]]

\* The rule AddAutoApproveRule derives from a request: its first item decides.
RuleOf(r) ==
    [exe   |-> ExeOf[Caller(r)],
     type  |-> Info[r].type,
     scope |-> IF Info[r].items = <<>> THEN AnyScope ELSE ScopeOf[Head(Info[r].items)]]

\* A new rule, or, when the rule exists, a new expiry for it.
AddAutoApproveRule(r) == rules' = [rules EXCEPT ![RuleOf(r)] = now + RuleTTL]

-----------------------------------------------------------------------------
(* The goroutine that serves a request *)

\* RequireApproval is called, or a gpg_sign request is posted.  A trusted
\* signer is signed for at once.
Begin(r) ==
    /\ pc[r] = "idle"
    /\ Goto(r, CASE r \in Calls -> "cache"
                 [] r \in Signs /\ Info[r].trust = "approve" -> "autosign"
                 [] r \in Signs /\ Info[r].trust # "approve" -> "rules")
    /\ UNCHANGED <<now, ctxDone, ret, made, lockVars, rstep, signing, authVars, noteVars>>

CheckCacheHit(r) ==
    /\ pc[r] = "cache"
    /\ CacheApplies(r)
    /\ CacheHit(r)
    /\ Return(r, "cached")
    /\ UNCHANGED <<now, ctxDone, made, lockVars, rstep, signing, authVars, noteVars>>

CheckCacheMiss(r) ==
    /\ pc[r] = "cache"
    /\ ~(CacheApplies(r) /\ CacheHit(r))
    /\ Goto(r, "rules")
    /\ cache' = IF CacheApplies(r)
                THEN [cache EXCEPT ![<<Sender(r), FirstMiss(r)>>] = NoTime]
                ELSE cache
    /\ UNCHANGED <<now, ctxDone, ret, made, lockVars, rstep, signing, rules, noteVars>>

\* Expired rules are dropped while the slice is searched.
CheckAutoApproveRules(r) ==
    /\ pc[r] = "rules"
    /\ rules' = LiveRules
    /\ LET hit == \E k \in RuleKeys : LiveRules[k] # NoTime /\ RuleMatches(k, r)
       IN  /\ Goto(r, CASE hit /\ r \in Calls -> "noteAuto"
                        [] hit /\ r \in Signs -> "autosign"
                        [] ~hit /\ r \in Calls -> "trust"
                        [] ~hit /\ r \in Signs -> "create")
           /\ ret' = IF hit THEN [ret EXCEPT ![r] = "ruled"] ELSE ret
    /\ UNCHANGED <<now, ctxDone, made, lockVars, rstep, signing, cache, noteVars>>

CheckTrustRules(r) ==
    /\ pc[r] = "trust"
    /\ LET verdict == Info[r].trust
       IN  /\ Goto(r, CASE verdict = "none"    -> "create"
                        [] verdict = "approve" -> "noteAuto"
                        [] verdict = "ignore"  -> "noteIgnored"
                        [] verdict = "deny"    -> "noteDenied")
           /\ ret' = CASE verdict = "none"    -> ret
                       [] verdict = "approve" -> [ret EXCEPT ![r] = "trusted"]
                       [] verdict = "ignore"  -> [ret EXCEPT ![r] = "ignored"]
                       [] verdict = "deny"    -> [ret EXCEPT ![r] = "deniedByRule"]
    /\ UNCHANGED <<now, ctxDone, made, lockVars, rstep, signing, authVars, noteVars>>

\* The single event of a request that a rule decided.
NotifyRuled(r) ==
    /\ pc[r] \in {"noteAuto", "noteIgnored", "noteDenied"}
    /\ Notify(r, CASE pc[r] = "noteAuto"    -> "auto_approved"
                   [] pc[r] = "noteIgnored" -> "ignored"
                   [] pc[r] = "noteDenied"  -> "denied")
    /\ Goto(r, "returned")
    /\ UNCHANGED <<now, ctxDone, ret, made, lockVars, rstep, signing, authVars>>

\* signAndRecordAutoApproved: gpg ran, its result is recorded and delivered.
AutoSign(r) ==
    /\ pc[r] = "autosign"
    /\ Notify(r, "auto_approved")
    /\ Return(r, IF ret[r] = "ruled" THEN "ruled" ELSE "trusted")
    /\ UNCHANGED <<now, ctxDone, made, lockVars, rstep, signing, authVars>>

\* signAndRecordAutoApproved: gpg could not be found or started.
AutoSignFails(r) ==
    /\ pc[r] = "autosign"
    /\ Return(r, "failed")
    /\ UNCHANGED <<now, ctxDone, made, lockVars, rstep, signing, authVars, noteVars>>

Create(r) ==
    /\ pc[r] = "create"
    /\ pending' = pending \cup {r}
    /\ Goto(r, "announce")
    /\ UNCHANGED <<now, ctxDone, ret, made, closed, winner, rstep, signing, authVars, noteVars>>

\* From here on a resolver may act before or after the timer is armed.
Announce(r) ==
    /\ pc[r] = "announce"
    /\ Notify(r, "created")
    /\ Goto(r, "wait")
    /\ UNCHANGED <<now, ctxDone, ret, made, lockVars, rstep, signing, authVars>>

\* Mutant: the closed channel is taken for an approval, req.result is not read.
WaitDoneIgnoringResult(r) ==
    /\ pc[r] = "wait"
    /\ closed[r] > 0
    /\ Goto(r, IF r \in Calls THEN "cleanup" ELSE "returned")
    /\ ret' = IF r \in Calls THEN [ret EXCEPT ![r] = "ok"] ELSE ret
    /\ UNCHANGED <<now, ctxDone, made, lockVars, rstep, signing, authVars, noteVars>>

\* The three cases of RequireApproval's select.  When several channels are
\* ready Go picks any of them.
WaitDone(r) ==
    /\ pc[r] = "wait"
    /\ closed[r] > 0
    /\ Goto(r, IF r \in Calls THEN "cleanup" ELSE "returned")
    /\ ret' = IF r \in Calls
              THEN [ret EXCEPT ![r] = IF winner[r] \in Approvals THEN "ok" ELSE "denied"]
              ELSE ret
    /\ UNCHANGED <<now, ctxDone, made, lockVars, rstep, signing, authVars, noteVars>>

\* Mutant: the timer of a call is never armed.
WaitTimerOfSignsOnly(r) ==
    /\ pc[r] = "wait"
    /\ r \in Signs
    /\ Goto(r, "expire")
    /\ UNCHANGED <<now, ctxDone, ret, made, lockVars, rstep, signing, authVars, noteVars>>

\* The call notifies first and leaves pending last; the gpg_sign goroutine
\* leaves pending first.
WaitTimer(r) ==
    /\ pc[r] = "wait"
    /\ Goto(r, IF r \in Calls THEN "noteExpired" ELSE "expire")
    /\ ret' = IF r \in Calls THEN [ret EXCEPT ![r] = "timeout"] ELSE ret
    /\ UNCHANGED <<now, ctxDone, made, lockVars, rstep, signing, authVars, noteVars>>

WaitCtx(r) ==
    /\ pc[r] = "wait"
    /\ r \in ctxDone
    /\ Goto(r, "noteCancelled")
    /\ ret' = [ret EXCEPT ![r] = "ctx"]
    /\ UNCHANGED <<now, ctxDone, made, lockVars, rstep, signing, authVars, noteVars>>

\* Mutant: the timeout goroutine announces the expiry and forgets the delete.
SignTimeoutWithoutDelete(r) ==
    /\ pc[r] = "expire"
    /\ Goto(r, "noteExpired")
    /\ UNCHANGED <<now, ctxDone, ret, made, lockVars, rstep, signing, authVars, noteVars>>

SignTimeout(r) ==
    /\ pc[r] = "expire"
    /\ pending' = pending \ {r}
    /\ Goto(r, "noteExpired")
    /\ UNCHANGED <<now, ctxDone, ret, made, closed, winner, rstep, signing, authVars, noteVars>>

NotifyGaveUp(r) ==
    /\ pc[r] \in {"noteExpired", "noteCancelled"}
    /\ Notify(r, IF pc[r] = "noteExpired" THEN "expired" ELSE "cancelled")
    /\ Goto(r, IF r \in Calls THEN "cleanup" ELSE "returned")
    /\ UNCHANGED <<now, ctxDone, ret, made, lockVars, rstep, signing, authVars>>

\* The deferred delete.
Cleanup(r) ==
    /\ pc[r] = "cleanup"
    /\ pending' = pending \ {r}
    /\ Goto(r, "returned")
    /\ UNCHANGED <<now, ctxDone, ret, made, closed, winner, rstep, signing, authVars, noteVars>>

\* CreateItem was granted and upstream created item i: CacheItemForSender.
CreatedItem(r, i) ==
    /\ pc[r] = "returned"
    /\ Info[r].type = "write"
    /\ ret[r] \in Grants
    /\ cache' = IF Window > 0 THEN [cache EXCEPT ![<<Sender(r), i>>] = now] ELSE cache
    /\ made' = [made EXCEPT ![r] = i]
    /\ Goto(r, "stored")
    /\ UNCHANGED <<now, ctxDone, ret, lockVars, rstep, signing, rules, noteVars>>

-----------------------------------------------------------------------------
(* Approvers *)

\* Mutant: the resolver leaves the delete to the deferred one of RequireApproval.
ResolveWithoutDelete(r, op) ==
    /\ r \in pending
    /\ closed' = [closed EXCEPT ![r] = @ + 1]
    /\ winner' = [winner EXCEPT ![r] = op]
    /\ rstep' = [rstep EXCEPT ![r] = "notify"]
    /\ UNCHANGED pending

\* The critical section shared by Approve, ApproveAndAutoApprove, Deny,
\* Cancel, ApproveWithSignature and ApproveGPGFailed.
Resolve(r, op) ==
    /\ r \in pending
    /\ pending' = pending \ {r}
    /\ closed' = [closed EXCEPT ![r] = @ + 1]
    /\ winner' = [winner EXCEPT ![r] = op]
    /\ rstep' = [rstep EXCEPT ![r] = "notify"]

\* Approvals of anything but gpg_sign, and Deny and Cancel of anything.
ResolveNow(r, op) ==
    /\ op \in IF r \in Signs THEN {"deny", "cancel"} ELSE Approvals \cup {"deny", "cancel"}
    /\ Resolve(r, op)
    /\ UNCHANGED <<now, callVars, signing, authVars, noteVars>>

\* Resolver.Approve on a gpg_sign request: GetPending, then gpg without a lock.
StartGPG(r, op) ==
    /\ r \in Signs \cap pending
    /\ op \in Approvals \ signing[r]
    /\ signing' = [signing EXCEPT ![r] = @ \cup {op}]
    /\ UNCHANGED <<now, callVars, lockVars, rstep, authVars, noteVars>>

\* gpg is done: ApproveWithSignature or ApproveGPGFailed.
FinishGPG(r, op) ==
    /\ op \in signing[r]
    /\ signing' = [signing EXCEPT ![r] = @ \ {op}]
    /\ \E outcome \in {op, "gpgFailed"} : Resolve(r, outcome)
    /\ UNCHANGED <<now, callVars, authVars, noteVars>>

\* ... or ErrNotFound: somebody else resolved the request, or it expired.
FinishGPGTooLate(r, op) ==
    /\ op \in signing[r]
    /\ r \notin pending
    /\ signing' = [signing EXCEPT ![r] = @ \ {op}]
    /\ UNCHANGED <<now, callVars, lockVars, rstep, authVars, noteVars>>

\* Mutant: the winner caches whatever the decision was.
NotifyResolvedThenCache(r) ==
    /\ rstep[r] = "notify"
    /\ Notify(r, CASE winner[r] \in Approvals \cup {"gpgFailed"} -> "approved"
                   [] winner[r] = "deny" -> "denied"
                   [] OTHER -> "cancelled")
    /\ rstep' = [rstep EXCEPT ![r] = "cache"]
    /\ UNCHANGED <<now, callVars, lockVars, signing, authVars>>

\* Mutant: everything but a cancellation is announced as an approval.
NotifyResolvedAsApproved(r) ==
    /\ rstep[r] = "notify"
    /\ Notify(r, IF winner[r] = "cancel" THEN "cancelled" ELSE "approved")
    /\ rstep' = [rstep EXCEPT ![r] = IF winner[r] \in Approvals THEN "cache" ELSE "end"]
    /\ UNCHANGED <<now, callVars, lockVars, signing, authVars>>

\* Mutant: no event once the goroutine that waited is gone.
NotifyResolvedWhileServed(r) ==
    /\ rstep[r] = "notify"
    /\ IF pc[r] = "returned"
       THEN UNCHANGED noteVars
       ELSE Notify(r, CASE winner[r] \in Approvals \cup {"gpgFailed"} -> "approved"
                        [] winner[r] = "deny" -> "denied"
                        [] OTHER -> "cancelled")
    /\ rstep' = [rstep EXCEPT ![r] = IF winner[r] \in Approvals THEN "cache" ELSE "end"]
    /\ UNCHANGED <<now, callVars, lockVars, signing, authVars>>

\* The winner's event.
NotifyResolved(r) ==
    /\ rstep[r] = "notify"
    /\ Notify(r, CASE winner[r] \in Approvals \cup {"gpgFailed"} -> "approved"
                   [] winner[r] = "deny" -> "denied"
                   [] OTHER -> "cancelled")
    /\ rstep' = [rstep EXCEPT ![r] = IF winner[r] \in Approvals THEN "cache" ELSE "end"]
    /\ UNCHANGED <<now, callVars, lockVars, signing, authVars>>

CacheApproval(r) ==
    /\ rstep[r] = "cache"
    /\ cache' = IF Window > 0
                THEN [p \in Senders \X Items |->
                        IF p \in {Sender(r)} \X ItemsIn(r) THEN now ELSE cache[p]]
                ELSE cache
    /\ rstep' = [rstep EXCEPT ![r] = IF winner[r] = "approveAuto" THEN "rule" ELSE "end"]
    /\ UNCHANGED <<now, callVars, lockVars, signing, rules, noteVars>>

AddRuleOfApproved(r) ==
    /\ rstep[r] = "rule"
    /\ AddAutoApproveRule(r)
    /\ rstep' = [rstep EXCEPT ![r] = "end"]
    /\ UNCHANGED <<now, callVars, lockVars, signing, cache, noteVars>>

\* Resolver.AutoApprove: only for a request the history shows as cancelled.
AutoApprove(r) ==
    /\ NewestEntryIs(r, "cancelled")
    /\ AddAutoApproveRule(r)
    /\ UNCHANGED <<now, callVars, lockVars, rstep, signing, cache, noteVars>>

RemoveAutoApproveRule(k) ==
    /\ rules[k] # NoTime
    /\ rules' = [rules EXCEPT ![k] = NoTime]
    /\ UNCHANGED <<now, callVars, lockVars, rstep, signing, cache, noteVars>>

-----------------------------------------------------------------------------
(* Environment *)

\* The client left the bus and the tracker cancelled the request's context.
\* The SSH agent passes context.TODO(), which nothing cancels.
CancelCtx(r) ==
    /\ r \in Calls \ ctxDone
    /\ Info[r].type # "ssh_sign"
    /\ pc[r] \notin {"idle", "returned", "stored"}
    /\ ctxDone' = ctxDone \cup {r}
    /\ UNCHANGED <<now, pc, ret, made, lockVars, rstep, signing, authVars, noteVars>>

Tick ==
    /\ now < MaxTime
    /\ now' = now + 1
    /\ UNCHANGED <<callVars, lockVars, rstep, signing, authVars, noteVars>>

Finished ==
    /\ \A r \in Reqs : /\ pc[r] \in {"returned", "stored"}
                       /\ rstep[r] \in {"none", "end"}
                       /\ signing[r] = {}
    /\ UNCHANGED vars

ServeStep(r) ==
    \/ CheckCacheHit(r) \/ CheckCacheMiss(r)
    \/ CheckAutoApproveRules(r) \/ CheckTrustRules(r) \/ NotifyRuled(r)
    \/ AutoSign(r) \/ AutoSignFails(r)
    \/ Create(r) \/ Announce(r)
    \/ WaitDone(r) \/ WaitTimer(r) \/ WaitCtx(r)
    \/ SignTimeout(r) \/ NotifyGaveUp(r) \/ Cleanup(r)

FinishStep(r) == NotifyResolved(r) \/ CacheApproval(r) \/ AddRuleOfApproved(r)

ApproverStep(r) ==
    \/ \E op \in ResolveOps : ResolveNow(r, op)
    \/ \E op \in Approvals : StartGPG(r, op) \/ FinishGPG(r, op) \/ FinishGPGTooLate(r, op)
    \/ AutoApprove(r)

Next ==
    \/ \E r \in Reqs : \/ Begin(r) \/ ServeStep(r) \/ FinishStep(r) \/ ApproverStep(r)
                       \/ CancelCtx(r)
                       \/ \E i \in Items : CreatedItem(r, i)
    \/ \E k \in RuleKeys : RemoveAutoApproveRule(k)
    \/ Tick
    \/ Finished

Spec == Init /\ [][Next]_vars

(***************************************************************************)
(* Goroutines are scheduled and timers fire, so a request that was begun   *)
(* and a resolver that won both keep moving.  Nobody has to approve.       *)
(***************************************************************************)
Fairness ==
    \A r \in Reqs : WF_vars(ServeStep(r)) /\ WF_vars(FinishStep(r))

FairSpec == Spec /\ Fairness

-----------------------------------------------------------------------------
(* Properties *)

Outcomes == Resolutions \cup {"created"}
Times    == Nat \cup {NoTime}

\* Every variable keeps its type, and the history never exceeds historyMax
\* (addHistory).
TypeOK ==
    /\ now \in Nat
    /\ pc \in [Reqs -> Points]
    /\ pending \subseteq Reqs
    /\ closed \in [Reqs -> Nat]
    /\ winner \in [Reqs -> ResolveOps \cup {"none"}]
    /\ rstep \in [Reqs -> {"none", "notify", "cache", "rule", "end"}]
    /\ signing \in [Reqs -> SUBSET Approvals]
    /\ ctxDone \subseteq Reqs
    /\ ret \in [Reqs -> Returns]
    /\ made \in [Reqs -> Items \cup {NoItem}]
    /\ cache \in [Senders \X Items -> Times]
    /\ rules \in [RuleKeys -> Times]
    /\ history \in Seq([req : Reqs, resolution : Resolutions])
    /\ Len(history) <= HistoryMax
    /\ events \in [Reqs -> SUBSET Outcomes]

\* The program points between the insertion into pending and its removal.
InFlight == {"announce", "wait", "expire", "noteExpired", "noteCancelled", "cleanup"}

\* Whatever the order of approvals, denials, cancellations, timeouts and gpg
\* runs, close(req.done) runs at most once per request (a second close
\* panics the daemon), so at most one resolver is told it succeeded; and a
\* request in pending is open and still has a goroutine that will remove it.
OneResolver ==
    \A r \in Reqs :
        /\ closed[r] <= 1
        /\ winner[r] # "none" => r \notin pending /\ closed[r] = 1
        /\ r \in pending => pc[r] \in InFlight

\* A human approved q and the approval went through the critical section.
HumanApproved(q) == winner[q] \in Approvals

\* q gave its sender the right to read item i: q was approved for i, or q
\* was a granted write that created i.
Vouches(q, s, i) ==
    /\ Sender(q) = s
    /\ \/ HumanApproved(q) /\ i \in ItemsIn(q)
       \/ ret[q] \in Grants /\ Info[q].type = "write" /\ made[q] = i

\* q is a request the user turned into an auto-approve rule, or could have:
\* approved, or shown as cancelled.
RuleSource(q) ==
    \/ HumanApproved(q)
    \/ "cancelled" \in events[q]

\* A rule made from q answers r: same executable and type, and every item
\* of r in the scope of q's first item.
Covers(q, r) ==
    /\ ExeOf[Caller(r)] # NoExe
    /\ ExeOf[Caller(q)] = ExeOf[Caller(r)]
    /\ Info[q].type = Info[r].type
    /\ ItemsIn(r) \subseteq InScope[RuleOf(q).scope]
    /\ Info[r].items = <<>> => RuleOf(q).scope = AnyScope

\* A grant that nobody was asked for is backed by an earlier decision: a
\* cache hit by an approval of (or a write by) the same sender for each item
\* of the batch, never for delete and write; an auto-approve rule by a
\* request of the same executable and type whose scope covers the whole
\* batch.  A grant that was asked for is backed by the approval of that very
\* request (RequireApproval, HandleGPGSignRequest).
GrantsJustified ==
    \A r \in Reqs :
        /\ ret[r] = "ok" => HumanApproved(r)
        /\ ret[r] = "cached" =>
              /\ Info[r].type \notin {"delete", "write"}
              /\ \A i \in ItemsIn(r) : \E q \in Reqs : Vouches(q, Sender(r), i)
        /\ ret[r] = "ruled" =>
              \E q \in Reqs : RuleSource(q) /\ Covers(q, r)

\* A standing permission, in the cache or in a rule, always comes from a
\* decision of the user, even while expiry, refresh, lazy deletion and
\* removal run concurrently (cacheApproval, AddAutoApproveRule).
StandingPermissionsJustified ==
    /\ \A s \in Senders, i \in Items :
          cache[<<s, i>>] # NoTime => \E q \in Reqs : Vouches(q, s, i)
    /\ \A k \in RuleKeys :
          rules[k] # NoTime => \E q \in Reqs : RuleSource(q) /\ RuleOf(q) = k

\* The inductive invariant behind OneResolver, GrantsJustified and
\* StandingPermissionsJustified: where a request can be while it is pending,
\* resolved or finished, and what the resolver that won still has to do.
Lifecycle ==
    /\ ctxDone \subseteq Calls
    /\ \A r \in Reqs :
          /\ closed[r] <= 1
          /\ winner[r] = "none" <=> closed[r] = 0
          /\ r \in pending => winner[r] = "none" /\ pc[r] \in InFlight
          /\ r \in pending /\ r \in Signs => pc[r] \in {"announce", "wait", "expire"}
          /\ winner[r] # "none" => pc[r] \in InFlight \cup {"returned", "stored"}
          /\ rstep[r] \in {"cache", "rule"} => winner[r] \in Approvals
          /\ made[r] # NoItem =>
                pc[r] = "stored" /\ ret[r] \in Grants /\ Info[r].type = "write"

\* The history only holds events that the observers were sent (notify).
HistoryWasSent ==
    \A n \in DOMAIN history : history[n].resolution \in events[history[n].req]

\* The audit history names a resolution only if it happened: approved and
\* denied entries come from the resolver that won or from a trust rule, an
\* entry that a rule approved from a request that was granted without asking
\* (notify, addHistory).
HistoryTruthful ==
    \A n \in DOMAIN history :
        LET r == history[n].req
        IN  CASE history[n].resolution = "approved" -> winner[r] \in Approvals \cup {"gpgFailed"}
              [] history[n].resolution = "denied" -> winner[r] = "deny" \/ ret[r] = "deniedByRule"
              [] history[n].resolution = "auto_approved" -> ret[r] \in {"ruled", "trusted"}
              [] history[n].resolution = "ignored" -> ret[r] = "ignored"
              [] history[n].resolution = "expired" -> r \in Calls => ret[r] = "timeout"
              [] history[n].resolution = "cancelled" -> winner[r] = "cancel" \/ ret[r] = "ctx"

\* No decision is silently reversed: once the winning resolver denied or
\* cancelled a call, no later step turns its answer into a grant, and no
\* step takes back a grant.
NoReversal ==
    [][\A r \in Reqs :
          /\ winner[r] \in {"deny", "cancel"} => ret'[r] \notin Grants
          /\ winner[r] # "none" => winner'[r] = winner[r]
          /\ ret[r] \in Grants /\ pc[r] # "autosign" => ret'[r] = ret[r]]_vars

\* Every request is answered: RequireApproval returns and a gpg_sign request
\* leaves pending even if no human ever reacts.
EveryRequestEnds ==
    \A r \in Reqs : (pc[r] # "idle") ~> (pc[r] \in {"returned", "stored"} /\ r \notin pending)

\* A resolver that won always gets its event out.
EveryDecisionAnnounced ==
    \A r \in Reqs :
        /\ (winner[r] \in Approvals) ~> ("approved" \in events[r])
        /\ (winner[r] = "deny") ~> ("denied" \in events[r])

=============================================================================
