--------------------------- MODULE DesktopNotifier ---------------------------
(***************************************************************************)
(* The desktop notification handler of internal/notification/desktop.go.   *)
(*                                                                         *)
(* Handler.OnEvent runs in whichever goroutine of the approval manager     *)
(* announces the event, so the handling of a request's Created event, of   *)
(* the event of the resolver that won and of the event of a waiter that    *)
(* gave up interleave, and so does the goroutine that ListenActions runs   *)
(* in.  Between a lookup under the mutex and the D-Bus call that follows   *)
(* nothing is locked.                                                      *)
(*                                                                         *)
(* The approval manager is reduced to what it does to this handler: a      *)
(* request is created, a resolver and a waiter may each announce one end   *)
(* of it (the manager's select may give up on a request that was just      *)
(* resolved).  The notification server and the user are external.          *)
(*                                                                         *)
(* WithSlowNotify (proxy/slow_upstream.go) uses the same notifier for a    *)
(* notice about an upstream call that takes long: the call answers in a    *)
(* goroutine of its own, so the answer may come at any moment around the   *)
(* threshold and around the notice.                                        *)
(*                                                                         *)
(* Notify and Close may fail; a notification that the server did not close *)
(* stays on the screen.  cancelledRequests is written and never read, and  *)
(* left out.                                                               *)
(***************************************************************************)
EXTENDS Integers, Sequences

CONSTANTS
    Reqs,         \* request IDs
    Calls,        \* upstream calls under WithSlowNotify
    Ids,          \* notification IDs
    None,
    GivesUp,      \* requests whose waiter may time out or be cancelled: a bound
    Delay,        \* is notificationDelay > 0?
    MaxActions    \* capacity of the actions channel

ASSUME NotifierAssumption ==
    /\ None \notin Reqs \cup Ids
    /\ Calls \cap (Reqs \cup {None}) = {}
    /\ GivesUp \subseteq Reqs
    /\ Delay \in BOOLEAN
    /\ MaxActions \in Nat

VARIABLES
    life,            \* a request in the approval manager
    shower,          \* the handling of its Created event
    ender,           \* the handling of its end, by source
    timers,          \* delayGroup.timers
    notifications,   \* Handler.notifications
    requests,        \* Handler.requests
    actions,         \* DBusNotifier.actions
    busy,            \* the request ListenActions is resolving, if any
    screen,          \* what the server shows under an ID
    about,           \* the request or call the ID was sent for
    slow,            \* the WithSlowNotify of an upstream call
    late,            \* history: requests whose prompt was still to come when a
                     \* handler of their end looked for it
    stuck            \* history: IDs that the server failed to close

maps   == <<notifications, requests>>
server == <<screen, about, stuck>>
vars   == <<life, shower, ender, timers, maps, actions, busy, server, slow, late>>

Sources == {"resolver", "waiter"}
Kinds   == {"resolved", "cancelled"}

Init ==
    /\ life = [r \in Reqs |-> "new"]
    /\ shower = [r \in Reqs |-> [at |-> "none", id |-> None]]
    /\ ender = [r \in Reqs |-> [s \in Sources |-> [at |-> "none", kind |-> "none", id |-> None]]]
    /\ timers = {}
    /\ notifications = [r \in Reqs |-> None]
    /\ requests = [n \in Ids |-> None]
    /\ actions = <<>>
    /\ busy = None
    /\ screen = [n \in Ids |-> "unused"]
    /\ about = [n \in Ids |-> None]
    /\ slow = [c \in Calls |-> [at |-> "none", answered |-> FALSE, id |-> None]]
    /\ late = {}
    /\ stuck = {}

ShowerAt(r, point) == shower' = [shower EXCEPT ![r].at = point]

-----------------------------------------------------------------------------
(* External: the approval manager *)

Create(r) ==
    /\ life[r] = "new"
    /\ life' = [life EXCEPT ![r] = "pending"]
    /\ ShowerAt(r, "due")
    /\ UNCHANGED <<ender, timers, maps, actions, busy, server, slow, late>>

\* The event of an end is about to be handled.  A request is cancelled by
\* its client only, once: through the API or through its context.
End(r, s, kind) ==
    /\ ender[r][s].at = "none"
    /\ kind = "cancelled" => \A t \in Sources : ender[r][t].kind # "cancelled"
    /\ ender' = [ender EXCEPT ![r][s] = [at |-> "event", kind |-> kind, id |-> None]]

\* A resolver, which acts on pending requests, also before Created is handled.
Resolve(r, kind) ==
    /\ life[r] = "pending"
    /\ life' = [life EXCEPT ![r] = "resolved"]
    /\ End(r, "resolver", kind)

\* Approved, denied or cancelled through the API or the CLI.
ResolveElsewhere(r, kind) ==
    /\ Resolve(r, kind)
    /\ UNCHANGED <<shower, timers, maps, actions, busy, server, slow, late>>

\* RequireApproval gives up: it waits after it has handled Created itself.
GiveUp(r, kind) ==
    /\ r \in GivesUp
    /\ shower[r].at \notin IF Delay THEN {"none", "due"} ELSE {"none", "due", "notify", "record"}
    /\ life' = [life EXCEPT ![r] = "resolved"]
    /\ End(r, "waiter", kind)
    /\ UNCHANGED <<shower, timers, maps, actions, busy, server, slow, late>>

-----------------------------------------------------------------------------
(* External: the notification server and the user *)

Unused == {n \in Ids : screen[n] = "unused"}

\* Notify: the server shows a new notification and returns its ID.
Show(n, r, what) ==
    /\ n \in Unused
    /\ screen' = [screen EXCEPT ![n] = what]
    /\ about' = [about EXCEPT ![n] = r]
    /\ UNCHANGED stuck

Keys == {"default", "decide", "auto_approve", "dismiss"}

Buttons(n) == IF screen[n] = "prompt" THEN {"default", "decide"} ELSE {"auto_approve", "dismiss"}

\* A click closes the notification; processSignals drops the action if the
\* channel is full.  "decide" stands for the approve and deny buttons.
Click(n, key) ==
    /\ screen[n] \in {"prompt", "followup"}
    /\ key \in Buttons(n)
    /\ screen' = [screen EXCEPT ![n] = "closed"]
    /\ actions' = IF Len(actions) < MaxActions
                  THEN Append(actions, [id |-> n, key |-> key])
                  ELSE actions
    /\ UNCHANGED <<life, shower, ender, timers, maps, busy, about, stuck, slow, late>>

\* The user closes the notification, which the handler does not react to.
Dismiss(n) ==
    /\ screen[n] \in {"prompt", "followup", "notice"}
    /\ screen' = [screen EXCEPT ![n] = "closed"]
    /\ UNCHANGED <<life, shower, ender, timers, maps, actions, busy, about, stuck, slow, late>>

-----------------------------------------------------------------------------
(* Handler: the Created event *)

Record(r, n) ==
    /\ notifications' = [notifications EXCEPT ![r] = n]
    /\ requests' = [requests EXCEPT ![n] = r]

HandleCreated(r) ==
    /\ shower[r].at = "due"
    /\ ShowerAt(r, IF Delay THEN "timer" ELSE "notify")
    /\ timers' = IF Delay THEN timers \cup {r} ELSE timers
    /\ UNCHANGED <<life, ender, maps, actions, busy, server, slow, late>>

\* The callback of delayGroup.Schedule.
TimerFires(r) ==
    /\ r \in timers
    /\ timers' = timers \ {r}
    /\ ShowerAt(r, "notify")
    /\ UNCHANGED <<life, ender, maps, actions, busy, server, slow, late>>

\* sendNotification: the D-Bus call, which may fail.
SendNotification(r) ==
    /\ shower[r].at = "notify"
    /\ \/ \E n \in Ids : /\ Show(n, r, "prompt")
                         /\ shower' = [shower EXCEPT ![r] = [at |-> "record", id |-> n]]
       \/ /\ ShowerAt(r, "done")
          /\ UNCHANGED server
    /\ UNCHANGED <<life, ender, timers, maps, actions, busy, slow, late>>

\* Mutant: the reverse entry is forgotten.
RecordNotificationOneWay(r) ==
    /\ shower[r].at = "record"
    /\ notifications' = [notifications EXCEPT ![r] = shower[r].id]
    /\ ShowerAt(r, "done")
    /\ UNCHANGED <<life, ender, timers, requests, actions, busy, server, slow, late>>

RecordNotification(r) ==
    /\ shower[r].at = "record"
    /\ Record(r, shower[r].id)
    /\ ShowerAt(r, "done")
    /\ UNCHANGED <<life, ender, timers, actions, busy, server, slow, late>>

-----------------------------------------------------------------------------
(* Handler: the end of a request (handleResolved, handleCancelled) *)

EnderAt(r, s, point)      == ender' = [ender EXCEPT ![r][s].at = point]
EnderWith(r, s, point, n) == ender' = [ender EXCEPT ![r][s].at = point, ![r][s].id = n]

\* Where a handler goes when it has nothing (more) to close.
AfterClose(r, s) == IF ender[r][s].kind = "cancelled" THEN "follow" ELSE "done"

\* Mutant: the timer is stopped and the handler goes on.
CancelTimerAndGoOn(r, s) ==
    /\ ender[r][s].at = "event"
    /\ timers' = timers \ {r}
    /\ IF r \in timers THEN ShowerAt(r, "quiet") ELSE UNCHANGED shower
    /\ EnderAt(r, s, IF r \in timers THEN AfterClose(r, s) ELSE "lookup")
    /\ UNCHANGED <<life, maps, actions, busy, server, slow, late>>

\* delayGroup.Cancel: within the grace period nothing is shown.
CancelTimer(r, s) ==
    /\ ender[r][s].at = "event"
    /\ timers' = timers \ {r}
    /\ IF r \in timers THEN ShowerAt(r, "quiet") ELSE UNCHANGED shower
    /\ EnderAt(r, s, IF r \in timers THEN "suppressed" ELSE "lookup")
    /\ UNCHANGED <<life, maps, actions, busy, server, slow, late>>

\* Mutant: the entries are removed and the notification is left to the user.
LookupWithoutClose(r, s) ==
    /\ ender[r][s].at = "lookup"
    /\ LET n == notifications[r]
       IN  /\ notifications' = [notifications EXCEPT ![r] = None]
           /\ requests' = IF n = None THEN requests ELSE [requests EXCEPT ![n] = None]
    /\ EnderAt(r, s, AfterClose(r, s))
    /\ UNCHANGED <<life, shower, timers, actions, busy, server, slow, late>>

\* The entry is not there when another handler took it, when no prompt was
\* shown, or when the prompt is still on its way.
Lookup(r, s) ==
    /\ ender[r][s].at = "lookup"
    /\ late' = IF shower[r].at \in {"done", "quiet"} THEN late ELSE late \cup {r}
    /\ LET n == notifications[r]
       IN  IF n = None
           THEN /\ EnderAt(r, s, AfterClose(r, s))
                /\ UNCHANGED maps
           ELSE /\ notifications' = [notifications EXCEPT ![r] = None]
                /\ requests' = [requests EXCEPT ![n] = None]
                /\ EnderWith(r, s, "close", n)
    /\ UNCHANGED <<life, shower, timers, actions, busy, server, slow>>

\* Close: the server takes the notification away, or the call fails and the
\* error is logged or dropped.
CloseId(n) ==
    \/ screen' = [screen EXCEPT ![n] = "closed"] /\ UNCHANGED stuck
    \/ stuck' = stuck \cup {n} /\ UNCHANGED screen

CloseNotification(r, s) ==
    /\ ender[r][s].at = "close"
    /\ CloseId(ender[r][s].id)
    /\ EnderAt(r, s, AfterClose(r, s))
    /\ UNCHANGED <<life, shower, timers, maps, actions, busy, about, slow, late>>

\* handleCancelled's "Auto-approve?" notification.
SendFollowUp(r, s) ==
    /\ ender[r][s].at = "follow"
    /\ \/ \E n \in Ids : /\ Show(n, r, "followup")
                         /\ EnderWith(r, s, "record", n)
       \/ /\ EnderAt(r, s, "done")
          /\ UNCHANGED server
    /\ UNCHANGED <<life, shower, timers, maps, actions, busy, slow, late>>

RecordFollowUp(r, s) ==
    /\ ender[r][s].at = "record"
    /\ Record(r, ender[r][s].id)
    /\ EnderAt(r, s, "done")
    /\ UNCHANGED <<life, shower, timers, actions, busy, server, slow, late>>

-----------------------------------------------------------------------------
(* Handler: ListenActions and handleAction *)

\* Approve and Deny announce their event before they return to handleAction.
ListenerFree == busy # None => ender[busy]["resolver"].at \in {"suppressed", "done"}

\* handleAction for an ID that no entry names.
IgnoreAction ==
    /\ ListenerFree
    /\ actions # <<>>
    /\ requests[Head(actions).id] = None
    /\ actions' = Tail(actions)
    /\ busy' = None
    /\ UNCHANGED <<life, shower, ender, timers, maps, server, slow, late>>

\* Mutant: the entries are deleted before the request is looked up in them.
HandleActionForgetting ==
    /\ ListenerFree
    /\ actions # <<>>
    /\ LET id == Head(actions).id
       IN  /\ requests[id] # None
           /\ requests' = [requests EXCEPT ![id] = None]
           /\ notifications' = [notifications EXCEPT ![requests[id]] = None]
    /\ actions' = Tail(actions)
    /\ busy' = None
    /\ UNCHANGED <<life, ender, shower, timers, server, slow, late>>

\* The entries go first, then the approver is called.  It answers ErrNotFound
\* for a request that is not pending; "default" opens the web page, and
\* AutoApprove and "dismiss" do nothing to this handler.
HandleAction ==
    /\ ListenerFree
    /\ actions # <<>>
    /\ LET act == Head(actions)
           r   == requests[act.id]
       IN  /\ r # None
           /\ requests' = [requests EXCEPT ![act.id] = None]
           /\ notifications' = [notifications EXCEPT ![r] = None]
           /\ IF act.key = "decide" /\ life[r] = "pending"
              THEN Resolve(r, "resolved") /\ busy' = r
              ELSE UNCHANGED <<life, ender>> /\ busy' = None
    /\ actions' = Tail(actions)
    /\ UNCHANGED <<shower, timers, server, slow, late>>

-----------------------------------------------------------------------------

(* WithSlowNotify *)

handler == <<life, shower, ender, timers, maps, actions, busy, late>>

SlowAt(c, point) == slow' = [slow EXCEPT ![c].at = point]

\* The call is made in a goroutine, and its caller selects.
CallUpstream(c) ==
    /\ slow[c].at = "none"
    /\ SlowAt(c, "select")
    /\ UNCHANGED <<handler, server>>

\* External: the upstream answers, into a channel that never blocks it.
UpstreamAnswers(c) ==
    /\ slow[c].at # "none"
    /\ ~slow[c].answered
    /\ slow' = [slow EXCEPT ![c].answered = TRUE]
    /\ UNCHANGED <<handler, server>>

AnswerInTime(c) ==
    /\ slow[c].at = "select"
    /\ slow[c].answered
    /\ SlowAt(c, "returned")
    /\ UNCHANGED <<handler, server>>

\* The timer may win although the answer is there.
ThresholdPasses(c) ==
    /\ slow[c].at = "select"
    /\ SlowAt(c, "notify")
    /\ UNCHANGED <<handler, server>>

NotifySlowUpstream(c) ==
    /\ slow[c].at = "notify"
    /\ \/ \E n \in Ids : /\ Show(n, c, "notice")
                         /\ slow' = [slow EXCEPT ![c].at = "wait", ![c].id = n]
       \/ /\ SlowAt(c, "wait")
          /\ UNCHANGED server
    /\ UNCHANGED handler

\* Mutant: an answer that is there when Notify returns is taken at once.
AnswerLateEarlyReturn(c) ==
    /\ slow[c].at = "wait"
    /\ slow[c].answered
    /\ SlowAt(c, "returned")
    /\ UNCHANGED <<handler, server>>

\* dismiss does nothing when no notification was sent.
AnswerLate(c) ==
    /\ slow[c].at = "wait"
    /\ slow[c].answered
    /\ SlowAt(c, IF slow[c].id = None THEN "returned" ELSE "dismiss")
    /\ UNCHANGED <<handler, server>>

DismissNotice(c) ==
    /\ slow[c].at = "dismiss"
    /\ CloseId(slow[c].id)
    /\ SlowAt(c, "returned")
    /\ UNCHANGED <<handler, about>>

-----------------------------------------------------------------------------

SlowStep(c) ==
    \/ CallUpstream(c) \/ UpstreamAnswers(c) \/ AnswerInTime(c) \/ ThresholdPasses(c)
    \/ NotifySlowUpstream(c) \/ AnswerLate(c) \/ DismissNotice(c)

ShowerStep(r) ==
    HandleCreated(r) \/ TimerFires(r) \/ SendNotification(r) \/ RecordNotification(r)

EnderStep(r, s) ==
    \/ CancelTimer(r, s) \/ Lookup(r, s) \/ CloseNotification(r, s)
    \/ SendFollowUp(r, s) \/ RecordFollowUp(r, s)

Environment ==
    \/ \E r \in Reqs : Create(r)
    \/ \E r \in Reqs, kind \in Kinds : ResolveElsewhere(r, kind) \/ GiveUp(r, kind)
    \/ \E n \in Ids : Dismiss(n)
    \/ \E n \in Ids, key \in Keys : Click(n, key)

Next ==
    \/ Environment
    \/ \E r \in Reqs : ShowerStep(r)
    \/ \E r \in Reqs, s \in Sources : EnderStep(r, s)
    \/ IgnoreAction
    \/ HandleAction
    \/ \E c \in Calls : SlowStep(c)

Spec == Init /\ [][Next]_vars

(***************************************************************************)
(* Goroutines are scheduled and the notification server answers.  Nothing  *)
(* is assumed of the user or of the clients.                               *)
(***************************************************************************)
Fairness ==
    /\ \A r \in Reqs : WF_vars(ShowerStep(r))
    /\ \A r \in Reqs, s \in Sources : WF_vars(EnderStep(r, s))
    /\ WF_vars(IgnoreAction \/ HandleAction)

FairSpec == Spec /\ Fairness

-----------------------------------------------------------------------------
(* Properties *)

OptIds    == Ids \cup {None}
Handlings == [at : {"none", "due", "timer", "notify", "record", "done", "quiet"}, id : OptIds]
Endings   == [at : {"none", "event", "lookup", "close", "follow", "record", "done", "suppressed"},
              kind : Kinds \cup {"none"}, id : OptIds]
SlowCalls == [at : {"none", "select", "notify", "wait", "dismiss", "returned"},
              answered : BOOLEAN, id : OptIds]

\* The types; only a request whose Created event waits for the grace period
\* has a timer.
TypeOK ==
    /\ life \in [Reqs -> {"new", "pending", "resolved"}]
    /\ shower \in [Reqs -> Handlings]
    /\ ender \in [Reqs -> [Sources -> Endings]]
    /\ timers = {r \in Reqs : shower[r].at = "timer"}
    /\ notifications \in [Reqs -> OptIds]
    /\ requests \in [Ids -> Reqs \cup {None}]
    /\ actions \in Seq([id : Ids, key : Keys])
    /\ Len(actions) <= MaxActions
    /\ busy \in Reqs \cup {None}
    /\ screen \in [Ids -> {"unused", "prompt", "followup", "notice", "closed"}]
    /\ about \in [Ids -> Reqs \cup Calls \cup {None}]
    /\ slow \in [Calls -> SlowCalls]
    /\ late \subseteq Reqs
    /\ stuck \subseteq Ids

\* The two maps agree and never mix requests up: the notification recorded
\* for a request leads back to it, and an ID only ever leads to the request
\* it was shown for, so no click decides another request (Handler.mu).
MapsConsistent ==
    /\ TypeOK
    /\ \A r \in Reqs : notifications[r] # None => requests[notifications[r]] = r
    /\ \A n \in Ids : requests[n] # None => about[n] = requests[n]

\* The handler of an end of r is about to close its notification n.
Closing(r, n) == \E s \in Sources : ender[r][s].at = "close" /\ ender[r][s].id = n

\* No handler of an end of r has looked for its prompt.
Unlooked(r) == \A s \in Sources : ender[r][s].at \in {"none", "event", "lookup"}

\* No dead button: a prompt on the screen that was recorded leads to its
\* request, and it outlives the handling of the request's end only if it was
\* still on its way when the handler looked for it (its buttons then answer
\* ErrNotFound), or if the server failed to close it.  A request that nobody
\* has ended can always be decided from its prompt (sendNotification,
\* handleResolved, handleCancelled).
NoDeadButton ==
    \A n \in Ids :
        screen[n] = "prompt" =>
            \/ shower[about[n]].at = "record"
            \/ requests[n] = about[n] /\ (Unlooked(about[n]) \/ about[n] \in late)
            \/ Closing(about[n], n)
            \/ n \in stuck

\* What NewHandler promises of the grace period: a request that was only
\* cancelled, and whose timer was stopped in time, produces no notification
\* at all, neither the prompt nor the follow-up, wherever the goroutines of
\* the timer and of the cancellation stand.
QuietWhenCancelledEarly ==
    \A r \in Reqs :
        shower[r].at = "quiet" /\ (\A s \in Sources : ender[r][s].kind # "resolved") =>
            \A n \in Ids : about[n] # r

\* A notice on the screen is about a call that is still under way, unless the
\* server failed to close it: whenever the answer comes (before, with or after
\* the threshold, or while the server is being asked), WithSlowNotify
\* dismisses what it has shown before it returns, and never another
\* notification in its place.
NoticeMeansWaiting ==
    /\ \A n \in Ids :
          screen[n] = "notice" => slow[about[n]].at \in {"wait", "dismiss"} \/ n \in stuck
    /\ \A c \in Calls : slow[c].id # None => about[slow[c].id] = c

\* A click that reached the channel and leads to a request ends it: the
\* listener never gets stuck and never loses it.
ClickResolves ==
    \A r \in Reqs :
        (\E k \in DOMAIN actions : actions[k].key = "decide" /\ requests[actions[k].id] = r)
            ~> (life[r] = "resolved")

=============================================================================
