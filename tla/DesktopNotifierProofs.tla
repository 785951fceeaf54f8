------------------------ MODULE DesktopNotifierProofs ------------------------
(***************************************************************************)
(* Proofs about DesktopNotifier, for any number of requests, upstream      *)
(* calls and notifications: which notification belongs to whom, whatever   *)
(* the goroutines of the handler, the listener and the slow calls do in    *)
(* between.                                                                *)
(***************************************************************************)
EXTENDS DesktopNotifier, SequenceTheorems, TLAPS

\* An ID in the hands of a goroutine was shown for its request or its call;
\* the server has not given out the others.
Owned ==
    /\ \A n \in Ids : screen[n] = "unused" => about[n] = None
    /\ \A r \in Reqs : shower[r].id # None => about[shower[r].id] = r
    /\ \A r \in Reqs, s \in Sources : ender[r][s].id # None => about[ender[r][s].id] = r
    /\ \A c \in Calls : slow[c].id # None => about[slow[c].id] = c

\* Where a goroutine has the ID it works on.
Showers ==
    \A r \in Reqs :
        /\ life[r] = "new" => shower[r].at = "none"
        /\ shower[r].at \in {"none", "due", "timer", "notify", "quiet"} => shower[r].id = None
        /\ shower[r].at = "record" => shower[r].id # None

Enders ==
    \A r \in Reqs, s \in Sources :
        /\ ender[r][s].at = "none" <=> ender[r][s].kind = "none"
        /\ ender[r][s].at = "follow" => ender[r][s].kind = "cancelled"
        /\ ender[r][s].at \in {"close", "record"} => ender[r][s].id # None

SlowOnes ==
    \A c \in Calls :
        /\ slow[c].at \in {"none", "select", "notify"} => slow[c].id = None
        /\ slow[c].at = "dismiss" => slow[c].id # None

\* Who has shown what is on the screen; what was clicked is closed.
Screens ==
    /\ \A n \in Ids : screen[n] = "prompt" => about[n] \in Reqs /\ shower[about[n]].id = n
    /\ \A n \in Ids :
          screen[n] = "notice" =>
              /\ about[n] \in Calls
              /\ slow[about[n]].id = n
              /\ slow[about[n]].at \in {"wait", "dismiss"} \/ n \in stuck
    /\ \A k \in 1..Len(actions) : screen[actions[k].id] = "closed"

\* A handler of the end of r stopped its timer; another one follows its
\* cancellation up.
Stopped(r)    == \E s \in Sources : ender[r][s].at = "suppressed"
FollowedUp(r) ==
    \E s \in Sources : ender[r][s].kind = "cancelled" /\ ender[r][s].at \in {"record", "done"}

\* A request is cancelled at most once; only its prompt and the follow-up of
\* its cancellation are about it; a stopped timer has its handler.
Quiet ==
    /\ \A r \in Reqs, s, t \in Sources :
          ender[r][s].kind = "cancelled" /\ ender[r][t].kind = "cancelled" => s = t
    /\ \A r \in Reqs : shower[r].at = "quiet" => Stopped(r)
    /\ \A n \in Ids :
          about[n] \in Reqs => shower[about[n]].id = n \/ FollowedUp(about[n])

\* A prompt that is still to be recorded after a handler looked for it is
\* late.
Latecomers ==
    \A r \in Reqs : shower[r].at \in {"done", "quiet"} \/ Unlooked(r) \/ r \in late

\* NoDeadButton, and that a handler of the end which looks for the prompt will
\* find it: while nobody has looked, the entry of the request is the prompt.
Prompts ==
    \A n \in Ids :
        screen[n] = "prompt" =>
            \/ shower[about[n]].at = "record"
            \/ notifications[about[n]] = n /\ Unlooked(about[n])
            \/ requests[n] = about[n] /\ about[n] \in late
            \/ Closing(about[n], n)
            \/ n \in stuck

NotifierInv ==
    /\ MapsConsistent /\ Owned /\ Showers /\ Enders /\ SlowOnes
    /\ Screens /\ Quiet /\ Latecomers /\ Prompts


-----------------------------------------------------------------------------
(* How the records of the goroutines move *)

\* The handling of a Created event goes to another point.
LEMMA ShowerMoves ==
    ASSUME shower \in [Reqs -> Handlings], NEW r \in Reqs,
           NEW p \in {"none", "due", "timer", "notify", "record", "done", "quiet"},
           ShowerAt(r, p)
    PROVE  /\ shower' \in [Reqs -> Handlings]
           /\ \A q \in Reqs : /\ shower'[q].id = shower[q].id
                              /\ shower'[q].at = IF q = r THEN p ELSE shower[q].at
  BY DEF Handlings, ShowerAt

\* The handling of an end goes to another point.
LEMMA EnderMoves ==
    ASSUME ender \in [Reqs -> [Sources -> Endings]], NEW r \in Reqs, NEW s \in Sources,
           NEW p \in {"none", "event", "lookup", "close", "follow", "record", "done", "suppressed"},
           EnderAt(r, s, p)
    PROVE  /\ ender' \in [Reqs -> [Sources -> Endings]]
           /\ \A q \in Reqs, t \in Sources :
                 /\ ender'[q][t].kind = ender[q][t].kind
                 /\ ender'[q][t].id = ender[q][t].id
                 /\ ender'[q][t].at = IF q = r /\ t = s THEN p ELSE ender[q][t].at
<1>1. ender[r] \in [Sources -> Endings] /\ ender[r][s] \in Endings
  OBVIOUS
<1>2. ender' = [ender EXCEPT ![r] = [ender[r] EXCEPT ![s] = [ender[r][s] EXCEPT !.at = p]]]
  BY DEF EnderAt
<1>3. [ender[r][s] EXCEPT !.at = p] \in Endings
  BY <1>1 DEF Endings
<1>4. [ender[r] EXCEPT ![s] = [ender[r][s] EXCEPT !.at = p]] \in [Sources -> Endings]
  BY <1>1, <1>3
<1>5. \A q \in Reqs, t \in Sources :
         ender'[q][t] = IF q = r /\ t = s THEN [ender[r][s] EXCEPT !.at = p] ELSE ender[q][t]
  BY <1>1, <1>2
<1>6. /\ [ender[r][s] EXCEPT !.at = p].kind = ender[r][s].kind
      /\ [ender[r][s] EXCEPT !.at = p].id = ender[r][s].id
      /\ [ender[r][s] EXCEPT !.at = p].at = p
  BY <1>1 DEF Endings
<1>7. QED
  BY <1>2, <1>4, <1>5, <1>6

\* The handling of an end goes to another point with an ID.
LEMMA EnderTakes ==
    ASSUME ender \in [Reqs -> [Sources -> Endings]], NEW r \in Reqs, NEW s \in Sources,
           NEW p \in {"close", "record"}, NEW n \in OptIds,
           EnderWith(r, s, p, n)
    PROVE  /\ ender' \in [Reqs -> [Sources -> Endings]]
           /\ \A q \in Reqs, t \in Sources :
                 /\ ender'[q][t].kind = ender[q][t].kind
                 /\ ender'[q][t].id = IF q = r /\ t = s THEN n ELSE ender[q][t].id
                 /\ ender'[q][t].at = IF q = r /\ t = s THEN p ELSE ender[q][t].at
<1> DEFINE e == [ender[r][s] EXCEPT !.at = p, !.id = n]
<1>1. ender[r] \in [Sources -> Endings] /\ ender[r][s] \in Endings
  OBVIOUS
<1>2. e \in Endings /\ e.kind = ender[r][s].kind /\ e.id = n /\ e.at = p
  BY <1>1 DEF Endings
<1>3. ender' = [ender EXCEPT ![r] = [ender[r] EXCEPT ![s] = e]]
  BY <1>1 DEF EnderWith
<1> HIDE DEF e
<1>4. [ender[r] EXCEPT ![s] = e] \in [Sources -> Endings]
  BY <1>1, <1>2
<1>5. \A q \in Reqs, t \in Sources : ender'[q][t] = IF q = r /\ t = s THEN e ELSE ender[q][t]
  <2>1. \A q \in Reqs : ender'[q] = IF q = r THEN [ender[r] EXCEPT ![s] = e] ELSE ender[q]
    BY <1>3
  <2>2. \A t \in Sources : [ender[r] EXCEPT ![s] = e][t] = IF t = s THEN e ELSE ender[r][t]
    BY <1>1
  <2>3. QED
    BY <2>1, <2>2
<1>6. QED
  BY <1>2, <1>3, <1>4, <1>5

\* The event of an end is about to be handled.
LEMMA EndBegins ==
    ASSUME ender \in [Reqs -> [Sources -> Endings]], NEW r \in Reqs, NEW s \in Sources,
           NEW kind \in Kinds, None \in OptIds, End(r, s, kind)
    PROVE  /\ ender' \in [Reqs -> [Sources -> Endings]]
           /\ ender[r][s].at = "none"
           /\ kind = "cancelled" => \A t \in Sources : ender[r][t].kind # "cancelled"
           /\ \A q \in Reqs, t \in Sources :
                 ender'[q][t] = IF q = r /\ t = s THEN [at |-> "event", kind |-> kind, id |-> None]
                                ELSE ender[q][t]
<1>1. [at |-> "event", kind |-> kind, id |-> None] \in Endings
  BY DEF Endings
<1>2. QED
  BY <1>1 DEF End

\* WithSlowNotify goes to another point.
LEMMA SlowMoves ==
    ASSUME slow \in [Calls -> SlowCalls], NEW c \in Calls,
           NEW p \in {"none", "select", "notify", "wait", "dismiss", "returned"}, SlowAt(c, p)
    PROVE  /\ slow' \in [Calls -> SlowCalls]
           /\ \A d \in Calls : /\ slow'[d].id = slow[d].id
                               /\ slow'[d].at = IF d = c THEN p ELSE slow[d].at
  BY DEF SlowCalls, SlowAt


\* What the handlers of the ends have done stays done.
LEMMA EndsKept ==
    ASSUME \A q \in Reqs, t \in Sources :
              /\ ender[q][t].at = "suppressed" => ender'[q][t].at = "suppressed"
              /\ ender[q][t].at \in {"record", "done"} =>
                    ender'[q][t].at \in {"record", "done"} /\ ender'[q][t].kind = ender[q][t].kind
    PROVE  \A q \in Reqs : (Stopped(q) => Stopped(q)') /\ (FollowedUp(q) => FollowedUp(q)')
  BY DEF Stopped, FollowedUp

\* A handler closes what it was about to close.
LEMMA ClosingKept ==
    ASSUME \A q \in Reqs, t \in Sources :
              ender[q][t].at = "close" => ender'[q][t].at = "close" /\ ender'[q][t].id = ender[q][t].id
    PROVE  \A q \in Reqs, n \in Ids : Closing(q, n) => Closing(q, n)'
  BY DEF Closing

\* A handler that has looked has looked.
LEMMA UnlookedKept ==
    ASSUME NEW q \in Reqs,
           \A t \in Sources : \/ ender'[q][t].at = ender[q][t].at
                              \/ ender'[q][t].at \in {"none", "event", "lookup"}
    PROVE  Unlooked(q) => Unlooked(q)'
  BY DEF Unlooked

\* Close takes the notification away, or it is stuck.
LEMMA CloseOne ==
    ASSUME screen \in [Ids -> {"unused", "prompt", "followup", "notice", "closed"}],
           stuck \subseteq Ids, NEW n \in Ids, CloseId(n)
    PROVE  /\ screen' \in [Ids -> {"unused", "prompt", "followup", "notice", "closed"}]
           /\ stuck \subseteq stuck' /\ stuck' \subseteq Ids
           /\ \A m \in Ids : \/ screen'[m] = screen[m] /\ (m = n => n \in stuck')
                             \/ m = n /\ screen'[m] = "closed"
<1>1. CASE screen' = [screen EXCEPT ![n] = "closed"] /\ UNCHANGED stuck
  BY <1>1
<1>2. CASE stuck' = stuck \cup {n} /\ UNCHANGED screen
  BY <1>2
<1>3. QED
  BY <1>1, <1>2 DEF CloseId

\* The IDs that the goroutines and the listener have are IDs.
LEMMA TypedIds ==
    ASSUME TypeOK
    PROVE  /\ \A r \in Reqs : shower[r].id \in Ids \cup {None}
           /\ \A r \in Reqs, s \in Sources : ender[r][s].id \in Ids \cup {None}
           /\ \A c \in Calls : slow[c].id \in Ids \cup {None}
           /\ \A k \in 1..Len(actions) : actions[k].id \in Ids
<1>1. \A k \in 1..Len(actions) : actions[k] \in [id : Ids, key : Keys]
  BY ElementOfSeq DEF TypeOK
<1>2. \A r \in Reqs : shower[r] \in Handlings
  BY DEF TypeOK
<1>3. \A r \in Reqs, s \in Sources : ender[r][s] \in Endings
  BY DEF TypeOK
<1>4. \A c \in Calls : slow[c] \in SlowCalls
  BY DEF TypeOK
<1>5. QED
  BY <1>1, <1>2, <1>3, <1>4 DEF Handlings, Endings, SlowCalls, OptIds

-----------------------------------------------------------------------------
(* Each step keeps the invariant *)

\* Create: its handling is due.
LEMMA CreateKeeps ==
    ASSUME NotifierInv, NEW r \in Reqs, Create(r)
    PROVE  NotifierInv'
<1>1. /\ life[r] = "new" /\ ShowerAt(r, "due")
      /\ life' \in [Reqs -> {"new", "pending", "resolved"}]
      /\ \A q \in Reqs : life'[q] = IF q = r THEN "pending" ELSE life[q]
      /\ UNCHANGED <<ender, timers, notifications, requests, actions, busy, screen, about, stuck, slow, late>>
  BY DEF Create, maps, server, NotifierInv, MapsConsistent, TypeOK
<1>2. /\ shower' \in [Reqs -> Handlings]
      /\ \A q \in Reqs : /\ shower'[q].id = shower[q].id
                         /\ shower'[q].at = IF q = r THEN "due" ELSE shower[q].at
  BY <1>1, ShowerMoves DEF NotifierInv, MapsConsistent, TypeOK
<1>3. shower[r].at = "none"
  BY <1>1 DEF NotifierInv, Showers
<1>4. TypeOK'
  <2>1. timers = {q \in Reqs : shower[q].at = "timer"}
    BY DEF NotifierInv, MapsConsistent, TypeOK
  <2>2. timers' = {q \in Reqs : shower'[q].at = "timer"}
    BY <1>1, <1>2, <1>3, <2>1
  <2>3. QED
    BY <1>1, <1>2, <2>2 DEF NotifierInv, MapsConsistent, TypeOK
<1>5. MapsConsistent'
  BY <1>1, <1>2, <1>3, <1>4 DEF NotifierInv, MapsConsistent
<1>6. Owned'
  BY <1>1, <1>2, <1>3 DEF NotifierInv, Owned
<1>7. Showers'
  BY <1>1, <1>2, <1>3 DEF NotifierInv, Showers
<1>8. Screens'
  BY <1>1, <1>2, <1>3 DEF NotifierInv, Screens
<1>9. Quiet'
  BY <1>1, <1>2, <1>3 DEF NotifierInv, Quiet, Stopped, FollowedUp
<1>10. Prompts' /\ Latecomers'
  BY <1>1, <1>2, <1>3 DEF NotifierInv, Prompts, Latecomers, Unlooked, Screens, Closing
<1>11. Enders' /\ SlowOnes'
  BY <1>1 DEF NotifierInv, Enders, SlowOnes
<1>12. QED
  BY <1>4, <1>5, <1>6, <1>7, <1>8, <1>9, <1>10, <1>11 DEF NotifierInv

\* HandleCreated: the timer is set, or the server is asked at once.
LEMMA HandleCreatedKeeps ==
    ASSUME NotifierInv, NEW r \in Reqs, HandleCreated(r)
    PROVE  NotifierInv'
<1>1. /\ shower[r].at = "due"
      /\ timers' = IF Delay THEN timers \cup {r} ELSE timers
      /\ UNCHANGED <<life, ender, notifications, requests, actions, busy, screen, about, stuck, slow, late>>
  BY DEF HandleCreated, maps, server
<1>2. PICK p \in {"timer", "notify"} :
         p = (IF Delay THEN "timer" ELSE "notify") /\ ShowerAt(r, p)
  BY DEF HandleCreated
<1>3. p \in {"none", "due", "timer", "notify", "record", "done", "quiet"}
  BY <1>2
<1>4. /\ shower' \in [Reqs -> Handlings]
      /\ \A q \in Reqs : /\ shower'[q].id = shower[q].id
                         /\ shower'[q].at = IF q = r THEN p ELSE shower[q].at
  BY <1>2, <1>3, ShowerMoves DEF NotifierInv, MapsConsistent, TypeOK
<1>5. TypeOK'
  BY <1>1, <1>2, <1>3, <1>4 DEF NotifierInv, MapsConsistent, TypeOK
<1>6. MapsConsistent'
  BY <1>1, <1>2, <1>3, <1>4, <1>5 DEF NotifierInv, MapsConsistent
<1>7. Owned'
  BY <1>1, <1>2, <1>3, <1>4 DEF NotifierInv, Owned
<1>8. Showers'
  BY <1>1, <1>2, <1>3, <1>4 DEF NotifierInv, Showers
<1>9. Screens'
  BY <1>1, <1>2, <1>3, <1>4 DEF NotifierInv, Screens
<1>10. Quiet'
  BY <1>1, <1>2, <1>3, <1>4 DEF NotifierInv, Quiet, Stopped, FollowedUp
<1>11. Prompts' /\ Latecomers'
  BY <1>1, <1>2, <1>3, <1>4 DEF NotifierInv, Prompts, Latecomers, Unlooked, Screens, Closing
<1>12. Enders' /\ SlowOnes'
  BY <1>1 DEF NotifierInv, Enders, SlowOnes
<1>13. QED
  BY <1>5, <1>6, <1>7, <1>8, <1>9, <1>10, <1>11, <1>12 DEF NotifierInv

\* TimerFires: the server is asked.
LEMMA TimerFiresKeeps ==
    ASSUME NotifierInv, NEW r \in Reqs, TimerFires(r)
    PROVE  NotifierInv'
<1>1. /\ r \in timers /\ timers' = timers \ {r}
      /\ ShowerAt(r, "notify")
      /\ UNCHANGED <<life, ender, notifications, requests, actions, busy, screen, about, stuck, slow, late>>
  BY DEF TimerFires, maps, server
<1>2. /\ shower' \in [Reqs -> Handlings]
      /\ \A q \in Reqs : /\ shower'[q].id = shower[q].id
                         /\ shower'[q].at = IF q = r THEN "notify" ELSE shower[q].at
  BY <1>1, ShowerMoves DEF NotifierInv, MapsConsistent, TypeOK
<1>3. shower[r].at = "timer"
  BY <1>1 DEF NotifierInv, MapsConsistent, TypeOK
<1>4. TypeOK'
  BY <1>1, <1>2, <1>3 DEF NotifierInv, MapsConsistent, TypeOK
<1>5. MapsConsistent'
  BY <1>1, <1>2, <1>3, <1>4 DEF NotifierInv, MapsConsistent
<1>6. Owned'
  BY <1>1, <1>2, <1>3 DEF NotifierInv, Owned
<1>7. Showers'
  BY <1>1, <1>2, <1>3 DEF NotifierInv, Showers
<1>8. Screens'
  BY <1>1, <1>2, <1>3 DEF NotifierInv, Screens
<1>9. Quiet'
  BY <1>1, <1>2, <1>3 DEF NotifierInv, Quiet, Stopped, FollowedUp
<1>10. Prompts' /\ Latecomers'
  BY <1>1, <1>2, <1>3 DEF NotifierInv, Prompts, Latecomers, Unlooked, Screens, Closing
<1>11. Enders' /\ SlowOnes'
  BY <1>1 DEF NotifierInv, Enders, SlowOnes
<1>12. QED
  BY <1>4, <1>5, <1>6, <1>7, <1>8, <1>9, <1>10, <1>11 DEF NotifierInv

\* SendNotification fails: the handling is over.
LEMMA PromptFailsKeeps ==
    ASSUME NotifierInv, NEW r \in Reqs, shower[r].at = "notify", ShowerAt(r, "done"),
           UNCHANGED <<life, ender, timers, notifications, requests, actions, busy, screen, about, stuck, slow, late>>
    PROVE  NotifierInv'
<1>1. /\ shower' \in [Reqs -> Handlings]
      /\ \A q \in Reqs : /\ shower'[q].id = shower[q].id
                         /\ shower'[q].at = IF q = r THEN "done" ELSE shower[q].at
  BY NotifierInv, ShowerMoves DEF NotifierInv, MapsConsistent, TypeOK
<1>2. TypeOK'
  <2>1. timers' = {q \in Reqs : shower'[q].at = "timer"}
    BY <1>1 DEF NotifierInv, MapsConsistent, TypeOK
  <2>2. QED
    BY <1>1, <2>1 DEF NotifierInv, MapsConsistent, TypeOK
<1>3. MapsConsistent'
  BY <1>1, <1>2 DEF NotifierInv, MapsConsistent
<1>4. Owned'
  BY <1>1 DEF NotifierInv, Owned
<1>5. Showers'
  BY <1>1 DEF NotifierInv, Showers
<1>6. Screens'
  BY <1>1 DEF NotifierInv, Screens
<1>7. Quiet'
  BY <1>1 DEF NotifierInv, Quiet, Stopped, FollowedUp
<1>8. Prompts' /\ Latecomers'
  BY <1>1 DEF NotifierInv, Prompts, Latecomers, Unlooked, Screens, Closing
<1>9. Enders' /\ SlowOnes'
  BY NotifierInv DEF NotifierInv, Enders, SlowOnes
<1>10. QED
  BY <1>2, <1>3, <1>4, <1>5, <1>6, <1>7, <1>8, <1>9 DEF NotifierInv

\* SendNotification shows the prompt: the ID is a new one.
LEMMA PromptShownKeeps ==
    ASSUME NotifierInv, NEW r \in Reqs, NEW n \in Ids, shower[r].at = "notify", Show(n, r, "prompt"),
           shower' = [shower EXCEPT ![r] = [at |-> "record", id |-> n]],
           UNCHANGED <<life, ender, timers, notifications, requests, actions, busy, slow, late>>
    PROVE  NotifierInv'
<1>1. /\ screen' \in [Ids -> {"unused", "prompt", "followup", "notice", "closed"}]
      /\ about' \in [Ids -> Reqs \cup Calls \cup {None}]
      /\ screen[n] = "unused" /\ about[n] = None /\ n # None /\ requests[n] = None
      /\ \A m \in Ids : /\ screen'[m] = IF m = n THEN "prompt" ELSE screen[m]
                        /\ about'[m] = IF m = n THEN r ELSE about[m]
      /\ UNCHANGED stuck
  BY NotifierAssumption DEF Show, Unused, NotifierInv, MapsConsistent, TypeOK, Owned
<1>2. /\ shower' \in [Reqs -> Handlings]
      /\ \A q \in Reqs : shower'[q] = IF q = r THEN [at |-> "record", id |-> n] ELSE shower[q]
  BY DEF NotifierInv, MapsConsistent, TypeOK, Handlings, OptIds
<1>3. /\ \A q \in Reqs : shower[q].id \in Ids \cup {None}
      /\ \A q \in Reqs, t \in Sources : ender[q][t].id \in Ids \cup {None}
      /\ \A d \in Calls : slow[d].id \in Ids \cup {None}
      /\ \A k \in 1..Len(actions) : actions[k].id \in Ids
  BY TypedIds DEF NotifierInv, MapsConsistent
<1>4. shower[r].id = None
  BY DEF NotifierInv, Showers
<1>5. TypeOK'
  BY <1>1, <1>2, <1>3, <1>4 DEF NotifierInv, MapsConsistent, TypeOK
<1>6. MapsConsistent'
  BY <1>1, <1>2, <1>3, <1>4, <1>5 DEF NotifierInv, MapsConsistent
<1>7. Owned'
  BY <1>1, <1>2, <1>3, <1>4, NotifierAssumption DEF NotifierInv, Owned
<1>8. Showers'
  BY <1>1, <1>2, <1>3, <1>4 DEF NotifierInv, Showers
<1>9. Screens'
  BY <1>1, <1>2, <1>3, <1>4, NotifierAssumption DEF NotifierInv, Screens
<1>10. Quiet'
  BY <1>1, <1>2, <1>3, <1>4, NotifierAssumption DEF NotifierInv, Quiet, Stopped, FollowedUp
<1>11. Prompts' /\ Latecomers'
  <2>1. \A q \in Reqs : (Unlooked(q) <=> Unlooked(q)') /\ \A m \in Ids : Closing(q, m) <=> Closing(q, m)'
    BY DEF Unlooked, Closing
  <2>2. \A m \in Ids : m # n /\ screen[m] = "prompt" => about[m] \in Reqs /\ about[m] # r
    BY <1>1, <1>4, NotifierAssumption DEF NotifierInv, Screens
  <2>3. QED
    BY <1>1, <1>2, <2>1, <2>2 DEF NotifierInv, Prompts, Latecomers
<1>12. Enders' /\ SlowOnes'
  BY <1>1 DEF NotifierInv, Enders, SlowOnes
<1>13. QED
  BY <1>5, <1>6, <1>7, <1>8, <1>9, <1>10, <1>11, <1>12 DEF NotifierInv

\* RecordNotification: the maps lead to the prompt and back, although it may
\* have been clicked or the request may have ended in between.
LEMMA RecordNotificationKeeps ==
    ASSUME NotifierInv, NEW r \in Reqs, RecordNotification(r)
    PROVE  NotifierInv'
<1>1. PICK n \in Ids : n = shower[r].id
  BY TypedIds DEF RecordNotification, NotifierInv, MapsConsistent, Showers
<1>2. /\ shower[r].at = "record" /\ about[n] = r /\ n # None
      /\ ShowerAt(r, "done")
      /\ UNCHANGED <<life, ender, timers, actions, busy, screen, about, stuck, slow, late>>
  BY <1>1, NotifierAssumption DEF RecordNotification, Record, server, NotifierInv, Owned
<1>3. /\ shower' \in [Reqs -> Handlings]
      /\ \A q \in Reqs : /\ shower'[q].id = shower[q].id
                         /\ shower'[q].at = IF q = r THEN "done" ELSE shower[q].at
  BY <1>2, ShowerMoves DEF NotifierInv, MapsConsistent, TypeOK
<1>4. /\ notifications' \in [Reqs -> OptIds] /\ requests' \in [Ids -> Reqs \cup {None}]
      /\ \A q \in Reqs : notifications'[q] = IF q = r THEN n ELSE notifications[q]
      /\ \A m \in Ids : requests'[m] = IF m = n THEN r ELSE requests[m]
  BY <1>1 DEF RecordNotification, Record, NotifierInv, MapsConsistent, TypeOK, OptIds
<1>5. \A q \in Reqs : notifications[q] \in Ids \cup {None}
  BY DEF NotifierInv, MapsConsistent, TypeOK, OptIds
<1>6. TypeOK'
  <2>1. timers' = {q \in Reqs : shower'[q].at = "timer"}
    <3>1. timers = {q \in Reqs : shower[q].at = "timer"}
      BY DEF NotifierInv, MapsConsistent, TypeOK
    <3>2. QED
      BY <1>2, <1>3, <3>1
  <2>2. QED
    BY <1>1, <1>2, <1>3, <1>4, <1>5, <2>1 DEF NotifierInv, MapsConsistent, TypeOK
<1>7. MapsConsistent'
  BY <1>1, <1>2, <1>3, <1>4, <1>5, <1>6, NotifierAssumption DEF NotifierInv, MapsConsistent
<1>8. Owned'
  BY <1>1, <1>2, <1>3, <1>4, <1>5 DEF NotifierInv, Owned
<1>9. Showers'
  BY <1>1, <1>2, <1>3, <1>4, <1>5 DEF NotifierInv, Showers
<1>10. Screens'
  BY <1>1, <1>2, <1>3, <1>4, <1>5 DEF NotifierInv, Screens
<1>11. Quiet'
  BY <1>1, <1>2, <1>3, <1>4, <1>5 DEF NotifierInv, Quiet, Stopped, FollowedUp
<1>12. Prompts' /\ Latecomers'
  BY <1>1, <1>2, <1>3, <1>4, <1>5 DEF NotifierInv, Prompts, Latecomers, Unlooked, Screens, Closing
<1>13. Enders' /\ SlowOnes'
  BY <1>2 DEF NotifierInv, Enders, SlowOnes
<1>14. QED
  BY <1>6, <1>7, <1>8, <1>9, <1>10, <1>11, <1>12, <1>13 DEF NotifierInv

\* CancelTimer stops the timer: nothing was shown, and nothing will be.
LEMMA TimerStoppedKeeps ==
    ASSUME NotifierInv, NEW r \in Reqs, NEW s \in Sources, CancelTimer(r, s), r \in timers
    PROVE  NotifierInv'
<1>1. /\ ender[r][s].at = "event" /\ timers' = timers \ {r}
      /\ ShowerAt(r, "quiet")
      /\ EnderAt(r, s, "suppressed")
      /\ UNCHANGED <<life, notifications, requests, actions, busy, screen, about, stuck, slow, late>>
  BY DEF CancelTimer, maps, server
<1>2. shower[r].at = "timer"
  BY DEF NotifierInv, MapsConsistent, TypeOK
<1>3. /\ shower' \in [Reqs -> Handlings]
      /\ \A q \in Reqs : /\ shower'[q].id = shower[q].id
                         /\ shower'[q].at = IF q = r THEN "quiet" ELSE shower[q].at
  BY <1>1, ShowerMoves DEF NotifierInv, MapsConsistent, TypeOK
<1>4. /\ ender' \in [Reqs -> [Sources -> Endings]]
      /\ \A q \in Reqs, t \in Sources :
            /\ ender'[q][t].kind = ender[q][t].kind
            /\ ender'[q][t].id = ender[q][t].id
            /\ ender'[q][t].at = IF q = r /\ t = s THEN "suppressed" ELSE ender[q][t].at
  BY <1>1, EnderMoves DEF NotifierInv, MapsConsistent, TypeOK
<1>5. TypeOK'
  BY <1>1, <1>2, <1>3, <1>4 DEF NotifierInv, MapsConsistent, TypeOK
<1>6. MapsConsistent'
  BY <1>1, <1>2, <1>3, <1>4, <1>5 DEF NotifierInv, MapsConsistent
<1>7. Owned'
  <2>1. \A q \in Reqs : shower'[q].id = shower[q].id
    BY <1>1, <1>2, <1>3, <1>4
  <2>2. \A q \in Reqs, t \in Sources : ender'[q][t].id = ender[q][t].id
    BY <1>1, <1>2, <1>3, <1>4
  <2>3. QED
    BY <1>1, <2>1, <2>2 DEF NotifierInv, Owned
<1>8. Showers'
  BY <1>1, <1>2, <1>3, <1>4 DEF NotifierInv, Showers
<1>9. Enders'
  BY SMTT(30), <1>1, <1>2, <1>3, <1>4 DEF NotifierInv, Enders
<1>10. Screens'
  BY <1>1, <1>2, <1>3, <1>4 DEF NotifierInv, Screens
<1>11. Quiet'
  <2>1. \A q \in Reqs : (Stopped(q) => Stopped(q)') /\ (FollowedUp(q) => FollowedUp(q)')
    BY <1>1, <1>4, EndsKept
  <2>2. Stopped(r)'
    BY <1>4 DEF Stopped
  <2>3. \A q \in Reqs : shower'[q].at = "quiet" => Stopped(q)'
    BY <1>3, <2>1, <2>2 DEF NotifierInv, Quiet
  <2>4. \A q \in Reqs, t \in Sources : ender'[q][t].kind = ender[q][t].kind
    BY <1>4
  <2>5. \A m \in Ids : about'[m] \in Reqs => shower'[about'[m]].id = m \/ FollowedUp(about[m])'
    BY <1>1, <1>3, <2>1 DEF NotifierInv, Quiet
  <2>6. QED
    BY <1>1, <2>3, <2>4, <2>5 DEF NotifierInv, Quiet
<1>12. Prompts' /\ Latecomers'
  <2>1. \A q \in Reqs, m \in Ids : Closing(q, m) => Closing(q, m)'
    BY <1>1, <1>2, <1>3, <1>4, ClosingKept
  <2>2. \A q \in Reqs \ {r} : Unlooked(q) => Unlooked(q)'
    BY <1>4, UnlookedKept
  <2>3. \A m \in Ids : screen[m] = "prompt" => about[m] \in Reqs \ {r}
    BY <1>2, NotifierAssumption DEF NotifierInv, Screens, Showers
  <2>4. QED
    BY <1>1, <1>2, <1>3, <2>1, <2>2, <2>3 DEF NotifierInv, Prompts, Latecomers
<1>13. SlowOnes'
  BY <1>1 DEF NotifierInv, SlowOnes
<1>14. QED
  BY <1>5, <1>6, <1>7, <1>8, <1>9, <1>10, <1>11, <1>12, <1>13 DEF NotifierInv

\* CancelTimer finds no timer: the handler goes on.
LEMMA NoTimerKeeps ==
    ASSUME NotifierInv, NEW r \in Reqs, NEW s \in Sources, CancelTimer(r, s), r \notin timers
    PROVE  NotifierInv'
<1>1. /\ ender[r][s].at = "event" /\ timers' = timers /\ shower' = shower
      /\ EnderAt(r, s, "lookup")
      /\ UNCHANGED <<life, notifications, requests, actions, busy, screen, about, stuck, slow, late>>
  BY DEF CancelTimer, maps, server
<1>2. /\ ender' \in [Reqs -> [Sources -> Endings]]
      /\ \A q \in Reqs, t \in Sources :
            /\ ender'[q][t].kind = ender[q][t].kind
            /\ ender'[q][t].id = ender[q][t].id
            /\ ender'[q][t].at = IF q = r /\ t = s THEN "lookup" ELSE ender[q][t].at
  BY <1>1, EnderMoves DEF NotifierInv, MapsConsistent, TypeOK
<1>3. TypeOK'
  BY <1>1, <1>2 DEF NotifierInv, MapsConsistent, TypeOK
<1>4. MapsConsistent'
  BY <1>1, <1>2, <1>3 DEF NotifierInv, MapsConsistent
<1>5. Owned'
  BY <1>1, <1>2 DEF NotifierInv, Owned
<1>6. Enders'
  BY <1>1, <1>2 DEF NotifierInv, Enders
<1>7. Quiet'
  <2>1. \A q \in Reqs : (Stopped(q) => Stopped(q)') /\ (FollowedUp(q) => FollowedUp(q)')
    BY <1>1, <1>2, EndsKept
  <2>2. QED
    BY <1>1, <1>2, <2>1 DEF NotifierInv, Quiet
<1>8. Prompts' /\ Latecomers'
  <2>1. \A q \in Reqs, m \in Ids : Closing(q, m) => Closing(q, m)'
    BY <1>1, <1>2, ClosingKept
  <2>2. \A q \in Reqs : Unlooked(q) => Unlooked(q)'
    BY <1>2, UnlookedKept
  <2>3. QED
    BY <1>1, <2>1, <2>2 DEF NotifierInv, Prompts, Latecomers, Screens
<1>9. Showers' /\ SlowOnes' /\ Screens'
  BY <1>1 DEF NotifierInv, Showers, SlowOnes, Screens
<1>10. QED
  BY <1>3, <1>4, <1>5, <1>6, <1>7, <1>8, <1>9 DEF NotifierInv

\* Lookup finds no notification.
LEMMA NothingFoundKeeps ==
    ASSUME NotifierInv, NEW r \in Reqs, NEW s \in Sources, Lookup(r, s), notifications[r] = None
    PROVE  NotifierInv'
<1>1. PICK p \in {"follow", "done"} :
         /\ EnderAt(r, s, p)
         /\ p = "follow" => ender[r][s].kind = "cancelled"
  BY DEF Lookup, AfterClose
<1>2. p \in {"none", "event", "lookup", "close", "follow", "record", "done", "suppressed"}
  BY <1>1
<1>3. /\ ender[r][s].at = "lookup"
      /\ UNCHANGED <<life, shower, timers, notifications, requests, actions, busy, screen, about, stuck, slow>>
      /\ late' = IF shower[r].at \in {"done", "quiet"} THEN late ELSE late \cup {r}
  BY DEF Lookup, maps, server
<1>4. /\ ender' \in [Reqs -> [Sources -> Endings]]
      /\ \A q \in Reqs, t \in Sources :
            /\ ender'[q][t].kind = ender[q][t].kind
            /\ ender'[q][t].id = ender[q][t].id
            /\ ender'[q][t].at = IF q = r /\ t = s THEN p ELSE ender[q][t].at
  BY <1>1, <1>2, EnderMoves DEF NotifierInv, MapsConsistent, TypeOK
<1>5. TypeOK'
  BY <1>1, <1>2, <1>3, <1>4 DEF NotifierInv, MapsConsistent, TypeOK
<1>6. MapsConsistent'
  BY <1>1, <1>2, <1>3, <1>4, <1>5 DEF NotifierInv, MapsConsistent
<1>7. Owned'
  BY <1>1, <1>2, <1>3, <1>4 DEF NotifierInv, Owned
<1>8. Enders'
  BY <1>1, <1>2, <1>3, <1>4 DEF NotifierInv, Enders
<1>9. Quiet'
  <2>1. \A q \in Reqs : (Stopped(q) => Stopped(q)') /\ (FollowedUp(q) => FollowedUp(q)')
    BY <1>1, <1>2, <1>3, <1>4, EndsKept
  <2>2. QED
    BY <1>1, <1>2, <1>3, <1>4, <2>1 DEF NotifierInv, Quiet
<1>10. Prompts' /\ Latecomers'
  <2>1. \A q \in Reqs, m \in Ids : Closing(q, m) => Closing(q, m)'
    BY <1>1, <1>2, <1>3, <1>4, ClosingKept
  <2>2. \A q \in Reqs \ {r} : Unlooked(q) => Unlooked(q)'
    BY <1>4, UnlookedKept
  <2>3. \A m \in Ids : notifications[r] # m
    BY NotifierAssumption
  <2>4. QED
    BY <1>3, <2>1, <2>2, <2>3 DEF NotifierInv, Prompts, Latecomers, Screens
<1>11. Showers' /\ SlowOnes' /\ Screens'
  BY <1>3 DEF NotifierInv, Showers, SlowOnes, Screens
<1>12. QED
  BY <1>5, <1>6, <1>7, <1>8, <1>9, <1>10, <1>11 DEF NotifierInv

\* Lookup takes the entries out of the maps: the handler has the ID now.
LEMMA EntriesTakenKeeps ==
    ASSUME NotifierInv, NEW r \in Reqs, NEW s \in Sources, Lookup(r, s), notifications[r] # None
    PROVE  NotifierInv'
<1>1. PICK n \in Ids : n = notifications[r]
  BY DEF NotifierInv, MapsConsistent, TypeOK, OptIds
<1>2. n \in OptIds
  BY DEF OptIds
<1>3. /\ ender[r][s].at = "lookup" /\ n # None /\ requests[n] = r /\ about[n] = r
      /\ EnderWith(r, s, "close", n)
      /\ UNCHANGED <<life, shower, timers, actions, busy, screen, about, stuck, slow>>
      /\ late' = IF shower[r].at \in {"done", "quiet"} THEN late ELSE late \cup {r}
  BY <1>1, NotifierAssumption DEF Lookup, server, NotifierInv, MapsConsistent
<1>4. /\ notifications' \in [Reqs -> OptIds] /\ requests' \in [Ids -> Reqs \cup {None}]
      /\ \A q \in Reqs : notifications'[q] = IF q = r THEN None ELSE notifications[q]
      /\ \A m \in Ids : requests'[m] = IF m = n THEN None ELSE requests[m]
  BY <1>1, <1>3 DEF Lookup, NotifierInv, MapsConsistent, TypeOK, OptIds
<1>5. ender \in [Reqs -> [Sources -> Endings]]
  BY DEF NotifierInv, MapsConsistent, TypeOK
<1>6. /\ ender' \in [Reqs -> [Sources -> Endings]]
      /\ \A q \in Reqs, t \in Sources :
            /\ ender'[q][t].kind = ender[q][t].kind
            /\ ender'[q][t].id = IF q = r /\ t = s THEN n ELSE ender[q][t].id
            /\ ender'[q][t].at = IF q = r /\ t = s THEN "close" ELSE ender[q][t].at
  BY <1>2, <1>3, <1>5, EnderTakes
<1>7. \A q \in Reqs : notifications[q] \in Ids \cup {None}
  BY DEF NotifierInv, MapsConsistent, TypeOK, OptIds
<1>8. TypeOK'
  BY <1>1, <1>2, <1>3, <1>4, <1>5, <1>6, <1>7 DEF NotifierInv, MapsConsistent, TypeOK
<1>9. MapsConsistent'
  BY <1>3, <1>4, <1>7, <1>8, NotifierAssumption DEF NotifierInv, MapsConsistent
<1>10. Owned'
  BY <1>3, <1>6 DEF NotifierInv, Owned
<1>11. Enders'
  BY <1>3, <1>6 DEF NotifierInv, Enders
<1>12. Quiet'
  <2>1. \A q \in Reqs : (Stopped(q) => Stopped(q)') /\ (FollowedUp(q) => FollowedUp(q)')
    BY <1>3, <1>6, EndsKept
  <2>2. QED
    BY <1>3, <1>6, <2>1 DEF NotifierInv, Quiet
<1>13. Prompts' /\ Latecomers'
  <2>1. \A q \in Reqs, m \in Ids : Closing(q, m) => Closing(q, m)'
    BY <1>1, <1>2, <1>3, <1>4, <1>5, <1>6, <1>7, ClosingKept
  <2>2. Closing(r, n)'
    BY <1>6 DEF Closing
  <2>3. \A q \in Reqs \ {r} : Unlooked(q) => Unlooked(q)'
    BY <1>6, UnlookedKept
  <2>4. QED
    BY <1>1, <1>3, <1>4, <2>1, <2>2, <2>3 DEF NotifierInv, Prompts, Latecomers, Screens
<1>14. Showers' /\ SlowOnes' /\ Screens'
  BY <1>3 DEF NotifierInv, Showers, SlowOnes, Screens
<1>15. QED
  BY <1>8, <1>9, <1>10, <1>11, <1>12, <1>13, <1>14 DEF NotifierInv

\* CloseNotification: the handler closes what it took out of the maps.
LEMMA CloseNotificationKeeps ==
    ASSUME NotifierInv, NEW r \in Reqs, NEW s \in Sources, CloseNotification(r, s)
    PROVE  NotifierInv'
<1>1. PICK p \in {"follow", "done"} :
         /\ EnderAt(r, s, p)
         /\ p = "follow" => ender[r][s].kind = "cancelled"
  BY DEF CloseNotification, AfterClose
<1>2. p \in {"none", "event", "lookup", "close", "follow", "record", "done", "suppressed"}
  BY <1>1
<1>3. /\ ender[r][s].at = "close"
      /\ UNCHANGED <<life, shower, timers, notifications, requests, actions, busy, about, slow, late>>
  BY DEF CloseNotification, maps
<1>4. PICK n \in Ids : n = ender[r][s].id /\ n # None
  BY <1>3, TypedIds DEF NotifierInv, MapsConsistent, Enders
<1>5. /\ screen' \in [Ids -> {"unused", "prompt", "followup", "notice", "closed"}]
      /\ stuck \subseteq stuck' /\ stuck' \subseteq Ids
      /\ \A m \in Ids : \/ screen'[m] = screen[m] /\ (m = n => n \in stuck')
                        \/ m = n /\ screen'[m] = "closed"
  BY <1>4, CloseOne DEF CloseNotification, NotifierInv, MapsConsistent, TypeOK
<1>6. about[n] = r /\ screen[n] # "unused"
  BY <1>4, NotifierAssumption DEF NotifierInv, Owned
<1>7. /\ ender' \in [Reqs -> [Sources -> Endings]]
      /\ \A q \in Reqs, t \in Sources :
            /\ ender'[q][t].kind = ender[q][t].kind
            /\ ender'[q][t].id = ender[q][t].id
            /\ ender'[q][t].at = IF q = r /\ t = s THEN p ELSE ender[q][t].at
  BY <1>1, <1>2, EnderMoves DEF NotifierInv, MapsConsistent, TypeOK
<1>8. TypeOK'
  BY <1>1, <1>2, <1>3, <1>4, <1>5, <1>6, <1>7 DEF NotifierInv, MapsConsistent, TypeOK
<1>9. MapsConsistent'
  BY <1>1, <1>2, <1>3, <1>4, <1>5, <1>6, <1>7, <1>8 DEF NotifierInv, MapsConsistent
<1>10. Owned'
  <2>1. \A m \in Ids : screen'[m] = "unused" => screen[m] = "unused"
    BY <1>5
  <2>2. \A q \in Reqs, t \in Sources : ender'[q][t].id = ender[q][t].id
    BY <1>7
  <2>3. QED
    BY <1>3, <2>1, <2>2 DEF NotifierInv, Owned
<1>11. Enders'
  BY <1>1, <1>2, <1>3, <1>4, <1>5, <1>6, <1>7 DEF NotifierInv, Enders
<1>12. Screens'
  BY <1>3, <1>5, TypedIds DEF NotifierInv, MapsConsistent, Screens
<1>13. Quiet'
  <2>1. \A q \in Reqs : (Stopped(q) => Stopped(q)') /\ (FollowedUp(q) => FollowedUp(q)')
    BY <1>1, <1>2, <1>3, <1>4, <1>5, <1>6, <1>7, EndsKept
  <2>2. QED
    BY SMTT(30), <1>1, <1>2, <1>3, <1>4, <1>5, <1>6, <1>7, <2>1 DEF NotifierInv, Quiet
<1>14. Prompts' /\ Latecomers'
  <2>1. \A q \in Reqs, m \in Ids \ {n} : Closing(q, m) => Closing(q, m)'
    BY <1>1, <1>2, <1>3, <1>4, <1>5, <1>6, <1>7 DEF Closing
  <2>2. \A q \in Reqs : Unlooked(q) => Unlooked(q)'
    BY <1>3, <1>7 DEF Unlooked
  <2>3. QED
    BY <1>3, <1>5, <2>1, <2>2 DEF NotifierInv, Prompts, Latecomers, Screens
<1>15. Showers' /\ SlowOnes'
  BY <1>3 DEF NotifierInv, Showers, SlowOnes
<1>16. QED
  BY <1>8, <1>9, <1>10, <1>11, <1>12, <1>13, <1>14, <1>15 DEF NotifierInv

\* SendFollowUp fails: the handling is over.
LEMMA FollowUpFailsKeeps ==
    ASSUME NotifierInv, NEW r \in Reqs, NEW s \in Sources, ender[r][s].at = "follow", EnderAt(r, s, "done"),
           UNCHANGED <<life, shower, timers, notifications, requests, actions, busy, screen, about, stuck, slow, late>>
    PROVE  NotifierInv'
<1>1. ender[r][s].at = "follow"
  OBVIOUS
<1>2. /\ ender' \in [Reqs -> [Sources -> Endings]]
      /\ \A q \in Reqs, t \in Sources :
            /\ ender'[q][t].kind = ender[q][t].kind
            /\ ender'[q][t].id = ender[q][t].id
            /\ ender'[q][t].at = IF q = r /\ t = s THEN "done" ELSE ender[q][t].at
  BY NotifierInv, EnderMoves DEF NotifierInv, MapsConsistent, TypeOK
<1>3. TypeOK'
  BY <1>1, <1>2 DEF NotifierInv, MapsConsistent, TypeOK
<1>4. MapsConsistent'
  BY <1>1, <1>2, <1>3 DEF NotifierInv, MapsConsistent
<1>5. Owned'
  BY <1>1, <1>2 DEF NotifierInv, Owned
<1>6. Enders'
  BY <1>1, <1>2 DEF NotifierInv, Enders
<1>7. Quiet'
  <2>1. \A q \in Reqs : (Stopped(q) => Stopped(q)') /\ (FollowedUp(q) => FollowedUp(q)')
    BY <1>1, <1>2, EndsKept
  <2>2. QED
    BY <1>1, <1>2, <2>1 DEF NotifierInv, Quiet
<1>8. Prompts' /\ Latecomers'
  <2>1. \A q \in Reqs, m \in Ids : Closing(q, m) => Closing(q, m)'
    BY <1>1, <1>2, ClosingKept
  <2>2. \A q \in Reqs : Unlooked(q) => Unlooked(q)'
    BY <1>1, <1>2 DEF Unlooked
  <2>3. QED
    BY <2>1, <2>2 DEF NotifierInv, Prompts, Latecomers, Screens
<1>9. Showers' /\ SlowOnes' /\ Screens'
  BY NotifierInv DEF NotifierInv, Showers, SlowOnes, Screens
<1>10. QED
  BY <1>3, <1>4, <1>5, <1>6, <1>7, <1>8, <1>9 DEF NotifierInv

\* SendFollowUp shows the "Auto-approve?" notification of a cancelled request.
LEMMA FollowUpShownKeeps ==
    ASSUME NotifierInv, NEW r \in Reqs, NEW s \in Sources, NEW n \in Ids, ender[r][s].at = "follow",
           Show(n, r, "followup"), EnderWith(r, s, "record", n),
           UNCHANGED <<life, shower, timers, notifications, requests, actions, busy, slow, late>>
    PROVE  NotifierInv'
<1>1. /\ screen' \in [Ids -> {"unused", "prompt", "followup", "notice", "closed"}]
      /\ about' \in [Ids -> Reqs \cup Calls \cup {None}]
      /\ screen[n] = "unused" /\ about[n] = None /\ n # None /\ requests[n] = None
      /\ \A m \in Ids : /\ screen'[m] = IF m = n THEN "followup" ELSE screen[m]
                        /\ about'[m] = IF m = n THEN r ELSE about[m]
      /\ UNCHANGED stuck
  BY NotifierAssumption DEF Show, Unused, NotifierInv, MapsConsistent, TypeOK, Owned
<1>2. ender[r][s].kind = "cancelled"
  BY DEF NotifierInv, Enders
<1>3. n \in OptIds /\ ender \in [Reqs -> [Sources -> Endings]]
  BY DEF OptIds, NotifierInv, MapsConsistent, TypeOK
<1>4. /\ ender' \in [Reqs -> [Sources -> Endings]]
      /\ \A q \in Reqs, t \in Sources :
            /\ ender'[q][t].kind = ender[q][t].kind
            /\ ender'[q][t].id = IF q = r /\ t = s THEN n ELSE ender[q][t].id
            /\ ender'[q][t].at = IF q = r /\ t = s THEN "record" ELSE ender[q][t].at
  BY <1>3, EnderTakes
<1>5. /\ \A q \in Reqs : shower[q].id \in Ids \cup {None}
      /\ \A q \in Reqs, t \in Sources : ender[q][t].id \in Ids \cup {None}
      /\ \A d \in Calls : slow[d].id \in Ids \cup {None}
      /\ \A k \in 1..Len(actions) : actions[k].id \in Ids
  BY TypedIds DEF NotifierInv, MapsConsistent
<1>6. TypeOK'
  BY <1>1, <1>2, <1>3, <1>4, <1>5 DEF NotifierInv, MapsConsistent, TypeOK
<1>7. MapsConsistent'
  BY <1>1, <1>2, <1>3, <1>4, <1>5, <1>6 DEF NotifierInv, MapsConsistent
<1>8. Owned'
  <2>1. \A q \in Reqs : shower[q].id # None => about'[shower[q].id] = q
    BY <1>1, <1>5, NotifierAssumption DEF NotifierInv, Owned
  <2>2. \A d \in Calls : slow[d].id # None => about'[slow[d].id] = d
    BY <1>1, <1>5, NotifierAssumption DEF NotifierInv, Owned
  <2>3. \A q \in Reqs, t \in Sources : ender[q][t].id # None => about'[ender[q][t].id] = q
    BY <1>1, <1>5, NotifierAssumption DEF NotifierInv, Owned
  <2>4. \A q \in Reqs, t \in Sources : ender'[q][t].id # None => about'[ender'[q][t].id] = q
    BY <1>1, <1>4, <2>3
  <2>5. \A m \in Ids : screen'[m] = "unused" => about'[m] = None
    BY <1>1 DEF NotifierInv, Owned
  <2>6. QED
    BY <2>1, <2>2, <2>4, <2>5 DEF Owned
<1>9. Enders'
  BY <1>1, <1>2, <1>4 DEF NotifierInv, Enders
<1>10. Screens'
  BY <1>1, <1>5, NotifierAssumption DEF NotifierInv, Screens
<1>11. Quiet'
  <2>1. \A q \in Reqs : (Stopped(q) => Stopped(q)') /\ (FollowedUp(q) => FollowedUp(q)')
    BY <1>4, EndsKept
  <2>2. FollowedUp(r)'
    BY <1>2, <1>4 DEF FollowedUp
  <2>3. \A q \in Reqs : shower'[q].at = "quiet" => Stopped(q)'
    BY <2>1 DEF NotifierInv, Quiet
  <2>4. \A q \in Reqs, t \in Sources : ender'[q][t].kind = ender[q][t].kind
    BY <1>4
  <2>5. \A m \in Ids : about'[m] \in Reqs => shower'[about'[m]].id = m \/ FollowedUp(about[m])'
    BY <1>1, <2>1, <2>2 DEF NotifierInv, Quiet
  <2>6. QED
    BY <2>3, <2>4, <2>5 DEF NotifierInv, Quiet
<1>12. Prompts' /\ Latecomers'
  <2>1. \A q \in Reqs, m \in Ids : Closing(q, m) => Closing(q, m)'
    BY <1>1, <1>2, <1>3, <1>4, <1>5, ClosingKept
  <2>2. \A q \in Reqs : Unlooked(q) => Unlooked(q)'
    BY <1>4 DEF Unlooked
  <2>3. QED
    BY <1>1, <2>1, <2>2 DEF NotifierInv, Prompts, Latecomers, Screens
<1>13. Showers' /\ SlowOnes'
  BY NotifierInv DEF NotifierInv, Showers, SlowOnes
<1>14. QED
  BY <1>6, <1>7, <1>8, <1>9, <1>10, <1>11, <1>12, <1>13 DEF NotifierInv

\* RecordFollowUp: the request's entry now leads to the follow-up.
LEMMA RecordFollowUpKeeps ==
    ASSUME NotifierInv, NEW r \in Reqs, NEW s \in Sources, RecordFollowUp(r, s)
    PROVE  NotifierInv'
<1>1. PICK n \in Ids : n = ender[r][s].id
  BY TypedIds DEF RecordFollowUp, NotifierInv, MapsConsistent, Enders
<1>2. /\ ender[r][s].at = "record" /\ about[n] = r /\ n # None
      /\ EnderAt(r, s, "done")
      /\ UNCHANGED <<life, shower, timers, actions, busy, screen, about, stuck, slow, late>>
  BY <1>1, NotifierAssumption DEF RecordFollowUp, Record, server, NotifierInv, Owned
<1>3. /\ ender' \in [Reqs -> [Sources -> Endings]]
      /\ \A q \in Reqs, t \in Sources :
            /\ ender'[q][t].kind = ender[q][t].kind
            /\ ender'[q][t].id = ender[q][t].id
            /\ ender'[q][t].at = IF q = r /\ t = s THEN "done" ELSE ender[q][t].at
  BY <1>2, EnderMoves DEF NotifierInv, MapsConsistent, TypeOK
<1>4. /\ notifications' \in [Reqs -> OptIds] /\ requests' \in [Ids -> Reqs \cup {None}]
      /\ \A q \in Reqs : notifications'[q] = IF q = r THEN n ELSE notifications[q]
      /\ \A m \in Ids : requests'[m] = IF m = n THEN r ELSE requests[m]
  BY <1>1 DEF RecordFollowUp, Record, NotifierInv, MapsConsistent, TypeOK, OptIds
<1>5. \A q \in Reqs : notifications[q] \in Ids \cup {None}
  BY DEF NotifierInv, MapsConsistent, TypeOK, OptIds
<1>6. TypeOK'
  BY <1>1, <1>2, <1>3, <1>4, <1>5 DEF NotifierInv, MapsConsistent, TypeOK
<1>7. MapsConsistent'
  BY <1>2, <1>4, <1>5, <1>6, NotifierAssumption DEF NotifierInv, MapsConsistent
<1>8. Owned'
  BY <1>2, <1>3 DEF NotifierInv, Owned
<1>9. Enders'
  BY <1>2, <1>3 DEF NotifierInv, Enders
<1>10. Quiet'
  <2>1. \A q \in Reqs : (Stopped(q) => Stopped(q)') /\ (FollowedUp(q) => FollowedUp(q)')
    BY <1>2, <1>3, EndsKept
  <2>2. \A q \in Reqs, t \in Sources : ender'[q][t].kind = ender[q][t].kind
    BY <1>3
  <2>3. QED
    BY <1>2, <2>1, <2>2 DEF NotifierInv, Quiet
<1>11. Prompts' /\ Latecomers'
  <2>1. \A q \in Reqs, m \in Ids : Closing(q, m) => Closing(q, m)'
    BY <1>1, <1>2, <1>3, <1>4, <1>5, ClosingKept
  <2>2. /\ \A q \in Reqs : Unlooked(q) => Unlooked(q)'
        /\ ~Unlooked(r)
    BY <1>2, <1>3 DEF Unlooked
  <2>3. QED
    BY <1>2, <1>4, <2>1, <2>2 DEF NotifierInv, Prompts, Latecomers, Screens
<1>12. Showers' /\ SlowOnes' /\ Screens'
  BY <1>2 DEF NotifierInv, Showers, SlowOnes, Screens
<1>13. QED
  BY <1>6, <1>7, <1>8, <1>9, <1>10, <1>11, <1>12 DEF NotifierInv

\* A resolver or a waiter announces an end, at most one a cancellation.
LEMMA EndKeeps ==
    ASSUME NotifierInv, NEW r \in Reqs, NEW s \in Sources, NEW kind \in Kinds, End(r, s, kind),
           life' = [life EXCEPT ![r] = "resolved"],
           UNCHANGED <<shower, timers, notifications, requests, actions, busy, screen, about, stuck, slow, late>>
    PROVE  NotifierInv'
<1>1. /\ ender' \in [Reqs -> [Sources -> Endings]]
      /\ ender[r][s].at = "none" /\ ender[r][s].kind = "none"
      /\ kind = "cancelled" => \A t \in Sources : ender[r][t].kind # "cancelled"
      /\ \A q \in Reqs, t \in Sources :
            ender'[q][t] = IF q = r /\ t = s THEN [at |-> "event", kind |-> kind, id |-> None]
                           ELSE ender[q][t]
  BY EndBegins DEF NotifierInv, MapsConsistent, TypeOK, OptIds, Enders
<1>2. /\ life' \in [Reqs -> {"new", "pending", "resolved"}]
      /\ \A q \in Reqs : life'[q] = "new" => life[q] = "new"
  BY DEF NotifierInv, MapsConsistent, TypeOK
<1>3. TypeOK'
  BY <1>1, <1>2 DEF NotifierInv, MapsConsistent, TypeOK
<1>4. MapsConsistent'
  BY <1>1, <1>2, <1>3 DEF NotifierInv, MapsConsistent
<1>5. Owned'
  BY <1>1, <1>2 DEF NotifierInv, Owned
<1>6. Showers'
  BY <1>1, <1>2 DEF NotifierInv, Showers
<1>7. Enders'
  BY <1>1 DEF NotifierInv, Enders, Kinds
<1>8. Quiet'
  <2>1. \A q \in Reqs : (Stopped(q) => Stopped(q)') /\ (FollowedUp(q) => FollowedUp(q)')
    BY <1>1, EndsKept
  <2>2. \A q \in Reqs, t, u \in Sources :
           ender'[q][t].kind = "cancelled" /\ ender'[q][u].kind = "cancelled" => t = u
    BY <1>1 DEF NotifierInv, Quiet
  <2>3. QED
    BY <2>1, <2>2 DEF NotifierInv, Quiet
<1>9. Prompts' /\ Latecomers'
  <2>1. \A q \in Reqs, m \in Ids : Closing(q, m) => Closing(q, m)'
    BY <1>1, <1>2, ClosingKept
  <2>2. \A q \in Reqs : Unlooked(q) => Unlooked(q)'
    BY <1>1 DEF Unlooked
  <2>3. QED
    BY <2>1, <2>2 DEF NotifierInv, Prompts, Latecomers, Screens
<1>10. SlowOnes' /\ Screens'
  BY NotifierInv DEF NotifierInv, SlowOnes, Screens
<1>11. QED
  BY <1>3, <1>4, <1>5, <1>6, <1>7, <1>8, <1>9, <1>10 DEF NotifierInv

\* Dismiss: the notification is closed.
LEMMA DismissKeeps ==
    ASSUME NotifierInv, NEW n \in Ids, Dismiss(n)
    PROVE  NotifierInv'
<1>1. /\ screen' \in [Ids -> {"unused", "prompt", "followup", "notice", "closed"}]
      /\ screen[n] # "unused"
      /\ \A m \in Ids : screen'[m] = IF m = n THEN "closed" ELSE screen[m]
      /\ UNCHANGED <<life, shower, ender, timers, notifications, requests, actions, busy, about, stuck, slow, late>>
  BY DEF Dismiss, maps, NotifierInv, MapsConsistent, TypeOK
<1>2. /\ \A q \in Reqs : shower[q].id \in Ids \cup {None}
      /\ \A q \in Reqs, t \in Sources : ender[q][t].id \in Ids \cup {None}
      /\ \A d \in Calls : slow[d].id \in Ids \cup {None}
      /\ \A k \in 1..Len(actions) : actions[k].id \in Ids
  BY TypedIds DEF NotifierInv, MapsConsistent
<1>3. TypeOK'
  BY <1>1, <1>2 DEF NotifierInv, MapsConsistent, TypeOK
<1>4. MapsConsistent'
  BY <1>1, <1>2, <1>3 DEF NotifierInv, MapsConsistent
<1>5. Owned'
  BY <1>1, <1>2 DEF NotifierInv, Owned
<1>6. Screens'
  BY <1>1, <1>2 DEF NotifierInv, Screens
<1>7. Prompts' /\ Latecomers'
  BY <1>1, <1>2 DEF NotifierInv, Prompts, Latecomers, Unlooked, Screens, Closing
<1>8. Showers' /\ Enders' /\ SlowOnes' /\ Quiet'
  BY <1>1 DEF NotifierInv, Showers, Enders, SlowOnes, Quiet, Stopped, FollowedUp
<1>9. QED
  BY <1>3, <1>4, <1>5, <1>6, <1>7, <1>8 DEF NotifierInv

\* Click: the notification is closed before the action is in the channel.
LEMMA ClickKeeps ==
    ASSUME NotifierInv, NEW n \in Ids, NEW key \in Keys, Click(n, key)
    PROVE  NotifierInv'
<1>1. /\ screen' \in [Ids -> {"unused", "prompt", "followup", "notice", "closed"}]
      /\ screen[n] # "unused"
      /\ \A m \in Ids : screen'[m] = IF m = n THEN "closed" ELSE screen[m]
      /\ UNCHANGED <<life, shower, ender, timers, notifications, requests, busy, about, stuck, slow, late>>
  BY DEF Click, maps, NotifierInv, MapsConsistent, TypeOK
<1>2. /\ \A q \in Reqs : shower[q].id \in Ids \cup {None}
      /\ \A q \in Reqs, t \in Sources : ender[q][t].id \in Ids \cup {None}
      /\ \A d \in Calls : slow[d].id \in Ids \cup {None}
      /\ \A k \in 1..Len(actions) : actions[k].id \in Ids
  BY TypedIds DEF NotifierInv, MapsConsistent
<1>3. /\ actions' \in Seq([id : Ids, key : Keys]) /\ Len(actions') <= MaxActions
      /\ \A k \in 1..Len(actions') :
            actions'[k].id = n \/ (k \in 1..Len(actions) /\ actions'[k] = actions[k])
  <2>1. actions \in Seq([id : Ids, key : Keys]) /\ Len(actions) \in Nat /\ Len(actions) <= MaxActions
    BY DEF NotifierInv, MapsConsistent, TypeOK
  <2>2. CASE actions' = actions
    BY <2>1, <2>2
  <2>3. CASE Len(actions) < MaxActions /\ actions' = Append(actions, [id |-> n, key |-> key])
    <3>1. /\ actions' \in Seq([id : Ids, key : Keys]) /\ Len(actions') = Len(actions) + 1
          /\ \A k \in 1..Len(actions) : actions'[k] = actions[k]
          /\ actions'[Len(actions) + 1] = [id |-> n, key |-> key]
      BY <2>1, <2>3
    <3>2. ASSUME NEW k \in 1..Len(actions')
          PROVE  actions'[k].id = n \/ (k \in 1..Len(actions) /\ actions'[k] = actions[k])
      <4>1. k \in 1..Len(actions) \/ k = Len(actions) + 1
        BY <2>1, <3>1
      <4>2. QED
        BY <3>1, <4>1
    <3>3. Len(actions') <= MaxActions
      BY <2>1, <2>3, <3>1, NotifierAssumption
    <3>4. QED
      BY <3>1, <3>2, <3>3
  <2>4. QED
    BY <2>2, <2>3 DEF Click
<1>4. TypeOK'
  BY <1>1, <1>2, <1>3 DEF NotifierInv, MapsConsistent, TypeOK
<1>5. MapsConsistent'
  BY <1>1, <1>2, <1>3, <1>4 DEF NotifierInv, MapsConsistent
<1>6. Owned'
  BY <1>1, <1>2, <1>3 DEF NotifierInv, Owned
<1>7. Screens'
  BY <1>1, <1>2, <1>3 DEF NotifierInv, Screens
<1>8. Prompts' /\ Latecomers'
  BY <1>1, <1>2, <1>3 DEF NotifierInv, Prompts, Latecomers, Unlooked, Screens, Closing
<1>9. Showers' /\ Enders' /\ SlowOnes' /\ Quiet'
  BY <1>1 DEF NotifierInv, Showers, Enders, SlowOnes, Quiet, Stopped, FollowedUp
<1>10. QED
  BY <1>4, <1>5, <1>6, <1>7, <1>8, <1>9 DEF NotifierInv

\* The listener takes the first action of the channel.
LEMMA ActionTaken ==
    ASSUME NotifierInv, actions # <<>>, actions' = Tail(actions), screen' = screen
    PROVE  /\ Head(actions).id \in Ids /\ screen[Head(actions).id] = "closed"
           /\ actions' \in Seq([id : Ids, key : Keys]) /\ Len(actions') <= MaxActions
           /\ \A k \in 1..Len(actions') : screen'[actions'[k].id] = "closed"
<1>1. /\ actions \in Seq([id : Ids, key : Keys]) /\ Len(actions) <= MaxActions
      /\ \A k \in 1..Len(actions) : screen[actions[k].id] = "closed"
  BY DEF NotifierInv, MapsConsistent, TypeOK, Screens
<1>2. /\ Len(actions) \in Nat \ {0} /\ actions' \in Seq([id : Ids, key : Keys])
      /\ Len(actions') = Len(actions) - 1
      /\ \A k \in 1..Len(actions') : actions'[k] = actions[k + 1]
  BY <1>1
<1>3. Head(actions) = actions[1] /\ 1 \in 1..Len(actions)
  BY <1>1, <1>2
<1>4. \A k \in 1..Len(actions') : k + 1 \in 1..Len(actions)
  BY <1>2
<1>5. actions[1] \in [id : Ids, key : Keys]
  BY <1>1, <1>3, ElementOfSeq
<1>6. QED
  BY <1>1, <1>2, <1>3, <1>4, <1>5, NotifierAssumption

\* IgnoreAction: nothing but the channel changes.
LEMMA IgnoreActionKeeps ==
    ASSUME NotifierInv, IgnoreAction
    PROVE  NotifierInv'
<1>1. /\ actions # <<>> /\ actions' = Tail(actions) /\ busy' = None
      /\ UNCHANGED <<life, shower, ender, timers, notifications, requests, screen, about, stuck, slow, late>>
  BY DEF IgnoreAction, maps, server
<1>2. /\ actions' \in Seq([id : Ids, key : Keys]) /\ Len(actions') <= MaxActions
      /\ \A k \in 1..Len(actions') : screen'[actions'[k].id] = "closed"
  BY <1>1, ActionTaken
<1>3. TypeOK'
  BY <1>1, <1>2 DEF NotifierInv, MapsConsistent, TypeOK
<1>4. MapsConsistent'
  BY <1>1, <1>2, <1>3 DEF NotifierInv, MapsConsistent
<1>5. Screens'
  BY <1>1, <1>2 DEF NotifierInv, Screens
<1>6. Owned' /\ Showers' /\ Enders' /\ SlowOnes' /\ Quiet' /\ Prompts' /\ Latecomers'
  BY <1>1
     DEF NotifierInv, Owned, Showers, Enders, SlowOnes, Quiet, Prompts, Latecomers, Stopped,
         FollowedUp, Unlooked, Closing
<1>7. QED
  BY <1>3, <1>4, <1>5, <1>6 DEF NotifierInv

\* HandleAction: the entries go, and the notification was closed by the click.
LEMMA HandleActionKeeps ==
    ASSUME NotifierInv, HandleAction
    PROVE  NotifierInv'
<1>1. PICK n \in Ids : n = Head(actions).id /\ screen[n] = "closed"
  BY ActionTaken DEF HandleAction, server
<1>2. PICK r \in Reqs : r = requests[n]
  BY <1>1 DEF HandleAction, NotifierInv, MapsConsistent, TypeOK
<1>3. /\ actions # <<>> /\ actions' = Tail(actions)
      /\ UNCHANGED <<shower, timers, screen, about, stuck, slow, late>>
  BY DEF HandleAction, server
<1>4. /\ notifications' \in [Reqs -> OptIds] /\ requests' \in [Ids -> Reqs \cup {None}]
      /\ \A q \in Reqs : notifications'[q] = IF q = r THEN None ELSE notifications[q]
      /\ \A m \in Ids : requests'[m] = IF m = n THEN None ELSE requests[m]
  BY <1>1, <1>2 DEF HandleAction, NotifierInv, MapsConsistent, TypeOK, OptIds
<1>5. /\ ender' \in [Reqs -> [Sources -> Endings]]
      /\ \A q \in Reqs, t \in Sources :
            \/ ender'[q][t] = ender[q][t]
            \/ /\ ender[q][t].at = "none"
               /\ ender'[q][t] = [at |-> "event", kind |-> "resolved", id |-> None]
      /\ life' \in [Reqs -> {"new", "pending", "resolved"}] /\ busy' \in Reqs \cup {None}
      /\ \A q \in Reqs : life'[q] = "new" => life[q] = "new"
  <2>1. CASE End(r, "resolver", "resolved") /\ life' = [life EXCEPT ![r] = "resolved"] /\ busy' = r
    <3>1. "resolver" \in Sources /\ "resolved" \in Kinds
      BY DEF Sources, Kinds
    <3>2. ender \in [Reqs -> [Sources -> Endings]] /\ None \in OptIds
      BY DEF NotifierInv, MapsConsistent, TypeOK, OptIds
    <3>3. /\ ender' \in [Reqs -> [Sources -> Endings]]
          /\ ender[r]["resolver"].at = "none"
          /\ \A q \in Reqs, t \in Sources :
                ender'[q][t] = IF q = r /\ t = "resolver"
                               THEN [at |-> "event", kind |-> "resolved", id |-> None]
                               ELSE ender[q][t]
      BY <2>1, <3>1, <3>2, EndBegins
    <3>4. QED
      BY <2>1, <3>3 DEF NotifierInv, MapsConsistent, TypeOK
  <2>2. CASE UNCHANGED <<life, ender>> /\ busy' = None
    BY <2>2 DEF NotifierInv, MapsConsistent, TypeOK
  <2>3. QED
    BY <1>1, <1>2, <2>1, <2>2 DEF HandleAction, Resolve
<1>6. /\ actions' \in Seq([id : Ids, key : Keys]) /\ Len(actions') <= MaxActions
      /\ \A k \in 1..Len(actions') : screen'[actions'[k].id] = "closed"
  BY <1>3, ActionTaken
<1>7. \A q \in Reqs : notifications[q] \in Ids \cup {None}
  BY DEF NotifierInv, MapsConsistent, TypeOK, OptIds
<1>8. TypeOK'
  BY <1>3, <1>4, <1>5, <1>6 DEF NotifierInv, MapsConsistent, TypeOK
<1>9. MapsConsistent'
  BY <1>2, <1>3, <1>4, <1>7, <1>8, NotifierAssumption DEF NotifierInv, MapsConsistent
<1>10. Owned'
  BY <1>3, <1>5 DEF NotifierInv, Owned
<1>11. Showers'
  BY <1>3, <1>5 DEF NotifierInv, Showers
<1>12. Enders'
  BY <1>5 DEF NotifierInv, Enders
<1>13. Screens'
  BY <1>3, <1>6 DEF NotifierInv, Screens
<1>14. Quiet'
  <2>1. \A q \in Reqs : (Stopped(q) => Stopped(q)') /\ (FollowedUp(q) => FollowedUp(q)')
    BY <1>5, EndsKept
  <2>2. \A q \in Reqs, t \in Sources : ender'[q][t].kind = "cancelled" => ender[q][t].kind = "cancelled"
    BY <1>5
  <2>3. QED
    BY <1>3, <2>1, <2>2 DEF NotifierInv, Quiet
<1>15. Prompts' /\ Latecomers'
  <2>1. \A q \in Reqs, m \in Ids : Closing(q, m) => Closing(q, m)'
    BY <1>5, ClosingKept
  <2>2. \A q \in Reqs : Unlooked(q) => Unlooked(q)'
    BY <1>5 DEF Unlooked
  <2>3. ASSUME NEW m \in Ids, screen[m] = "prompt", about[m] = r PROVE ~Unlooked(r)
    <3>1. m # n /\ about[n] = r /\ shower[r].id = m
      BY <1>1, <1>2, <2>3, NotifierAssumption DEF NotifierInv, MapsConsistent, Screens
    <3>2. FollowedUp(r)
      BY <3>1 DEF NotifierInv, Quiet
    <3>3. QED
      BY <3>2 DEF FollowedUp, Unlooked
  <2>4. QED
    BY <1>1, <1>3, <1>4, <2>1, <2>2, <2>3 DEF NotifierInv, Prompts, Latecomers, Screens
<1>16. SlowOnes'
  BY <1>3 DEF NotifierInv, SlowOnes
<1>17. QED
  BY <1>8, <1>9, <1>10, <1>11, <1>12, <1>13, <1>14, <1>15, <1>16 DEF NotifierInv

\* WithSlowNotify goes on and shows or closes nothing.
LEMMA SlowMovesKeeps ==
    ASSUME NotifierInv, slow' \in [Calls -> SlowCalls], UNCHANGED <<handler, server>>,
           \A d \in Calls :
              /\ slow'[d].id = slow[d].id
              /\ slow[d].at \in {"wait", "dismiss"} /\ slow[d].id # None => slow'[d].at \in {"wait", "dismiss"}
              /\ slow'[d].at \in {"none", "select", "notify"} => slow[d].at \in {"none", "select", "notify"}
              /\ slow'[d].at = "dismiss" => slow[d].id # None
    PROVE  NotifierInv'
<1>1. UNCHANGED <<life, shower, ender, timers, notifications, requests, actions, busy, screen, about, stuck, late>>
  BY DEF handler, maps, server
<1>2. TypeOK'
  BY <1>1 DEF NotifierInv, MapsConsistent, TypeOK
<1>3. MapsConsistent'
  BY <1>1, <1>2 DEF NotifierInv, MapsConsistent
<1>4. Owned'
  BY <1>1 DEF NotifierInv, Owned
<1>5. SlowOnes'
  BY <1>1 DEF NotifierInv, SlowOnes
<1>6. Screens'
  BY <1>1, NotifierAssumption DEF NotifierInv, Screens
<1>7. Showers' /\ Enders' /\ Quiet' /\ Prompts' /\ Latecomers'
  BY <1>1 DEF NotifierInv, Showers, Enders, Quiet, Prompts, Latecomers, Stopped, FollowedUp,
             Unlooked, Closing
<1>8. QED
  BY <1>2, <1>3, <1>4, <1>5, <1>6, <1>7 DEF NotifierInv

\* The steps of WithSlowNotify between its notice and its dismissal.
LEMMA SlowStepKeeps ==
    ASSUME NotifierInv, NEW c \in Calls,
           \/ CallUpstream(c) \/ UpstreamAnswers(c) \/ AnswerInTime(c)
           \/ ThresholdPasses(c) \/ AnswerLate(c)
    PROVE  NotifierInv'
<1>1. slow \in [Calls -> SlowCalls]
  BY DEF NotifierInv, MapsConsistent, TypeOK
<1>2. CASE CallUpstream(c)
  BY <1>1, <1>2, SlowMoves, SlowMovesKeeps DEF CallUpstream, NotifierInv, SlowOnes
<1>3. CASE UpstreamAnswers(c)
  <2>1. /\ slow' \in [Calls -> SlowCalls]
        /\ \A d \in Calls : slow'[d].id = slow[d].id /\ slow'[d].at = slow[d].at
    BY <1>1, <1>3 DEF UpstreamAnswers, SlowCalls
  <2>2. QED
    BY <1>3, <2>1, SlowMovesKeeps DEF UpstreamAnswers, NotifierInv, SlowOnes
<1>4. CASE AnswerInTime(c)
  BY <1>1, <1>4, SlowMoves, SlowMovesKeeps DEF AnswerInTime, NotifierInv, SlowOnes
<1>5. CASE ThresholdPasses(c)
  BY <1>1, <1>5, SlowMoves, SlowMovesKeeps DEF ThresholdPasses, NotifierInv, SlowOnes
<1>6. CASE AnswerLate(c)
  <2>1. CASE slow[c].id = None
    BY <1>1, <1>6, <2>1, SlowMoves, SlowMovesKeeps DEF AnswerLate, NotifierInv, SlowOnes
  <2>2. CASE slow[c].id # None
    BY <1>1, <1>6, <2>2, SlowMoves, SlowMovesKeeps DEF AnswerLate, NotifierInv, SlowOnes
  <2>3. QED
    BY <2>1, <2>2
<1>7. QED
  BY <1>2, <1>3, <1>4, <1>5, <1>6

\* NotifySlowUpstream shows the notice.
LEMMA NoticeShownKeeps ==
    ASSUME NotifierInv, NEW c \in Calls, NEW n \in Ids, slow[c].at = "notify", Show(n, c, "notice"),
           slow' = [slow EXCEPT ![c].at = "wait", ![c].id = n], UNCHANGED handler
    PROVE  NotifierInv'
<1>1. /\ screen' \in [Ids -> {"unused", "prompt", "followup", "notice", "closed"}]
      /\ about' \in [Ids -> Reqs \cup Calls \cup {None}]
      /\ screen[n] = "unused" /\ about[n] = None /\ n # None /\ requests[n] = None
      /\ \A m \in Ids : /\ screen'[m] = IF m = n THEN "notice" ELSE screen[m]
                        /\ about'[m] = IF m = n THEN c ELSE about[m]
      /\ UNCHANGED stuck
  BY NotifierAssumption DEF Show, Unused, NotifierInv, MapsConsistent, TypeOK, Owned
<1>2. /\ slow' \in [Calls -> SlowCalls]
      /\ \A d \in Calls :
            /\ slow'[d].id = IF d = c THEN n ELSE slow[d].id
            /\ slow'[d].at = IF d = c THEN "wait" ELSE slow[d].at
  <2>1. slow \in [Calls -> SlowCalls] /\ slow[c] \in SlowCalls
    BY DEF NotifierInv, MapsConsistent, TypeOK
  <2>2. slow' = [slow EXCEPT ![c] = [slow[c] EXCEPT !.at = "wait", !.id = n]]
    BY <2>1
  <2> DEFINE new == [slow[c] EXCEPT !.at = "wait", !.id = n]
  <2>3. new \in SlowCalls /\ new.id = n /\ new.at = "wait"
    BY <2>1 DEF SlowCalls, OptIds
  <2> HIDE DEF new
  <2>4. slow' = [slow EXCEPT ![c] = new]
    BY <2>2 DEF new
  <2>5. QED
    BY <2>1, <2>3, <2>4
<1>3. UNCHANGED <<life, shower, ender, timers, notifications, requests, actions, busy, late>>
  BY DEF handler, maps
<1>4. slow[c].id = None
  BY DEF NotifierInv, SlowOnes
<1>5. /\ \A q \in Reqs : shower[q].id \in Ids \cup {None}
      /\ \A q \in Reqs, t \in Sources : ender[q][t].id \in Ids \cup {None}
      /\ \A d \in Calls : slow[d].id \in Ids \cup {None}
      /\ \A k \in 1..Len(actions) : actions[k].id \in Ids
  BY TypedIds DEF NotifierInv, MapsConsistent
<1>6. TypeOK'
  BY SMTT(30), <1>1, <1>2, <1>3 DEF NotifierInv, MapsConsistent, TypeOK
<1>7. MapsConsistent'
  BY <1>1, <1>3, <1>6, NotifierAssumption DEF NotifierInv, MapsConsistent
<1>8. Owned'
  BY <1>1, <1>2, <1>3, <1>4, <1>5, NotifierAssumption DEF NotifierInv, Owned
<1>9. SlowOnes'
  BY <1>1, <1>2, <1>3, <1>4, <1>5 DEF NotifierInv, SlowOnes
<1>10. Screens'
  BY <1>1, <1>2, <1>3, <1>4, <1>5, NotifierAssumption DEF NotifierInv, Screens
<1>11. Quiet'
  BY <1>1, <1>3, NotifierAssumption DEF NotifierInv, Quiet, Stopped, FollowedUp
<1>12. Prompts' /\ Latecomers'
  BY <1>1, <1>2, <1>3, <1>4, <1>5 DEF NotifierInv, Prompts, Latecomers, Unlooked, Screens, Closing
<1>13. Showers' /\ Enders'
  BY <1>3 DEF NotifierInv, Showers, Enders
<1>14. QED
  BY <1>6, <1>7, <1>8, <1>9, <1>10, <1>11, <1>12, <1>13 DEF NotifierInv

\* DismissNotice: the notice of the call is closed before it returns.
LEMMA DismissNoticeKeeps ==
    ASSUME NotifierInv, NEW c \in Calls, DismissNotice(c)
    PROVE  NotifierInv'
<1>1. /\ slow[c].at = "dismiss"
      /\ UNCHANGED <<life, shower, ender, timers, notifications, requests, actions, busy, about, late>>
  BY DEF DismissNotice, handler, maps
<1>2. PICK n \in Ids : n = slow[c].id /\ n # None
  BY <1>1, TypedIds DEF NotifierInv, MapsConsistent, SlowOnes
<1>3. /\ screen' \in [Ids -> {"unused", "prompt", "followup", "notice", "closed"}]
      /\ stuck \subseteq stuck' /\ stuck' \subseteq Ids
      /\ \A m \in Ids : \/ screen'[m] = screen[m] /\ (m = n => n \in stuck')
                        \/ m = n /\ screen'[m] = "closed"
  BY <1>2, CloseOne DEF DismissNotice, NotifierInv, MapsConsistent, TypeOK
<1>4. about[n] = c /\ screen[n] # "unused"
  BY <1>2, NotifierAssumption DEF NotifierInv, Owned
<1>5. /\ slow' \in [Calls -> SlowCalls]
      /\ \A d \in Calls : /\ slow'[d].id = slow[d].id
                          /\ slow'[d].at = IF d = c THEN "returned" ELSE slow[d].at
  BY SlowMoves DEF DismissNotice, NotifierInv, MapsConsistent, TypeOK
<1>6. /\ \A q \in Reqs : shower[q].id \in Ids \cup {None}
      /\ \A q \in Reqs, t \in Sources : ender[q][t].id \in Ids \cup {None}
      /\ \A d \in Calls : slow[d].id \in Ids \cup {None}
      /\ \A k \in 1..Len(actions) : actions[k].id \in Ids
  BY TypedIds DEF NotifierInv, MapsConsistent
<1>7. TypeOK'
  BY <1>1, <1>2, <1>3, <1>4, <1>5, <1>6 DEF NotifierInv, MapsConsistent, TypeOK
<1>8. MapsConsistent'
  BY <1>1, <1>2, <1>3, <1>4, <1>5, <1>6, <1>7 DEF NotifierInv, MapsConsistent
<1>9. Owned'
  BY <1>1, <1>2, <1>3, <1>4, <1>5, <1>6 DEF NotifierInv, Owned
<1>10. SlowOnes'
  BY <1>1, <1>2, <1>3, <1>4, <1>5, <1>6 DEF NotifierInv, SlowOnes
<1>11. Screens'
  BY <1>1, <1>2, <1>3, <1>4, <1>5, <1>6 DEF NotifierInv, Screens
<1>12. Prompts' /\ Latecomers'
  BY <1>1, <1>2, <1>3, <1>4, <1>5, <1>6 DEF NotifierInv, Prompts, Latecomers, Unlooked, Screens, Closing
<1>13. Showers' /\ Enders' /\ Quiet'
  BY <1>1 DEF NotifierInv, Showers, Enders, Quiet, Stopped, FollowedUp
<1>14. QED
  BY <1>7, <1>8, <1>9, <1>10, <1>11, <1>12, <1>13 DEF NotifierInv


-----------------------------------------------------------------------------
(* The invariant *)

\* Every step keeps the invariant.
LEMMA StepKeeps == NotifierInv /\ [Next]_vars => NotifierInv'
<1> SUFFICES ASSUME NotifierInv, [Next]_vars PROVE NotifierInv'
  OBVIOUS
<1>1. ASSUME NEW r \in Reqs, NEW kind \in Kinds, ResolveElsewhere(r, kind) \/ GiveUp(r, kind)
      PROVE  NotifierInv'
  <2>1. {"resolver", "waiter"} \subseteq Sources
    BY DEF Sources
  <2>2. PICK s \in Sources : End(r, s, kind)
    BY <1>1, <2>1 DEF ResolveElsewhere, Resolve, GiveUp
  <2>3. /\ life' = [life EXCEPT ![r] = "resolved"]
        /\ UNCHANGED <<shower, timers, notifications, requests, actions, busy, screen, about, stuck, slow, late>>
    BY <1>1 DEF ResolveElsewhere, Resolve, GiveUp, maps, server
  <2>4. QED
    BY <2>2, <2>3, EndKeeps
<1>2. ASSUME NEW r \in Reqs, SendNotification(r) PROVE NotifierInv'
  <2>1. /\ shower[r].at = "notify"
        /\ UNCHANGED <<life, ender, timers, notifications, requests, actions, busy, slow, late>>
    BY <1>2 DEF SendNotification, maps
  <2>2. CASE ShowerAt(r, "done") /\ UNCHANGED server
    BY <2>1, <2>2, PromptFailsKeeps DEF server
  <2>3. ASSUME NEW n \in Ids, Show(n, r, "prompt"),
               shower' = [shower EXCEPT ![r] = [at |-> "record", id |-> n]]
        PROVE  NotifierInv'
    BY <2>1, <2>3, PromptShownKeeps
  <2>4. QED
    BY <1>2, <2>2, <2>3 DEF SendNotification
<1>3. ASSUME NEW r \in Reqs, NEW s \in Sources, SendFollowUp(r, s) PROVE NotifierInv'
  <2>1. /\ ender[r][s].at = "follow"
        /\ UNCHANGED <<life, shower, timers, notifications, requests, actions, busy, slow, late>>
    BY <1>3 DEF SendFollowUp, maps
  <2>2. CASE EnderAt(r, s, "done") /\ UNCHANGED server
    BY <2>1, <2>2, FollowUpFailsKeeps DEF server
  <2>3. ASSUME NEW n \in Ids, Show(n, r, "followup"), EnderWith(r, s, "record", n)
        PROVE  NotifierInv'
    BY <2>1, <2>3, FollowUpShownKeeps
  <2>4. QED
    BY <1>3, <2>2, <2>3 DEF SendFollowUp
<1>4. ASSUME NEW c \in Calls, NotifySlowUpstream(c) PROVE NotifierInv'
  <2>1. slow[c].at = "notify" /\ UNCHANGED handler /\ slow \in [Calls -> SlowCalls]
    BY <1>4 DEF NotifySlowUpstream, NotifierInv, MapsConsistent, TypeOK
  <2>2. CASE SlowAt(c, "wait") /\ UNCHANGED server
    BY <2>1, <2>2, SlowMoves, SlowMovesKeeps DEF NotifierInv, SlowOnes
  <2>3. ASSUME NEW n \in Ids, Show(n, c, "notice"), slow' = [slow EXCEPT ![c].at = "wait", ![c].id = n]
        PROVE  NotifierInv'
    BY <2>1, <2>3, NoticeShownKeeps
  <2>4. QED
    BY <1>4, <2>2, <2>3 DEF NotifySlowUpstream
<1>5. ASSUME NEW r \in Reqs, NEW s \in Sources, EnderStep(r, s) PROVE NotifierInv'
  BY <1>3, <1>5, TimerStoppedKeeps, NoTimerKeeps, NothingFoundKeeps, EntriesTakenKeeps,
     CloseNotificationKeeps, RecordFollowUpKeeps DEF EnderStep
<1>6. ASSUME NEW r \in Reqs, ShowerStep(r) PROVE NotifierInv'
  BY <1>2, <1>6, HandleCreatedKeeps, TimerFiresKeeps, RecordNotificationKeeps DEF ShowerStep
<1>7. ASSUME NEW c \in Calls, SlowStep(c) PROVE NotifierInv'
  BY <1>4, <1>7, SlowStepKeeps, DismissNoticeKeeps DEF SlowStep
<1>8. CASE Environment
  BY <1>1, <1>8, CreateKeeps, DismissKeeps, ClickKeeps DEF Environment
<1>9. CASE UNCHANGED vars
  <2>1. UNCHANGED <<life, shower, ender, timers, notifications, requests, actions, busy, screen, about, stuck, slow, late>>
    BY <1>9 DEF vars, maps, server
  <2>2. TypeOK'
    BY <2>1 DEF NotifierInv, MapsConsistent, TypeOK
  <2>3. MapsConsistent' /\ Owned' /\ Showers' /\ Enders' /\ SlowOnes'
    BY <2>1, <2>2 DEF NotifierInv, MapsConsistent, Owned, Showers, Enders, SlowOnes
  <2>4. Screens' /\ Quiet' /\ Prompts' /\ Latecomers'
    BY <2>1 DEF NotifierInv, Screens, Quiet, Stopped, FollowedUp, Prompts, Latecomers, Unlooked, Closing
  <2>5. QED
    BY <2>3, <2>4 DEF NotifierInv
<1>10. QED
  BY <1>5, <1>6, <1>7, <1>8, <1>9, IgnoreActionKeeps, HandleActionKeeps DEF Next

\* NotifierInv is an invariant.
LEMMA NotifierInvariance == Spec => []NotifierInv
<1>1. Init => NotifierInv
  <2> SUFFICES ASSUME Init PROVE NotifierInv
    OBVIOUS
  <2>1. /\ \A r \in Reqs : life[r] = "new" /\ shower[r].at = "none" /\ shower[r].id = None /\ notifications[r] = None
        /\ \A r \in Reqs, s \in Sources : /\ ender[r][s].at = "none" /\ ender[r][s].kind = "none"
                                          /\ ender[r][s].id = None
        /\ \A n \in Ids : screen[n] = "unused" /\ requests[n] = None /\ about[n] = None
        /\ \A c \in Calls : slow[c].at = "none" /\ slow[c].id = None
        /\ actions = <<>> /\ Len(actions) = 0 /\ late = {} /\ stuck = {}
    BY DEF Init
  <2>2. TypeOK
    <3>1. [at |-> "none", kind |-> "none", id |-> None] \in Endings
      BY DEF Endings, OptIds
    <3>2. [at |-> "none", id |-> None] \in Handlings /\ [at |-> "none", answered |-> FALSE, id |-> None] \in SlowCalls
      BY DEF Handlings, SlowCalls, OptIds
    <3>3. timers = {r \in Reqs : shower[r].at = "timer"}
      BY <2>1 DEF Init
    <3>4. ender \in [Reqs -> [Sources -> Endings]] /\ shower \in [Reqs -> Handlings] /\ slow \in [Calls -> SlowCalls]
      BY <3>1, <3>2 DEF Init
    <3>5. /\ notifications \in [Reqs -> OptIds] /\ requests \in [Ids -> Reqs \cup {None}]
          /\ life \in [Reqs -> {"new", "pending", "resolved"}] /\ busy \in Reqs \cup {None}
          /\ screen \in [Ids -> {"unused", "prompt", "followup", "notice", "closed"}]
          /\ about \in [Ids -> Reqs \cup Calls \cup {None}]
      BY DEF Init, OptIds
    <3>6. actions \in Seq([id : Ids, key : Keys]) /\ Len(actions) <= MaxActions
      BY <2>1, NotifierAssumption
    <3>7. QED
      BY <2>1, <3>3, <3>4, <3>5, <3>6 DEF TypeOK
  <2>3. MapsConsistent /\ Owned /\ Showers /\ Enders /\ SlowOnes
    BY <2>1, <2>2 DEF MapsConsistent, Owned, Showers, Enders, SlowOnes
  <2>4. Screens /\ Quiet /\ Latecomers /\ Prompts
    BY <2>1, NotifierAssumption DEF Screens, Quiet, Prompts, Latecomers, Unlooked
  <2>5. QED
    BY <2>3, <2>4 DEF NotifierInv
<1>2. QED
  BY <1>1, StepKeeps, PTL DEF Spec

-----------------------------------------------------------------------------
(* Theorems *)

\* The two maps agree, and an ID only ever leads to the request it was shown
\* for: no click decides another request (sendNotification, handleAction).
THEOREM MapsAgree == Spec => []MapsConsistent
<1>1. NotifierInv => MapsConsistent
  BY DEF NotifierInv
<1>2. QED
  BY <1>1, NotifierInvariance, PTL

\* A recorded prompt on the screen leads to its request, and one that is there
\* after the end of its request was handled came late or could not be closed
\* (handleResolved, handleCancelled, handleAction).
THEOREM PromptsAreAlive == Spec => []NoDeadButton
<1>1. NotifierInv => NoDeadButton
  BY NotifierAssumption DEF NotifierInv, MapsConsistent, Screens, Prompts, NoDeadButton
<1>2. QED
  BY <1>1, NotifierInvariance, PTL

\* A request that was cancelled within the grace period is never shown
\* (delayGroup.Cancel).
THEOREM EarlyCancelIsQuiet == Spec => []QuietWhenCancelledEarly
<1>1. ASSUME NotifierInv PROVE QuietWhenCancelledEarly
  <2> SUFFICES ASSUME NEW r \in Reqs, shower[r].at = "quiet",
                      \A s \in Sources : ender[r][s].kind # "resolved",
                      NEW n \in Ids, about[n] = r
               PROVE  FALSE
    BY DEF QuietWhenCancelledEarly
  <2>1. PICK s \in Sources : ender[r][s].at = "suppressed"
    BY <1>1 DEF NotifierInv, Quiet, Stopped
  <2>2. ender[r][s].kind = "cancelled"
    <3>1. ender[r][s] \in Endings
      BY <1>1 DEF NotifierInv, MapsConsistent, TypeOK
    <3>2. ender[r][s].kind # "none"
      BY <1>1, <2>1 DEF NotifierInv, Enders
    <3>3. QED
      BY <3>1, <3>2 DEF Endings, Kinds
  <2>3. shower[r].id = None
    BY <1>1 DEF NotifierInv, Showers
  <2>4. PICK t \in Sources : ender[r][t].kind = "cancelled" /\ ender[r][t].at \in {"record", "done"}
    BY <1>1, <2>3, NotifierAssumption DEF NotifierInv, Quiet, FollowedUp
  <2>5. s = t
    BY <1>1, <2>2, <2>4 DEF NotifierInv, Quiet
  <2>6. QED
    BY <2>1, <2>4, <2>5
<1>2. QED
  BY <1>1, NotifierInvariance, PTL

\* A notice on the screen is about an upstream call that has not returned, or
\* the server failed to close it (WithSlowNotify).
THEOREM NoticesAreTrue == Spec => []NoticeMeansWaiting
<1>1. NotifierInv => NoticeMeansWaiting
  BY DEF NotifierInv, Screens, Owned, NoticeMeansWaiting
<1>2. QED
  BY <1>1, NotifierInvariance, PTL
=============================================================================
