------------------------------- MODULE RuleBook -------------------------------
(***************************************************************************)
(* The rules an approval manager holds (manager.go): the trust rules of    *)
(* the configuration, and the slice of auto-approve rules, which           *)
(* AddAutoApproveRule extends or refreshes, checkAutoApproveRules compacts *)
(* in place and RemoveAutoApproveRule shifts, under a lock that is         *)
(* released before a rule is announced.                                    *)
(*                                                                         *)
(* The slice is modelled with its backing arrays, since the announcement   *)
(* of a refreshed rule reads through a pointer into one of them, field by  *)
(* field and without the lock: what it finds while the place is written is *)
(* left open.                                                              *)
(***************************************************************************)
EXTENDS TrustRules

CONSTANTS
    Deciders,          \* goroutines that auto-approve a request
    Requests,          \* what they are about: [sender, items, type]
    TrustRuleLists,    \* configurations
    SenderInfos,       \* senders: [pid, chain, unit, trusted]
    Batches,           \* the items of a request, at least one
    NoRule,            \* a place of an array that was never written
    NoRequest,         \* before a decider has a request
    Mixed,             \* an announcement that is no rule: the fields of several, or worse
    RuleTTL,           \* how long a rule lives
    MaxTime            \* bound: the clock

ASSUME TimeAssumption == RuleTTL \in Nat /\ MaxTime \in Nat

\* Slices: a configuration may be empty, a batch is not.
ASSUME SliceAssumption ==
    /\ \A list \in TrustRuleLists : DOMAIN list \subseteq Nat \ {0}
    /\ \A batch \in Batches : batch # <<>> /\ DOMAIN batch # {}

VARIABLES
    trustRules,    \* Manager.trustRules
    heap,          \* the backing arrays of Manager.autoApproveRules, the last one in use
    len,           \* len(Manager.autoApproveRules)
    now,           \* clock
    ask,           \* the request of each decider
    pc,            \* where its AddAutoApproveRule is
    existing,      \* its pointer, if it refreshed a rule: <<array, index>>
    announced,     \* the rule in its event
    garbled,       \* deciders whose place was written while their event was read
    until,         \* history: when its permission ends
    revoked        \* history: deciders whose rule the user removed

vars == <<trustRules, heap, len, now, ask, pc, existing, announced, garbled, until, revoked>>

NoPointer == <<0, 0>>

Arr == heap[Len(heap)]

\* The rule of a request, from the first of its items; a search is never pending.
RuleFrom(request) == AutoRule(request.sender, request.items, request.type, NoAttributes)
RuleBy(d) == RuleFrom(ask[d])

\* A rule that speaks for the request it is made from: the executable is known,
\* the values match themselves, and every item of the batch is as the first.
Rulable(request) == AutoRuleMatches(RuleFrom(request), request.sender, request.items, request.type)

Timed(rule, t) == [exe |-> rule.exe, type |-> rule.type, collection |-> rule.collection,
                   attributes |-> rule.attributes, expires |-> t]
Scope(rule) == <<rule.exe, rule.type, rule.collection, rule.attributes>>

\* Mutant: !ExpiresAt.After(now), as the list of rules has it (manager.go:835).
ExpiredAtEnd(rule) == rule.expires <= now

Expired(rule) == rule.expires < now

\* Attribute maps are finite functions, and a rule is not an unwritten place.
ASSUME RequestAssumption ==
    \A request \in Requests :
        /\ \A t \in 0..(MaxTime + RuleTTL) : Timed(RuleFrom(request), t) # NoRule
        /\ LET attrs == RuleFrom(request).attributes
           IN  IsFiniteSet(DOMAIN attrs) /\ attrs = [k \in DOMAIN attrs |-> attrs[k]]

Init ==
    /\ trustRules \in TrustRuleLists
    /\ heap = << <<>> >>
    /\ len = 0
    /\ now = 0
    /\ ask = [d \in Deciders |-> NoRequest]
    /\ pc = [d \in Deciders |-> "idle"]
    /\ existing = [d \in Deciders |-> NoPointer]
    /\ announced = [d \in Deciders |-> NoRule]
    /\ garbled = {}
    /\ until = [d \in Deciders |-> 0]
    /\ revoked = {}

-----------------------------------------------------------------------------

\* append: into the array while its capacity lasts, else into a larger one.
Appended(rule) ==
    IF len < Len(Arr)
    THEN [heap EXCEPT ![Len(heap)] = [Arr EXCEPT ![len + 1] = rule]]
    ELSE Append(heap, [n \in 1..(IF len = 0 THEN 1 ELSE 2 * len) |->
                          CASE n <= len -> Arr[n] [] n = len + 1 -> rule [] OTHER -> NoRule])

\* The events that are being read where this step writes something else.
Overwritten ==
    {d \in Deciders :
        /\ pc[d] = "reading" /\ existing[d] # NoPointer
        /\ heap'[existing[d][1]][existing[d][2]] # heap[existing[d][1]][existing[d][2]]}

\* AddAutoApproveRule, under the lock: the first rule that is taken for the new
\* one gets its expiry, otherwise the new one is appended.
AddAutoApproveRule(d, request) ==
    /\ pc[d] = "idle"
    /\ pc' = [pc EXCEPT ![d] = "announce"]
    /\ ask' = [ask EXCEPT ![d] = request]
    /\ until' = [until EXCEPT ![d] = now + RuleTTL]
    /\ LET same == {n \in 1..len : SameAutoRule(Arr[n], RuleFrom(request))}
           n == CHOOSE m \in same : \A k \in same : m <= k
       IN  \/ /\ same # {}
              /\ heap' = [heap EXCEPT ![Len(heap)] = [Arr EXCEPT ![n] = Timed(Arr[n], now + RuleTTL)]]
              /\ existing' = [existing EXCEPT ![d] = <<Len(heap), n>>]
              /\ UNCHANGED len
           \/ /\ same = {}
              /\ heap' = Appended(Timed(RuleFrom(request), now + RuleTTL))
              /\ len' = len + 1
              /\ UNCHANGED existing
    /\ garbled' = garbled \cup Overwritten
    /\ UNCHANGED <<trustRules, now, announced, revoked>>

\* notify, after the unlock: an observer begins to read the rule of the event.
Observe(d) ==
    /\ pc[d] = "announce"
    /\ pc' = [pc EXCEPT ![d] = "reading"]
    /\ UNCHANGED <<trustRules, heap, len, now, ask, existing, announced, garbled, until, revoked>>

\* It has read it: a copy of the new rule, or what it found through the pointer
\* to the refreshed one, which is not one rule if the place was written meanwhile.
Announce(d) ==
    /\ pc[d] = "reading"
    /\ pc' = [pc EXCEPT ![d] = "done"]
    /\ announced' = [announced EXCEPT ![d] =
           IF existing[d] = NoPointer THEN Timed(RuleBy(d), until[d])
             ELSE IF d \in garbled THEN Mixed ELSE heap[existing[d][1]][existing[d][2]]]
    /\ UNCHANGED <<trustRules, heap, len, now, ask, existing, garbled, until, revoked>>

\* The places of the rules that have not expired, and the list of them in order.
Live == {n \in 1..len : ~Expired(Arr[n])}
ListsLive(keep, k) ==
    /\ \A m, n \in 1..k : m < n => keep[m] < keep[n]
    /\ \A n \in Live : \E m \in 1..k : keep[m] = n

\* Mutant: the freed places of the array are cleared, as slices.DeleteFunc does.
CompactClearing ==
    /\ \E k \in 0..len : \E keep \in [1..k -> Live] :
          /\ ListsLive(keep, k)
          /\ heap' = [heap EXCEPT ![Len(heap)] = [n \in DOMAIN Arr |-> IF n <= k THEN Arr[keep[n]] ELSE NoRule]]
          /\ len' = k
    /\ garbled' = garbled \cup Overwritten
    /\ UNCHANGED <<trustRules, now, ask, pc, existing, announced, until, revoked>>

\* checkAutoApproveRules, of any request: expired rules are dropped in place,
\* and what lay beyond the new end stays in the array.
Compact ==
    /\ \E k \in 0..len : \E keep \in [1..k -> Live] :
          /\ ListsLive(keep, k)
          /\ heap' = [heap EXCEPT ![Len(heap)] = [n \in DOMAIN Arr |-> IF n <= k THEN Arr[keep[n]] ELSE Arr[n]]]
          /\ len' = k
    /\ garbled' = garbled \cup Overwritten
    /\ UNCHANGED <<trustRules, now, ask, pc, existing, announced, until, revoked>>

\* RemoveAutoApproveRule: append(rules[:n], rules[n+1:]...), in place too.
RemoveAutoApproveRule(n) ==
    /\ heap' = [heap EXCEPT ![Len(heap)] = [m \in DOMAIN Arr |-> IF m >= n /\ m < len THEN Arr[m + 1] ELSE Arr[m]]]
    /\ len' = len - 1
    /\ garbled' = garbled \cup Overwritten
    /\ revoked' = revoked \cup {d \in Deciders : pc[d] # "idle" /\ SameAutoRule(Arr[n], RuleBy(d))}
    /\ UNCHANGED <<trustRules, now, ask, pc, existing, announced, until>>

Tick ==
    /\ now < MaxTime
    /\ now' = now + 1
    /\ UNCHANGED <<trustRules, heap, len, ask, pc, existing, announced, garbled, until, revoked>>

Next ==
    \/ \E d \in Deciders :
          Observe(d) \/ Announce(d) \/ \E request \in Requests : AddAutoApproveRule(d, request)
    \/ Compact
    \/ \E n \in 1..len : RemoveAutoApproveRule(n)
    \/ Tick

Spec == Init /\ [][Next]_vars

-----------------------------------------------------------------------------
(* Properties *)

\* Types: the slice lies within its array, and holds one rule for each scope,
\* so that removing a rule removes the permission (AddAutoApproveRule).
TypeOK ==
    /\ len \in 0..Len(Arr)
    /\ now \in 0..MaxTime
    /\ pc \in [Deciders -> {"idle", "announce", "reading", "done"}]
    /\ \A n \in 1..len : Arr[n] # NoRule
    /\ \A m, n \in 1..len : Scope(Arr[m]) = Scope(Arr[n]) => m = n
    /\ garbled \subseteq Deciders /\ revoked \subseteq Deciders

\* No item gets through, or hides, in the company of others: a batch that the
\* configuration approves is approved item by item, and one item that it
\* refuses is enough for the batch, whatever the order and the overlap of
\* approve, deny and ignore rules (CheckTrustRules, matchTrustRule,
\* matchSecret).
NoSmuggling ==
    \A s \in SenderInfos, type \in {"get_secret", "write"}, batch \in Batches :
        LET all == Verdict(trustRules, s, batch, type, NoAttributes)
            verdicts == {Verdict(trustRules, s, <<batch[n]>>, type, NoAttributes) : n \in DOMAIN batch}
        IN  /\ all = "approve" => verdicts = {"approve"}
            /\ verdicts \cap {"deny", "ignore"} # {} => all \in {"deny", "ignore"}

HasEmpty(rule) == \E k \in DOMAIN rule.attributes : rule.attributes[k] = Empty

\* From the moment the user chose to auto-approve a request whose rule speaks
\* for all of it until that permission ends or he removes it, a retry of the
\* same batch is granted: by the new rule, or by the one that was refreshed in
\* its place, whatever was compacted and shifted since.  The one way to lose
\* the permission: attributesEqual takes a rule that asks for an empty value
\* for the new one, and an item of the batch behind the first has that value
\* (AddAutoApproveRule, checkAutoApproveRules, autoApproveCoversAll,
\* RemoveAutoApproveRule).
RetryGranted ==
    /\ TypeOK
    /\ \A d \in Deciders :
          (/\ pc[d] # "idle"
           /\ Rulable(ask[d])
           /\ now <= until[d]
           /\ d \notin revoked)
              => \E n \in 1..len :
                    /\ ~Expired(Arr[n])
                    /\ \/ AutoRuleMatches(Arr[n], ask[d].sender, ask[d].items, ask[d].type)
                       \/ /\ DOMAIN ask[d].items \ {1} # {}
                          /\ HasEmpty(Arr[n]) /\ SameAutoRule(Arr[n], RuleBy(d))

\* A decision prolongs no rule of another scope, unless that rule asks for an
\* empty value, which attributesEqual also finds in an absent key.
RefreshKeepsScope ==
    [][\A d \in Deciders : ask[d] # ask'[d] =>
          \A n \in 1..len :
              Scope(Arr[n]) # Scope(RuleFrom(ask'[d])) /\ ~HasEmpty(Arr[n])
                  => heap'[Len(heap')][n] = Arr[n]]_vars

\* What is announced as added is a rule the user made: the pointer may by then
\* show another one, in a place beyond the end of the slice or in an array that
\* is no longer in use, but never an unwritten place.  Only an event that is
\* read while its place is written can be no rule at all (notify in
\* AddAutoApproveRule, after the unlock; OnEvent marshals the rule).
AnnouncedMade ==
    \A d \in Deciders :
        pc[d] = "done" /\ announced[d] # Mixed =>
            /\ announced[d] # NoRule
            /\ \E e \in Deciders : pc[e] # "idle" /\ Scope(announced[d]) = Scope(RuleBy(e))

=============================================================================
