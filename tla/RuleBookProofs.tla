---------------------------- MODULE RuleBookProofs ----------------------------
(***************************************************************************)
(* Proofs about RuleBook, for every configuration, batch and sequence of   *)
(* decisions: the verdict on a batch and on its items agree, and the slice *)
(* of auto-approve rules holds what the user decided.                      *)
(***************************************************************************)
EXTENDS RuleBook, SequenceTheorems, FiniteSetTheorems, WellFoundedInduction, TLAPS

\* The first place of a set of places, which the loops over a slice find.
LEMMA FirstPlace ==
    ASSUME NEW S, S \subseteq Nat, S # {}
    PROVE  /\ (CHOOSE n \in S : \A m \in S : n <= m) \in S
           /\ \A m \in S : (CHOOSE n \in S : \A k \in S : n <= k) <= m
<1>1. PICK x \in S : \A y \in S : ~(<<y, x>> \in OpToRel(<, Nat))
  BY NatLessThanWellFounded, WFMin
<1>2. \A y \in S : ~(y < x)
  BY <1>1 DEF OpToRel
<1>3. \E n \in S : \A m \in S : n <= m
  BY <1>2
<1>4. QED
  BY <1>3

-----------------------------------------------------------------------------
(* Trust rules *)

\* A rule that refuses one item refuses the batch, and a rule that approves
\* the batch approves each item (matchSecret).
LEMMA BatchAndItem ==
    ASSUME NEW rule, NEW s, NEW type, NEW batch \in Batches, NEW k \in DOMAIN batch
    PROVE  /\ Restrictive(rule) /\ matchTrustRule(rule, s, <<batch[k]>>, type, NoAttributes) =>
                 matchTrustRule(rule, s, batch, type, NoAttributes)
           /\ ~Restrictive(rule) /\ matchTrustRule(rule, s, batch, type, NoAttributes) =>
                 matchTrustRule(rule, s, <<batch[k]>>, type, NoAttributes)
<1> DEFINE one == <<batch[k]>>
<1>1. DOMAIN one = {1} /\ one[1] = batch[k] /\ one # <<>>
  OBVIOUS
<1> HIDE DEF one
<1>2. Restrictive(rule) /\ matchSecret(rule.secret, one, Restrictive(rule)) =>
         matchSecret(rule.secret, batch, Restrictive(rule))
  BY <1>1 DEF matchSecret
<1>3. ~Restrictive(rule) /\ matchSecret(rule.secret, batch, Restrictive(rule)) =>
         matchSecret(rule.secret, one, Restrictive(rule))
  BY <1>1 DEF matchSecret
<1>4. QED
  BY <1>2, <1>3 DEF matchTrustRule, one

\* CheckTrustRules: the first rule that matches decides.
LEMMA VerdictIsFirst ==
    ASSUME NEW list \in TrustRuleLists, NEW s, NEW items, NEW type
    PROVE  LET hits == {n \in DOMAIN list : matchTrustRule(list[n], s, items, type, NoAttributes)}
               v == Verdict(list, s, items, type, NoAttributes)
           IN  \/ hits = {} /\ v = "none"
               \/ \E n \in hits : /\ \A m \in hits : n <= m
                                  /\ v = IF Restrictive(list[n]) THEN list[n].action ELSE "approve"
<1> DEFINE hits == {n \in DOMAIN list : matchTrustRule(list[n], s, items, type, NoAttributes)}
           first == CHOOSE n \in hits : \A m \in hits : n <= m
           n0 == FirstTrustRule(list, s, items, type, NoAttributes)
<1>1. hits \subseteq Nat \ {0}
  BY SliceAssumption
<1>2. CASE hits = {}
  <2>1. n0 = 0
    BY <1>2 DEF FirstTrustRule
  <2>2. QED
    BY <1>2, <2>1 DEF Verdict
<1>3. CASE hits # {}
  <2>1. first \in hits /\ \A m \in hits : first <= m
    <3> HIDE DEF hits
    <3>1. QED
      BY <1>1, <1>3, FirstPlace
  <2>2. n0 = first
    BY <1>3 DEF FirstTrustRule
  <2>3. first # 0
    BY <1>1, <2>1
  <2>4. Verdict(list, s, items, type, NoAttributes)
          = IF Restrictive(list[first]) THEN list[first].action ELSE "approve"
    BY <2>2, <2>3 DEF Verdict
  <2>5. QED
    BY <2>1, <2>4
<1>4. QED
  BY <1>2, <1>3

\* One item that is refused is enough, and a batch is approved item by item.
LEMMA BatchVerdict ==
    ASSUME NEW list \in TrustRuleLists, NEW s, NEW type, NEW batch \in Batches, NEW k \in DOMAIN batch
    PROVE  LET all == Verdict(list, s, batch, type, NoAttributes)
               one == Verdict(list, s, <<batch[k]>>, type, NoAttributes)
           IN  /\ all = "approve" => one = "approve"
               /\ one \in {"deny", "ignore"} => all \in {"deny", "ignore"}
<1> DEFINE Hit(n, items) == n \in DOMAIN list /\ matchTrustRule(list[n], s, items, type, NoAttributes)
           all == Verdict(list, s, batch, type, NoAttributes)
           one == Verdict(list, s, <<batch[k]>>, type, NoAttributes)
<1>1. \A n \in DOMAIN list : n \in Nat
  BY SliceAssumption
<1>2. \A n : Restrictive(list[n]) /\ Hit(n, <<batch[k]>>) => Hit(n, batch)
  BY BatchAndItem
<1>3. \A n : ~Restrictive(list[n]) /\ Hit(n, batch) => Hit(n, <<batch[k]>>)
  BY BatchAndItem
<1>4. \A n : Restrictive(list[n]) <=> list[n].action \in {"deny", "ignore"}
  BY DEF Restrictive
<1>5. ASSUME NEW items
      PROVE  LET v == Verdict(list, s, items, type, NoAttributes)
             IN  \/ v = "none" /\ \A n : ~Hit(n, items)
                 \/ \E n : /\ Hit(n, items) /\ \A m : Hit(m, items) => n <= m
                           /\ v = IF Restrictive(list[n]) THEN list[n].action ELSE "approve"
  BY VerdictIsFirst
<1>6. \/ all = "none" /\ \A n : ~Hit(n, batch)
      \/ \E n : /\ Hit(n, batch) /\ \A m : Hit(m, batch) => n <= m
                /\ all = IF Restrictive(list[n]) THEN list[n].action ELSE "approve"
  BY <1>5
<1>7. \/ one = "none" /\ \A n : ~Hit(n, <<batch[k]>>)
      \/ \E n : /\ Hit(n, <<batch[k]>>) /\ \A m : Hit(m, <<batch[k]>>) => n <= m
                /\ one = IF Restrictive(list[n]) THEN list[n].action ELSE "approve"
  BY <1>5
<1>8. \A n, items : Hit(n, items) => n \in Nat
  BY <1>1
<1> HIDE DEF Hit, all, one
<1>9. ASSUME all = "approve" PROVE one = "approve"
  <2>1. PICK n : /\ Hit(n, batch) /\ \A m : Hit(m, batch) => n <= m
                 /\ ~Restrictive(list[n])
    BY <1>4, <1>6, <1>9
  <2>2. Hit(n, <<batch[k]>>)
    BY <1>3, <2>1
  <2>3. PICK m : /\ Hit(m, <<batch[k]>>) /\ \A j : Hit(j, <<batch[k]>>) => m <= j
                 /\ one = IF Restrictive(list[m]) THEN list[m].action ELSE "approve"
    BY <1>7, <2>2
  <2>4. m <= n /\ m \in Nat /\ n \in Nat
    BY <1>8, <2>1, <2>2, <2>3
  <2>5. Restrictive(list[m]) => n <= m
    BY <1>2, <2>1, <2>3
  <2>6. m = n \/ ~Restrictive(list[m])
    BY <2>4, <2>5
  <2>7. QED
    BY <2>1, <2>3, <2>6
<1>10. ASSUME one \in {"deny", "ignore"} PROVE all \in {"deny", "ignore"}
  <2>1. PICK n : /\ Hit(n, <<batch[k]>>) /\ \A m : Hit(m, <<batch[k]>>) => n <= m
                 /\ Restrictive(list[n])
    BY <1>7, <1>10
  <2>2. Hit(n, batch)
    BY <1>2, <2>1
  <2>3. PICK m : /\ Hit(m, batch) /\ \A j : Hit(j, batch) => m <= j
                 /\ all = IF Restrictive(list[m]) THEN list[m].action ELSE "approve"
    BY <1>6, <2>2
  <2>4. m <= n /\ m \in Nat /\ n \in Nat
    BY <1>8, <2>1, <2>2, <2>3
  <2>5. ~Restrictive(list[m]) => n <= m
    BY <1>3, <2>1, <2>3
  <2>6. Restrictive(list[m])
    BY <2>1, <2>4, <2>5
  <2>7. QED
    BY <1>4, <2>3, <2>6
<1>11. QED
  BY <1>9, <1>10 DEF all, one

\* The verdict on a batch and on its items agree, for every configuration,
\* sender and batch: no item gets through, or hides, in the company of others.
THEOREM BatchesHideNothing == Spec => []NoSmuggling
<1>1. Init => trustRules \in TrustRuleLists
  BY DEF Init
<1>2. trustRules \in TrustRuleLists /\ [Next]_vars => (trustRules \in TrustRuleLists)'
  BY DEF Next, vars, Observe, Announce, AddAutoApproveRule, Compact, RemoveAutoApproveRule, Tick
<1>3. trustRules \in TrustRuleLists => NoSmuggling
  <2> SUFFICES ASSUME trustRules \in TrustRuleLists, NEW s \in SenderInfos,
                      NEW type \in {"get_secret", "write"}, NEW batch \in Batches
               PROVE  LET all == Verdict(trustRules, s, batch, type, NoAttributes)
                          verdicts == {Verdict(trustRules, s, <<batch[n]>>, type, NoAttributes) :
                                          n \in DOMAIN batch}
                      IN  /\ all = "approve" => verdicts = {"approve"}
                          /\ verdicts \cap {"deny", "ignore"} # {} => all \in {"deny", "ignore"}
    BY DEF NoSmuggling
  <2> DEFINE all == Verdict(trustRules, s, batch, type, NoAttributes)
             one(n) == Verdict(trustRules, s, <<batch[n]>>, type, NoAttributes)
  <2>1. \A n \in DOMAIN batch : /\ all = "approve" => one(n) = "approve"
                                /\ one(n) \in {"deny", "ignore"} => all \in {"deny", "ignore"}
    BY BatchVerdict
  <2>2. DOMAIN batch # {}
    BY SliceAssumption
  <2> HIDE DEF all, one
  <2>3. /\ all = "approve" => {one(n) : n \in DOMAIN batch} = {"approve"}
        /\ {one(n) : n \in DOMAIN batch} \cap {"deny", "ignore"} # {} => all \in {"deny", "ignore"}
    BY <2>1, <2>2
  <2>4. QED
    BY <2>3 DEF all, one
<1>4. QED
  BY <1>1, <1>2, <1>3, PTL DEF Spec

-----------------------------------------------------------------------------
(* The slice of auto-approve rules *)

\* What an array can hold: rules made from requests, and unwritten places.
MadeRules == {Timed(RuleFrom(request), t) : request \in Requests, t \in 0..(MaxTime + RuleTTL)}
Places == MadeRules \cup {NoRule}

\* The rule that a decision about a request makes (AddAutoApproveRule).
LEMMA RuleFields ==
    ASSUME NEW request
    PROVE  /\ RuleFrom(request).exe = invokerExePath(request.sender)
           /\ RuleFrom(request).type = request.type
           /\ request.items # <<>> =>
                 /\ RuleFrom(request).collection = request.items[1].collection
                 /\ RuleFrom(request).attributes = request.items[1].attributes
<1>1. DOMAIN NoAttributes = {}
  BY DEF NoAttributes
<1>2. QED
  BY <1>1 DEF RuleFrom, AutoRule

\* A rule that was made has an expiry, and gets another without changing its
\* scope.
LEMMA MadeRule ==
    ASSUME NEW rule \in MadeRules
    PROVE  /\ rule # NoRule
           /\ rule.expires \in Nat
           /\ \A t \in 0..(MaxTime + RuleTTL) :
                 /\ Timed(rule, t) \in MadeRules
                 /\ Timed(rule, t).expires = t
                 /\ Scope(Timed(rule, t)) = Scope(rule)
           /\ \E request \in Requests : rule.attributes = RuleFrom(request).attributes
<1>1. PICK request \in Requests, t0 \in 0..(MaxTime + RuleTTL) : rule = Timed(RuleFrom(request), t0)
  BY DEF MadeRules
<1>2. rule # NoRule
  BY <1>1, RequestAssumption
<1>3. rule.expires \in Nat
  BY <1>1, TimeAssumption DEF Timed
<1>4. rule.attributes = RuleFrom(request).attributes
  BY <1>1 DEF Timed
<1>5. ASSUME NEW t \in 0..(MaxTime + RuleTTL)
      PROVE  /\ Timed(rule, t) \in MadeRules /\ Timed(rule, t).expires = t
             /\ Scope(Timed(rule, t)) = Scope(rule)
  <2>1. Timed(rule, t) = Timed(RuleFrom(request), t)
    BY <1>1 DEF Timed
  <2>2. Timed(rule, t).expires = t /\ Scope(Timed(rule, t)) = Scope(rule)
    BY DEF Timed, Scope
  <2>3. QED
    BY <2>1, <2>2 DEF MadeRules
<1>6. QED
  BY <1>2, <1>3, <1>4, <1>5

\* Rules of one scope are taken for one another, and what a rule is taken for
\* depends on its scope only.
LEMMA SameByScope ==
    ASSUME NEW a, NEW b, NEW c, Scope(a) = Scope(b)
    PROVE  SameAutoRule(a, b) /\ (SameAutoRule(a, c) <=> SameAutoRule(b, c))
<1>1. a.exe = b.exe /\ a.type = b.type /\ a.collection = b.collection /\ a.attributes = b.attributes
  BY DEF Scope
<1>2. attributesEqual(a.attributes, b.attributes)
  BY <1>1 DEF attributesEqual, Get
<1>3. QED
  BY <1>1, <1>2 DEF SameAutoRule

\* Rules without empty values that are taken for one another have one scope.
LEMMA SameScope ==
    ASSUME NEW rule \in MadeRules, NEW request \in Requests,
           SameAutoRule(rule, RuleFrom(request)), ~HasEmpty(rule)
    PROVE  Scope(rule) = Scope(RuleFrom(request))
<1> DEFINE a == rule.attributes
           b == RuleFrom(request).attributes
<1>1. RuleFrom(request).attributes = b
  OBVIOUS
<1>2. PICK maker \in Requests : a = RuleFrom(maker).attributes
  BY MadeRule
<1>3. /\ IsFiniteSet(DOMAIN a) /\ a = [k \in DOMAIN a |-> a[k]]
      /\ IsFiniteSet(DOMAIN b) /\ b = [k \in DOMAIN b |-> b[k]]
  BY <1>2, RequestAssumption
<1>4. Cardinality(DOMAIN a) = Cardinality(DOMAIN b) /\ \A k \in DOMAIN a : Get(b, k) = a[k]
  BY <1>1 DEF SameAutoRule, attributesEqual
<1>5. \A k \in DOMAIN a : a[k] # Empty
  BY DEF HasEmpty
<1>6. DOMAIN a \subseteq DOMAIN b /\ \A k \in DOMAIN a : b[k] = a[k]
  BY <1>4, <1>5 DEF Get
<1>7. DOMAIN a = DOMAIN b
  BY <1>3, <1>4, <1>6, FS_Subset
<1> HIDE DEF a, b
<1>8. a = b
  BY <1>3, <1>6, <1>7
<1>9. QED
  BY <1>1, <1>8 DEF Scope, SameAutoRule, a, b

\* A rule that was taken for the one of a request grants a retry of it: it has
\* the same scope, or there is one item only, in which an absent key reads as
\* an empty value, which an empty pattern matches.
LEMMA SameGrants ==
    ASSUME NEW request \in Requests, NEW rule \in MadeRules, SameAutoRule(rule, RuleFrom(request)),
           Rulable(request), DOMAIN request.items \ {1} = {} \/ ~HasEmpty(rule)
    PROVE  AutoRuleMatches(rule, request.sender, request.items, request.type)
<1> DEFINE own == RuleFrom(request)
           items == request.items
<1>0. /\ invokerExePath(request.sender) # Empty /\ own.exe = invokerExePath(request.sender)
      /\ own.type = request.type /\ autoApproveCoversAll(own, items)
  BY DEF Rulable, AutoRuleMatches
<1>1. /\ rule.exe = own.exe /\ rule.type = own.type /\ rule.collection = own.collection
      /\ Cardinality(DOMAIN rule.attributes) = Cardinality(DOMAIN own.attributes)
      /\ \A k \in DOMAIN rule.attributes : Get(own.attributes, k) = rule.attributes[k]
  BY DEF SameAutoRule, attributesEqual
<1>2. CASE ~HasEmpty(rule)
  <2>1. rule.attributes = own.attributes
    BY <1>2, SameScope DEF Scope
  <2>2. QED
    BY <1>0, <1>1, <2>1 DEF AutoRuleMatches, autoApproveCoversAll
<1>3. CASE items = <<>>
  <2>1. rule.collection = Empty /\ DOMAIN own.attributes = {}
    BY <1>0, <1>1, <1>3 DEF autoApproveCoversAll
  <2>2. IsFiniteSet(DOMAIN rule.attributes)
    BY MadeRule, RequestAssumption
  <2>3. DOMAIN rule.attributes = {}
    BY <1>1, <2>1, <2>2, FS_EmptySet
  <2>4. QED
    BY <1>0, <1>1, <1>3, <2>1, <2>3 DEF AutoRuleMatches, autoApproveCoversAll
<1>4. CASE items # <<>> /\ DOMAIN items \ {1} = {}
  <2>1. own.attributes = items[1].attributes /\ own.collection = items[1].collection
    BY <1>4, RuleFields
  <2>2. \A n \in DOMAIN items : attributesMatch(own.attributes, items[n].attributes)
    BY <1>0, <1>4 DEF autoApproveCoversAll
  <2>3. \A n \in DOMAIN items : attributesMatch(rule.attributes, items[n].attributes)
    <3> SUFFICES ASSUME NEW n \in DOMAIN items, NEW k \in DOMAIN rule.attributes
                 PROVE  Glob(rule.attributes[k], Get(items[n].attributes, k))
      BY DEF attributesMatch
    <3>1. n = 1 /\ items[n].attributes = own.attributes
      BY <1>4, <2>1
    <3>2. k \in DOMAIN own.attributes => Glob(own.attributes[k], Get(own.attributes, k))
      BY <2>2, <3>1 DEF attributesMatch
    <3>3. Literal(Get(own.attributes, k))
      BY <3>2, EmptyAssumption DEF Get, Literal
    <3>4. QED
      BY <1>1, <3>1, <3>3 DEF Literal
  <2>4. \A n \in DOMAIN items : items[n].collection = rule.collection
    BY <1>1, <1>4, <2>1
  <2>5. autoApproveCoversAll(rule, items)
    BY <1>4, <2>3, <2>4 DEF autoApproveCoversAll
  <2>6. QED
    BY <1>0, <1>1, <2>5 DEF AutoRuleMatches
<1>5. QED
  BY <1>2, <1>3, <1>4

\* The arrays, and the slice within the last one.
Shape ==
    /\ heap \in Seq(Seq(Places))
    /\ heap # <<>>
    /\ len \in 0..Len(Arr)
    /\ \A n \in 1..len : Arr[n] # NoRule

\* A step that rewrites places of the array in use.
LEMMA InPlace ==
    ASSUME Shape, NEW arr \in Seq(Places), Len(arr) = Len(Arr),
           heap' = [heap EXCEPT ![Len(heap)] = arr]
    PROVE  /\ heap' \in Seq(Seq(Places)) /\ heap' # <<>> /\ Len(heap') = Len(heap) /\ Arr' = arr
           /\ \A a \in 1..Len(heap) : a # Len(heap) => heap'[a] = heap[a]
<1>1. heap \in Seq(Seq(Places)) /\ heap # <<>> /\ Len(heap) \in 1..Len(heap)
  BY EmptySeq, LenProperties DEF Shape
<1>2. /\ heap' \in Seq(Seq(Places)) /\ Len(heap') = Len(heap)
      /\ \A j \in 1..Len(heap) : heap'[j] = IF j = Len(heap) THEN arr ELSE heap[j]
  BY <1>1, ExceptSeq
<1>3. Arr' = arr
  BY <1>1, <1>2 DEF Arr
<1>4. heap' # <<>>
  BY <1>1, <1>2, EmptySeq
<1>5. QED
  BY <1>2, <1>3, <1>4

\* A step that makes a new array and leaves the ones there were.
LEMMA Grown ==
    ASSUME Shape, NEW arr \in Seq(Places), heap' = Append(heap, arr)
    PROVE  /\ heap' \in Seq(Seq(Places)) /\ heap' # <<>> /\ Len(heap') = Len(heap) + 1 /\ Arr' = arr
           /\ \A a \in 1..Len(heap) : heap'[a] = heap[a]
<1>1. heap \in Seq(Seq(Places)) /\ Len(heap) \in Nat
  BY LenProperties DEF Shape
<1>2. /\ heap' \in Seq(Seq(Places)) /\ Len(heap') = Len(heap) + 1
      /\ heap'[Len(heap) + 1] = arr
      /\ \A a \in 1..Len(heap) : heap'[a] = heap[a]
  BY <1>1
<1>3. heap' # <<>>
  BY <1>1, <1>2, EmptySeq
<1>4. QED
  BY <1>2, <1>3 DEF Arr

\* The array in use is one of the arrays.
LEMMA ArrayInUse ==
    ASSUME Shape
    PROVE  /\ Len(heap) \in Nat \ {0} /\ Arr \in Seq(Places) /\ Len(Arr) \in Nat
           /\ \A n \in 1..Len(Arr) : Arr[n] \in Places
           /\ \A n \in 1..len : Arr[n] \in MadeRules
<1>1. heap \in Seq(Seq(Places)) /\ Len(heap) \in Nat \ {0}
  BY EmptySeq, LenProperties DEF Shape
<1>2. Arr \in Seq(Places)
  BY <1>1, ElementOfSeq DEF Arr
<1>3. Len(Arr) \in Nat /\ \A n \in 1..Len(Arr) : Arr[n] \in Places
  BY <1>2, LenProperties, ElementOfSeq
<1>4. \A n \in 1..len : Arr[n] \in MadeRules
  BY <1>3 DEF Shape, Places
<1>5. QED
  BY <1>1, <1>2, <1>3, <1>4

\* A function on the places of an array is an array.
LEMMA ArrayOf ==
    ASSUME NEW n \in Nat, NEW arr \in [1..n -> Places]
    PROVE  arr \in Seq(Places) /\ Len(arr) = n
  BY SeqDef

\* What becomes of the slice when a rule is refreshed or appended, when
\* expired rules are dropped and when one is removed.
Refreshed(n, t) ==
    /\ len' = len
    /\ \A m \in 1..len : Arr'[m] = IF m = n THEN Timed(Arr[m], t) ELSE Arr[m]

Extended(rule) ==
    /\ len' = len + 1
    /\ \A m \in 1..len : Arr'[m] = Arr[m]
    /\ Arr'[len + 1] = rule

Compacted(keep, k) ==
    /\ len' = k
    /\ \A m \in 1..k : Arr'[m] = Arr[keep[m]]

Shifted(n) ==
    /\ len' = len - 1
    /\ \A m \in 1..(len - 1) : Arr'[m] = IF m >= n THEN Arr[m + 1] ELSE Arr[m]

\* Whatever a step does to the arrays, a place that was written stays
\* written, and what is in an array was in one before, up to its expiry, or
\* is the rule of a request.
Written(a, n) == a \in 1..Len(heap) /\ n \in 1..Len(heap[a]) /\ heap[a][n] # NoRule
ScopeWritten(x) == \E a \in 1..Len(heap) : \E n \in 1..Len(heap[a]) : Written(a, n) /\ Scope(heap[a][n]) = x

ArraysStep(new) ==
    /\ \A a \in 1..Len(heap) : \A n \in 1..Len(heap[a]) : Written(a, n) => Written(a, n)'
    /\ \A x : ScopeWritten(x)' => ScopeWritten(x) \/ x \in new

\* A write into the array in use that leaves no place empty that was written.
LEMMA InPlaceArrays ==
    ASSUME Shape, NEW arr \in Seq(Places), Len(arr) = Len(Arr), NEW new,
           heap' = [heap EXCEPT ![Len(heap)] = arr],
           \A n \in 1..Len(Arr) : Arr[n] # NoRule => arr[n] # NoRule,
           \A n \in 1..Len(Arr) : arr[n] # NoRule =>
               \/ Scope(arr[n]) \in new
               \/ \E m \in 1..Len(Arr) : Arr[m] # NoRule /\ Scope(Arr[m]) = Scope(arr[n])
    PROVE  ArraysStep(new)
<1>0. Len(heap) \in 1..Len(heap) /\ heap[Len(heap)] = Arr
  BY ArrayInUse DEF Arr
<1>1. /\ Len(heap') = Len(heap) /\ Len(heap) \in Nat \ {0} /\ heap'[Len(heap)] = arr
      /\ \A a \in 1..Len(heap) : a # Len(heap) => heap'[a] = heap[a]
      /\ heap[Len(heap)] = Arr
  BY InPlace, ArrayInUse DEF Arr
<1>2. ASSUME NEW a \in 1..Len(heap), NEW n \in 1..Len(heap[a]), Written(a, n)
      PROVE  Written(a, n)'
  BY <1>1, <1>2 DEF Written
<1>3. ASSUME NEW x, ScopeWritten(x)' PROVE ScopeWritten(x) \/ x \in new
  <2>0. PICK a \in 1..Len(heap') :
           \E n \in 1..Len(heap'[a]) : heap'[a][n] # NoRule /\ Scope(heap'[a][n]) = x
    BY <1>3 DEF ScopeWritten, Written
  <2>1. PICK n \in 1..Len(heap'[a]) : heap'[a][n] # NoRule /\ Scope(heap'[a][n]) = x
    BY <2>0
  <2>2. CASE a # Len(heap)
    BY <1>1, <2>1, <2>2 DEF ScopeWritten, Written
  <2>3. CASE a = Len(heap)
    <3>1. n \in 1..Len(Arr) /\ arr[n] # NoRule /\ Scope(arr[n]) = x
      BY <1>1, <2>1, <2>3
    <3>2. CASE \E m \in 1..Len(Arr) : Arr[m] # NoRule /\ Scope(Arr[m]) = x
      <4>1. PICK m \in 1..Len(Arr) : Arr[m] # NoRule /\ Scope(Arr[m]) = x
        BY <3>2
      <4>2. Written(Len(heap), m) /\ Len(heap) \in 1..Len(heap) /\ m \in 1..Len(heap[Len(heap)])
        BY <1>0, <4>1 DEF Written
      <4>3. QED
        BY <1>0, <4>1, <4>2 DEF ScopeWritten
    <3>3. QED
      BY <3>1, <3>2
  <2>4. QED
    BY <2>2, <2>3
<1>4. QED
  BY <1>2, <1>3 DEF ArraysStep

\* append moves to a new array, which holds what the old one held.
LEMMA GrownArrays ==
    ASSUME Shape, NEW arr \in Seq(Places), NEW new, heap' = Append(heap, arr),
           \A n \in 1..Len(arr) : arr[n] # NoRule =>
               \/ Scope(arr[n]) \in new
               \/ \E m \in 1..Len(Arr) : Arr[m] # NoRule /\ Scope(Arr[m]) = Scope(arr[n])
    PROVE  ArraysStep(new)
<1>0. Len(heap) \in 1..Len(heap) /\ heap[Len(heap)] = Arr
  BY ArrayInUse DEF Arr
<1>1. /\ Len(heap') = Len(heap) + 1 /\ Len(heap) \in Nat \ {0} /\ heap'[Len(heap) + 1] = arr
      /\ \A a \in 1..Len(heap) : heap'[a] = heap[a]
      /\ heap[Len(heap)] = Arr
  BY Grown, ArrayInUse DEF Arr
<1>2. ASSUME NEW a \in 1..Len(heap), NEW n \in 1..Len(heap[a]), Written(a, n)
      PROVE  Written(a, n)'
  BY <1>1, <1>2 DEF Written
<1>3. ASSUME NEW x, ScopeWritten(x)' PROVE ScopeWritten(x) \/ x \in new
  <2>0. PICK a \in 1..Len(heap') :
           \E n \in 1..Len(heap'[a]) : heap'[a][n] # NoRule /\ Scope(heap'[a][n]) = x
    BY <1>3 DEF ScopeWritten, Written
  <2>1. PICK n \in 1..Len(heap'[a]) : heap'[a][n] # NoRule /\ Scope(heap'[a][n]) = x
    BY <2>0
  <2>2. CASE a # Len(heap) + 1
    BY <1>1, <2>1, <2>2 DEF ScopeWritten, Written
  <2>3. CASE a = Len(heap) + 1
    <3>1. n \in 1..Len(arr) /\ arr[n] # NoRule /\ Scope(arr[n]) = x
      BY <1>1, <2>1, <2>3
    <3>2. CASE \E m \in 1..Len(Arr) : Arr[m] # NoRule /\ Scope(Arr[m]) = x
      <4>1. PICK m \in 1..Len(Arr) : Arr[m] # NoRule /\ Scope(Arr[m]) = x
        BY <3>2
      <4>2. Written(Len(heap), m) /\ Len(heap) \in 1..Len(heap) /\ m \in 1..Len(heap[Len(heap)])
        BY <1>0, <4>1 DEF Written
      <4>3. QED
        BY <1>0, <4>1, <4>2 DEF ScopeWritten
    <3>3. QED
      BY <3>1, <3>2
  <2>4. QED
    BY <2>2, <2>3
<1>4. QED
  BY <1>2, <1>3 DEF ArraysStep

\* The first place of a rule that is taken for the new one is refreshed.
LEMMA RefreshStep ==
    ASSUME Shape, NEW n \in 1..len, NEW t \in 0..(MaxTime + RuleTTL), UNCHANGED len,
           heap' = [heap EXCEPT ![Len(heap)] = [Arr EXCEPT ![n] = Timed(Arr[n], t)]]
    PROVE  Shape' /\ Refreshed(n, t) /\ ArraysStep({})
<1> DEFINE arr == [Arr EXCEPT ![n] = Timed(Arr[n], t)]
<1>0. /\ Len(heap) \in Nat \ {0} /\ Arr \in Seq(Places) /\ Len(Arr) \in Nat /\ n \in 1..Len(Arr)
      /\ len \in Nat /\ len <= Len(Arr)
  BY ArrayInUse DEF Shape
<1>1. Arr[n] \in MadeRules /\ Timed(Arr[n], t) \in MadeRules
      /\ Timed(Arr[n], t) # NoRule /\ Scope(Timed(Arr[n], t)) = Scope(Arr[n])
  BY ArrayInUse, MadeRule
<1>2. /\ arr \in Seq(Places) /\ Len(arr) = Len(Arr)
      /\ \A m \in 1..Len(Arr) : arr[m] = IF m = n THEN Timed(Arr[n], t) ELSE Arr[m]
  BY <1>0, <1>1, ExceptSeq DEF Places
<1>3. heap' = [heap EXCEPT ![Len(heap)] = arr]
  OBVIOUS
<1> HIDE DEF arr
<1>4. heap' \in Seq(Seq(Places)) /\ heap' # <<>> /\ Arr' = arr
  BY <1>2, <1>3, InPlace
<1>5. Shape'
  BY <1>0, <1>1, <1>2, <1>4 DEF Shape
<1>6. Refreshed(n, t)
  BY <1>0, <1>2, <1>4 DEF Refreshed
<1>7. \A m \in 1..Len(Arr) : /\ Arr[m] # NoRule => arr[m] # NoRule
                             /\ arr[m] # NoRule => \E j \in 1..Len(Arr) : Arr[j] # NoRule /\ Scope(Arr[j]) = Scope(arr[m])
  <2> SUFFICES ASSUME NEW m \in 1..Len(Arr)
               PROVE  /\ Arr[m] # NoRule => arr[m] # NoRule
                      /\ arr[m] # NoRule => Arr[m] # NoRule /\ Scope(Arr[m]) = Scope(arr[m])
    OBVIOUS
  <2>1. Arr[n] # NoRule
    BY <1>1, MadeRule
  <2>2. QED
    BY <1>1, <1>2, <2>1
<1>8. ArraysStep({})
  BY <1>2, <1>3, <1>7, InPlaceArrays
<1>9. QED
  BY <1>5, <1>6, <1>8

\* append puts the rule behind the slice, in this array or in a larger one.
LEMMA AppendStep ==
    ASSUME Shape, NEW rule \in MadeRules, heap' = Appended(rule), len' = len + 1
    PROVE  Shape' /\ Extended(rule) /\ ArraysStep({Scope(rule)})
<1>0. /\ Len(heap) \in Nat \ {0} /\ Arr \in Seq(Places) /\ Len(Arr) \in Nat
      /\ len \in Nat /\ len <= Len(Arr) /\ rule \in Places /\ rule # NoRule
      /\ \A n \in 1..Len(Arr) : Arr[n] \in Places
      /\ \A n \in 1..len : Arr[n] # NoRule
  BY ArrayInUse, MadeRule DEF Shape, Places
<1>1. CASE len < Len(Arr)
  <2> DEFINE arr == [Arr EXCEPT ![len + 1] = rule]
  <2>1. /\ arr \in Seq(Places) /\ Len(arr) = Len(Arr)
        /\ \A m \in 1..Len(Arr) : arr[m] = IF m = len + 1 THEN rule ELSE Arr[m]
    <3>1. len + 1 \in 1..Len(Arr)
      BY <1>0, <1>1
    <3>2. QED
      BY <1>0, <3>1, ExceptSeq
  <2>2. heap' = [heap EXCEPT ![Len(heap)] = arr]
    BY <1>1 DEF Appended
  <2> HIDE DEF arr
  <2>3. heap' \in Seq(Seq(Places)) /\ heap' # <<>> /\ Arr' = arr
    BY <2>1, <2>2, InPlace
  <2>4. /\ len + 1 \in 1..Len(Arr) /\ arr[len + 1] = rule
        /\ \A m \in 1..len : arr[m] = Arr[m]
    BY <1>0, <1>1, <2>1
  <2>5. Shape' /\ Extended(rule)
    <3>1. \A m \in 1..(len + 1) : arr[m] # NoRule
      BY <1>0, <2>4
    <3>2. len' \in 0..Len(arr) /\ len' = len + 1
      BY <1>0, <2>1, <2>4
    <3>3. QED
      BY <2>3, <2>4, <3>1, <3>2 DEF Shape, Extended
  <2>6. \A m \in 1..Len(Arr) : /\ Arr[m] # NoRule => arr[m] # NoRule
                               /\ arr[m] # NoRule =>
                                     \/ Scope(arr[m]) \in {Scope(rule)}
                                     \/ \E j \in 1..Len(Arr) : Arr[j] # NoRule /\ Scope(Arr[j]) = Scope(arr[m])
    BY <1>0, <2>1
  <2>7. ArraysStep({Scope(rule)})
    BY <2>1, <2>2, <2>6, InPlaceArrays
  <2>8. QED
    BY <2>5, <2>7
<1>2. CASE ~(len < Len(Arr))
  <2> DEFINE size == IF len = 0 THEN 1 ELSE 2 * len
             arr == [n \in 1..size |-> CASE n <= len -> Arr[n] [] n = len + 1 -> rule [] OTHER -> NoRule]
  <2>0. size \in Nat /\ len + 1 <= size
    BY <1>0
  <2>1. heap' = Append(heap, arr)
    BY <1>2 DEF Appended
  <2> HIDE DEF size
  <2>2. /\ \A m \in 1..len : arr[m] = Arr[m]
        /\ arr[len + 1] = rule
        /\ \A m \in 1..size : m > len + 1 => arr[m] = NoRule
        /\ arr \in [1..size -> Places]
    <3>1. \A m \in 1..size : m <= len => m \in 1..Len(Arr)
      BY <1>0, <2>0
    <3>2. \A m \in 1..size : arr[m] = CASE m <= len -> Arr[m] [] m = len + 1 -> rule [] OTHER -> NoRule
      OBVIOUS
    <3>3. DOMAIN arr = 1..size /\ arr = [m \in 1..size |-> arr[m]]
      OBVIOUS
    <3> HIDE DEF arr
    <3>4. \A m \in 1..size : /\ m <= len => arr[m] = Arr[m]
                             /\ m = len + 1 => arr[m] = rule
                             /\ m > len + 1 => arr[m] = NoRule
      BY <1>0, <2>0, <3>2
    <3>5. \A m \in 1..size : arr[m] \in Places
      BY <1>0, <2>0, <3>1, <3>4 DEF Places
    <3>6. QED
      BY <1>0, <2>0, <3>3, <3>4, <3>5
  <2> HIDE DEF arr
  <2>3. arr \in Seq(Places) /\ Len(arr) = size
    BY <2>0, <2>2, ArrayOf
  <2>4. heap' \in Seq(Seq(Places)) /\ heap' # <<>> /\ Arr' = arr
    BY <2>1, <2>3, Grown
  <2>5. Shape'
    <3>1. \A m \in 1..(len + 1) : arr[m] # NoRule
      BY <1>0, <2>2
    <3>2. len' \in 0..Len(arr) /\ len' = len + 1
      BY <1>0, <2>0, <2>3
    <3>3. QED
      BY <2>4, <3>1, <3>2 DEF Shape
  <2>6. Extended(rule)
    BY <2>2, <2>4 DEF Extended
  <2>7. \A m \in 1..Len(arr) : arr[m] # NoRule =>
             \/ Scope(arr[m]) \in {Scope(rule)}
             \/ \E j \in 1..Len(Arr) : Arr[j] # NoRule /\ Scope(Arr[j]) = Scope(arr[m])
    <3> SUFFICES ASSUME NEW m \in 1..Len(arr), arr[m] # NoRule
                 PROVE  \/ Scope(arr[m]) \in {Scope(rule)}
                        \/ \E j \in 1..Len(Arr) : Arr[j] # NoRule /\ Scope(Arr[j]) = Scope(arr[m])
      OBVIOUS
    <3>1. m \in 1..len \/ m = len + 1
      BY <1>0, <2>0, <2>2, <2>3
    <3>2. QED
      BY <1>0, <2>2, <3>1
  <2>8. ArraysStep({Scope(rule)})
    BY <2>1, <2>3, <2>7, GrownArrays
  <2>9. QED
    BY <2>5, <2>6, <2>8
<1>3. QED
  BY <1>1, <1>2

\* Rules are moved within the array and none is changed.
LEMMA MoveStep ==
    ASSUME Shape, NEW arr, DOMAIN arr = DOMAIN Arr, arr = [n \in DOMAIN arr |-> arr[n]],
           heap' = [heap EXCEPT ![Len(heap)] = arr],
           \A n \in 1..Len(Arr) : arr[n] = Arr[n] \/ \E m \in 1..len : arr[n] = Arr[m]
    PROVE  heap' \in Seq(Seq(Places)) /\ heap' # <<>> /\ Arr' = arr /\ Len(arr) = Len(Arr) /\ ArraysStep({})
<1>0. /\ Arr \in Seq(Places) /\ Len(Arr) \in Nat /\ DOMAIN Arr = 1..Len(Arr)
      /\ len \in Nat /\ len <= Len(Arr)
      /\ \A n \in 1..Len(Arr) : Arr[n] \in Places
      /\ \A n \in 1..len : Arr[n] # NoRule
  BY ArrayInUse, LenProperties DEF Shape
<1>1. \A n \in 1..Len(Arr) : /\ arr[n] \in Places
                             /\ \E m \in 1..Len(Arr) : arr[n] = Arr[m]
                             /\ Arr[n] # NoRule => arr[n] # NoRule
  BY <1>0
<1>2. arr \in [1..Len(Arr) -> Places]
  BY <1>0, <1>1
<1>3. arr \in Seq(Places) /\ Len(arr) = Len(Arr)
  BY <1>0, <1>2, ArrayOf
<1>4. heap' \in Seq(Seq(Places)) /\ heap' # <<>> /\ Arr' = arr
  BY <1>3, InPlace
<1>5. \A n \in 1..Len(Arr) : arr[n] # NoRule =>
         \E m \in 1..Len(Arr) : Arr[m] # NoRule /\ Scope(Arr[m]) = Scope(arr[n])
  BY <1>1
<1>6. ArraysStep({})
  BY <1>1, <1>3, <1>5, InPlaceArrays
<1>7. QED
  BY <1>3, <1>4, <1>6

\* checkAutoApproveRules moves the live rules to the front of their array.
LEMMA CompactStep ==
    ASSUME Shape, Compact
    PROVE  /\ Shape' /\ ArraysStep({})
           /\ \E k \in 0..len : \E keep \in [1..k -> Live] : ListsLive(keep, k) /\ Compacted(keep, k)
<1>1. PICK k \in 0..len :
        \E keep \in [1..k -> Live] :
          /\ ListsLive(keep, k)
          /\ heap' = [heap EXCEPT ![Len(heap)] = [n \in DOMAIN Arr |-> IF n <= k THEN Arr[keep[n]] ELSE Arr[n]]]
          /\ len' = k
  BY DEF Compact
<1>2. PICK keep \in [1..k -> Live] :
          /\ ListsLive(keep, k)
          /\ heap' = [heap EXCEPT ![Len(heap)] = [n \in DOMAIN Arr |-> IF n <= k THEN Arr[keep[n]] ELSE Arr[n]]]
          /\ len' = k
  BY <1>1
<1> DEFINE arr == [n \in DOMAIN Arr |-> IF n <= k THEN Arr[keep[n]] ELSE Arr[n]]
<1>0. /\ Arr \in Seq(Places) /\ Len(Arr) \in Nat /\ DOMAIN Arr = 1..Len(Arr)
      /\ len \in Nat /\ len <= Len(Arr) /\ k \in Nat /\ k <= len
      /\ \A n \in 1..len : Arr[n] # NoRule
      /\ \A n \in 1..k : keep[n] \in 1..len
  BY ArrayInUse, LenProperties DEF Shape, Live
<1>3. \A n \in 1..Len(Arr) : arr[n] = IF n <= k THEN Arr[keep[n]] ELSE Arr[n]
  BY <1>0
<1>4. DOMAIN arr = DOMAIN Arr /\ arr = [n \in DOMAIN arr |-> arr[n]] /\ heap' = [heap EXCEPT ![Len(heap)] = arr]
  BY <1>2
<1> HIDE DEF arr
<1>5. \A n \in 1..Len(Arr) : arr[n] = Arr[n] \/ \E m \in 1..len : arr[n] = Arr[m]
  BY <1>0, <1>3
<1>6. heap' \in Seq(Seq(Places)) /\ heap' # <<>> /\ Arr' = arr /\ Len(arr) = Len(Arr) /\ ArraysStep({})
  BY <1>4, <1>5, MoveStep
<1>7. Compacted(keep, k)
  BY <1>0, <1>2, <1>3, <1>6 DEF Compacted
<1>8. Shape'
  <2>1. \A n \in 1..k : arr[n] # NoRule
    BY <1>0, <1>3
  <2>2. len' \in 0..Len(arr) /\ len' = k
    BY <1>0, <1>2, <1>6
  <2>3. QED
    BY <1>6, <2>1, <2>2 DEF Shape
<1>9. QED
  BY <1>2, <1>6, <1>7, <1>8

\* RemoveAutoApproveRule shifts the rules behind the one it removes.
LEMMA RemoveStep ==
    ASSUME Shape, NEW n \in 1..len, RemoveAutoApproveRule(n)
    PROVE  Shape' /\ ArraysStep({}) /\ Shifted(n)
<1> DEFINE arr == [m \in DOMAIN Arr |-> IF m >= n /\ m < len THEN Arr[m + 1] ELSE Arr[m]]
<1>0. /\ Arr \in Seq(Places) /\ Len(Arr) \in Nat /\ DOMAIN Arr = 1..Len(Arr)
      /\ len \in Nat /\ len <= Len(Arr)
      /\ \A m \in 1..len : Arr[m] # NoRule
  BY ArrayInUse, LenProperties DEF Shape
<1>3. \A m \in 1..Len(Arr) : arr[m] = IF m >= n /\ m < len THEN Arr[m + 1] ELSE Arr[m]
  BY <1>0
<1>4. DOMAIN arr = DOMAIN Arr /\ arr = [m \in DOMAIN arr |-> arr[m]] /\ heap' = [heap EXCEPT ![Len(heap)] = arr]
  BY DEF RemoveAutoApproveRule
<1> HIDE DEF arr
<1>5. \A m \in 1..Len(Arr) : arr[m] = Arr[m] \/ \E j \in 1..len : arr[m] = Arr[j]
  BY <1>0, <1>3
<1>6. heap' \in Seq(Seq(Places)) /\ heap' # <<>> /\ Arr' = arr /\ Len(arr) = Len(Arr) /\ ArraysStep({})
  BY <1>4, <1>5, MoveStep
<1>7. len' = len - 1 /\ \A m \in 1..(len - 1) : m \in 1..Len(Arr) /\ m + 1 \in 1..len /\ m < len
  BY <1>0 DEF RemoveAutoApproveRule
<1>8. \A m \in 1..(len - 1) : arr[m] = (IF m >= n THEN Arr[m + 1] ELSE Arr[m]) /\ arr[m] # NoRule
  BY <1>0, <1>3, <1>7
<1>9. Shifted(n)
  BY <1>6, <1>7, <1>8 DEF Shifted
<1>10. len' \in 0..Len(arr)
  BY <1>0, <1>6, <1>7
<1>11. Shape'
  BY <1>6, <1>7, <1>8, <1>10 DEF Shape
<1>12. QED
  BY <1>6, <1>9, <1>11

-----------------------------------------------------------------------------
(* The inductive invariant *)

\* What the deciders know: the request of each, and when its permission ends.
Deciding ==
    /\ now \in 0..MaxTime
    /\ pc \in [Deciders -> {"idle", "announce", "reading", "done"}]
    /\ ask \in [Deciders -> Requests \cup {NoRequest}]
    /\ until \in [Deciders -> Nat]
    /\ existing \in [Deciders -> Nat \X Nat]
    /\ announced \in [Deciders -> Places \cup {Mixed}]
    /\ garbled \subseteq Deciders /\ revoked \subseteq Deciders
    /\ \A d \in Deciders :
          /\ pc[d] = "idle" => existing[d] = NoPointer
          /\ pc[d] # "idle" => ask[d] \in Requests
          /\ until[d] <= now + RuleTTL

\* One rule for each scope.
OneForEach == \A m, n \in 1..len : Scope(Arr[m]) = Scope(Arr[n]) => m = n

\* Every permission that has neither ended nor been removed has a rule that
\* was taken for its own and lives as long.
Kept ==
    \A d \in Deciders :
        pc[d] # "idle" /\ now <= until[d] /\ d \notin revoked =>
            \E n \in 1..len : SameAutoRule(Arr[n], RuleBy(d)) /\ Arr[n].expires >= until[d]

\* Whatever is in an array, in use or not, is a rule that the user made.
Made ==
    \A a \in 1..Len(heap) : \A n \in 1..Len(heap[a]) :
        Written(a, n) => \E e \in Deciders : pc[e] # "idle" /\ Scope(heap[a][n]) = Scope(RuleBy(e))

\* A pointer to a refreshed rule points to a place that was written.
Pointed ==
    \A d \in Deciders : existing[d] # NoPointer => Written(existing[d][1], existing[d][2])

BookInv == Shape /\ Deciding /\ OneForEach /\ Kept /\ Made /\ Pointed /\ AnnouncedMade

\* A decision stays made, and what was made stays made by somebody.
DecisionsStay ==
    \A e \in Deciders : pc[e] # "idle" => pc'[e] # "idle" /\ ask'[e] = ask[e]

\* A step that only writes rules of decisions keeps Made.
LEMMA MadeStep ==
    ASSUME Made, DecisionsStay, NEW new, ArraysStep(new),
           \A x \in new : \E e \in Deciders : pc'[e] # "idle" /\ x = Scope(RuleFrom(ask'[e]))
    PROVE  Made'
<1> SUFFICES ASSUME NEW a \in 1..Len(heap'), NEW n \in 1..Len(heap'[a]), Written(a, n)'
             PROVE  \E e \in Deciders : pc'[e] # "idle" /\ Scope(heap'[a][n]) = Scope(RuleFrom(ask'[e]))
  BY DEF Made, RuleBy
<1>0. PICK x : x = Scope(heap'[a][n])
  OBVIOUS
<1>1. ScopeWritten(x)'
  BY <1>0 DEF ScopeWritten
<1>2. CASE x \in new
  BY <1>0, <1>2
<1>3. CASE ScopeWritten(x)
  <2>1. PICK b \in 1..Len(heap) : \E m \in 1..Len(heap[b]) : Written(b, m) /\ Scope(heap[b][m]) = x
    BY <1>3 DEF ScopeWritten
  <2>2. PICK m \in 1..Len(heap[b]) : Written(b, m) /\ Scope(heap[b][m]) = x
    BY <2>1
  <2>3. PICK e \in Deciders : pc[e] # "idle" /\ x = Scope(RuleBy(e))
    BY <2>2 DEF Made
  <2>4. QED
    BY <1>0, <2>3 DEF DecisionsStay, RuleBy
<1>4. QED
  BY <1>1, <1>2, <1>3 DEF ArraysStep

\* A pointer into an array keeps pointing at a place that was written.
LEMMA PointedStep ==
    ASSUME Pointed, NEW new, ArraysStep(new),
           \A d \in Deciders : existing'[d] = existing[d] \/ Written(existing[d][1], existing[d][2])'
    PROVE  Pointed'
<1> SUFFICES ASSUME NEW d \in Deciders, existing'[d] = existing[d], existing[d] # NoPointer
             PROVE  Written(existing[d][1], existing[d][2])'
  BY DEF Pointed, NoPointer
<1>1. Written(existing[d][1], existing[d][2])
  BY DEF Pointed
<1>2. existing[d][1] \in 1..Len(heap) /\ existing[d][2] \in 1..Len(heap[existing[d][1]])
  BY <1>1 DEF Written
<1>3. \A p \in 1..Len(heap) : \A q \in 1..Len(heap[p]) :
         heap[p][q] # NoRule => p \in 1..Len(heap') /\ q \in 1..Len(heap'[p]) /\ heap'[p][q] # NoRule
  BY DEF ArraysStep, Written
<1>4. QED
  BY <1>1, <1>2, <1>3 DEF Written

\* An announcement that was made stays a rule of a decider.
LEMMA AnnouncedStay ==
    ASSUME AnnouncedMade, DecisionsStay,
           \A d \in Deciders : pc'[d] = "done" => pc[d] = "done" /\ announced'[d] = announced[d]
    PROVE  AnnouncedMade'
<1> SUFFICES ASSUME NEW d \in Deciders, pc'[d] = "done", announced'[d] # Mixed
             PROVE  /\ announced'[d] # NoRule
                    /\ \E e \in Deciders : pc'[e] # "idle" /\ Scope(announced'[d]) = Scope(RuleFrom(ask'[e]))
  BY DEF AnnouncedMade, RuleBy
<1>1. pc[d] = "done" /\ announced'[d] = announced[d]
  OBVIOUS
<1>2. PICK e \in Deciders : pc[e] # "idle" /\ Scope(announced[d]) = Scope(RuleFrom(ask[e]))
  BY <1>1 DEF AnnouncedMade, RuleBy
<1>3. QED
  BY <1>1, <1>2 DEF AnnouncedMade, DecisionsStay

\* AddAutoApproveRule: what changes outside the arrays.
LEMMA AddDecides ==
    ASSUME Deciding, NEW d \in Deciders, NEW request \in Requests, AddAutoApproveRule(d, request)
    PROVE  /\ DecisionsStay
           /\ now' = now /\ revoked' = revoked /\ announced' = announced /\ garbled' \subseteq Deciders
           /\ now + RuleTTL \in 0..(MaxTime + RuleTTL) /\ now \in Nat
           /\ pc'[d] = "announce" /\ ask'[d] = request /\ until'[d] = now + RuleTTL
           /\ \A e \in Deciders : e # d => pc'[e] = pc[e] /\ ask'[e] = ask[e] /\ until'[e] = until[e]
           /\ pc' \in [Deciders -> {"idle", "announce", "reading", "done"}]
           /\ ask' \in [Deciders -> Requests \cup {NoRequest}]
           /\ until' \in [Deciders -> Nat]
  BY TimeAssumption DEF Deciding, AddAutoApproveRule, Overwritten, DecisionsStay

\* AddAutoApproveRule refreshes a rule in place.
LEMMA RefreshKeeps ==
    ASSUME BookInv, NEW d \in Deciders, NEW request \in Requests, AddAutoApproveRule(d, request),
           NEW n0 \in 1..len, SameAutoRule(Arr[n0], RuleFrom(request)), UNCHANGED len,
           heap' = [heap EXCEPT ![Len(heap)] = [Arr EXCEPT ![n0] = Timed(Arr[n0], now + RuleTTL)]],
           existing' = [existing EXCEPT ![d] = <<Len(heap), n0>>]
    PROVE  BookInv'
<1> USE DEF BookInv
<1> DEFINE t == now + RuleTTL
<1>1. /\ DecisionsStay
      /\ now' = now /\ revoked' = revoked /\ announced' = announced /\ garbled' \subseteq Deciders
      /\ t \in 0..(MaxTime + RuleTTL)
      /\ pc'[d] = "announce" /\ ask'[d] = request /\ until'[d] = t
      /\ \A e \in Deciders : e # d => pc'[e] = pc[e] /\ ask'[e] = ask[e] /\ until'[e] = until[e]
      /\ pc' \in [Deciders -> {"idle", "announce", "reading", "done"}]
      /\ ask' \in [Deciders -> Requests \cup {NoRequest}]
      /\ until' \in [Deciders -> Nat]
  BY AddDecides
<1>2. Shape' /\ Refreshed(n0, t) /\ ArraysStep({})
  BY <1>1, RefreshStep
<1>3. \A m \in 1..len : Arr[m] \in MadeRules /\ Arr[m].expires \in Nat
  BY ArrayInUse, MadeRule
<1>4. \A m \in 1..len' : /\ Scope(Arr'[m]) = Scope(Arr[m])
                         /\ Arr'[m].expires = IF m = n0 THEN t ELSE Arr[m].expires
  BY <1>1, <1>2, <1>3, MadeRule DEF Refreshed
<1>5. len' = len /\ len \in Nat /\ Len(heap) \in Nat \ {0}
  BY ArrayInUse DEF Shape
<1>6. Deciding'
  <2>1. existing' \in [Deciders -> Nat \X Nat]
    BY <1>5 DEF Deciding
  <2>2. \A e \in Deciders : /\ pc'[e] = "idle" => existing'[e] = NoPointer
                            /\ pc'[e] # "idle" => ask'[e] \in Requests
                            /\ until'[e] <= t
    BY <1>1, TimeAssumption DEF Deciding
  <2>3. QED
    BY <1>1, <2>1, <2>2 DEF Deciding
<1>7. OneForEach'
  BY <1>4, <1>5 DEF OneForEach
<1>8. Kept'
  <2> SUFFICES ASSUME NEW e \in Deciders, pc'[e] # "idle", now <= until'[e], e \notin revoked
               PROVE  \E n \in 1..len' : /\ SameAutoRule(Arr'[n], RuleFrom(ask'[e]))
                                         /\ Arr'[n].expires >= until'[e]
    BY <1>1 DEF Kept, RuleBy
  <2>0. ASSUME NEW m \in 1..len, NEW c PROVE SameAutoRule(Arr'[m], c) <=> SameAutoRule(Arr[m], c)
    <3>1. Scope(Arr'[m]) = Scope(Arr[m])
      BY <1>4, <1>5
    <3>2. QED
      BY <3>1, SameByScope
  <2>1. CASE e = d
    <3>1. SameAutoRule(Arr'[n0], RuleFrom(ask'[e])) /\ Arr'[n0].expires = until'[e]
      BY <1>1, <1>4, <1>5, <2>0, <2>1
    <3>2. QED
      BY <1>1, <1>5, <2>1, <3>1
  <2>2. CASE e # d
    <3>1. PICK n \in 1..len : SameAutoRule(Arr[n], RuleFrom(ask[e])) /\ Arr[n].expires >= until[e]
      BY <1>1, <2>2 DEF Kept, RuleBy
    <3>2. SameAutoRule(Arr'[n], RuleFrom(ask'[e]))
      BY <1>1, <2>0, <2>2, <3>1
    <3>3. Arr'[n].expires >= until'[e]
      BY <1>1, <1>4, <1>5, <2>2, <3>1 DEF Deciding
    <3>4. QED
      BY <1>5, <3>2, <3>3
  <2>3. QED
    BY <2>1, <2>2
<1>9. Made'
  BY <1>1, <1>2, MadeStep
<1>10. Pointed'
  <2>1. Written(Len(heap), n0)
    BY <1>5, ArrayInUse DEF Written, Shape, Arr
  <2>2. Len(heap) \in 1..Len(heap) /\ n0 \in 1..Len(heap[Len(heap)])
    BY <2>1 DEF Written
  <2>3. Written(Len(heap), n0) => n0 \in 1..Len(heap'[Len(heap)]) /\ Len(heap) \in 1..Len(heap') /\ heap'[Len(heap)][n0] # NoRule
    BY <1>2, <2>2 DEF ArraysStep, Written
  <2>4. existing'[d] = <<Len(heap), n0>> /\ \A e \in Deciders : e # d => existing'[e] = existing[e]
    BY DEF Deciding
  <2>5. Written(existing[d][1], existing[d][2])'
    BY <2>1, <2>3, <2>4 DEF Written
  <2>6. QED
    BY <1>2, <2>4, <2>5, PointedStep
<1>11. AnnouncedMade'
  <2>1. \A e \in Deciders : pc'[e] = "done" => pc[e] = "done" /\ announced'[e] = announced[e]
    BY <1>1
  <2>2. QED
    BY <1>1, <2>1, AnnouncedStay
<1>12. QED
  BY <1>2, <1>6, <1>7, <1>8, <1>9, <1>10, <1>11

\* AddAutoApproveRule appends a rule.
LEMMA AppendKeeps ==
    ASSUME BookInv, NEW d \in Deciders, NEW request \in Requests, AddAutoApproveRule(d, request),
           \A n \in 1..len : ~SameAutoRule(Arr[n], RuleFrom(request)),
           heap' = Appended(Timed(RuleFrom(request), now + RuleTTL)), len' = len + 1,
           UNCHANGED existing
    PROVE  BookInv'
<1> USE DEF BookInv
<1> DEFINE t == now + RuleTTL
           rule == Timed(RuleFrom(request), t)
<1>1. /\ DecisionsStay
      /\ now' = now /\ revoked' = revoked /\ announced' = announced /\ garbled' \subseteq Deciders
      /\ t \in 0..(MaxTime + RuleTTL)
      /\ pc'[d] = "announce" /\ ask'[d] = request /\ until'[d] = t
      /\ \A e \in Deciders : e # d => pc'[e] = pc[e] /\ ask'[e] = ask[e] /\ until'[e] = until[e]
      /\ pc' \in [Deciders -> {"idle", "announce", "reading", "done"}]
      /\ ask' \in [Deciders -> Requests \cup {NoRequest}]
      /\ until' \in [Deciders -> Nat]
  BY AddDecides
<1>2. rule \in MadeRules /\ rule.expires = t /\ Scope(rule) = Scope(RuleFrom(request))
  BY <1>1 DEF MadeRules, Timed, Scope
<1> HIDE DEF rule
<1>3. Shape' /\ Extended(rule) /\ ArraysStep({Scope(rule)})
  BY <1>2, AppendStep DEF rule
<1>4. len' = len + 1 /\ len \in Nat
  BY ArrayInUse DEF Shape
<1>5. Deciding'
  <2>1. \A e \in Deciders : /\ pc'[e] = "idle" => existing'[e] = NoPointer
                            /\ pc'[e] # "idle" => ask'[e] \in Requests
                            /\ until'[e] <= t
    BY <1>1, TimeAssumption DEF Deciding
  <2>2. QED
    BY <1>1, <2>1 DEF Deciding
<1>6. SameAutoRule(rule, RuleFrom(request))
  BY <1>2, SameByScope
<1>7. OneForEach'
  <2>1. \A m \in 1..len : Scope(Arr[m]) # Scope(RuleFrom(request))
    BY SameByScope
  <2>2. \A m \in 1..len' : m \in 1..len \/ m = len + 1
    BY <1>4
  <2>3. QED
    BY <1>2, <1>3, <1>4, <2>1, <2>2 DEF OneForEach, Extended
<1>8. Kept'
  <2> SUFFICES ASSUME NEW e \in Deciders, pc'[e] # "idle", now <= until'[e], e \notin revoked
               PROVE  \E n \in 1..len' : /\ SameAutoRule(Arr'[n], RuleFrom(ask'[e]))
                                         /\ Arr'[n].expires >= until'[e]
    BY <1>1 DEF Kept, RuleBy
  <2>1. CASE e = d
    <3>1. Arr'[len + 1] = rule /\ len + 1 \in 1..len'
      BY <1>3, <1>4 DEF Extended
    <3>2. SameAutoRule(rule, RuleFrom(ask'[e])) /\ rule.expires >= until'[e]
      BY <1>1, <1>2, <1>6, <2>1
    <3>3. QED
      BY <3>1, <3>2
  <2>2. CASE e # d
    <3>1. PICK n \in 1..len : SameAutoRule(Arr[n], RuleFrom(ask[e])) /\ Arr[n].expires >= until[e]
      BY <1>1, <2>2 DEF Kept, RuleBy
    <3>2. Arr'[n] = Arr[n] /\ n \in 1..len'
      BY <1>3, <1>4, <3>1 DEF Extended
    <3>3. QED
      BY <1>1, <2>2, <3>1, <3>2
  <2>3. QED
    BY <2>1, <2>2
<1>9. Made'
  <2>1. \A x \in {Scope(rule)} : \E e \in Deciders : pc'[e] # "idle" /\ x = Scope(RuleFrom(ask'[e]))
    BY <1>1, <1>2
  <2>2. QED
    BY <1>1, <1>3, <2>1, MadeStep
<1>10. Pointed'
  BY <1>3, PointedStep
<1>11. AnnouncedMade'
  <2>1. \A e \in Deciders : pc'[e] = "done" => pc[e] = "done" /\ announced'[e] = announced[e]
    BY <1>1
  <2>2. QED
    BY <1>1, <2>1, AnnouncedStay
<1>12. QED
  BY <1>3, <1>5, <1>7, <1>8, <1>9, <1>10, <1>11

\* What AddAutoApproveRule does, without the search for the first place.
LEMMA AddCases ==
    ASSUME Shape, NEW d \in Deciders, NEW request \in Requests, AddAutoApproveRule(d, request)
    PROVE  \/ \E n \in 1..len :
                /\ SameAutoRule(Arr[n], RuleFrom(request)) /\ UNCHANGED len
                /\ heap' = [heap EXCEPT ![Len(heap)] = [Arr EXCEPT ![n] = Timed(Arr[n], now + RuleTTL)]]
                /\ existing' = [existing EXCEPT ![d] = <<Len(heap), n>>]
           \/ /\ \A n \in 1..len : ~SameAutoRule(Arr[n], RuleFrom(request))
              /\ heap' = Appended(Timed(RuleFrom(request), now + RuleTTL)) /\ len' = len + 1
              /\ UNCHANGED existing
<1> DEFINE same == {n \in 1..len : SameAutoRule(Arr[n], RuleFrom(request))}
           n0 == CHOOSE m \in same : \A k \in same : m <= k
<1>1. CASE same # {} /\ heap' = [heap EXCEPT ![Len(heap)] = [Arr EXCEPT ![n0] = Timed(Arr[n0], now + RuleTTL)]]
           /\ existing' = [existing EXCEPT ![d] = <<Len(heap), n0>>] /\ UNCHANGED len
  <2>1. same \subseteq Nat /\ same # {}
    BY <1>1
  <2> HIDE DEF same
  <2>2. n0 \in same
    BY <2>1, FirstPlace
  <2> HIDE DEF n0
  <2>3. n0 \in 1..len /\ SameAutoRule(Arr[n0], RuleFrom(request))
    BY <2>2 DEF same
  <2>4. QED
    BY <1>1, <2>3
<1>2. CASE same = {} /\ heap' = Appended(Timed(RuleFrom(request), now + RuleTTL)) /\ len' = len + 1
           /\ UNCHANGED existing
  BY <1>2
<1>3. QED
  BY <1>1, <1>2 DEF AddAutoApproveRule

\* checkAutoApproveRules drops the expired rules.
LEMMA CompactKeeps ==
    ASSUME BookInv, Compact
    PROVE  BookInv'
<1> USE DEF BookInv
<1>1. UNCHANGED <<trustRules, now, ask, pc, existing, announced, until, revoked>>
  BY DEF Compact
<1>2. Shape' /\ ArraysStep({})
  BY CompactStep
<1>3. PICK k \in 0..len : \E keep \in [1..k -> Live] : ListsLive(keep, k) /\ Compacted(keep, k)
  BY CompactStep
<1>4. PICK keep \in [1..k -> Live] : ListsLive(keep, k) /\ Compacted(keep, k)
  BY <1>3
<1>5. len' = k /\ \A m \in 1..k : Arr'[m] = Arr[keep[m]] /\ keep[m] \in 1..len
  BY <1>4 DEF Compacted, Live
<1>6. DecisionsStay /\ Deciding'
  <2>1. garbled' \subseteq Deciders
    BY DEF Compact, Overwritten, Deciding
  <2>2. QED
    BY <1>1, <2>1 DEF DecisionsStay, Deciding
<1>7. OneForEach'
  <2> SUFFICES ASSUME NEW m \in 1..k, NEW n \in 1..k, Scope(Arr[keep[m]]) = Scope(Arr[keep[n]])
               PROVE  m = n
    BY <1>5 DEF OneForEach
  <2>1. keep[m] = keep[n] /\ keep[m] \in Int
    BY <1>5 DEF OneForEach
  <2>2. QED
    BY <1>4, <2>1 DEF ListsLive
<1>8. Kept'
  <2> SUFFICES ASSUME NEW e \in Deciders, pc[e] # "idle", now <= until[e], e \notin revoked
               PROVE  \E n \in 1..k : SameAutoRule(Arr'[n], RuleFrom(ask[e])) /\ Arr'[n].expires >= until[e]
    BY <1>1, <1>5 DEF Kept, RuleBy
  <2>1. PICK n \in 1..len : SameAutoRule(Arr[n], RuleFrom(ask[e])) /\ Arr[n].expires >= until[e]
    BY DEF Kept, RuleBy
  <2>2. Arr[n].expires \in Nat
    BY <2>1, ArrayInUse, MadeRule
  <2>3. n \in Live
    BY <2>1, <2>2 DEF Live, Expired, Deciding
  <2>4. PICK m \in 1..k : keep[m] = n
    BY <1>4, <2>3 DEF ListsLive
  <2>5. QED
    BY <1>5, <2>1, <2>4
<1>9. Made' /\ Pointed'
  BY <1>1, <1>2, <1>6, MadeStep, PointedStep
<1>10. AnnouncedMade'
  BY <1>1, <1>6, AnnouncedStay
<1>11. QED
  BY <1>2, <1>6, <1>7, <1>8, <1>9, <1>10

\* RemoveAutoApproveRule revokes a rule.
LEMMA RemoveKeeps ==
    ASSUME BookInv, NEW n0 \in 1..len, RemoveAutoApproveRule(n0)
    PROVE  BookInv'
<1> USE DEF BookInv
<1>1. UNCHANGED <<trustRules, now, ask, pc, existing, announced, until>>
  BY DEF RemoveAutoApproveRule
<1>2. Shape' /\ ArraysStep({}) /\ Shifted(n0)
  BY RemoveStep
<1>3. revoked' = revoked \cup {d \in Deciders : pc[d] # "idle" /\ SameAutoRule(Arr[n0], RuleBy(d))}
  BY DEF RemoveAutoApproveRule
<1>4. len' = len - 1 /\ len \in Nat /\ \A m \in 1..(len - 1) : Arr'[m] = IF m >= n0 THEN Arr[m + 1] ELSE Arr[m]
  BY <1>2, ArrayInUse DEF Shifted, Shape
<1>5. DecisionsStay /\ Deciding'
  <2>1. garbled' \subseteq Deciders
    BY DEF RemoveAutoApproveRule, Overwritten, Deciding
  <2>2. QED
    BY <1>1, <1>3, <2>1 DEF DecisionsStay, Deciding
<1>6. OneForEach'
  <2> SUFFICES ASSUME NEW m \in 1..(len - 1), NEW n \in 1..(len - 1), Scope(Arr'[m]) = Scope(Arr'[n])
               PROVE  m = n
    BY <1>4 DEF OneForEach
  <2> DEFINE from(j) == IF j >= n0 THEN j + 1 ELSE j
  <2>1. from(m) \in 1..len /\ from(n) \in 1..len /\ (from(m) = from(n) => m = n)
    BY <1>4
  <2>2. Arr'[m] = Arr[from(m)] /\ Arr'[n] = Arr[from(n)]
    BY <1>4
  <2> HIDE DEF from
  <2>3. QED
    BY <2>1, <2>2 DEF OneForEach
<1>7. Kept'
  <2> SUFFICES ASSUME NEW e \in Deciders, pc[e] # "idle", now <= until[e], e \notin revoked'
               PROVE  \E n \in 1..(len - 1) :
                         SameAutoRule(Arr'[n], RuleFrom(ask[e])) /\ Arr'[n].expires >= until[e]
    BY <1>1, <1>4 DEF Kept, RuleBy
  <2>1. e \notin revoked /\ ~SameAutoRule(Arr[n0], RuleFrom(ask[e]))
    BY <1>3 DEF RuleBy
  <2>2. PICK n \in 1..len : SameAutoRule(Arr[n], RuleFrom(ask[e])) /\ Arr[n].expires >= until[e]
    BY <2>1 DEF Kept, RuleBy
  <2>3. n # n0
    BY <2>1, <2>2
  <2> DEFINE to == IF n > n0 THEN n - 1 ELSE n
  <2>4. to \in 1..(len - 1) /\ Arr'[to] = Arr[n]
    <3>1. CASE n > n0
      BY <1>4, <3>1
    <3>2. CASE ~(n > n0)
      BY <1>4, <2>3, <3>2
    <3>3. QED
      BY <3>1, <3>2
  <2> HIDE DEF to
  <2>5. QED
    BY <2>2, <2>4
<1>8. Made' /\ Pointed'
  BY <1>1, <1>2, <1>5, MadeStep, PointedStep
<1>9. AnnouncedMade'
  BY <1>1, <1>5, AnnouncedStay
<1>10. QED
  BY <1>2, <1>5, <1>6, <1>7, <1>8, <1>9

\* A step that leaves the arrays and the decisions alone, as the clock does
\* and an announcement.
LEMMA ArraysUntouched ==
    ASSUME BookInv, UNCHANGED <<heap, len, ask, existing, until, revoked>>,
           \A d \in Deciders : pc[d] # "idle" <=> pc'[d] # "idle",
           now' \in 0..MaxTime, now <= now'
    PROVE  /\ Shape' /\ OneForEach' /\ Kept' /\ Made' /\ Pointed'
           /\ \A d \in Deciders : /\ pc'[d] = "idle" => existing'[d] = NoPointer
                                  /\ pc'[d] # "idle" => ask'[d] \in Requests
                                  /\ until'[d] <= now' + RuleTTL
<1> USE DEF BookInv
<1>1. Arr' = Arr /\ \A a, n : Written(a, n)' <=> Written(a, n)
  BY DEF Arr, Written
<1>2. Shape' /\ OneForEach'
  BY <1>1 DEF Shape, OneForEach
<1>3. now \in Nat /\ now' \in Nat /\ RuleTTL \in Nat /\ \A d \in Deciders : until[d] \in Nat
  BY TimeAssumption DEF Deciding
<1>4. Kept'
  BY <1>1, <1>3 DEF Kept, RuleBy
<1>5. Made' /\ Pointed'
  <2>1. Made'
    <3> SUFFICES ASSUME NEW a \in 1..Len(heap), NEW n \in 1..Len(heap[a]), Written(a, n)
                 PROVE  \E e \in Deciders : pc'[e] # "idle" /\ Scope(heap[a][n]) = Scope(RuleFrom(ask[e]))
      BY <1>1 DEF Made, RuleBy
    <3>1. QED
      BY DEF Made, RuleBy
  <2>2. Pointed'
    BY DEF Pointed, Written
  <2>3. QED
    BY <2>1, <2>2
<1>6. \A d \in Deciders : /\ pc'[d] = "idle" => existing'[d] = NoPointer
                          /\ pc'[d] # "idle" => ask'[d] \in Requests
                          /\ until'[d] <= now' + RuleTTL
  BY <1>3 DEF Deciding
<1>7. QED
  BY <1>2, <1>4, <1>5, <1>6

\* Observe: nothing is announced yet.
LEMMA ObserveKeeps ==
    ASSUME BookInv, NEW d \in Deciders, Observe(d)
    PROVE  BookInv'
<1> USE DEF BookInv
<1>1. /\ UNCHANGED <<heap, len, now, ask, existing, announced, garbled, until, revoked>>
      /\ pc[d] = "announce" /\ pc'[d] = "reading"
      /\ \A e \in Deciders : e # d => pc'[e] = pc[e]
      /\ pc' \in [Deciders -> {"idle", "announce", "reading", "done"}]
  BY DEF Observe, Deciding
<1>2. \A e \in Deciders : pc[e] # "idle" <=> pc'[e] # "idle"
  BY <1>1
<1>3. now' \in 0..MaxTime /\ now <= now'
  BY <1>1, TimeAssumption DEF Deciding
<1>4. /\ Shape' /\ OneForEach' /\ Kept' /\ Made' /\ Pointed'
      /\ \A e \in Deciders : /\ pc'[e] = "idle" => existing'[e] = NoPointer
                             /\ pc'[e] # "idle" => ask'[e] \in Requests
                             /\ until'[e] <= now' + RuleTTL
  BY <1>1, <1>2, <1>3, ArraysUntouched
<1>5. Deciding'
  BY <1>1, <1>4 DEF Deciding
<1>6. AnnouncedMade'
  <2>1. DecisionsStay
    BY <1>1, <1>2 DEF DecisionsStay
  <2>2. \A e \in Deciders : pc'[e] = "done" => pc[e] = "done" /\ announced'[e] = announced[e]
    BY <1>1
  <2>3. QED
    BY <2>1, <2>2, AnnouncedStay
<1>7. QED
  BY <1>4, <1>5, <1>6

\* Announce: what the pointer shows by then is still a rule the user made,
\* unless it was written while it was read.
LEMMA AnnounceKeeps ==
    ASSUME BookInv, NEW d \in Deciders, Announce(d)
    PROVE  BookInv'
<1> USE DEF BookInv
<1> DEFINE rule == IF existing[d] = NoPointer THEN Timed(RuleBy(d), until[d])
                     ELSE IF d \in garbled THEN Mixed ELSE heap[existing[d][1]][existing[d][2]]
<1>1. /\ UNCHANGED <<heap, len, now, ask, existing, garbled, until, revoked>>
      /\ pc[d] = "reading" /\ pc'[d] = "done" /\ announced'[d] = rule
      /\ \A e \in Deciders : e # d => pc'[e] = pc[e] /\ announced'[e] = announced[e]
      /\ pc' \in [Deciders -> {"idle", "announce", "reading", "done"}]
      /\ announced' = [announced EXCEPT ![d] = rule]
  BY DEF Announce, Deciding
<1>2. \A e \in Deciders : pc[e] # "idle" <=> pc'[e] # "idle"
  BY <1>1
<1>3. \/ rule = Mixed
      \/ rule \in MadeRules /\ \E e \in Deciders : pc[e] # "idle" /\ Scope(rule) = Scope(RuleBy(e))
  <2>1. CASE existing[d] = NoPointer
    <3>1. ask[d] \in Requests /\ until[d] \in 0..(MaxTime + RuleTTL)
      BY <1>1, TimeAssumption DEF Deciding
    <3>2. Timed(RuleBy(d), until[d]) \in MadeRules
      BY <3>1 DEF MadeRules, RuleBy
    <3>3. Scope(Timed(RuleBy(d), until[d])) = Scope(RuleBy(d))
      BY DEF Scope, Timed
    <3>4. QED
      BY <1>1, <2>1, <3>2, <3>3
  <2>2. CASE existing[d] # NoPointer /\ d \in garbled
    BY <2>2
  <2>3. CASE existing[d] # NoPointer /\ d \notin garbled
    <3>1. PICK a : a = existing[d][1]
      OBVIOUS
    <3>2. PICK n : n = existing[d][2]
      OBVIOUS
    <3>3. Written(a, n) /\ rule = heap[a][n]
      BY <2>3, <3>1, <3>2 DEF Pointed
    <3>4. a \in 1..Len(heap) /\ n \in 1..Len(heap[a]) /\ heap[a][n] # NoRule
      BY <3>3 DEF Written
    <3>5. heap[a] \in Seq(Places)
      BY <3>4, ElementOfSeq DEF Shape
    <3>6. heap[a][n] \in Places
      BY <3>4, <3>5, ElementOfSeq
    <3>7. \E e \in Deciders : pc[e] # "idle" /\ Scope(heap[a][n]) = Scope(RuleBy(e))
      BY <3>3, <3>4 DEF Made
    <3>8. QED
      BY <3>3, <3>4, <3>6, <3>7 DEF Places
  <2>4. QED
    BY <2>1, <2>2, <2>3
<1>4. rule # Mixed => rule # NoRule
  BY <1>3, MadeRule
<1> HIDE DEF rule
<1>5. now' \in 0..MaxTime /\ now <= now'
  BY <1>1, TimeAssumption DEF Deciding
<1>6. /\ Shape' /\ OneForEach' /\ Kept' /\ Made' /\ Pointed'
      /\ \A e \in Deciders : /\ pc'[e] = "idle" => existing'[e] = NoPointer
                             /\ pc'[e] # "idle" => ask'[e] \in Requests
                             /\ until'[e] <= now' + RuleTTL
  BY <1>1, <1>2, <1>5, ArraysUntouched
<1>7. Deciding'
  <2>1. announced' \in [Deciders -> Places \cup {Mixed}]
    BY <1>1, <1>3 DEF Deciding, Places
  <2>2. QED
    BY <1>1, <1>6, <2>1 DEF Deciding
<1>8. AnnouncedMade'
  <2> SUFFICES ASSUME NEW c \in Deciders, pc'[c] = "done", announced'[c] # Mixed
               PROVE  /\ announced'[c] # NoRule
                      /\ \E e \in Deciders : pc'[e] # "idle" /\ Scope(announced'[c]) = Scope(RuleFrom(ask'[e]))
    BY DEF AnnouncedMade, RuleBy
  <2>1. CASE c = d
    BY <1>1, <1>2, <1>3, <1>4, <2>1 DEF RuleBy
  <2>2. CASE c # d
    BY <1>1, <1>2, <2>2 DEF AnnouncedMade, RuleBy
  <2>3. QED
    BY <2>1, <2>2
<1>9. QED
  BY <1>6, <1>7, <1>8

\* BookInv is an invariant: one step of the proof for each operation.
LEMMA BookInvariance == Spec => []BookInv
<1>1. Init => BookInv
  <2> SUFFICES ASSUME Init PROVE BookInv
    OBVIOUS
  <2>1. heap = << <<>> >> /\ len = 0 /\ now = 0
    BY DEF Init
  <2>2. <<>> \in Seq(Places) /\ Len(<<>>) = 0
    BY EmptySeq
  <2>3. heap \in Seq(Seq(Places)) /\ heap # <<>> /\ Len(heap) = 1 /\ heap[1] = <<>>
    BY <2>1, <2>2
  <2>4. Arr = <<>>
    BY <2>3 DEF Arr
  <2>5. Shape
    BY <2>1, <2>2, <2>3, <2>4 DEF Shape
  <2>6. Deciding
    BY TimeAssumption DEF Init, Deciding, NoPointer, Places
  <2>7. OneForEach /\ Kept /\ AnnouncedMade
    BY <2>1 DEF OneForEach, Kept, AnnouncedMade, Init
  <2>8. Made
    BY <2>2, <2>3 DEF Made
  <2>9. Pointed
    BY DEF Pointed, Init
  <2>10. QED
    BY <2>5, <2>6, <2>7, <2>8, <2>9 DEF BookInv
<1>2. BookInv /\ [Next]_vars => BookInv'
  <2> SUFFICES ASSUME BookInv, [Next]_vars PROVE BookInv'
    OBVIOUS
  <2>1. ASSUME NEW d \in Deciders, NEW request \in Requests, AddAutoApproveRule(d, request)
        PROVE  BookInv'
    <3>1. CASE \E n \in 1..len :
                  /\ SameAutoRule(Arr[n], RuleFrom(request)) /\ UNCHANGED len
                  /\ heap' = [heap EXCEPT ![Len(heap)] = [Arr EXCEPT ![n] = Timed(Arr[n], now + RuleTTL)]]
                  /\ existing' = [existing EXCEPT ![d] = <<Len(heap), n>>]
      BY <2>1, <3>1, RefreshKeeps
    <3>2. CASE /\ \A n \in 1..len : ~SameAutoRule(Arr[n], RuleFrom(request))
               /\ heap' = Appended(Timed(RuleFrom(request), now + RuleTTL)) /\ len' = len + 1
               /\ UNCHANGED existing
      BY <2>1, <3>2, AppendKeeps
    <3>3. Shape
      BY DEF BookInv
    <3>4. QED
      BY <2>1, <3>1, <3>2, <3>3, AddCases
  <2>2. ASSUME NEW d \in Deciders, Observe(d) \/ Announce(d) PROVE BookInv'
    BY <2>2, ObserveKeeps, AnnounceKeeps
  <2>3. CASE Compact
    BY <2>3, CompactKeeps
  <2>4. ASSUME NEW n \in 1..len, RemoveAutoApproveRule(n) PROVE BookInv'
    BY <2>4, RemoveKeeps
  <2>5. ASSUME UNCHANGED <<heap, len, ask, pc, existing, announced, garbled, until, revoked>>,
               now' \in 0..MaxTime, now <= now'
        PROVE  BookInv'
    <3>1. /\ Shape' /\ OneForEach' /\ Kept' /\ Made' /\ Pointed'
          /\ \A e \in Deciders : /\ pc'[e] = "idle" => existing'[e] = NoPointer
                                 /\ pc'[e] # "idle" => ask'[e] \in Requests
                                 /\ until'[e] <= now' + RuleTTL
      BY <2>5, ArraysUntouched
    <3>2. Deciding'
      BY <2>5, <3>1 DEF Deciding, BookInv
    <3>3. AnnouncedMade'
      BY <2>5 DEF AnnouncedMade, RuleBy, BookInv
    <3>4. QED
      BY <3>1, <3>2, <3>3 DEF BookInv
  <2>6. CASE Tick
    <3>1. now' \in 0..MaxTime /\ now <= now'
      BY <2>6, TimeAssumption DEF Tick, BookInv, Deciding
    <3>2. QED
      BY <2>5, <2>6, <3>1 DEF Tick
  <2>7. CASE UNCHANGED vars
    <3>1. now' \in 0..MaxTime /\ now <= now'
      BY <2>7, TimeAssumption DEF vars, BookInv, Deciding
    <3>2. QED
      BY <2>5, <2>7, <3>1 DEF vars
  <2>8. QED
    BY <2>1, <2>2, <2>3, <2>4, <2>6, <2>7 DEF Next
<1>3. QED
  BY <1>1, <1>2, PTL DEF Spec

-----------------------------------------------------------------------------
(* Theorems *)

\* A retry of a request, of one item, a batch or none, is granted as long as
\* the permission for it lasts, whatever was refreshed, compacted, removed and
\* reallocated in between, except a batch whose rule was taken for one that
\* asks for an empty value (AddAutoApproveRule, checkAutoApproveRules,
\* autoApproveCoversAll, RemoveAutoApproveRule).
THEOREM RetriesAreGranted == Spec => []RetryGranted
<1>1. BookInv => RetryGranted
  <2> SUFFICES ASSUME BookInv PROVE RetryGranted
    OBVIOUS
  <2>1. TypeOK
    BY DEF BookInv, Shape, Deciding, OneForEach, TypeOK
  <2>2. ASSUME NEW d \in Deciders, pc[d] # "idle", Rulable(ask[d]),
               now <= until[d], d \notin revoked
        PROVE  \E n \in 1..len :
                    /\ ~Expired(Arr[n])
                    /\ \/ AutoRuleMatches(Arr[n], ask[d].sender, ask[d].items, ask[d].type)
                       \/ /\ DOMAIN ask[d].items \ {1} # {}
                          /\ HasEmpty(Arr[n]) /\ SameAutoRule(Arr[n], RuleBy(d))
    <3>1. PICK n \in 1..len : SameAutoRule(Arr[n], RuleFrom(ask[d])) /\ Arr[n].expires >= until[d]
      BY <2>2 DEF BookInv, Kept, RuleBy
    <3>2. Arr[n] \in MadeRules /\ Arr[n].expires \in Nat /\ ask[d] \in Requests
      BY <2>2, <3>1, ArrayInUse, MadeRule DEF BookInv, Deciding
    <3>3. ~Expired(Arr[n])
      BY <2>2, <3>1, <3>2 DEF Expired, BookInv, Deciding
    <3>4. CASE DOMAIN ask[d].items \ {1} = {} \/ ~HasEmpty(Arr[n])
      BY <2>2, <3>1, <3>2, <3>3, <3>4, SameGrants
    <3>5. QED
      BY <3>1, <3>3, <3>4 DEF RuleBy
  <2>3. QED
    BY <2>1, <2>2 DEF RetryGranted
<1>2. QED
  BY <1>1, BookInvariance, PTL

\* An announcement after the unlock shows a rule the user made, whatever the
\* array under its pointer holds by then, unless its place is written while an
\* observer reads it (notify in AddAutoApproveRule, OnEvent).
THEOREM AnnouncementsAreRules == Spec => []AnnouncedMade
<1>1. BookInv => AnnouncedMade
  BY DEF BookInv
<1>2. QED
  BY <1>1, BookInvariance, PTL

\* A decision prolongs no rule of another scope, except one with an empty
\* value (AddAutoApproveRule, attributesEqual).
THEOREM RefreshesKeepScope == Spec => RefreshKeepsScope
<1>1. ASSUME BookInv, [Next]_vars, NEW d \in Deciders, ask[d] # ask'[d], NEW n \in 1..len,
             Scope(Arr[n]) # Scope(RuleFrom(ask'[d])), ~HasEmpty(Arr[n])
      PROVE  heap'[Len(heap')][n] = Arr[n]
  <2>1. PICK e \in Deciders : \E request \in Requests : AddAutoApproveRule(e, request)
    BY <1>1 DEF Next, vars, Observe, Announce, Compact, RemoveAutoApproveRule, Tick
  <2>2. PICK request \in Requests : AddAutoApproveRule(e, request)
    BY <2>1
  <2>3. e = d /\ ask'[d] = request
    BY <1>1, <2>2, AddDecides DEF BookInv
  <2>4. Arr[n] \in MadeRules
    BY ArrayInUse, <1>1 DEF BookInv
  <2>5. now + RuleTTL \in 0..(MaxTime + RuleTTL)
    BY <1>1, <2>2, AddDecides DEF BookInv
  <2>6. CASE \E m \in 1..len :
                /\ SameAutoRule(Arr[m], RuleFrom(request)) /\ UNCHANGED len
                /\ heap' = [heap EXCEPT ![Len(heap)] = [Arr EXCEPT ![m] = Timed(Arr[m], now + RuleTTL)]]
    <3>1. PICK m \in 1..len :
                /\ SameAutoRule(Arr[m], RuleFrom(request)) /\ UNCHANGED len
                /\ heap' = [heap EXCEPT ![Len(heap)] = [Arr EXCEPT ![m] = Timed(Arr[m], now + RuleTTL)]]
      BY <2>6
    <3>2. m # n
      BY <1>1, <2>3, <2>4, <3>1, SameScope
    <3>3. Refreshed(m, now + RuleTTL)
      BY <1>1, <2>5, <3>1, RefreshStep DEF BookInv
    <3>4. QED
      BY <3>2, <3>3 DEF Refreshed, Arr
  <2>7. CASE heap' = Appended(Timed(RuleFrom(request), now + RuleTTL)) /\ len' = len + 1
    <3>1. Timed(RuleFrom(request), now + RuleTTL) \in MadeRules
      BY <2>5 DEF MadeRules
    <3>2. Extended(Timed(RuleFrom(request), now + RuleTTL))
      BY <1>1, <2>7, <3>1, AppendStep DEF BookInv
    <3>3. QED
      BY <3>2 DEF Extended, Arr
  <2>8. QED
    BY <1>1, <2>2, <2>6, <2>7, AddCases DEF BookInv
<1>2. BookInv /\ [Next]_vars =>
        [\A d \in Deciders : ask[d] # ask'[d] =>
            \A n \in 1..len :
                Scope(Arr[n]) # Scope(RuleFrom(ask'[d])) /\ ~HasEmpty(Arr[n])
                    => heap'[Len(heap')][n] = Arr[n]]_vars
  BY <1>1
<1>3. QED
  BY <1>2, BookInvariance, PTL DEF Spec, RefreshKeepsScope
=============================================================================
