------------------------------ MODULE TrustRules ------------------------------
(***************************************************************************)
(* How the approval manager matches requests with rules: the trust rules   *)
(* and trusted signers of the configuration, and the auto-approve rules it *)
(* makes itself (manager.go).  Pure functions of a rule, a sender and the  *)
(* items of a request.                                                     *)
(*                                                                         *)
(* A string is a value of any set, Empty is "".  An attribute map is a     *)
(* function on its keys.  A nil matcher is one whose fields are Empty,     *)
(* which the code treats alike.  An item has the collection that           *)
(* ExtractCollection takes from its path, and a file prefix is the set of  *)
(* files that have it.                                                     *)
(***************************************************************************)
EXTENDS Naturals, Sequences, FiniteSets

CONSTANTS
    Empty,      \* the empty string
    Matches     \* pairs for which path.Match(pattern, string) is true, without an error

Glob(pattern, string) == <<pattern, string>> \in Matches

\* As a pattern, the value stands for itself; "" does.
Literal(v) == Glob(v, v)

ASSUME EmptyAssumption == Literal(Empty)

-----------------------------------------------------------------------------
(* Attributes *)

\* m[k] in Go: an absent key reads as the empty string.
Get(m, k) == IF k \in DOMAIN m THEN m[k] ELSE Empty

\* Mutant: the lengths are not compared.
attributesSubset(a, b) == \A k \in DOMAIN a : Get(b, k) = a[k]

attributesEqual(a, b) ==
    /\ Cardinality(DOMAIN a) = Cardinality(DOMAIN b)
    /\ \A k \in DOMAIN a : Get(b, k) = a[k]

attributesMatch(rule, attrs) == \A k \in DOMAIN rule : Glob(rule[k], Get(attrs, k))

-----------------------------------------------------------------------------
(* Trust rules: [action, types, process, secret, search] *)

\* Every field that is set matches some process of the chain; the unit is the
\* caller's own.
matchProcess(pm, s) ==
    /\ \A f \in {"exe", "name", "cwd"} :
          pm[f] # Empty => \E n \in DOMAIN s.chain : Glob(pm[f], s.chain[n][f])
    /\ pm.args # Empty => \E n \in DOMAIN s.chain : \E arg \in s.chain[n].args : Glob(pm.args, arg)
    /\ pm.unit # Empty => Glob(pm.unit, s.unit)

matchSecretItem(sm, item) ==
    /\ sm.collection # Empty => Glob(sm.collection, item.collection)
    /\ sm.label # Empty => Glob(sm.label, item.label)
    /\ attributesMatch(sm.attributes, item.attributes)

Unconstrained(sm) == sm.collection = Empty /\ sm.label = Empty /\ DOMAIN sm.attributes = {}

\* Mutant: only the first item of the batch is looked at.
matchSecretFirst(sm, items, restrictive) ==
    \/ Unconstrained(sm)
    \/ items # <<>> /\ matchSecretItem(sm, items[1])

\* deny and ignore rules look for one item in their scope, approve rules want
\* every item there.
matchSecret(sm, items, restrictive) ==
    \/ Unconstrained(sm)
    \/ restrictive /\ \E n \in DOMAIN items : matchSecretItem(sm, items[n])
    \/ ~restrictive /\ items # <<>> /\ \A n \in DOMAIN items : matchSecretItem(sm, items[n])

Restrictive(rule) == rule.action \in {"deny", "ignore"}

matchTrustRule(rule, s, items, type, search) ==
    /\ rule.types # {} => type \in rule.types
    /\ matchProcess(rule.process, s)
    /\ matchSecret(rule.secret, items, Restrictive(rule))
    /\ attributesMatch(rule.search, search)

\* The index of the first rule that matches, or 0.
FirstTrustRule(list, s, items, type, search) ==
    LET hits == {n \in DOMAIN list : matchTrustRule(list[n], s, items, type, search)}
    IN  IF hits = {} THEN 0 ELSE CHOOSE n \in hits : \A m \in hits : n <= m

\* What RequireApproval makes of it: a rule without an action approves.
Verdict(list, s, items, type, search) ==
    LET n == FirstTrustRule(list, s, items, type, search)
    IN  CASE n = 0 -> "none"
          [] n # 0 /\ Restrictive(list[n]) -> list[n].action
          [] n # 0 /\ ~Restrictive(list[n]) -> "approve"

-----------------------------------------------------------------------------
(* Trusted signers: [exe, repo, prefix] *)

\* One entry decides, for any ancestor of a peer that is our own thin client.
CheckTrustedSigner(signers, s, repo, files) ==
    /\ s.trusted
    /\ \E n \in DOMAIN s.chain : \E ts \in signers :
          /\ s.chain[n].exe # Empty
          /\ s.chain[n].exe = ts.exe
          /\ ts.repo # Empty => repo = ts.repo
          /\ ts.prefix # Empty => files \subseteq ts.prefix

-----------------------------------------------------------------------------
(* Auto-approve rules: [exe, type, collection, attributes] *)

invokerExePath(s) ==
    LET own == {n \in DOMAIN s.chain : s.chain[n].pid = s.pid /\ s.chain[n].exe # Empty}
    IN  IF own = {} THEN Empty ELSE s.chain[CHOOSE n \in own : \A m \in own : n <= m].exe

NoAttributes == [k \in {} |-> Empty]

autoApproveCoversAll(rule, items) ==
    IF items = <<>>
    THEN rule.collection = Empty /\ DOMAIN rule.attributes = {}
    ELSE \A n \in DOMAIN items :
            /\ rule.collection # Empty => rule.collection = items[n].collection
            /\ attributesMatch(rule.attributes, items[n].attributes)

\* checkAutoApproveRules, for a rule that has not expired.
AutoRuleMatches(rule, s, items, type) ==
    /\ invokerExePath(s) # Empty
    /\ rule.exe = invokerExePath(s)
    /\ rule.type = type
    /\ autoApproveCoversAll(rule, items)

\* The rule a request gives: its first item, or what it searches for, decides.
AutoRule(s, items, type, search) ==
    [exe |-> invokerExePath(s),
     type |-> type,
     collection |-> IF items = <<>> THEN Empty ELSE items[1].collection,
     attributes |-> IF type = "search" /\ DOMAIN search # {} THEN search
                    ELSE IF items = <<>> THEN NoAttributes ELSE items[1].attributes]

\* An existing rule that AddAutoApproveRule takes for the new one.
SameAutoRule(existing, rule) ==
    /\ existing.exe = rule.exe
    /\ existing.type = rule.type
    /\ existing.collection = rule.collection
    /\ attributesEqual(existing.attributes, rule.attributes)

=============================================================================
