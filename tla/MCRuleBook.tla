------------------------------ MODULE MCRuleBook ------------------------------
(***************************************************************************)
(* A small instance of RuleBook for TLC.  Attribute values: a plain string *)
(* "x", the empty string, and a pattern for everything.  A behaviour is    *)
(* either about one of the configurations, or about the auto-approve rules.*)
(***************************************************************************)
EXTENDS RuleBook, TLC

CONSTANTS d1, d2, d3

Strings == {Empty, "x", "login", "vault", "git", "sh"}
MCMatches ==
    {<<s, s>> : s \in Strings} \cup {<<"*", s>> : s \in Strings}

\* A process whose executable is known, and one whose is not.
Process(exe) == [pid |-> 1, exe |-> exe, name |-> "sh", args |-> {}, cwd |-> Empty]
Sender(exe) == [pid |-> 1, chain |-> <<Process(exe)>>, unit |-> Empty, trusted |-> FALSE]
MCSenderInfos == {Sender("git"), Sender(Empty)}

Item(coll, attrs) == [collection |-> coll, label |-> Empty, attributes |-> attrs]
Ask(exe, items, type) == [sender |-> Sender(exe), items |-> items, type |-> type]

\* A single item with an empty value, a request without items, and batches: a
\* mixed one, for whose first item the rule is made, and one that a rule for an
\* empty value of "k" is taken for, although its second item has another.
MCRequests ==
    {Ask("git", <<Item("login", "k" :> Empty)>>, "get_secret"),
     Ask("git", <<>>, "gpg_sign"),
     Ask("git", <<Item("login", NoAttributes), Item("vault", "k" :> "x")>>, "get_secret"),
     Ask("git", <<Item("login", "l" :> "x"), Item("login", ("k" :> "x") @@ ("l" :> "x"))>>, "get_secret")}

Items == {Item(coll, a) : coll \in {"login", "vault"}, a \in {NoAttributes, "k" :> "x"}}
MCBatches == {batch \in Items \X Items : batch[1] # batch[2]}

AnyProcess == [exe |-> Empty, name |-> Empty, args |-> Empty, cwd |-> Empty, unit |-> Empty]
Secrets == [collection : {Empty, "login"}, label : {Empty}, attributes : {NoAttributes, "k" :> "x", "k" :> "*"}]
Rule(action, types, exe, sm) ==
    [action |-> action, types |-> types, process |-> [AnyProcess EXCEPT !.exe = exe],
     secret |-> sm, search |-> NoAttributes]
Rules ==
    {Rule(action, {}, Empty, sm) : action \in {Empty, "deny"}, sm \in Secrets} \cup
    {Rule("ignore", {"write"}, "git", sm) : sm \in Secrets}
MCTrustRuleLists == {<<>>} \cup {<<k>> : k \in Rules} \cup (Rules \X Rules)

OneSubject ==
    \/ trustRules = <<>>
    \/ now = 0 /\ \A d \in Deciders : pc[d] = "idle"

Symmetry == Permutations(Deciders)

=============================================================================
