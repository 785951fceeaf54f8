-------------------------- MODULE MCApprovalManager --------------------------
(***************************************************************************)
(* Small instances of ApprovalManager for TLC, in which the verdicts of the *)
(* configuration, the invoker's executable and the scope of a rule are what *)
(* TrustRules computes.  Item i2 is outside the scope of a rule made from   *)
(* i1, while a rule made from i2 covers both: its attribute value is a      *)
(* pattern.                                                                 *)
(***************************************************************************)
EXTENDS ApprovalManager, TrustRules, TLC

CONSTANTS r1, r2, r3, r4, r5, r6, r7, r8, c1, c2, s1, s2, i1, i2, i3, e1, sc1, sc2, sc3

\* path.Match on the patterns that occur: "*", and strings without special
\* characters.
Strings == {Empty, e1, "x", "*", "login", "vault", "batch", "nvim"}
MCMatches == {<<s, s>> : s \in Strings} \cup {<<"*", s>> : s \in Strings}

\* The client processes: c1's executable is known; c2's is not, but c2 was
\* started by the editor, and is a unit of its own.
Process(pid, exe) == [pid |-> pid, exe |-> exe, name |-> "sh", args |-> {}, cwd |-> "home"]
Peer ==
    (c1 :> [pid |-> 1, chain |-> <<Process(1, e1)>>, unit |-> Empty, trusted |-> TRUE]) @@
    (c2 :> [pid |-> 2, chain |-> <<Process(2, Empty), Process(3, "nvim")>>, unit |-> "batch", trusted |-> TRUE])

ItemInfo(coll, attrs) == [collection |-> coll, label |-> "l", attributes |-> attrs]
ItemOf ==
    (i1 :> ItemInfo("login", "k" :> "x")) @@ (i2 :> ItemInfo("login", "k" :> "*")) @@
    (i3 :> ItemInfo("vault", "k" :> "x"))
ItemsOf(its) == [n \in DOMAIN its |-> ItemOf[its[n]]]

AnyProcess == [exe |-> Empty, name |-> Empty, args |-> Empty, cwd |-> Empty, unit |-> Empty]
AnySecret == [collection |-> Empty, label |-> Empty, attributes |-> NoAttributes]
TrustRule(action, types, pm, sm) ==
    [action |-> action, types |-> types, process |-> pm, secret |-> sm, search |-> NoAttributes]

\* The configuration: c1's writes are approved and other writes ignored; reads
\* of the vault are denied, and all reads by c2's unit.
MCRules ==
    <<TrustRule(Empty, {"write"}, [AnyProcess EXCEPT !.exe = e1], AnySecret),
      TrustRule("ignore", {"write"}, AnyProcess, AnySecret),
      TrustRule("deny", {"get_secret"}, AnyProcess, [AnySecret EXCEPT !.collection = "vault"]),
      TrustRule("deny", {"get_secret"}, [AnyProcess EXCEPT !.unit = "batch"], AnySecret)>>
MCSigners == {[exe |-> "nvim", repo |-> Empty, prefix |-> {"docs/a"}]}

MCExeOf    == (c1 :> e1) @@ (c2 :> NoExe)
MCScopeOf  == (i1 :> sc1) @@ (i2 :> sc2) @@ (i3 :> sc3)
MCInScope  == (AnyScope :> Items) @@ (sc1 :> {i1}) @@ (sc2 :> {i1, i2}) @@ (sc3 :> {i3})
MCSenderOf == (c1 :> s1) @@ (c2 :> s2)

\* r1, r2: two reads of one client, a single item and a batch that contains
\* it.  r3, r4: two commits to sign, the second of a trusted signer.  r5: a
\* read the configuration denies, unless it reads back what the trusted write
\* r6 created.  r7: a read of no item, which is denied.  r8: an ignored write.
Ask(c, its, ty, tr) == [caller |-> c, items |-> its, type |-> ty, trust |-> tr]
MCInfo ==
    [r \in Reqs |->
        CASE r = r1 -> Ask(c1, <<i1>>, "get_secret", "none")
          [] r = r2 -> Ask(c1, <<i1, i2>>, "get_secret", "none")
          [] r = r3 -> Ask(c1, <<>>, "gpg_sign", "none")
          [] r = r4 -> Ask(c2, <<>>, "gpg_sign", "approve")
          [] r = r5 -> Ask(c1, <<i3>>, "get_secret", "deny")
          [] r = r6 -> Ask(c1, <<i3>>, "write", "approve")
          [] r = r7 -> Ask(c2, <<>>, "get_secret", "deny")
          [] r = r8 -> Ask(c2, <<i1>>, "write", "ignore")]

(***************************************************************************)
(* The verdicts, the executables and the scopes above are the ones that    *)
(* TrustRules computes from the configuration, the processes and the items. *)
(***************************************************************************)
TrustOf(q) ==
    IF q.type = "gpg_sign"
    THEN IF CheckTrustedSigner(MCSigners, Peer[q.caller], "repo", {"docs/a"}) THEN "approve" ELSE "none"
    ELSE Verdict(MCRules, Peer[q.caller], ItemsOf(q.items), q.type, NoAttributes)

ASSUME RulesAgree ==
    /\ \A r \in Reqs : Info[r].trust = TrustOf(Info[r])
    /\ \A c \in Callers : ExeOf[c] = invokerExePath(Peer[c])
    /\ \A i \in Items : InScope[ScopeOf[i]] =
          {j \in Items : autoApproveCoversAll(AutoRule(Peer[c1], <<ItemOf[i]>>, "get_secret", NoAttributes), <<ItemOf[j]>>)}

(***************************************************************************)
(* The requests that are made together, and until when: a behaviour of the *)
(* checked instance makes the requests of one of these groups.             *)
(***************************************************************************)
Groups ==
    { [reqs |-> {r1, r2}, until |-> 1], [reqs |-> {r3, r4}, until |-> 0], [reqs |-> {r7, r8}, until |-> 0],
      [reqs |-> {r5, r6}, until |-> 2] }

OneGroup ==
    \E g \in Groups : now <= g.until /\ \A r \in Reqs \ g.reqs : pc[r] = "idle"

=============================================================================
