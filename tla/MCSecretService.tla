--------------------------- MODULE MCSecretService ---------------------------
EXTENDS SecretService, TLC

CONSTANTS get, set, delete, forged, naked, sealed, create, search, dummy, wrong, pass,
    i1, i2, v1, v2, d, e, p, u

Call(op, its, v, key, s, valid, isDummy) ==
    [op |-> op, items |-> its, value |-> v, key |-> key, session |-> s,
     valid |-> valid, dummy |-> isDummy]

\* Two encrypted sessions, a plain one and one whose algorithm is not supported.
MCAlgorithm ==
    [s \in Sessions |->
        CASE s \in {d, e} -> "dh" [] s = p -> "plain" [] s = u -> "unsupported"]

(***************************************************************************)
(* A read of two items, a write and a deletion on an encrypted session.    *)
(* Writes on the wrong session: sealed with another session's key          *)
(* (forged), unsealed on an encrypted session (naked), sealed on a plain   *)
(* one (sealed), and a creation as it should be.  A search, a dummy write, *)
(* a path that is not an item's and a pass-through.                        *)
(***************************************************************************)
MCInfo ==
    [c \in Calls |->
        CASE c = get    -> Call("get", {i1, i2}, v1, Plain, d, TRUE, FALSE)
          [] c = set    -> Call("set", {i1}, v2, d, d, TRUE, FALSE)
          [] c = delete -> Call("delete", {i1}, v1, Plain, d, TRUE, FALSE)
          [] c = forged -> Call("set", {i1}, v1, e, d, TRUE, FALSE)
          [] c = naked  -> Call("set", {i1}, v1, Plain, d, TRUE, FALSE)
          [] c = sealed -> Call("set", {i1}, v1, d, p, TRUE, FALSE)
          [] c = create -> Call("create", {i1}, v2, Plain, p, TRUE, FALSE)
          [] c = search -> Call("search", {}, v1, Plain, p, TRUE, FALSE)
          [] c = dummy  -> Call("create", {i1}, v1, Plain, p, TRUE, TRUE)
          [] c = wrong  -> Call("get", {i1}, v1, Plain, p, FALSE, FALSE)
          [] c = pass   -> Call("pass", {}, v1, Plain, p, TRUE, FALSE)]

\* The calls that are made together, the sessions that are opened for them
\* and the items that exist: a behaviour of the checked instance makes the
\* calls of one of these groups.
Groups ==
    { [calls |-> {get, set, delete}, sessions |-> {d}, items |-> {i1, i2}],
      [calls |-> {forged, create}, sessions |-> {d, p}, items |-> {i1}],
      [calls |-> {naked, sealed}, sessions |-> {d, p}, items |-> {i1}],
      [calls |-> {search, dummy, wrong, pass}, sessions |-> {u}, items |-> {i1}] }

OneGroup ==
    \E g \in Groups :
        /\ \A c \in Calls \ g.calls : pc[c] = "idle"
        /\ \A s \in Sessions \ g.sessions : table[s] = "none"
        /\ \A i \in Items \ g.items : store[i] = NoValue

=============================================================================
