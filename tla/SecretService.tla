---------------------------- MODULE SecretService ----------------------------
(***************************************************************************)
(* The Secret Service front end of a proxy: the method handlers of         *)
(* internal/proxy/service.go, collection.go and item.go with the sessions  *)
(* of session.go, while Proxy.Close (proxy.go) may shut it down.           *)
(*                                                                         *)
(* Every method call has a goroutine of its own; pc[c] is its place.  A    *)
(* call consults the session table up to twice without holding its lock    *)
(* in between.  Clients may use an encrypted (DH) or a plain session, the  *)
(* proxy always talks plainly to the keyring, so it decrypts what clients  *)
(* store and encrypts what they read.                                      *)
(*                                                                         *)
(* External: the verdict of the approval manager and of the trust rules    *)
(* (module ApprovalManager), and the keyring, which may fail any call.     *)
(* A call that reaches the client tracker after it was closed takes the    *)
(* daemon down (module ClientTracker): here it stops where it is.          *)
(* A ciphertext is a value with the key it is sealed with.  Decrypting     *)
(* with another key fails, unless the padding happens to fit (about once   *)
(* in 256), and on a plain session nothing is decrypted or checked: what   *)
(* comes out then is Garbage.                                              *)
(***************************************************************************)
EXTENDS Integers

CONSTANTS
    Calls,      \* D-Bus method calls
    Items,      \* item paths
    Values,     \* secret values
    NoValue,    \* there is no such item
    Garbage,    \* bytes that no client meant to store
    Sessions,   \* session paths (SessionManager.counter)
    Algorithm,  \* what the client of a session negotiates
    Plain,      \* the key of an unencrypted value
    Info        \* the method and its arguments, see CallInfo

Ops == {"get", "set", "create", "delete", "search", "unlock", "pass"}

(***************************************************************************)
(* items: the items a call names.  value and key: the secret it carries,   *)
(* and what the client sealed it with.  valid: the object path is one the  *)
(* handler serves.  dummy: ShouldIgnore holds, which it does for writes.   *)
(* "pass" stands for Lock, the aliases, CreateCollection and properties.   *)
(***************************************************************************)
CallInfo ==
    [op : Ops, items : SUBSET Items, value : Values, key : Sessions \cup {Plain},
     session : Sessions, valid : BOOLEAN, dummy : BOOLEAN]

ASSUME CallAssumption ==
    /\ Info \in [Calls -> CallInfo]
    /\ Algorithm \in [Sessions -> {"plain", "dh", "unsupported"}]
    /\ Plain \notin Sessions
    /\ {NoValue, Garbage} \cap Values = {}
    /\ Garbage # NoValue

Op(c)   == Info[c].op
Sess(c) == Info[c].session
Stored  == Values \cup {Garbage}
Sealed  == [val : Stored, key : Sessions \cup {Plain}]

\* The key that a session negotiates, and the calls whose value is sealed with
\* another one: with the key of another session, or not at all on an
\* encrypted session, or at all on a plain one.
Key(s)       == IF Algorithm[s] = "dh" THEN s ELSE Plain
Missealed(c) == Info[c].key # Key(Sess(c))

VARIABLES
    pc,         \* where a call is
    verdict,    \* the approval manager's answer
    sent,       \* the secret a write forwards to the keyring
    fetched,    \* the secrets a read got from the keyring
    reply,      \* the secrets a read has made ready for its client
    table,      \* SessionManager.sessions and what came before an entry
    stage,      \* how far Proxy.Close is
    store,      \* the keyring: what it holds for an item
    audit       \* events recorded for searches, unlocks and dummy writes

callVars == <<pc, verdict, sent, fetched, reply>>
vars == <<callVars, table, stage, store, audit>>

Empty == [i \in {} |-> NoValue]

Init ==
    /\ pc = [c \in Calls |-> "idle"]
    /\ verdict = [c \in Calls |-> "none"]
    /\ sent = [c \in Calls |-> NoValue]
    /\ fetched = [c \in Calls |-> Empty]
    /\ reply = [c \in Calls |-> Empty]
    /\ table = [s \in Sessions |-> "none"]
    /\ stage = "open"
    /\ store \in [Items -> Values \cup {NoValue}]
    /\ audit = [c \in Calls |-> "none"]

Goto(c, point) == pc' = [pc EXCEPT ![c] = point]

-----------------------------------------------------------------------------
(* Sessions *)

\* CreateSession: an algorithm it does not know, a bad public key or an
\* upstream that refuses end it; otherwise upstream has opened a session.
OpenUpstream(s) ==
    /\ table[s] = "none"
    /\ stage # "closed"
    /\ table' = [table EXCEPT ![s] = IF Algorithm[s] = "unsupported" THEN "failed" ELSE "opening"]
    /\ UNCHANGED <<callVars, stage, store, audit>>

OpenFails(s) ==
    /\ table[s] = "none"
    /\ Algorithm[s] # "unsupported"
    /\ table' = [table EXCEPT ![s] = "failed"]
    /\ UNCHANGED <<callVars, stage, store, audit>>

RecordSession(s) ==
    /\ table[s] = "opening"
    /\ table' = [table EXCEPT ![s] = "open"]
    /\ UNCHANGED <<callVars, stage, store, audit>>

\* The cipher of an entry; an absent entry has none.
Cipher(s) == IF table[s] = "open" /\ Algorithm[s] = "dh" THEN s ELSE Plain

-----------------------------------------------------------------------------
(* Method calls *)

BadPath(c) ==
    /\ pc[c] = "idle"
    /\ ~Info[c].valid
    /\ Goto(c, "failed")
    /\ UNCHANGED <<verdict, sent, fetched, reply, table, stage, store, audit>>

\* Where a handler turns to first.
Receive(c) ==
    /\ pc[c] = "idle"
    /\ Info[c].valid
    /\ stage \notin {"front", "closed"}
    /\ Goto(c, CASE Op(c) \in {"get", "set", "delete", "create"} -> "register"
                 [] Op(c) \in {"search", "unlock"}               -> "trust"
                 [] Op(c) = "pass"                               -> "upstream")
    /\ UNCHANGED <<verdict, sent, fetched, reply, table, stage, store, audit>>

\* contextForSender.
Register(c) ==
    /\ pc[c] = "register"
    /\ stage = "open"
    /\ Goto(c, "approve")
    /\ UNCHANGED <<verdict, sent, fetched, reply, table, stage, store, audit>>

\* CreateItem of a Chrome dummy secret: dropped, and reported as done.
IgnoreDummy(c) ==
    /\ pc[c] = "approve"
    /\ Op(c) = "create" /\ Info[c].dummy
    /\ audit' = [audit EXCEPT ![c] = "ignored"]
    /\ Goto(c, "ignored")
    /\ UNCHANGED <<verdict, sent, fetched, reply, table, stage, store>>

\* Mutant: every write that is not granted is reported as done.
AfterApprovalQuiet(c, v) ==
    CASE v = "granted" -> IF Op(c) = "delete" THEN "upstream" ELSE "session"
      [] v # "granted" /\ Op(c) \in {"set", "create"} -> "ignored"
      [] OTHER -> "failed"

\* Where a handler goes with the verdict: a write that a rule ignores is
\* reported as done, everything else that is not granted is an error.
AfterApproval(c, v) ==
    CASE v = "granted" -> IF Op(c) = "delete" THEN "upstream" ELSE "session"
      [] v = "ignored" /\ Op(c) \in {"set", "create"} -> "ignored"
      [] OTHER -> "failed"

\* RequireApproval returns.
Approve(c, v) ==
    /\ pc[c] = "approve"
    /\ ~(Op(c) = "create" /\ Info[c].dummy)
    /\ verdict' = [verdict EXCEPT ![c] = v]
    /\ Goto(c, AfterApproval(c, v))
    /\ UNCHANGED <<sent, fetched, reply, table, stage, store, audit>>

\* SearchItems and Unlock: refused by a deny rule only, and recorded.
CheckTrust(c, v) ==
    /\ pc[c] = "trust"
    /\ verdict' = [verdict EXCEPT ![c] = v]
    /\ audit' = [audit EXCEPT ![c] = IF v = "refused" THEN "denied" ELSE "auto_approved"]
    /\ Goto(c, IF v = "refused" THEN "failed" ELSE "upstream")
    /\ UNCHANGED <<sent, fetched, reply, table, stage, store>>

\* GetLocalSession and ForUpstream: the session is not in the table.
SessionNotFound(c) ==
    /\ pc[c] = "session"
    /\ table[Sess(c)] # "open"
    /\ Goto(c, "failed")
    /\ UNCHANGED <<verdict, sent, fetched, reply, table, stage, store, audit>>

GetLocalSession(c) ==
    /\ pc[c] = "session"
    /\ Op(c) = "get"
    /\ table[Sess(c)] = "open"
    /\ Goto(c, "upstream")
    /\ UNCHANGED <<verdict, sent, fetched, reply, table, stage, store, audit>>

\* Mutant: the value is forwarded as it came.
ForUpstreamVerbatim(c) ==
    /\ pc[c] = "session"
    /\ Op(c) \in {"set", "create"}
    /\ table[Sess(c)] = "open"
    /\ sent' = [sent EXCEPT ![c] = IF Info[c].key = Plain THEN Info[c].value ELSE Garbage]
    /\ Goto(c, "upstream")
    /\ UNCHANGED <<verdict, fetched, reply, table, stage, store, audit>>

\* The value is decrypted with the session's cipher, if it has one: what was
\* sealed with anything else is an error or Garbage.  Without a cipher it is
\* forwarded as it came, and a ciphertext among them is Garbage.
ForUpstream(c) ==
    /\ pc[c] = "session"
    /\ Op(c) \in {"set", "create"}
    /\ table[Sess(c)] = "open"
    /\ \/ /\ sent' = [sent EXCEPT ![c] = IF Info[c].key = Cipher(Sess(c)) THEN Info[c].value
                                                                       ELSE Garbage]
          /\ Goto(c, "upstream")
       \/ /\ Info[c].key # Cipher(Sess(c)) /\ Cipher(Sess(c)) # Plain
          /\ Goto(c, "failed")
          /\ UNCHANGED sent
    /\ UNCHANGED <<verdict, fetched, reply, table, stage, store, audit>>

-----------------------------------------------------------------------------
(* External: the keyring *)

\* GetSecrets answers for the items there are.
Existing(S) == {i \in S : store[i] # NoValue}

Perform(c) ==
    /\ pc[c] = "upstream"
    /\ stage # "closed"
    /\ store' = CASE Op(c) \in {"set", "create"} ->
                       [i \in Items |-> IF i \in Info[c].items THEN sent[c] ELSE store[i]]
                  [] Op(c) = "delete" ->
                       [i \in Items |-> IF i \in Info[c].items THEN NoValue ELSE store[i]]
                  [] OTHER -> store
    /\ fetched' = IF Op(c) = "get"
                  THEN [fetched EXCEPT ![c] = [i \in Existing(Info[c].items) |-> store[i]]]
                  ELSE fetched
    /\ Goto(c, IF Op(c) = "get" THEN "encode" ELSE "reply")
    /\ UNCHANGED <<verdict, sent, reply, table, stage, audit>>

\* The upstream call fails, as every call does once the connection is closed.
UpstreamFails(c) ==
    /\ pc[c] = "upstream"
    /\ Goto(c, "failed")
    /\ UNCHANGED <<verdict, sent, fetched, reply, table, stage, store, audit>>

-----------------------------------------------------------------------------
(* Replies *)

\* Mutant: the session path is rewritten and the value is left as it is.
ForClientVerbatim(c, i) ==
    /\ pc[c] = "encode"
    /\ i \in DOMAIN fetched[c] \ DOMAIN reply[c]
    /\ reply' = [reply EXCEPT ![c] = [j \in DOMAIN @ \cup {i} |->
                    IF j = i THEN [val |-> fetched[c][i], key |-> Plain] ELSE @[j]]]
    /\ UNCHANGED <<pc, verdict, sent, fetched, table, stage, store, audit>>

\* ForClient, for one item: the cipher is looked up again.
ForClient(c, i) ==
    /\ pc[c] = "encode"
    /\ i \in DOMAIN fetched[c] \ DOMAIN reply[c]
    /\ reply' = [reply EXCEPT ![c] = [j \in DOMAIN @ \cup {i} |->
                    IF j = i THEN [val |-> fetched[c][i], key |-> Cipher(Sess(c))] ELSE @[j]]]
    /\ UNCHANGED <<pc, verdict, sent, fetched, table, stage, store, audit>>

\* The cipher runs out of randomness for the initialisation vector.
EncryptFails(c) ==
    /\ pc[c] = "encode"
    /\ DOMAIN fetched[c] # DOMAIN reply[c]
    /\ Cipher(Sess(c)) # Plain
    /\ Goto(c, "failed")
    /\ UNCHANGED <<verdict, sent, fetched, reply, table, stage, store, audit>>

Encoded(c) ==
    /\ pc[c] = "encode"
    /\ DOMAIN reply[c] = DOMAIN fetched[c]
    /\ Goto(c, "reply")
    /\ UNCHANGED <<verdict, sent, fetched, reply, table, stage, store, audit>>

\* The handler returns; once the front connection is closed nobody hears it.
Reply(c) ==
    /\ pc[c] = "reply"
    /\ Goto(c, IF stage \in {"front", "closed"} THEN "lost" ELSE "answered")
    /\ UNCHANGED <<verdict, sent, fetched, reply, table, stage, store, audit>>

-----------------------------------------------------------------------------
(* Proxy.Close *)

CloseTracker ==
    /\ stage = "open"
    /\ stage' = "tracker"
    /\ UNCHANGED <<callVars, table, store, audit>>

CloseAll ==
    /\ stage = "tracker"
    /\ stage' = "sessions"
    /\ table' = [s \in Sessions |-> IF table[s] = "open" THEN "dropped" ELSE table[s]]
    /\ UNCHANGED <<callVars, store, audit>>

CloseFront ==
    /\ stage = "sessions"
    /\ stage' = "front"
    /\ UNCHANGED <<callVars, table, store, audit>>

CloseBackend ==
    /\ stage = "front"
    /\ stage' = "closed"
    /\ UNCHANGED <<callVars, table, store, audit>>

Shutdown == CloseTracker \/ CloseAll \/ CloseFront \/ CloseBackend

-----------------------------------------------------------------------------

CallStep(c) ==
    \/ BadPath(c) \/ Receive(c) \/ Register(c) \/ IgnoreDummy(c)
    \/ \E v \in {"granted", "refused", "ignored"} : Approve(c, v)
    \/ \E v \in {"granted", "refused"} : CheckTrust(c, v)
    \/ SessionNotFound(c) \/ GetLocalSession(c) \/ ForUpstream(c)
    \/ Perform(c) \/ UpstreamFails(c)
    \/ \E i \in Items : ForClient(c, i)
    \/ EncryptFails(c) \/ Encoded(c) \/ Reply(c)

Next ==
    \/ \E c \in Calls : CallStep(c)
    \/ \E s \in Sessions : OpenUpstream(s) \/ OpenFails(s) \/ RecordSession(s)
    \/ Shutdown

Spec == Init /\ [][Next]_vars

-----------------------------------------------------------------------------
(* Properties *)

Points == {"idle", "register", "approve", "trust", "session", "upstream", "encode",
           "reply", "answered", "ignored", "failed", "lost"}
Fetches == UNION {[S -> Stored] : S \in SUBSET Items}
Replies == UNION {[S -> Sealed] : S \in SUBSET Items}

\* The types.  A read has at most the items it asked for, a write on its way
\* to the keyring has a secret to store, and a session without an algorithm
\* the proxy knows never becomes open.
TypeOK ==
    /\ pc \in [Calls -> Points]
    /\ verdict \in [Calls -> {"none", "granted", "refused", "ignored"}]
    /\ sent \in [Calls -> Stored \cup {NoValue}]
    /\ fetched \in [Calls -> Fetches]
    /\ reply \in [Calls -> Replies]
    /\ \A c \in Calls : DOMAIN reply[c] \subseteq Info[c].items
    /\ \A c \in Calls : Op(c) \in {"set", "create"} /\ pc[c] = "upstream" => sent[c] # NoValue
    /\ table \in [Sessions -> {"none", "opening", "open", "failed", "dropped"}]
    /\ \A s \in Sessions : table[s] \in {"opening", "open"} => Algorithm[s] # "unsupported"
    /\ stage \in {"open", "tracker", "sessions", "front", "closed"}
    /\ store \in [Items -> Stored \cup {NoValue}]
    /\ audit \in [Calls -> {"none", "ignored", "denied", "auto_approved"}]

\* The proxy never garbles a secret: an item holds bytes that nobody meant
\* only if a granted write, whose client itself sealed the value with another
\* key than its session negotiated, reached the keyring, whatever sessions are
\* opened, used or dropped meanwhile (ForUpstream).
StoredAsMeant ==
    \A i \in Items :
        store[i] = Garbage =>
            \E c \in Calls :
                /\ Op(c) \in {"set", "create"} /\ i \in Info[c].items
                /\ Missealed(c) /\ verdict[c] = "granted"
                /\ pc[c] \in {"reply", "answered", "lost"}

\* A secret is ready for a client only as it was in the keyring when the
\* granted call was performed, and sealed with the key of its session unless
\* Proxy.Close dropped the session meanwhile (ForClient).
SealedForClient ==
    \A c \in Calls : \A i \in DOMAIN reply[c] :
        /\ i \in DOMAIN fetched[c] /\ reply[c][i].val = fetched[c][i]
        /\ \/ reply[c][i].key = Key(Sess(c))
           \/ table[Sess(c)] = "dropped"

\* The phase of the gate a call is in: a call on its way to the keyring is
\* granted only if the approval manager or the trust rules said so; the gate
\* knows no phase for one that was not.
Phase(c) ==
    CASE pc[c] = "idle"                            -> "idle"
      [] pc[c] \in {"register", "approve", "trust"} -> "asked"
      [] pc[c] \in {"session", "upstream"}         ->
            IF verdict[c] = "granted" \/ Op(c) = "pass" THEN "granted" ELSE "refused"
      [] pc[c] \in {"encode", "reply"}             -> "performed"
      [] pc[c] = "answered"                        -> "answered"
      [] pc[c] = "ignored"                         -> "dropped"
      [] pc[c] \in {"failed", "lost"}              -> "failed"

Gate == INSTANCE KeyringGate WITH
    Forged  <- {c \in Calls : Missealed(c)},
    keyring <- store,
    phase   <- [c \in Calls |-> Phase(c)],
    result  <- fetched

\* Every step of the handlers is a step of the gate: only granted calls are
\* performed, once, on the keyring as it then is, with the value the client
\* meant; a refusal is an error for the client, and only a write that a rule
\* ignores, or a dummy secret, is reported as done without being performed
\* (GetSecret, GetSecrets, SetSecret, CreateItem, Delete).
GateSpec == Gate!Spec

=============================================================================
