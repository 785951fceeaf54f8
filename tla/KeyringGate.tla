----------------------------- MODULE KeyringGate -----------------------------
(***************************************************************************)
(* What the Secret Service proxy promises: it is the keyring behind a      *)
(* gate.  A gated call is asked for, then granted, refused or ignored;     *)
(* only a granted call is performed, at one moment, on the keyring as it   *)
(* is at that moment; and a call that reads gets what it read.  A refused  *)
(* call fails; a write may be dropped, which its client takes for done,    *)
(* only if it was ignored or is a dummy.  A call that is not gated never   *)
(* touches a secret.  Any call may fail.                                   *)
(*                                                                         *)
(* SecretService implements this specification.                            *)
(***************************************************************************)
CONSTANTS
    Calls,      \* D-Bus method calls
    Items,      \* item paths
    Values,     \* secret values
    NoValue,    \* there is no such item
    Garbage,    \* what a write stores whose client sealed the value wrongly
    Forged,     \* those calls
    Info        \* op, items and value of each call, and whether it is a dummy

Reads(c)   == Info[c].op = "get"
Writes(c)  == Info[c].op \in {"set", "create"}
Deletes(c) == Info[c].op = "delete"
Gated(c)   == Reads(c) \/ Writes(c) \/ Deletes(c) \/ Info[c].op \in {"search", "unlock"}

VARIABLES
    keyring,    \* the secret of each item
    phase,      \* where each call is
    verdict,    \* what was decided about it
    result      \* what a call has read

vars == <<keyring, phase, verdict, result>>

Init ==
    /\ keyring \in [Items -> Values \cup {NoValue}]
    /\ phase = [c \in Calls |-> "idle"]
    /\ verdict = [c \in Calls |-> "none"]
    /\ result = [c \in Calls |-> [i \in {} |-> NoValue]]

\* The second conjunct follows from the third; it spares TLC comparing whole
\* functions for the calls that do not move.
Move(c, from, to) ==
    /\ phase[c] \in from
    /\ phase'[c] = to
    /\ phase' = [phase EXCEPT ![c] = to]

Request(c) ==
    /\ Move(c, {"idle"}, IF Gated(c) THEN "asked" ELSE "granted")
    /\ UNCHANGED <<keyring, verdict, result>>

Decided(c, v) ==
    CASE v = "granted"                -> "granted"
      [] v = "ignored" /\ Writes(c)   -> "dropped"
      [] OTHER                        -> "failed"

Decide(c) ==
    /\ \E v \in {"granted", "refused", "ignored"} :
          /\ Move(c, {"asked"}, Decided(c, v))
          /\ verdict' = [verdict EXCEPT ![c] = v]
    /\ UNCHANGED <<keyring, result>>

DropDummy(c) ==
    /\ Info[c].op = "create" /\ Info[c].dummy
    /\ Move(c, {"asked"}, "dropped")
    /\ UNCHANGED <<keyring, verdict, result>>

Existing(S) == {i \in S : keyring[i] # NoValue}

\* The keyring after a granted call.
Outcome(c) ==
    CASE Writes(c)  -> [i \in Items |-> IF i \notin Info[c].items THEN keyring[i]
                                       ELSE IF c \in Forged THEN Garbage ELSE Info[c].value]
      [] Deletes(c) -> [i \in Items |-> IF i \in Info[c].items THEN NoValue ELSE keyring[i]]
      [] OTHER      -> keyring

Perform(c) ==
    /\ Move(c, {"granted"}, "performed")
    /\ keyring' = Outcome(c)
    /\ result' = IF Reads(c)
                 THEN [result EXCEPT ![c] = [i \in Existing(Info[c].items) |-> keyring[i]]]
                 ELSE result
    /\ UNCHANGED verdict

Answer(c) ==
    /\ Move(c, {"performed"}, "answered")
    /\ UNCHANGED <<keyring, verdict, result>>

\* A call that nobody serves, an error on the way, or a client that is gone.
Fail(c) ==
    /\ Move(c, {"idle", "granted", "performed"}, "failed")
    /\ UNCHANGED <<keyring, verdict, result>>

Next ==
    \E c \in Calls :
        Request(c) \/ Decide(c) \/ DropDummy(c) \/ Perform(c) \/ Answer(c) \/ Fail(c)

Spec == Init /\ [][Next]_vars

=============================================================================
