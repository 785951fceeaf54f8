----------------------------- MODULE MCLoginAuth -----------------------------
(* Two requests with one login token and one with another. *)
EXTENDS LoginAuth, TLC

CONSTANTS t1, t2, p1, p2, p3

MCTokenOf == (p1 :> t1) @@ (p2 :> t1) @@ (p3 :> t2)
=============================================================================
