--------------------------- MODULE MCClientTracker ---------------------------
(* Two overlapping calls of one client and two calls of another. *)
EXTENDS ClientTracker, TLC

CONSTANTS r1, r2, r3, r4, s1, s2

MCSenderOf == (r1 :> s1) @@ (r2 :> s1) @@ (r3 :> s2) @@ (r4 :> s2)
=============================================================================
