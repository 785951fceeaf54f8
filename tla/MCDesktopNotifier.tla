-------------------------- MODULE MCDesktopNotifier --------------------------
(***************************************************************************)
(* The instance of DesktopNotifier that TLC checks.                        *)
(***************************************************************************)
EXTENDS DesktopNotifier

CONSTANTS
    Beside,     \* the requests that meet a slow call
    FirstId     \* the ID that the server hands out first

\* A bound: either all requests run, or those in Beside and the slow calls.
CallsOrRequests ==
    \/ \A c \in Calls : slow[c].at = "none"
    \/ \A r \in Reqs \ Beside : life[r] = "new"

\* The server hands out its IDs in one order.
InOrder == \A n \in Ids : screen[n] # "unused" => screen[FirstId] # "unused"

\* A bound: one prompt comes late and one notification stays.
OneFailure == (\A q, r \in late : q = r) /\ (\A m, n \in stuck : m = n)

=============================================================================
