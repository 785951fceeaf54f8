------------------------------ MODULE LoginAuth ------------------------------
(***************************************************************************)
(* Browser login: internal/api/auth.go, jwt.go and HandleAuth.  The CLI    *)
(* mints a short-lived login token (a JWT with a random jti) from the      *)
(* master token; the browser posts it to the daemon, which exchanges it    *)
(* for a session cookie once.                                              *)
(*                                                                         *)
(* Sessions and used nonces live in the daemon's memory, the master token  *)
(* in a file, so a login token outlives a restart of the daemon and the    *)
(* nonces do not.  Signature, header and jti checks are abstracted to the  *)
(* tokens being well formed.  Clocks count seconds, as in the claims.      *)
(***************************************************************************)
EXTENDS Integers

CONSTANTS
    Tokens,     \* login tokens, by jti
    Posts,      \* POST /api/v1/auth requests
    TokenOf,    \* the token each request carries
    Expiry,     \* jwtExpiry
    MaxTime,    \* bound on the clock
    MaxRuns     \* bound on the daemon's restarts

ASSUME LoginAssumption ==
    /\ TokenOf \in [Posts -> Tokens]
    /\ Expiry \in Nat /\ MaxTime \in Nat /\ MaxRuns \in Nat

NoTime == -1

VARIABLES
    now,        \* time.Now().Unix()
    run,        \* which start of the daemon this is
    exp,        \* a token's exp claim, NoTime before it is minted
    usedJTIs,   \* Auth.usedJTIs: the recorded expiry, NoTime for no entry
    pc,         \* where HandleAuth is for each request
    redeemed,   \* when a request passed consumeJTI, NoTime if it did not
    redeemedIn  \* the run that was in

loginVars == <<now, run, exp, usedJTIs, pc, redeemed, redeemedIn>>

LoginInit ==
    /\ now = 0
    /\ run = 1
    /\ exp = [t \in Tokens |-> NoTime]
    /\ usedJTIs = [t \in Tokens |-> NoTime]
    /\ pc = [p \in Posts |-> "idle"]
    /\ redeemed = [p \in Posts |-> NoTime]
    /\ redeemedIn = [p \in Posts |-> 0]

-----------------------------------------------------------------------------

\* GenerateJWT, in the CLI's login command.
GenerateJWT(t) ==
    /\ exp[t] = NoTime
    /\ exp' = [exp EXCEPT ![t] = now + Expiry]
    /\ UNCHANGED <<now, run, usedJTIs, pc, redeemed, redeemedIn>>

\* HandleAuth's call of ValidateJWT: rejected once now > exp.
ValidateJWT(p) ==
    /\ pc[p] = "idle"
    /\ exp[TokenOf[p]] # NoTime
    /\ pc' = [pc EXCEPT ![p] = IF now > exp[TokenOf[p]] THEN "rejected" ELSE "valid"]
    /\ UNCHANGED <<now, run, exp, usedJTIs, redeemed, redeemedIn>>

\* consumeJTI first drops the entries with usedExp <= now.
Pruned == [t \in Tokens |-> IF usedJTIs[t] <= now THEN NoTime ELSE usedJTIs[t]]

\* Mutant: the nonce is looked up and not recorded.
ConsumeJTIWithoutRecord(p) ==
    /\ pc[p] = "valid"
    /\ LET t == TokenOf[p]
       IN  IF Pruned[t] # NoTime
           THEN /\ usedJTIs' = Pruned
                /\ pc' = [pc EXCEPT ![p] = "rejected"]
                /\ UNCHANGED <<redeemed, redeemedIn>>
           ELSE /\ usedJTIs' = Pruned
                /\ pc' = [pc EXCEPT ![p] = "redeemed"]
                /\ redeemed' = [redeemed EXCEPT ![p] = now]
                /\ redeemedIn' = [redeemedIn EXCEPT ![p] = run]
    /\ UNCHANGED <<now, run, exp>>

\* consumeJTI, under the mutex.
ConsumeJTI(p) ==
    /\ pc[p] = "valid"
    /\ LET t == TokenOf[p]
       IN  IF Pruned[t] # NoTime
           THEN /\ usedJTIs' = Pruned
                /\ pc' = [pc EXCEPT ![p] = "rejected"]
                /\ UNCHANGED <<redeemed, redeemedIn>>
           ELSE /\ usedJTIs' = [Pruned EXCEPT ![t] = exp[t]]
                /\ pc' = [pc EXCEPT ![p] = "redeemed"]
                /\ redeemed' = [redeemed EXCEPT ![p] = now]
                /\ redeemedIn' = [redeemedIn EXCEPT ![p] = run]
    /\ UNCHANGED <<now, run, exp>>

\* SetSessionCookie; without randomness no session is made and the token
\* stays used.
SetSessionCookie(p) ==
    /\ pc[p] = "redeemed"
    /\ \E outcome \in {"session", "failed"} : pc' = [pc EXCEPT ![p] = outcome]
    /\ UNCHANGED <<now, run, exp, usedJTIs, redeemed, redeemedIn>>

\* The daemon stops and NewAuth loads the same master token: the maps are
\* empty again and requests in flight are lost.
Restart ==
    /\ run < MaxRuns
    /\ run' = run + 1
    /\ usedJTIs' = [t \in Tokens |-> NoTime]
    /\ pc' = [p \in Posts |-> IF pc[p] \in {"valid", "redeemed", "session"} THEN "lost" ELSE pc[p]]
    /\ UNCHANGED <<now, exp, redeemed, redeemedIn>>

Tick ==
    /\ now < MaxTime
    /\ now' = now + 1
    /\ UNCHANGED <<run, exp, usedJTIs, pc, redeemed, redeemedIn>>

LoginNext ==
    \/ \E t \in Tokens : GenerateJWT(t)
    \/ \E p \in Posts : ValidateJWT(p) \/ ConsumeJTI(p) \/ SetSessionCookie(p)
    \/ Restart
    \/ Tick

LoginSpec == LoginInit /\ [][LoginNext]_loginVars

-----------------------------------------------------------------------------
(* Properties *)

\* The types; a live session comes from a redemption in the same run.
LoginTypeOK ==
    /\ now \in Nat
    /\ run \in Nat
    /\ exp \in [Tokens -> Nat \cup {NoTime}]
    /\ usedJTIs \in [Tokens -> Nat \cup {NoTime}]
    /\ pc \in [Posts -> {"idle", "valid", "rejected", "redeemed", "session", "failed", "lost"}]
    /\ redeemed \in [Posts -> Nat \cup {NoTime}]
    /\ redeemedIn \in [Posts -> Nat]
    /\ \A p \in Posts : pc[p] \in {"redeemed", "session"} =>
          redeemed[p] # NoTime /\ redeemedIn[p] = run

SameLogin(p, q) == p # q /\ TokenOf[p] = TokenOf[q] /\ redeemedIn[p] = redeemedIn[q]

\* While a redeemed token has not expired its nonce is on record, whatever
\* other tokens are redeemed and pruned meanwhile (consumeJTI).
NonceKept ==
    \A p \in Posts :
        /\ redeemed[p] # NoTime
        /\ redeemedIn[p] = run
        /\ now < exp[TokenOf[p]]
        => usedJTIs[TokenOf[p]] = exp[TokenOf[p]]

\* No token is redeemed twice before it expires: of two redemptions of a
\* token in one run of the daemon the later one is not before the expiry,
\* also if both requests were validated before either was redeemed.
NoReplayInWindow ==
    \A p, q \in Posts :
        SameLogin(p, q) /\ redeemed[p] # NoTime /\ redeemed[q] # NoTime =>
            redeemed[p] >= exp[TokenOf[p]] \/ redeemed[q] >= exp[TokenOf[p]]

=============================================================================
