-------------------------- MODULE SecretServiceProofs --------------------------
(***************************************************************************)
(* Proofs about SecretService: it implements KeyringGate, it garbles no    *)
(* secret and it seals what it hands out, for any calls, items, values and *)
(* sessions, also where clients mix their sessions' keys up.               *)
(***************************************************************************)
EXTENDS SecretService, TLAPS

WriteOps == {"set", "create"}

\* What the place of a call says about it: which operations can be there,
\* that a call on its way to the keyring was granted and has nothing to
\* reply yet, and that a write on its way carries the value its client meant,
\* or Garbage if the client sealed it with another key than its session's.
Placed ==
    \A c \in Calls :
        /\ pc[c] \in {"register", "approve"} => Op(c) \in {"get", "set", "delete", "create"}
        /\ pc[c] = "trust" => Op(c) \in {"search", "unlock"}
        /\ pc[c] = "session" => Op(c) \in {"get", "set", "create"}
        /\ pc[c] = "encode" => Op(c) = "get"
        /\ pc[c] \in {"session", "upstream"} => verdict[c] = "granted" \/ Op(c) = "pass"
        /\ pc[c] \in {"idle", "register", "approve", "trust"} => verdict[c] = "none"
        /\ pc[c] = "encode" \/ (pc[c] = "upstream" /\ Op(c) = "get") =>
              table[Sess(c)] \in {"open", "dropped"}
        /\ DOMAIN fetched[c] \subseteq Info[c].items
        /\ pc[c] \notin {"encode", "reply", "answered", "failed", "lost"} => DOMAIN reply[c] = {}
        /\ pc[c] = "upstream" /\ Op(c) \in WriteOps =>
              sent[c] = IF Missealed(c) THEN Garbage ELSE Info[c].value

IInv == TypeOK /\ StoredAsMeant /\ Placed /\ SealedForClient

\* The constants of a call.
LEMMA InfoTyped ==
    ASSUME NEW c \in Calls
    PROVE  /\ Op(c) \in Ops /\ Info[c].items \subseteq Items /\ Info[c].value \in Values
           /\ Info[c].key \in Sessions \cup {Plain} /\ Sess(c) \in Sessions
           /\ Info[c].valid \in BOOLEAN /\ Info[c].dummy \in BOOLEAN
  BY CallAssumption DEF CallInfo, Op, Sess

\* Functions on a set of items are possible fetches and replies.
LEMMA FetchTyped ==
    ASSUME NEW S, S \subseteq Items
    PROVE  /\ \A f \in [S -> Stored] : f \in Fetches
           /\ \A f \in [S -> Sealed] : f \in Replies
  BY DEF Fetches, Replies

\* A fetch maps some items to values, a reply to sealed ones.
LEMMA FetchParts ==
    /\ \A f \in Fetches : DOMAIN f \subseteq Items /\ f \in [DOMAIN f -> Stored]
    /\ \A f \in Replies : DOMAIN f \subseteq Items /\ f \in [DOMAIN f -> Sealed]
  BY DEF Fetches, Replies

\* What is stored is not the absent value.
LEMMA NoValueDiffers == NoValue \notin Stored
  BY CallAssumption DEF Stored

\* The first states satisfy IInv.
LEMMA Initially == Init => IInv
<1> SUFFICES ASSUME Init PROVE IInv OBVIOUS
<1>1. Empty \in Fetches /\ Empty \in Replies
  <2>1. Empty \in [{} -> Stored] /\ Empty \in [{} -> Sealed] BY DEF Empty
  <2> QED BY <2>1, FetchTyped
<1>2. store \in [Items -> Stored \cup {NoValue}] /\ StoredAsMeant
  BY CallAssumption DEF Init, StoredAsMeant, Stored
<1>3. TypeOK
  BY <1>1, <1>2 DEF Init, TypeOK, Points, Empty
<1>4. Placed
  <2>1. DOMAIN Empty = {} BY DEF Empty
  <2> QED BY <2>1 DEF Init, Placed
<1>5. SealedForClient BY DEF Init, SealedForClient, Empty
<1> QED BY <1>2, <1>3, <1>4, <1>5 DEF IInv

-----------------------------------------------------------------------------

\* Steps that leave the secrets alone keep the invariant if they keep the
\* types and the places.
LEMMA CallPreserves ==
    ASSUME IInv, NEW c \in Calls, CallStep(c)
    PROVE  IInv'
<1> USE DEF IInv
<1>0. Op(c) \in Ops /\ Info[c].items \subseteq Items /\ Info[c].value \in Values /\ Sess(c) \in Sessions
  BY InfoTyped
<1>1. CASE BadPath(c) \/ Receive(c) \/ Register(c) \/ SessionNotFound(c) \/ GetLocalSession(c)
           \/ UpstreamFails(c) \/ EncryptFails(c) \/ Encoded(c) \/ Reply(c)
  <2> USE <1>1, <1>0 DEF BadPath, Receive, Register, SessionNotFound, GetLocalSession,
        UpstreamFails, EncryptFails, Encoded, Reply, Goto
  <2>1. TypeOK' 
    <3>1. pc' \in [Calls -> Points] BY DEF TypeOK, Points, Ops
    <3>2. \A x \in Calls : Op(x) \in WriteOps /\ pc'[x] = "upstream" => pc[x] = "upstream"
      BY DEF TypeOK, WriteOps, Ops
    <3> QED BY <3>1, <3>2 DEF TypeOK, WriteOps
  <2>2. StoredAsMeant' BY DEF StoredAsMeant, TypeOK
  <2>3. Placed' BY DEF Placed, TypeOK, WriteOps, Ops
  <2>4. SealedForClient' BY DEF SealedForClient
  <2> QED BY <2>1, <2>2, <2>3, <2>4
<1>2. CASE IgnoreDummy(c) \/ \E v \in {"granted", "refused", "ignored"} : Approve(c, v)
  <2> USE <1>2, <1>0 DEF IgnoreDummy, Approve, AfterApproval, Goto
  <2>1. TypeOK'
    <3>1. pc' \in [Calls -> Points] BY DEF TypeOK, Points
    <3>2. \A x \in Calls : Op(x) \in WriteOps /\ pc'[x] = "upstream" => pc[x] = "upstream"
      BY DEF TypeOK, WriteOps
    <3>3. verdict' \in [Calls -> {"none", "granted", "refused", "ignored"}] BY DEF TypeOK
    <3>4. audit' \in [Calls -> {"none", "ignored", "denied", "auto_approved"}] BY DEF TypeOK
    <3> QED BY <3>1, <3>2, <3>3, <3>4 DEF TypeOK, WriteOps
  <2>2. StoredAsMeant' BY DEF StoredAsMeant, TypeOK
  <2>3. Placed' BY DEF Placed, TypeOK, WriteOps
  <2>4. SealedForClient' BY DEF SealedForClient
  <2> QED BY <2>1, <2>2, <2>3, <2>4
<1>3. CASE \E v \in {"granted", "refused"} : CheckTrust(c, v)
  <2> USE <1>3, <1>0 DEF CheckTrust, Goto
  <2>1. TypeOK'
    <3>1. pc' \in [Calls -> Points] BY DEF TypeOK, Points
    <3>2. \A x \in Calls : Op(x) \in WriteOps /\ pc'[x] = "upstream" => pc[x] = "upstream"
      BY DEF TypeOK, WriteOps, Placed
    <3>3. verdict' \in [Calls -> {"none", "granted", "refused", "ignored"}] BY DEF TypeOK
    <3>4. audit' \in [Calls -> {"none", "ignored", "denied", "auto_approved"}] BY DEF TypeOK
    <3> QED BY <3>1, <3>2, <3>3, <3>4 DEF TypeOK, WriteOps
  <2>2. StoredAsMeant' BY DEF StoredAsMeant, TypeOK
  <2>3. Placed' BY DEF Placed, TypeOK, WriteOps
  <2>4. SealedForClient' BY DEF SealedForClient
  <2> QED BY <2>1, <2>2, <2>3, <2>4
<1>4. CASE ForUpstream(c)
  <2> USE <1>4, <1>0 DEF ForUpstream, Goto
  <2>0. Info[c].value \in Stored /\ Garbage \in Stored BY DEF Stored
  <2>1. TypeOK'
    <3>1. pc' \in [Calls -> Points] BY DEF TypeOK, Points
    <3>2. sent' \in [Calls -> Stored \cup {NoValue}] BY <2>0 DEF TypeOK
    <3>3. \A x \in Calls : Op(x) \in WriteOps /\ pc'[x] = "upstream" => sent'[x] # NoValue
      BY <2>0, NoValueDiffers DEF TypeOK, WriteOps
    <3> QED BY <3>1, <3>2, <3>3 DEF TypeOK, WriteOps
  <2>2. StoredAsMeant' BY DEF StoredAsMeant, TypeOK
  <2>3. Placed'
    <3>1. Cipher(Sess(c)) = Key(Sess(c)) BY DEF Cipher, Key
    <3>2. pc'[c] = "upstream" => sent'[c] = IF Missealed(c) THEN Garbage ELSE Info[c].value
      BY <3>1 DEF Missealed, TypeOK
    <3>3. \A x \in Calls \ {c} : pc'[x] = pc[x] /\ sent'[x] = sent[x] BY DEF TypeOK
    <3> QED BY <3>2, <3>3 DEF Placed, TypeOK, WriteOps
  <2>4. SealedForClient' BY DEF SealedForClient
  <2> QED BY <2>1, <2>2, <2>3, <2>4
<1>5. CASE Perform(c)
  <2> USE <1>5, <1>0 DEF Perform, Goto
  <2>0. /\ Op(c) \in WriteOps => sent[c] = IF Missealed(c) THEN Garbage ELSE Info[c].value
        /\ Op(c) \in WriteOps => verdict[c] = "granted"
        /\ Op(c) # "get" => pc'[c] = "reply"
        /\ pc[c] = "upstream" /\ \A x \in Calls \ {c} : pc'[x] = pc[x]
    BY DEF Placed, TypeOK, WriteOps
  <2>1. StoredAsMeant' /\ store' \in [Items -> Stored \cup {NoValue}]
    <3>1. store' \in [Items -> Stored \cup {NoValue}]
      BY DEF TypeOK
    <3>2. \A x \in Calls : pc[x] \in {"reply", "answered", "lost"} => pc'[x] = pc[x] /\ verdict'[x] = verdict[x]
      BY <2>0
    <3>3. ASSUME NEW i \in Items, store'[i] = Garbage, store[i] # Garbage
          PROVE  Op(c) \in WriteOps /\ i \in Info[c].items /\ Missealed(c)
      <4>1. Op(c) \in WriteOps /\ i \in Info[c].items /\ store'[i] = sent[c]
        BY <3>3, CallAssumption DEF WriteOps, TypeOK
      <4> QED BY <2>0, <3>3, <4>1, CallAssumption
    <3>4. StoredAsMeant'
      <4> SUFFICES ASSUME NEW i \in Items, store'[i] = Garbage
                   PROVE  \E x \in Calls :
                             /\ Op(x) \in WriteOps /\ i \in Info[x].items
                             /\ Missealed(x) /\ verdict'[x] = "granted"
                             /\ pc'[x] \in {"reply", "answered", "lost"}
        BY DEF StoredAsMeant, WriteOps
      <4>1. CASE store[i] = Garbage
        BY <3>2, <4>1 DEF StoredAsMeant, WriteOps
      <4>2. CASE store[i] # Garbage
        BY <2>0, <3>3, <4>2 DEF WriteOps
      <4> QED BY <4>1, <4>2
    <3> QED BY <3>1, <3>4
  <2>2. fetched' \in [Calls -> Fetches]
    <3>1. CASE Op(c) = "get"
      <4> DEFINE S == Existing(Info[c].items)
      <4>1. S \subseteq Items BY DEF Existing
      <4>2. [i \in S |-> store[i]] \in [S -> Stored]
        BY <4>1 DEF Existing, TypeOK
      <4>3. [i \in S |-> store[i]] \in Fetches BY <4>1, <4>2, FetchTyped
      <4> QED BY <3>1, <4>3 DEF TypeOK
    <3>2. CASE Op(c) # "get" BY <3>2 DEF TypeOK
    <3> QED BY <3>1, <3>2
  <2>3. TypeOK'
    <3>1. pc' \in [Calls -> Points] BY DEF TypeOK, Points
    <3>2. \A x \in Calls : pc'[x] = "upstream" => pc[x] = "upstream" BY DEF TypeOK
    <3> QED BY <2>1, <2>2, <3>1, <3>2 DEF TypeOK
  <2>4. Placed'
    <3>1. \A x \in Calls : DOMAIN fetched'[x] \subseteq Info[x].items
      <4>1. Existing(Info[c].items) \subseteq Info[c].items BY DEF Existing
      <4> QED BY <4>1 DEF Placed, TypeOK
    <3> QED BY <3>1 DEF Placed, TypeOK, WriteOps
  <2>5. SealedForClient'
    <3>1. DOMAIN reply[c] = {} BY DEF Placed
    <3>2. \A x \in Calls : x # c => fetched'[x] = fetched[x] BY DEF TypeOK
    <3> QED BY <3>1, <3>2 DEF SealedForClient
  <2> QED BY <2>1, <2>3, <2>4, <2>5
<1>6. ASSUME NEW i \in Items, ForClient(c, i) PROVE IInv'
  <2> USE <1>6, <1>0 DEF ForClient
  <2> DEFINE S == DOMAIN reply[c] \cup {i}
             k == Cipher(Sess(c))
             f == [j \in S |-> IF j = i THEN [val |-> fetched[c][i], key |-> k] ELSE reply[c][j]]
  <2>1. reply' = [reply EXCEPT ![c] = f] OBVIOUS
  <2>2. /\ fetched[c] \in Fetches /\ reply[c] \in Replies
        /\ i \in DOMAIN fetched[c] /\ DOMAIN reply[c] \subseteq Info[c].items
    BY DEF TypeOK
  <2>3. k \in Sessions \cup {Plain} BY DEF Cipher
  <2>4. [val |-> fetched[c][i], key |-> k] \in Sealed
    BY <2>2, <2>3, FetchParts DEF Sealed
  <2>5. f \in [S -> Sealed] /\ S \subseteq Items
    BY <2>2, <2>4, FetchParts
  <2>6. f \in Replies BY <2>5, FetchTyped
  <2>7. i \in Info[c].items BY <2>2 DEF Placed
  <2>8. TypeOK'
    <3> HIDE DEF f
    <3>1. reply' \in [Calls -> Replies] BY <2>1, <2>6 DEF TypeOK
    <3>2. \A x \in Calls : DOMAIN reply'[x] \subseteq Info[x].items
      BY <2>1, <2>2, <2>5, <2>7 DEF TypeOK
    <3> QED BY <3>1, <3>2 DEF TypeOK
  <2>9. StoredAsMeant' BY DEF StoredAsMeant, TypeOK
  <2>10. Placed'
    <3> HIDE DEF f
    <3> QED BY <2>1 DEF Placed, TypeOK, WriteOps
  <2>11. SealedForClient'
    <3>0. fetched' = fetched /\ table' = table OBVIOUS
    <3> SUFFICES ASSUME NEW x \in Calls, NEW j \in DOMAIN reply'[x]
                 PROVE  /\ j \in DOMAIN fetched'[x] /\ reply'[x][j].val = fetched'[x][j]
                        /\ \/ reply'[x][j].key = Key(Sess(x))
                           \/ table'[Sess(x)] = "dropped"
      BY DEF SealedForClient
    <3>1. CASE x # c \/ j # i
      <4>1. j \in DOMAIN reply[x] /\ reply'[x][j] = reply[x][j]
        BY <2>1, <3>1 DEF TypeOK
      <4> QED BY <3>0, <4>1 DEF SealedForClient
    <3>2. CASE x = c /\ j = i
      <4>1. reply'[x][j] = [val |-> fetched[c][i], key |-> k]
        BY <2>1, <3>2 DEF TypeOK
      <4>2. table[Sess(c)] \in {"open", "dropped"} BY DEF Placed
      <4>3. table[Sess(c)] = "dropped" \/ k = Key(Sess(c))
        BY <4>2 DEF Cipher, Key
      <4> QED BY <2>2, <3>0, <3>2, <4>1, <4>3
    <3> QED BY <3>1, <3>2
  <2> QED BY <2>8, <2>9, <2>10, <2>11
<1> QED BY <1>1, <1>2, <1>3, <1>4, <1>5, <1>6 DEF CallStep

\* The steps of the sessions and the shutdown keep IInv.
LEMMA OtherPreserves ==
    ASSUME IInv,
           \/ \E s \in Sessions : OpenUpstream(s) \/ OpenFails(s) \/ RecordSession(s)
           \/ Shutdown
    PROVE  IInv'
<1> USE DEF IInv, OpenUpstream, OpenFails, RecordSession, Shutdown, CloseTracker, CloseAll,
            CloseFront, CloseBackend, callVars
<1>1. TypeOK' BY DEF TypeOK
<1>2. StoredAsMeant' BY DEF StoredAsMeant, TypeOK
<1>3. Placed' BY CallAssumption DEF Placed, TypeOK, CallInfo, Sess
<1>4. SealedForClient' BY CallAssumption DEF SealedForClient, TypeOK, CallInfo, Sess
<1> QED BY <1>1, <1>2, <1>3, <1>4

\* A stuttering step keeps IInv.
LEMMA Stutters == IInv /\ UNCHANGED vars => IInv'
  BY DEF IInv, TypeOK, StoredAsMeant, Placed, SealedForClient, vars, callVars

\* The invariant the theorems below rest on: the types, the place of every
\* call, and the two properties of the secrets themselves.
THEOREM Invariance == Spec => []IInv
<1>1. IInv /\ [Next]_vars => IInv'
  BY CallPreserves, OtherPreserves, Stutters DEF Next
<1> QED BY <1>1, Initially, PTL DEF Spec

\* An item holds bytes that nobody meant only if its own writer sealed them
\* with another key than its session's, and the write was granted
\* (ForUpstream).
THEOREM StoresWhatIsMeant == Spec => []StoredAsMeant
<1>1. IInv => StoredAsMeant BY DEF IInv
<1> QED BY <1>1, Invariance, PTL

\* Replies carry what was read, sealed with the key of the client's session
\* (GetLocalSession, ForClient).
THEOREM RepliesSealed == Spec => []SealedForClient
<1>1. IInv => SealedForClient BY DEF IInv
<1> QED BY <1>1, Invariance, PTL

-----------------------------------------------------------------------------
(* Refinement: SecretService implements KeyringGate *)

PhaseOf == [c \in Calls |-> Phase(c)]

\* The first states are first states of the gate.
LEMMA GateInitially == Init => Gate!Init
<1> SUFFICES ASSUME Init PROVE Gate!Init OBVIOUS
<1>1. PhaseOf = [c \in Calls |-> "idle"] BY DEF Init, PhaseOf, Phase
<1> QED BY <1>1 DEF Gate!Init, PhaseOf, Init, Empty

\* The other calls stay in their phases.
LEMMA OnlyPhase ==
    ASSUME NEW c \in Calls, \A x \in Calls \ {c} : pc'[x] = pc[x] /\ verdict'[x] = verdict[x]
    PROVE  PhaseOf' = [PhaseOf EXCEPT ![c] = Phase(c)'] /\ PhaseOf[c] = Phase(c)
<1>1. \A x \in Calls \ {c} : Phase(x)' = Phase(x) BY DEF Phase
<1> QED BY <1>1 DEF PhaseOf

\* The phases that need no verdict are moved through in the order of the gate.
LEMMA PhaseOrder ==
    ASSUME NEW c \in Calls, UNCHANGED <<store, fetched, verdict>>,
           \A x \in Calls \ {c} : pc'[x] = pc[x],
           \/ Phase(c)' = Phase(c)
           \/ Phase(c) = "idle" /\ Phase(c)' = IF Gate!Gated(c) THEN "asked" ELSE "granted"
           \/ Phase(c) = "performed" /\ Phase(c)' = "answered"
           \/ Phase(c) \in {"idle", "granted", "performed"} /\ Phase(c)' = "failed"
    PROVE  [Gate!Next]_Gate!vars
<1>1. PhaseOf' = [PhaseOf EXCEPT ![c] = Phase(c)'] /\ PhaseOf[c] = Phase(c)
  BY OnlyPhase
<1>2. CASE Phase(c)' = Phase(c)
  <2>1. PhaseOf' = PhaseOf BY <1>1, <1>2 DEF PhaseOf
  <2> QED BY <2>1 DEF Gate!vars, PhaseOf
<1>3. CASE Phase(c) = "idle" /\ Phase(c)' = IF Gate!Gated(c) THEN "asked" ELSE "granted"
  <2>1. Gate!Request(c) BY <1>1, <1>3 DEF Gate!Request, Gate!Move, PhaseOf
  <2> QED BY <2>1 DEF Gate!Next
<1>4. CASE Phase(c) = "performed" /\ Phase(c)' = "answered"
  <2>1. Gate!Answer(c) BY <1>1, <1>4 DEF Gate!Answer, Gate!Move, PhaseOf
  <2> QED BY <2>1 DEF Gate!Next
<1>5. CASE Phase(c) \in {"idle", "granted", "performed"} /\ Phase(c)' = "failed"
  <2>1. Gate!Fail(c) BY <1>1, <1>5 DEF Gate!Fail, Gate!Move, PhaseOf
  <2> QED BY <2>1 DEF Gate!Next
<1> QED BY <1>2, <1>3, <1>4, <1>5

\* A verdict moves the call as the gate says.
LEMMA DecisionRefines ==
    ASSUME NEW c \in Calls, NEW v \in {"granted", "refused", "ignored"},
           UNCHANGED <<store, fetched>>, verdict' = [verdict EXCEPT ![c] = v],
           \A x \in Calls \ {c} : pc'[x] = pc[x] /\ verdict'[x] = verdict[x],
           Phase(c) = "asked", Phase(c)' = Gate!Decided(c, v)
    PROVE  [Gate!Next]_Gate!vars
<1>1. PhaseOf' = [PhaseOf EXCEPT ![c] = Phase(c)'] /\ PhaseOf[c] = Phase(c)
  BY OnlyPhase
<1>2. Gate!Decide(c) BY <1>1 DEF Gate!Decide, Gate!Move, PhaseOf
<1> QED BY <1>2 DEF Gate!Next

\* The keyring acts on a granted call as the gate says.
LEMMA PerformRefines ==
    ASSUME IInv, NEW c \in Calls, Perform(c)
    PROVE  Gate!Perform(c)
<1> USE DEF IInv
<1>0. /\ Op(c) \in Ops /\ Info[c].items \subseteq Items /\ Info[c].op = Op(c)
      /\ pc[c] = "upstream" /\ pc'[c] \in {"encode", "reply"}
      /\ \A x \in Calls \ {c} : pc'[x] = pc[x] /\ verdict'[x] = verdict[x]
      /\ verdict' = verdict
  BY InfoTyped DEF Op, Perform, Goto, TypeOK
<1>1. PhaseOf[c] = "granted" /\ PhaseOf' = [PhaseOf EXCEPT ![c] = "performed"]
  <2>1. Phase(c) = "granted" BY <1>0 DEF Phase, Placed
  <2>2. Phase(c)' = "performed" BY <1>0 DEF Phase
  <2> QED BY <1>0, <2>1, <2>2, OnlyPhase
<1>2. store' = Gate!Outcome(c)
  <2>1. CASE Op(c) \in WriteOps
    <3>1. sent[c] = IF Missealed(c) THEN Garbage ELSE Info[c].value BY <1>0, <2>1 DEF Placed
    <3>2. store' = [i \in Items |-> IF i \in Info[c].items THEN sent[c] ELSE store[i]]
      BY <2>1 DEF Perform, WriteOps
    <3>3. Gate!Writes(c) /\ ~Gate!Deletes(c)
      BY <1>0, <2>1 DEF Gate!Writes, Gate!Deletes, WriteOps
    <3> QED BY <3>1, <3>2, <3>3 DEF Gate!Outcome
  <2>2. CASE Op(c) = "delete"
    <3>1. store' = [i \in Items |-> IF i \in Info[c].items THEN NoValue ELSE store[i]]
      BY <2>2 DEF Perform
    <3>2. ~Gate!Writes(c) /\ Gate!Deletes(c)
      BY <1>0, <2>2 DEF Gate!Writes, Gate!Deletes
    <3> QED BY <3>1, <3>2 DEF Gate!Outcome
  <2>3. CASE Op(c) \notin WriteOps /\ Op(c) # "delete"
    <3>1. store' = store BY <2>3 DEF Perform, WriteOps
    <3>2. ~Gate!Writes(c) /\ ~Gate!Deletes(c)
      BY <1>0, <2>3 DEF Gate!Writes, Gate!Deletes, WriteOps
    <3> QED BY <3>1, <3>2 DEF Gate!Outcome
  <2> QED BY <2>1, <2>2, <2>3
<1>3. fetched' = IF Gate!Reads(c)
                 THEN [fetched EXCEPT ![c] = [i \in Gate!Existing(Info[c].items) |-> store[i]]]
                 ELSE fetched
  BY <1>0 DEF Perform, Gate!Reads, Gate!Existing, Existing
<1> QED BY <1>0, <1>1, <1>2, <1>3 DEF Gate!Perform, Gate!Move, PhaseOf

\* A step of a call is a step of the gate or a stutter.
LEMMA CallRefines ==
    ASSUME IInv, NEW c \in Calls, CallStep(c)
    PROVE  [Gate!Next]_Gate!vars
<1> USE DEF IInv
<1>0. Op(c) \in Ops /\ Info[c].op = Op(c) BY InfoTyped DEF Op
<1>1. CASE Perform(c)
  <2>1. Gate!Perform(c) BY <1>1, PerformRefines
  <2> QED BY <2>1 DEF Gate!Next
<1>2. CASE BadPath(c) \/ SessionNotFound(c) \/ UpstreamFails(c) \/ EncryptFails(c)
  <2> USE <1>2 DEF BadPath, SessionNotFound, UpstreamFails, EncryptFails, Goto
  <2>1. Phase(c) \in {"idle", "granted", "performed"} BY DEF Phase, Placed
  <2>2. Phase(c)' = "failed" BY DEF Phase, TypeOK
  <2> QED BY <2>1, <2>2, PhaseOrder DEF TypeOK
<1>3. CASE Receive(c)
  <2> USE <1>3, <1>0 DEF Receive, Goto
  <2>1. Phase(c) = "idle" BY DEF Phase
  <2>2. CASE Op(c) = "pass"
    <3>1. ~Gate!Gated(c)
      BY <2>2 DEF Gate!Gated, Gate!Reads, Gate!Writes, Gate!Deletes
    <3>2. Phase(c)' = "granted" BY <2>2 DEF Phase, TypeOK
    <3> QED BY <2>1, <3>1, <3>2, PhaseOrder DEF TypeOK
  <2>3. CASE Op(c) # "pass"
    <3>1. Gate!Gated(c)
      BY <2>3 DEF Gate!Gated, Gate!Reads, Gate!Writes, Gate!Deletes, Ops
    <3>2. Phase(c)' = "asked" BY <2>3 DEF Phase, TypeOK, Ops
    <3> QED BY <2>1, <3>1, <3>2, PhaseOrder DEF TypeOK
  <2> QED BY <2>2, <2>3
<1>4. CASE IgnoreDummy(c)
  <2>1. /\ Phase(c) = "asked" /\ Phase(c)' = "dropped"
        /\ Info[c].op = "create" /\ Info[c].dummy
        /\ \A x \in Calls \ {c} : pc'[x] = pc[x] /\ verdict'[x] = verdict[x]
        /\ UNCHANGED <<store, fetched, verdict>>
    BY <1>0, <1>4 DEF IgnoreDummy, Goto, Phase, TypeOK
  <2>2. Gate!DropDummy(c) BY <2>1, OnlyPhase DEF Gate!DropDummy, Gate!Move, PhaseOf
  <2> QED BY <2>2 DEF Gate!Next
<1>5. ASSUME NEW v \in {"granted", "refused", "ignored"}, Approve(c, v)
      PROVE  [Gate!Next]_Gate!vars
  <2> USE <1>5, <1>0 DEF Approve, AfterApproval, Goto
  <2>1. Phase(c) = "asked" BY DEF Phase
  <2>2. Phase(c)' = Gate!Decided(c, v)
    <3>1. pc'[c] = AfterApproval(c, v) /\ verdict'[c] = v BY DEF TypeOK
    <3>2. Gate!Writes(c) <=> Op(c) \in {"set", "create"} BY DEF Gate!Writes
    <3> QED BY <3>1, <3>2 DEF Phase, Gate!Decided
  <2>3. \A x \in Calls \ {c} : pc'[x] = pc[x] /\ verdict'[x] = verdict[x] BY DEF TypeOK
  <2> QED BY <2>1, <2>2, <2>3, DecisionRefines
<1>6. ASSUME NEW v \in {"granted", "refused"}, CheckTrust(c, v)
      PROVE  [Gate!Next]_Gate!vars
  <2> USE <1>6 DEF CheckTrust, Goto
  <2>1. Phase(c) = "asked" BY DEF Phase
  <2>2. Phase(c)' = Gate!Decided(c, v)
    <3>1. /\ pc'[c] = IF v = "refused" THEN "failed" ELSE "upstream"
          /\ verdict'[c] = v
      BY DEF TypeOK
    <3> QED BY <3>1 DEF Phase, Gate!Decided
  <2>3. \A x \in Calls \ {c} : pc'[x] = pc[x] /\ verdict'[x] = verdict[x] BY DEF TypeOK
  <2> QED BY <2>1, <2>2, <2>3, DecisionRefines
<1>7. CASE Register(c) \/ GetLocalSession(c) \/ ForUpstream(c) \/ Encoded(c)
           \/ \E i \in Items : ForClient(c, i)
  <2>1. CASE Register(c)
    <3>1. /\ pc[c] = "register" /\ pc'[c] = "approve"
          /\ \A x \in Calls \ {c} : pc'[x] = pc[x]
          /\ UNCHANGED <<store, fetched, verdict>>
      BY <2>1 DEF Register, Goto, TypeOK
    <3>2. Phase(c)' = Phase(c) BY <3>1 DEF Phase
    <3> QED BY <3>1, <3>2, PhaseOrder
  <2>2. CASE GetLocalSession(c) \/ ForUpstream(c)
    <3>1. /\ pc[c] = "session" /\ pc'[c] \in {"upstream", "failed"}
          /\ \A x \in Calls \ {c} : pc'[x] = pc[x]
          /\ UNCHANGED <<store, fetched, verdict>>
      BY <2>2 DEF GetLocalSession, ForUpstream, Goto, TypeOK
    <3>2. Phase(c) = "granted" BY <3>1 DEF Phase, Placed
    <3>3. Phase(c)' \in {Phase(c), "failed"} BY <3>1 DEF Phase
    <3> QED BY <3>1, <3>2, <3>3, PhaseOrder
  <2>3. CASE Encoded(c)
    <3>1. /\ pc[c] = "encode" /\ pc'[c] = "reply"
          /\ \A x \in Calls \ {c} : pc'[x] = pc[x]
          /\ UNCHANGED <<store, fetched, verdict>>
      BY <2>3 DEF Encoded, Goto, TypeOK
    <3>2. Phase(c)' = Phase(c) BY <3>1 DEF Phase
    <3> QED BY <3>1, <3>2, PhaseOrder
  <2>4. ASSUME NEW i \in Items, ForClient(c, i)
        PROVE  [Gate!Next]_Gate!vars
    <3>1. UNCHANGED <<pc, store, fetched, verdict>> BY <2>4 DEF ForClient
    <3>2. Phase(c)' = Phase(c) BY <3>1 DEF Phase
    <3> QED BY <3>1, <3>2, PhaseOrder
  <2> QED BY <1>7, <2>1, <2>2, <2>3, <2>4
<1>8. CASE Reply(c)
  <2> USE <1>8 DEF Reply, Goto
  <2>1. Phase(c) = "performed" /\ Phase(c)' \in {"answered", "failed"} BY DEF Phase, TypeOK
  <2>2. \A x \in Calls \ {c} : pc'[x] = pc[x] BY DEF TypeOK
  <2> QED BY <2>1, <2>2, PhaseOrder
<1> QED BY <1>1, <1>2, <1>3, <1>4, <1>5, <1>6, <1>7, <1>8 DEF CallStep

\* The other steps are stutters of the gate.
LEMMA OtherRefines ==
    ASSUME \/ \E s \in Sessions : OpenUpstream(s) \/ OpenFails(s) \/ RecordSession(s)
           \/ Shutdown
           \/ UNCHANGED vars
    PROVE  UNCHANGED Gate!vars
<1>1. UNCHANGED <<pc, verdict, fetched, store>>
  BY DEF OpenUpstream, OpenFails, RecordSession, Shutdown, CloseTracker, CloseAll,
         CloseFront, CloseBackend, callVars, vars
<1>2. \A x \in Calls : Phase(x)' = Phase(x) BY <1>1 DEF Phase
<1> QED BY <1>1, <1>2 DEF Gate!vars

\* The proxy is the keyring behind a gate, for any calls, items, values and
\* sessions: only granted calls are performed, once each, with the value the
\* client meant, a read gets what it read, and no refusal is reported as done.
THEOREM ImplementsGate == Spec => GateSpec
<1>1. IInv /\ [Next]_vars => [Gate!Next]_Gate!vars
  BY CallRefines, OtherRefines DEF Next
<1> QED BY <1>1, GateInitially, Invariance, PTL DEF Spec, GateSpec, Gate!Spec

=============================================================================
