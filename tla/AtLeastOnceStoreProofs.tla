----------------------- MODULE AtLeastOnceStoreProofs -----------------------
(***************************************************************************)
(* What the contract of pairing.Store promises survives failed             *)
(* connections, requests that are sent again and requests that take effect *)
(* late, for any number of each.  The steps the store takes without them   *)
(* are those of PairingStore, whose lemmas are used.                       *)
(***************************************************************************)
EXTENDS AtLeastOnceStore, PairingStoreProofs

(***************************************************************************)
(* The three things a step does: one of the store's own, one of the        *)
(* network that leaves entries and counts alone, or a late effect.         *)
(***************************************************************************)
LEMMA StepCases ==
  ASSUME AtLeastOnceTypeOK, [AtLeastOnceNext]_allVars
  PROVE  \/ [Next]_vars
         \/ UNCHANGED <<entry, tally>>
         \/ \E r \in Requests : Late(r)
  BY DEF AtLeastOnceTypeOK, AtLeastOnceNext, allVars, vars, tally,
         Resend, GiveUp, Disconnected, Forget

(***************************************************************************)
(* A late effect on an entry and on its counts.                            *)
(***************************************************************************)
LEMMA LateEffect ==
  ASSUME TypeOK, NEW r \in Requests, Late(r), NEW n \in Nonces
  PROVE  \/ entry'[n] = entry[n] /\ UNCHANGED <<puts[n], completes[n], fetches[n]>>
         \/ /\ entry[n] = Absent /\ entry'[n] = Waiting
            /\ puts'[n] = puts[n] + 1 /\ UNCHANGED <<completes[n], fetches[n]>>
         \/ /\ entry[n] = Waiting /\ \E p \in Payloads : entry'[n] = Ready(p)
            /\ completes'[n] = completes[n] + 1 /\ UNCHANGED <<puts[n], fetches[n]>>
         \/ /\ entry[n].status = "ready" /\ entry'[n] = Absent
            /\ fetches'[n] = fetches[n] + 1 /\ UNCHANGED <<puts[n], completes[n]>>
<1>1. r.nonce \in Nonces /\ (r.op = "Complete" => r.payload \in Payloads)
  BY CallTypes
<1>2. CASE r.nonce = n
  BY <1>1, <1>2 DEF Late, TypeOK
<1>3. CASE r.nonce # n
  BY <1>1, <1>3 DEF Late, TypeOK
<1>4. QED
  BY <1>2, <1>3

(***************************************************************************)
(* Every variable keeps its type, whatever the network does.               *)
(***************************************************************************)
THEOREM AtLeastOnceTypeCorrect == AtLeastOnceSpec => [](AtLeastOnceTypeOK /\ CallInv)
<1>1. AtLeastOnceInit => AtLeastOnceTypeOK /\ CallInv
  BY InitTypes DEF AtLeastOnceInit, AtLeastOnceTypeOK
<1>2. AtLeastOnceTypeOK /\ CallInv /\ [AtLeastOnceNext]_allVars
        => (AtLeastOnceTypeOK /\ CallInv)'
  <2> SUFFICES ASSUME AtLeastOnceTypeOK, CallInv, [AtLeastOnceNext]_allVars
               PROVE  AtLeastOnceTypeOK' /\ CallInv'
    OBVIOUS
  <2> USE DEF AtLeastOnceTypeOK
  <2>1. CASE Next /\ UNCHANGED <<lost, faults>>
    BY <2>1, TypeStep
  <2>2. ASSUME NEW c \in Callers, Resend(c) \/ GiveUp(c)
        PROVE  AtLeastOnceTypeOK' /\ CallInv'
    <3>1. NoReply \in Reply /\ Answer("error") \in Reply
      BY AnswerTypes DEF NoReply, Errs
    <3>2. req[c] \in Requests
      BY <2>2 DEF Resend, GiveUp, Disconnected, CallInv
    <3>3. lost' \subseteq Requests /\ faults' \in Nat
      BY <2>2, <3>2 DEF Resend, GiveUp, Disconnected
    <3>4. TypeOK' /\ CallInv'
      BY <2>2, <3>1, <3>2 DEF Resend, GiveUp, Disconnected, tally, TypeOK, CallInv
    <3>5. QED
      BY <3>3, <3>4
  <2>3. ASSUME NEW r \in lost, Late(r)
        PROVE  AtLeastOnceTypeOK' /\ CallInv'
    <3>1. r \in Requests
      OBVIOUS
    <3>2. /\ r.nonce \in Nonces /\ r.ttl \in Nat
          /\ r.op = "Complete" => r.payload \in Payloads
      BY <3>1, CallTypes
    <3>3. /\ entry' \in [Nonces -> Entry]
          /\ expiresAt' \in [Nonces -> Nat] /\ puts' \in [Nonces -> Nat]
          /\ completes' \in [Nonces -> Nat] /\ fetches' \in [Nonces -> Nat]
      BY <2>3, <3>2 DEF Late, TypeOK, Entry
    <3>4. QED
      BY <2>3, <3>3 DEF Late, TypeOK, CallInv
  <2>4. ASSUME NEW r \in lost, Forget(r)
        PROVE  AtLeastOnceTypeOK' /\ CallInv'
    <3>1. UNCHANGED vars /\ lost' \subseteq Requests /\ faults' \in Nat
      BY <2>4 DEF Forget
    <3>2. QED
      BY <3>1, TypeStep
  <2>5. CASE UNCHANGED allVars
    BY <2>5, TypeStep DEF allVars
  <2>6. QED
    BY <2>1, <2>2, <2>3, <2>4, <2>5 DEF AtLeastOnceNext
<1>3. QED
  BY <1>1, <1>2, PTL DEF AtLeastOnceSpec

(***************************************************************************)
(* One-time handoff survives the network: a token is fetched at most once, *)
(* although a fetch may be sent twice and may take effect late.            *)
(***************************************************************************)
THEOREM AtLeastOnceHandoff == AtLeastOnceSpec => []HandoffLaw
<1>1. AtLeastOnceInit => HandoffLaw
  BY InitHandoff DEF AtLeastOnceInit
<1>2. AtLeastOnceTypeOK /\ CallInv /\ HandoffLaw /\ [AtLeastOnceNext]_allVars
        => HandoffLaw'
  <2> SUFFICES ASSUME AtLeastOnceTypeOK, CallInv, HandoffLaw, [AtLeastOnceNext]_allVars
               PROVE  HandoffLaw'
    OBVIOUS
  <2>1. TypeOK
    BY DEF AtLeastOnceTypeOK
  <2>2. CASE [Next]_vars
    BY <2>1, <2>2, HandoffStep
  <2>3. CASE UNCHANGED <<entry, tally>>
    BY <2>3 DEF tally, HandoffLaw, Held
  <2>4. ASSUME NEW r \in Requests, Late(r)
        PROVE  HandoffLaw'
    <3> SUFFICES ASSUME NEW n \in Nonces
                 PROVE  /\ fetches'[n] + Held(n, "ready")' <= completes'[n]
                        /\ completes'[n] + Held(n, "waiting")' <= puts'[n]
      BY DEF HandoffLaw
    <3>1. /\ fetches[n] + Held(n, "ready") <= completes[n]
          /\ completes[n] + Held(n, "waiting") <= puts[n]
          /\ fetches[n] \in Nat /\ completes[n] \in Nat /\ puts[n] \in Nat
      BY <2>1 DEF HandoffLaw, TypeOK
    <3>2. /\ Held(n, "ready")' = IF entry'[n].status = "ready" THEN 1 ELSE 0
          /\ Held(n, "waiting")' = IF entry'[n].status = "waiting" THEN 1 ELSE 0
      BY DEF Held
    <3>3. CASE entry'[n] = entry[n] /\ UNCHANGED <<puts[n], completes[n], fetches[n]>>
      BY <3>1, <3>2, <3>3 DEF Held
    <3>4. CASE /\ entry[n] = Absent /\ entry'[n] = Waiting
               /\ puts'[n] = puts[n] + 1 /\ UNCHANGED <<completes[n], fetches[n]>>
      BY <3>1, <3>2, <3>4 DEF Held, Absent, Waiting
    <3>5. CASE /\ entry[n] = Waiting /\ \E p \in Payloads : entry'[n] = Ready(p)
               /\ completes'[n] = completes[n] + 1 /\ UNCHANGED <<puts[n], fetches[n]>>
      BY <3>1, <3>2, <3>5 DEF Held, Waiting, Ready
    <3>6. CASE /\ entry[n].status = "ready" /\ entry'[n] = Absent
               /\ fetches'[n] = fetches[n] + 1 /\ UNCHANGED <<puts[n], completes[n]>>
      BY <3>1, <3>2, <3>6 DEF Held, Absent
    <3>7. QED
      BY <2>1, <2>4, <3>3, <3>4, <3>5, <3>6, LateEffect
  <2>5. QED
    BY <2>2, <2>3, <2>4, StepCases
<1>3. QED
  BY <1>1, <1>2, AtLeastOnceTypeCorrect, PTL DEF AtLeastOnceSpec

(***************************************************************************)
(* First completion wins: neither a Complete that is sent again nor one    *)
(* that is late exchanges the token of a Ready entry.                      *)
(***************************************************************************)
THEOREM AtLeastOnceFinal == AtLeastOnceSpec => ReadyIsFinal
<1> DEFINE Final == \A n \in Nonces :
                      entry[n].status = "ready" => entry'[n] \in {entry[n], Absent}
<1>1. AtLeastOnceTypeOK /\ CallInv /\ [AtLeastOnceNext]_allVars => [Final]_vars
  <2> SUFFICES ASSUME AtLeastOnceTypeOK, CallInv, [AtLeastOnceNext]_allVars
               PROVE  Final
    OBVIOUS
  <2>1. TypeOK
    BY DEF AtLeastOnceTypeOK
  <2>2. CASE [Next]_vars
    BY <2>1, <2>2, FinalStep
  <2>3. CASE UNCHANGED <<entry, tally>>
    BY <2>3
  <2>4. ASSUME NEW r \in Requests, Late(r)
        PROVE  Final
    BY <2>1, <2>4, LateEffect DEF Absent, Waiting
  <2>5. QED
    BY <2>2, <2>3, <2>4, StepCases
<1>2. QED
  BY <1>1, AtLeastOnceTypeCorrect, PTL DEF AtLeastOnceSpec, ReadyIsFinal
=============================================================================
