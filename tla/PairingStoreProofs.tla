------------------------- MODULE PairingStoreProofs -------------------------
(***************************************************************************)
(* Theorems about the contract of pairing.Store, for any sets of callers,  *)
(* nonces, payloads and time-to-live values and any bounds.                *)
(***************************************************************************)
EXTENDS PairingStore, TLAPS

(***************************************************************************)
(* What the functional definitions of the operations return, so that the   *)
(* proofs below need not look into CASE expressions.                       *)
(***************************************************************************)
LEMMA EntryCases ==
  ASSUME NEW e \in Entry
  PROVE  /\ e.status \in {"absent", "waiting", "ready"}
         /\ e.payload \in Payloads \cup {NoPayload}
         /\ e.status = "absent" <=> e = Absent
         /\ e.status = "waiting" <=> e = Waiting
         /\ e.status = "ready" <=> \E p \in Payloads : e = Ready(p)
         /\ e.status = "ready" => e.payload \in Payloads /\ e = Ready(e.payload)
  BY DEF Entry, Absent, Waiting, Ready

\* An answer without a payload is a Reply.
LEMMA AnswerTypes == \A x \in Errs : Answer(x) \in Reply
  BY DEF Answer, Reply

\* Put answers a Reply and leaves an Entry.
LEMMA PutTypes ==
  ASSUME NEW e \in Entry
  PROVE  PutReply(e) \in Reply /\ PutEntry(e) \in Entry
  BY AnswerTypes DEF PutReply, PutEntry, Entry, Errs

\* Complete answers a Reply and leaves an Entry.
LEMMA CompleteTypes ==
  ASSUME NEW e \in Entry, NEW p \in Payloads
  PROVE  CompleteReply(e) \in Reply /\ CompleteEntry(e, p) \in Entry
  <1>1. CompleteReply(e) \in Reply
    BY AnswerTypes, EntryCases DEF CompleteReply, Errs
  <1>2. CompleteEntry(e, p) \in Entry
    BY DEF CompleteEntry, Entry
  <1>3. QED
    BY <1>1, <1>2

\* FetchAndDelete answers a Reply and leaves an Entry.
LEMMA FetchTypes ==
  ASSUME NEW e \in Entry
  PROVE  FetchReply(e) \in Reply /\ FetchEntry(e) \in Entry
  <1>1. CASE e.status = "ready"
    <2>1. FetchReply(e) = [err |-> "ok", payload |-> e.payload]
      BY <1>1 DEF FetchReply
    <2>2. QED
      BY <1>1, <2>1, EntryCases DEF Reply, Errs, FetchEntry, Entry
  <1>2. CASE e.status # "ready"
    BY <1>2, AnswerTypes, EntryCases DEF FetchReply, FetchEntry, Errs
  <1>3. QED
    BY <1>1, <1>2

\* What a call of the interface carries.
LEMMA CallTypes ==
  ASSUME NEW r \in Requests
  PROVE  /\ r.nonce \in Nonces
         /\ r.ttl \in Nat
         /\ r.op = "Complete" => r.payload \in Payloads
         /\ r.op \in {"Put", "Complete", "FetchAndDelete"}
  <1>1. r.nonce \in Nonces /\ r.op \in {"Put", "Complete", "FetchAndDelete"}
    BY DEF Requests, Calls
  <1>2. r.ttl \in Nat
    <2>1. CASE r \in [op : {"Put"}, nonce : Nonces, payload : {NoPayload}, ttl : TTLs]
      BY <2>1, TimeAssumption
    <2>2. CASE r.ttl = 0
      BY <2>2
    <2>3. QED
      BY <2>1, <2>2 DEF Requests, Calls
  <1>3. r.op = "Complete" => r.payload \in Payloads
    BY DEF Requests, Calls
  <1>4. QED
    BY <1>1, <1>2, <1>3

-----------------------------------------------------------------------------

(***************************************************************************)
(* A caller that has been heard is in one of the calls of the interface.   *)
(***************************************************************************)
CallInv == \A c \in Callers : pc[c] # "idle" => req[c] \in Requests

\* Answering a call disturbs no type and no other caller.
LEMMA AnsweredInv ==
  ASSUME TypeOK, CallInv, NEW c \in Callers, pc[c] = "called",
         NEW r \in Reply, Answered(c, r)
  PROVE  /\ now' \in Nat /\ invoked' \in Nat
         /\ pc' \in [Callers -> {"idle", "called", "returned"}]
         /\ req' \in [Callers -> Requests \cup {NoCall}]
         /\ started' \in [Callers -> Nat]
         /\ reply' \in [Callers -> Reply]
         /\ CallInv'
  BY DEF TypeOK, CallInv, Answered

(***************************************************************************)
(* The store is empty at first, and nobody is in a call.                   *)
(***************************************************************************)
LEMMA InitTypes == Init => TypeOK /\ CallInv
<1> SUFFICES ASSUME Init PROVE TypeOK /\ CallInv
  OBVIOUS
<1>1. NoReply \in Reply
  BY AnswerTypes DEF NoReply, Errs
<1>2. Absent \in Entry
  BY DEF Entry
<1>3. QED
  BY <1>1, <1>2 DEF Init, TypeOK, CallInv

(***************************************************************************)
(* No step of the contract breaks the types.                               *)
(***************************************************************************)
LEMMA TypeStep == TypeOK /\ CallInv /\ [Next]_vars => (TypeOK /\ CallInv)'
<1> SUFFICES ASSUME TypeOK, CallInv, [Next]_vars
             PROVE  TypeOK' /\ CallInv'
  OBVIOUS
<1>1. CASE Tick
  BY <1>1 DEF Tick, tally, TypeOK, CallInv
<1>2. ASSUME NEW S \in SUBSET Nonces, Expire(S)
      PROVE  TypeOK' /\ CallInv'
  <2>1. entry' \in [Nonces -> Entry]
    BY <1>2 DEF Expire, TypeOK, Entry
  <2>2. QED
    BY <1>2, <2>1 DEF Expire, tally, TypeOK, CallInv
<1>3. ASSUME NEW c \in Callers, NEW r \in Requests, Invoke(c, r)
      PROVE  TypeOK' /\ CallInv'
  BY <1>3 DEF Invoke, tally, TypeOK, CallInv
<1>4. ASSUME NEW c \in Callers, Put(c)
      PROVE  TypeOK' /\ CallInv'
  <2> DEFINE n == req[c].nonce
  <2>1. /\ pc[c] = "called" /\ n \in Nonces /\ entry[n] \in Entry
        /\ req[c].ttl \in Nat
    BY <1>4, CallTypes DEF Put, Sees, CallInv, TypeOK
  <2>2. PutReply(entry[n]) \in Reply /\ PutEntry(entry[n]) \in Entry
    BY <2>1, PutTypes
  <2>3. entry' \in [Nonces -> Entry] /\ expiresAt' \in [Nonces -> Nat]
    BY <1>4, <2>1, <2>2 DEF Put, TypeOK
  <2>4. /\ puts' \in [Nonces -> Nat] /\ completes' \in [Nonces -> Nat]
        /\ fetches' \in [Nonces -> Nat]
    BY <1>4 DEF Put, TypeOK
  <2>5. Answered(c, PutReply(entry[n]))
    BY <1>4 DEF Put
  <2>6. QED
    BY <2>1, <2>2, <2>3, <2>4, <2>5, AnsweredInv DEF TypeOK
<1>5. ASSUME NEW c \in Callers, Complete(c)
      PROVE  TypeOK' /\ CallInv'
  <2> DEFINE n == req[c].nonce
  <2>1. /\ pc[c] = "called" /\ n \in Nonces /\ entry[n] \in Entry
        /\ req[c].payload \in Payloads
    BY <1>5, CallTypes DEF Complete, Sees, CallInv, TypeOK
  <2>2. /\ CompleteReply(entry[n]) \in Reply
        /\ CompleteEntry(entry[n], req[c].payload) \in Entry
    BY <2>1, CompleteTypes
  <2>3. entry' \in [Nonces -> Entry] /\ expiresAt' \in [Nonces -> Nat]
    BY <1>5, <2>1, <2>2 DEF Complete, TypeOK
  <2>4. /\ puts' \in [Nonces -> Nat] /\ completes' \in [Nonces -> Nat]
        /\ fetches' \in [Nonces -> Nat]
    BY <1>5, <2>1 DEF Complete, TypeOK
  <2>5. Answered(c, CompleteReply(entry[n]))
    BY <1>5 DEF Complete
  <2>6. QED
    BY <2>1, <2>2, <2>3, <2>4, <2>5, AnsweredInv DEF TypeOK
<1>6. ASSUME NEW c \in Callers, FetchAndDelete(c)
      PROVE  TypeOK' /\ CallInv'
  <2> DEFINE n == req[c].nonce
  <2>1. pc[c] = "called" /\ n \in Nonces /\ entry[n] \in Entry
    BY <1>6, CallTypes DEF FetchAndDelete, Sees, CallInv, TypeOK
  <2>2. FetchReply(entry[n]) \in Reply /\ FetchEntry(entry[n]) \in Entry
    BY <2>1, FetchTypes
  <2>3. entry' \in [Nonces -> Entry] /\ expiresAt' \in [Nonces -> Nat]
    BY <1>6, <2>1, <2>2 DEF FetchAndDelete, TypeOK
  <2>4. /\ puts' \in [Nonces -> Nat] /\ completes' \in [Nonces -> Nat]
        /\ fetches' \in [Nonces -> Nat]
    BY <1>6, <2>1 DEF FetchAndDelete, TypeOK
  <2>5. Answered(c, FetchReply(entry[n]))
    BY <1>6 DEF FetchAndDelete
  <2>6. QED
    BY <2>1, <2>2, <2>3, <2>4, <2>5, AnsweredInv DEF TypeOK
<1>7. ASSUME NEW c \in Callers, Cancelled(c)
      PROVE  TypeOK' /\ CallInv'
  <2>1. Answer("ctxErr") \in Reply
    BY AnswerTypes DEF Errs
  <2>2. QED
    BY <1>7, <2>1, AnsweredInv DEF Cancelled, tally, TypeOK
<1>8. ASSUME NEW c \in Callers, Return(c)
      PROVE  TypeOK' /\ CallInv'
  <2>1. NoReply \in Reply
    BY AnswerTypes DEF NoReply, Errs
  <2>2. QED
    BY <1>8, <2>1 DEF Return, tally, TypeOK, CallInv
<1>9. CASE UNCHANGED vars
  BY <1>9 DEF vars, TypeOK, CallInv
<1>10. QED
  BY <1>1, <1>2, <1>3, <1>4, <1>5, <1>6, <1>7, <1>8, <1>9 DEF Next, CallerStep

(***************************************************************************)
(* Every variable keeps its type, and a caller that is not idle holds a    *)
(* call of the interface.                                                  *)
(***************************************************************************)
THEOREM TypeCorrect == Spec => [](TypeOK /\ CallInv)
<1>1. Init => TypeOK /\ CallInv
  BY InitTypes
<1>2. QED
  BY <1>1, TypeStep, PTL DEF Spec

-----------------------------------------------------------------------------

(***************************************************************************)
(* How the three operations move an entry between its states.              *)
(***************************************************************************)
LEMMA EntryMoves ==
  ASSUME NEW e \in Entry, NEW p \in Payloads
  PROVE  /\ PutEntry(e).status = IF e = Absent THEN "waiting" ELSE e.status
         /\ CompleteEntry(e, p).status = IF e.status = "waiting" THEN "ready" ELSE e.status
  BY DEF PutEntry, CompleteEntry, Entry, Absent, Waiting, Ready

\* The same of Put and FetchAndDelete.
LEMMA FetchMoves ==
  ASSUME NEW e \in Entry
  PROVE  /\ PutEntry(e).status = IF e = Absent THEN "waiting" ELSE e.status
         /\ FetchEntry(e).status = IF e.status = "ready" THEN "absent" ELSE e.status
  BY DEF PutEntry, FetchEntry, Entry, Absent, Waiting, Ready

(***************************************************************************)
(* Nothing has been counted at first.                                      *)
(***************************************************************************)
LEMMA InitHandoff == Init => HandoffLaw
<1> SUFFICES ASSUME Init, NEW n \in Nonces
             PROVE  /\ fetches[n] + Held(n, "ready") <= completes[n]
                    /\ completes[n] + Held(n, "waiting") <= puts[n]
  BY DEF HandoffLaw
<1>1. entry[n].status = "absent" /\ puts[n] = 0 /\ completes[n] = 0 /\ fetches[n] = 0
  BY DEF Init, Absent
<1>2. QED
  BY <1>1 DEF Held

(***************************************************************************)
(* No step of the contract counts a completion or a fetch twice.           *)
(***************************************************************************)
LEMMA HandoffStep == TypeOK /\ CallInv /\ HandoffLaw /\ [Next]_vars => HandoffLaw'
<1> SUFFICES ASSUME TypeOK, CallInv, HandoffLaw, [Next]_vars, NEW n \in Nonces
             PROVE  /\ fetches'[n] + Held(n, "ready")' <= completes'[n]
                    /\ completes'[n] + Held(n, "waiting")' <= puts'[n]
  BY DEF HandoffLaw
<1> DEFINE Law(s, f, k, p) ==
             /\ f + (IF s = "ready" THEN 1 ELSE 0) <= k
             /\ k + (IF s = "waiting" THEN 1 ELSE 0) <= p
<1>1. /\ Law(entry[n].status, fetches[n], completes[n], puts[n])
      /\ entry[n] \in Entry
      /\ fetches[n] \in Nat /\ completes[n] \in Nat /\ puts[n] \in Nat
  BY DEF HandoffLaw, Held, TypeOK
<1> SUFFICES Law(entry'[n].status, fetches'[n], completes'[n], puts'[n])
  BY DEF Held
<1>2. CASE entry'[n] = entry[n] /\ UNCHANGED <<fetches[n], completes[n], puts[n]>>
  BY <1>1, <1>2
<1>3. ASSUME NEW S \in SUBSET Nonces, Expire(S)
      PROVE  Law(entry'[n].status, fetches'[n], completes'[n], puts'[n])
  BY <1>1, <1>3 DEF Expire, tally, Absent
<1>4. ASSUME NEW c \in Callers, Put(c), req[c].nonce = n
      PROVE  Law(entry'[n].status, fetches'[n], completes'[n], puts'[n])
  <2>1. entry'[n] = PutEntry(entry[n])
    BY <1>4 DEF Put, TypeOK
  <2>2. /\ puts'[n] = IF entry[n] = Absent THEN puts[n] + 1 ELSE puts[n]
        /\ completes'[n] = completes[n] /\ fetches'[n] = fetches[n]
    BY <1>4 DEF Put, TypeOK
  <2>3. QED
    BY <1>1, <2>1, <2>2, FetchMoves DEF Absent
<1>5. ASSUME NEW c \in Callers, Complete(c), req[c].nonce = n
      PROVE  Law(entry'[n].status, fetches'[n], completes'[n], puts'[n])
  <2>1. req[c].payload \in Payloads
    BY <1>5, CallTypes DEF Complete, Sees, CallInv
  <2>2. entry'[n] = CompleteEntry(entry[n], req[c].payload)
    BY <1>5 DEF Complete, TypeOK
  <2>3. /\ completes'[n] = IF entry[n].status = "waiting" THEN completes[n] + 1
                           ELSE completes[n]
        /\ puts'[n] = puts[n] /\ fetches'[n] = fetches[n]
    BY <1>5 DEF Complete, TypeOK
  <2>4. QED
    BY <1>1, <2>1, <2>2, <2>3, EntryMoves
<1>6. ASSUME NEW c \in Callers, FetchAndDelete(c), req[c].nonce = n
      PROVE  Law(entry'[n].status, fetches'[n], completes'[n], puts'[n])
  <2>1. entry'[n] = FetchEntry(entry[n])
    BY <1>6 DEF FetchAndDelete, TypeOK
  <2>2. /\ fetches'[n] = IF entry[n].status = "ready" THEN fetches[n] + 1
                         ELSE fetches[n]
        /\ puts'[n] = puts[n] /\ completes'[n] = completes[n]
    BY <1>6 DEF FetchAndDelete, TypeOK
  <2>3. QED
    BY <1>1, <2>1, <2>2, FetchMoves
<1>7. ASSUME NEW c \in Callers, Put(c) \/ Complete(c) \/ FetchAndDelete(c),
             req[c].nonce # n
      PROVE  entry'[n] = entry[n] /\ UNCHANGED <<fetches[n], completes[n], puts[n]>>
  BY <1>7 DEF Put, Complete, FetchAndDelete, TypeOK
<1>8. ASSUME Tick \/ UNCHANGED vars \/ \E c \in Callers :
               Cancelled(c) \/ Return(c) \/ \E r \in Requests : Invoke(c, r)
      PROVE  entry'[n] = entry[n] /\ UNCHANGED <<fetches[n], completes[n], puts[n]>>
  BY <1>8 DEF Tick, vars, Cancelled, Return, Invoke, tally
<1>9. QED
  BY <1>2, <1>3, <1>4, <1>5, <1>6, <1>7, <1>8 DEF Next, CallerStep

(***************************************************************************)
(* One-time handoff: a registration is completed at most once and a        *)
(* completion is fetched at most once, for any number of callers and       *)
(* nonces.                                                                 *)
(***************************************************************************)
THEOREM HandoffTheorem == Spec => []HandoffLaw
<1>1. Init => HandoffLaw
  BY InitHandoff
<1>2. QED
  BY <1>1, HandoffStep, TypeCorrect, PTL DEF Spec

(***************************************************************************)
(* No operation exchanges a token or takes it back.                        *)
(***************************************************************************)
LEMMA FinalStep ==
  TypeOK /\ CallInv /\ [Next]_vars =>
    \A n \in Nonces : entry[n].status = "ready" => entry'[n] \in {entry[n], Absent}
<1> SUFFICES ASSUME TypeOK, CallInv, [Next]_vars, NEW n \in Nonces, entry[n].status = "ready"
             PROVE  entry'[n] \in {entry[n], Absent}
  OBVIOUS
<1>1. entry[n] # Absent
  BY DEF Absent
<1>2. ASSUME NEW S \in SUBSET Nonces, Expire(S)
      PROVE  entry'[n] \in {entry[n], Absent}
  BY <1>2 DEF Expire
<1>3. ASSUME NEW c \in Callers, Put(c)
      PROVE  entry'[n] \in {entry[n], Absent}
  BY <1>1, <1>3 DEF Put, PutEntry, TypeOK
<1>4. ASSUME NEW c \in Callers, Complete(c)
      PROVE  entry'[n] \in {entry[n], Absent}
  BY <1>4 DEF Complete, CompleteEntry, TypeOK
<1>5. ASSUME NEW c \in Callers, FetchAndDelete(c)
      PROVE  entry'[n] \in {entry[n], Absent}
  BY <1>5 DEF FetchAndDelete, FetchEntry, TypeOK
<1>6. ASSUME Tick \/ UNCHANGED vars \/ \E c \in Callers :
               Cancelled(c) \/ Return(c) \/ \E r \in Requests : Invoke(c, r)
      PROVE  entry'[n] \in {entry[n], Absent}
  BY <1>6 DEF Tick, vars, Cancelled, Return, Invoke
<1>7. QED
  BY <1>2, <1>3, <1>4, <1>5, <1>6 DEF Next, CallerStep

(***************************************************************************)
(* First completion wins: no step exchanges or takes back a token that is  *)
(* waiting to be fetched.                                                  *)
(***************************************************************************)
THEOREM ReadyIsFinalTheorem == Spec => ReadyIsFinal
<1> DEFINE Final == \A n \in Nonces :
                      entry[n].status = "ready" => entry'[n] \in {entry[n], Absent}
<1>1. TypeOK /\ CallInv /\ [Next]_vars => [Final]_vars
  BY FinalStep
<1>2. QED
  BY <1>1, TypeCorrect, PTL DEF Spec, ReadyIsFinal
=============================================================================
