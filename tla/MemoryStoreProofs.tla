------------------------- MODULE MemoryStoreProofs -------------------------
(***************************************************************************)
(* Theorems about the in-process store, for any sets of goroutines,        *)
(* nonces, payloads and time-to-live values and any bounds: the mutex does *)
(* its work, no body sees an entry that had expired before its call, and   *)
(* the store implements the contract of pairing.Store.                     *)
(***************************************************************************)
EXTENDS MemoryStore, TLAPS

(***************************************************************************)
(* What the call of a goroutine is, given where the goroutine stands.  A   *)
(* reply is there only once a Store call is done.                          *)
(***************************************************************************)
CallInv ==
  \A c \in Callers :
    /\ pc[c] = "idle" => req[c] = NoCall
    /\ pc[c] # "idle" => req[c] \in Requests \cup {LenCall}
    /\ pc[c] = "context" => req[c] \in Requests
    /\ pc[c] # "done" \/ req[c].op = "Len" => reply[c] = NoReply

StartedInPast == \A c \in Callers : started[c] <= now

\* No two goroutines are between Lock and Unlock.
AtMostOneInside ==
  \A c, d \in Callers :
    pc[c] \in {"sweep", "body"} /\ pc[d] \in {"sweep", "body"} => c = d

(***************************************************************************)
(* The inductive invariant.  NoExpiredEntrySeen needs the lock, which      *)
(* keeps other goroutines from adding an entry between a sweep and its     *)
(* body, and the order of the clock readings.                              *)
(***************************************************************************)
MemoryInv ==
  TypeOK /\ CallInv /\ StartedInPast /\ LockDiscipline /\ NoExpiredEntrySeen

-----------------------------------------------------------------------------

\* What a call of the store carries.
LEMMA CallTypes ==
  ASSUME NEW r \in Requests
  PROVE  /\ r.nonce \in Nonces
         /\ r.op \in {"Put", "Complete", "FetchAndDelete"}
         /\ r.op = "Complete" => r.payload \in Payloads
         /\ r.ttl \in Nat
  <1>1. r.nonce \in Nonces /\ r.op \in {"Put", "Complete", "FetchAndDelete"}
    BY DEF Requests, Calls
  <1>2. r.ttl \in Nat
    <2>1. CASE r \in [op : {"Put"}, nonce : Nonces, payload : {NoPayload}, ttl : TTLs]
      BY <2>1, MemoryAssumption
    <2>2. CASE r.ttl = 0
      BY <2>2
    <2>3. QED
      BY <2>1, <2>2 DEF Requests, Calls
  <1>3. r.op = "Complete" => r.payload \in Payloads
    BY DEF Requests, Calls
  <1>4. QED
    BY <1>1, <1>2, <1>3

\* Len, and being in no call, are told apart from the three operations.
LEMMA OtherCalls == LenCall.op = "Len" /\ NoCall.op = "none"
  BY DEF LenCall, NoCall

\* An answer without a payload is a Reply.
LEMMA AnswerTypes == \A x \in Errs : Answer(x) \in Reply
  BY DEF Answer, Reply

\* The entries an operation may leave behind.
LEMMA EntryTypes ==
  /\ Absent \in Entry /\ Waiting \in Entry
  /\ \A p \in Payloads : Ready(p) \in Entry
  /\ \A e \in Entry : e.status = "ready" => e.payload \in Payloads /\ e = Ready(e.payload)
  /\ \A e \in Entry : e = Absent \/ e = Waiting \/ e.status = "ready"
  /\ Waiting # Absent /\ \A p \in Payloads : Ready(p) # Absent
  /\ Absent.status = "absent" /\ Waiting.status = "waiting"
  /\ \A p \in Payloads : Ready(p).status = "ready"
  <1>1. /\ Absent.status = "absent" /\ Waiting.status = "waiting"
        /\ \A p \in Payloads : Ready(p).status = "ready" /\ Ready(p).payload = p
    BY DEF Absent, Waiting, Ready
  <1>2. Waiting # Absent /\ \A p \in Payloads : Ready(p) # Absent
    BY <1>1
  <1>3. /\ Absent \in Entry /\ Waiting \in Entry
        /\ \A p \in Payloads : Ready(p) \in Entry
        /\ \A e \in Entry : e = Absent \/ e = Waiting \/ \E p \in Payloads : e = Ready(p)
    BY DEF Entry
  <1>4. QED
    BY <1>1, <1>2, <1>3

(***************************************************************************)
(* Leaving a body, whatever it answers.                                    *)
(***************************************************************************)
LEMMA LeaveInv ==
  ASSUME MemoryInv, NEW c \in Callers, pc[c] = "body", req[c].op # "Len",
         NEW r \in Reply, Leave(c, r)
  PROVE  /\ now' \in Nat /\ invoked' \in Nat
         /\ mu' \in Callers \cup {Free}
         /\ pc' \in [Callers -> {"idle", "context", "lock", "sweep", "body", "done"}]
         /\ req' \in [Callers -> Requests \cup {NoCall, LenCall}]
         /\ started' \in [Callers -> Nat]
         /\ reply' \in [Callers -> Reply]
         /\ CallInv' /\ StartedInPast' /\ LockDiscipline'
         /\ \A d \in Callers : pc'[d] # "body"
  <1>1. mu = c /\ c # Free /\ \A d \in Callers : d # c => pc[d] \notin {"sweep", "body"}
    BY MemoryAssumption DEF MemoryInv, LockDiscipline
  <1>2. /\ now' \in Nat /\ invoked' \in Nat
        /\ mu' \in Callers \cup {Free}
        /\ pc' \in [Callers -> {"idle", "context", "lock", "sweep", "body", "done"}]
        /\ req' \in [Callers -> Requests \cup {NoCall, LenCall}]
        /\ started' \in [Callers -> Nat]
        /\ reply' \in [Callers -> Reply]
    BY DEF MemoryInv, TypeOK, Leave, Goto
  <1>3. CallInv'
    BY DEF MemoryInv, TypeOK, CallInv, Leave, Goto
  <1>4. StartedInPast'
    BY DEF MemoryInv, StartedInPast, Leave
  <1>5. LockDiscipline' /\ \A d \in Callers : pc'[d] # "body"
    BY <1>1, MemoryAssumption DEF MemoryInv, TypeOK, LockDiscipline, Leave, Goto
  <1>6. QED
    BY <1>2, <1>3, <1>4, <1>5

(***************************************************************************)
(* The inductive invariant holds: every variable keeps its type, at most   *)
(* one goroutine is between Lock and Unlock, and a body never acts on an   *)
(* entry that had expired when its call was made.                          *)
(***************************************************************************)
THEOREM MemoryInvariant == Spec => []MemoryInv
<1>1. Init => MemoryInv
  <2> SUFFICES ASSUME Init PROVE MemoryInv
    OBVIOUS
  <2>1. NoReply \in Reply
    BY AnswerTypes DEF NoReply, Errs
  <2>2. TypeOK
    BY <2>1, EntryTypes DEF Init, TypeOK
  <2>3. CallInv /\ StartedInPast
    BY DEF Init, CallInv, StartedInPast
  <2>4. LockDiscipline /\ NoExpiredEntrySeen
    BY MemoryAssumption DEF Init, LockDiscipline, NoExpiredEntrySeen
  <2>5. QED
    BY <2>2, <2>3, <2>4 DEF MemoryInv
<1>2. MemoryInv /\ [Next]_vars => MemoryInv'
  <2> SUFFICES ASSUME MemoryInv, [Next]_vars PROVE MemoryInv'
    OBVIOUS
  <2> USE DEF MemoryInv
  <2>1. CASE Tick
    <3>1. TypeOK' /\ CallInv' /\ LockDiscipline' /\ NoExpiredEntrySeen'
      BY <2>1 DEF Tick, tally, TypeOK, CallInv, LockDiscipline, NoExpiredEntrySeen
    <3>2. StartedInPast'
      BY <2>1 DEF Tick, TypeOK, StartedInPast
    <3>3. QED
      BY <3>1, <3>2
  <2>2. ASSUME NEW c \in Callers, NEW r \in Requests, CallStore(c, r)
        PROVE  MemoryInv'
    <3>1. TypeOK' /\ CallInv'
      BY <2>2, CallTypes DEF CallStore, Goto, tally, TypeOK, CallInv
    <3>2. StartedInPast' /\ LockDiscipline' /\ NoExpiredEntrySeen'
      BY <2>2 DEF CallStore, Goto, TypeOK, StartedInPast, LockDiscipline, NoExpiredEntrySeen
    <3>3. QED
      BY <3>1, <3>2
  <2>3. ASSUME NEW c \in Callers, CallLen(c)
        PROVE  MemoryInv'
    <3>1. TypeOK' /\ CallInv'
      BY <2>3 DEF CallLen, Goto, tally, TypeOK, CallInv
    <3>2. StartedInPast' /\ LockDiscipline' /\ NoExpiredEntrySeen'
      BY <2>3 DEF CallLen, Goto, TypeOK, StartedInPast, LockDiscipline, NoExpiredEntrySeen
    <3>3. QED
      BY <3>1, <3>2
  <2>4. ASSUME NEW c \in Callers, ContextErr(c)
        PROVE  MemoryInv'
    <3>1. Answer("ctxErr") \in Reply
      BY AnswerTypes DEF Errs
    <3>2. TypeOK' /\ CallInv'
      BY <2>4, <3>1, CallTypes DEF ContextErr, Goto, tally, TypeOK, CallInv
    <3>3. StartedInPast' /\ LockDiscipline' /\ NoExpiredEntrySeen'
      BY <2>4 DEF ContextErr, Goto, TypeOK, StartedInPast, LockDiscipline, NoExpiredEntrySeen
    <3>4. QED
      BY <3>2, <3>3
  <2>5. ASSUME NEW c \in Callers, ContextLive(c)
        PROVE  MemoryInv'
    <3>1. TypeOK' /\ CallInv'
      BY <2>5 DEF ContextLive, Goto, tally, TypeOK, CallInv
    <3>2. StartedInPast' /\ LockDiscipline' /\ NoExpiredEntrySeen'
      BY <2>5 DEF ContextLive, Goto, TypeOK, StartedInPast, LockDiscipline, NoExpiredEntrySeen
    <3>3. QED
      BY <3>1, <3>2
  <2>6. ASSUME NEW c \in Callers, Lock(c)
        PROVE  MemoryInv'
    <3>1. TypeOK' /\ CallInv'
      BY <2>6 DEF Lock, Goto, tally, TypeOK, CallInv
    <3>2. LockDiscipline'
      BY <2>6, MemoryAssumption DEF Lock, Goto, TypeOK, LockDiscipline
    <3>3. StartedInPast' /\ NoExpiredEntrySeen'
      BY <2>6 DEF Lock, Goto, TypeOK, StartedInPast, NoExpiredEntrySeen
    <3>4. QED
      BY <3>1, <3>2, <3>3
  <2>7. ASSUME NEW c \in Callers, SweepLocked(c)
        PROVE  MemoryInv'
    <3>1. TypeOK'
      <4>1. entry' \in [Nonces -> Entry]
        BY <2>7, EntryTypes DEF SweepLocked, TypeOK
      <4>2. QED
        BY <2>7, <4>1 DEF SweepLocked, Goto, tally, TypeOK
    <3>2. CallInv' /\ StartedInPast' /\ LockDiscipline'
      BY <2>7 DEF SweepLocked, Goto, TypeOK, CallInv, StartedInPast, LockDiscipline
    <3>3. \A n \in Nonces : entry'[n] # Absent => expiresAt'[n] >= now
      BY <2>7 DEF SweepLocked, Expired, TypeOK
    <3>4. NoExpiredEntrySeen'
      BY <2>7, <3>3 DEF SweepLocked, Goto, TypeOK, StartedInPast, NoExpiredEntrySeen
    <3>5. QED
      BY <3>1, <3>2, <3>4
  <2>8. ASSUME NEW c \in Callers, Put(c)
        PROVE  MemoryInv'
    <3> DEFINE n == req[c].nonce
    <3>1. pc[c] = "body" /\ req[c].op = "Put" /\ req[c] \in Requests
      BY <2>8, OtherCalls DEF Put, InBody, CallInv
    <3>2. n \in Nonces /\ req[c].ttl \in Nat
      BY <3>1, CallTypes
    <3>3. PICK r \in Reply : Leave(c, r)
      BY <2>8, AnswerTypes DEF Put, Refuse, Errs
    <3>4. /\ entry' \in [Nonces -> Entry] /\ expiresAt' \in [Nonces -> Nat]
          /\ puts' \in [Nonces -> Nat]
          /\ completes' \in [Nonces -> Nat] /\ fetches' \in [Nonces -> Nat]
      BY <2>8, <3>2, EntryTypes DEF Put, Refuse, tally, TypeOK
    <3>5. QED
      BY <3>1, <3>3, <3>4, LeaveInv DEF TypeOK, NoExpiredEntrySeen
  <2>9. ASSUME NEW c \in Callers, Complete(c)
        PROVE  MemoryInv'
    <3> DEFINE n == req[c].nonce
    <3>1. pc[c] = "body" /\ req[c].op = "Complete" /\ req[c] \in Requests
      BY <2>9, OtherCalls DEF Complete, InBody, CallInv
    <3>2. n \in Nonces /\ req[c].payload \in Payloads /\ entry[n] \in Entry
      BY <3>1, CallTypes DEF TypeOK
    <3>3. \/ \E x \in Errs : Refuse(c, x)
          \/ /\ entry' = [entry EXCEPT ![n] = Ready(req[c].payload)]
             /\ completes' = [completes EXCEPT ![n] = @ + 1]
             /\ UNCHANGED <<expiresAt, puts, fetches>>
             /\ Leave(c, Answer("ok"))
      BY <2>9, <3>2, EntryTypes DEF Complete, Errs
    <3>4. PICK r \in Reply : Leave(c, r)
      BY <3>3, AnswerTypes DEF Refuse, Errs
    <3>5. /\ entry' \in [Nonces -> Entry] /\ expiresAt' \in [Nonces -> Nat]
          /\ puts' \in [Nonces -> Nat]
          /\ completes' \in [Nonces -> Nat] /\ fetches' \in [Nonces -> Nat]
      BY <3>2, <3>3, EntryTypes DEF Refuse, tally, TypeOK
    <3>6. QED
      BY <3>1, <3>4, <3>5, LeaveInv DEF TypeOK, NoExpiredEntrySeen
  <2>10. ASSUME NEW c \in Callers, FetchAndDelete(c)
         PROVE  MemoryInv'
    <3> DEFINE n == req[c].nonce
    <3>1. pc[c] = "body" /\ req[c].op = "FetchAndDelete" /\ req[c] \in Requests
      BY <2>10, OtherCalls DEF FetchAndDelete, InBody, CallInv
    <3>2. n \in Nonces /\ entry[n] \in Entry
      BY <3>1, CallTypes DEF TypeOK
    <3>3. \/ \E x \in Errs : Refuse(c, x)
          \/ /\ entry[n].status = "ready"
             /\ entry' = [entry EXCEPT ![n] = Absent]
             /\ fetches' = [fetches EXCEPT ![n] = @ + 1]
             /\ UNCHANGED <<expiresAt, puts, completes>>
             /\ Leave(c, [err |-> "ok", payload |-> entry[n].payload])
      BY <2>10, <3>2, EntryTypes DEF FetchAndDelete, Errs
    <3>4. entry[n].status = "ready" => [err |-> "ok", payload |-> entry[n].payload] \in Reply
      BY <3>2, EntryTypes DEF Reply, Errs
    <3>5. PICK r \in Reply : Leave(c, r)
      BY <3>3, <3>4, AnswerTypes DEF Refuse
    <3>6. /\ entry' \in [Nonces -> Entry] /\ expiresAt' \in [Nonces -> Nat]
          /\ puts' \in [Nonces -> Nat]
          /\ completes' \in [Nonces -> Nat] /\ fetches' \in [Nonces -> Nat]
      BY <3>2, <3>3, EntryTypes DEF Refuse, tally, TypeOK
    <3>7. QED
      BY <3>1, <3>5, <3>6, LeaveInv DEF TypeOK, NoExpiredEntrySeen
  <2>11. ASSUME NEW c \in Callers, Len(c)
         PROVE  MemoryInv'
    <3>1. pc[c] = "body" /\ req[c].op = "Len" /\ reply[c] = NoReply
      BY <2>11 DEF Len, InBody, CallInv
    <3>2. mu = c /\ c # Free /\ \A d \in Callers : d # c => pc[d] \notin {"sweep", "body"}
      BY <3>1, MemoryAssumption DEF LockDiscipline
    <3>3. TypeOK' /\ CallInv'
      BY <2>11, <3>1 DEF Len, Goto, tally, TypeOK, CallInv
    <3>4. StartedInPast' /\ NoExpiredEntrySeen'
      BY <2>11 DEF Len, Goto, TypeOK, StartedInPast, NoExpiredEntrySeen
    <3>5. LockDiscipline'
      BY <2>11, <3>2, MemoryAssumption DEF Len, Goto, TypeOK, LockDiscipline
    <3>6. QED
      BY <3>3, <3>4, <3>5
  <2>12. ASSUME NEW c \in Callers, Return(c)
         PROVE  MemoryInv'
    <3>1. NoReply \in Reply
      BY AnswerTypes DEF NoReply, Errs
    <3>2. TypeOK' /\ CallInv'
      BY <2>12, <3>1 DEF Return, Goto, tally, TypeOK, CallInv
    <3>3. StartedInPast' /\ LockDiscipline' /\ NoExpiredEntrySeen'
      BY <2>12 DEF Return, Goto, TypeOK, StartedInPast, LockDiscipline, NoExpiredEntrySeen
    <3>4. QED
      BY <3>2, <3>3
  <2>13. CASE UNCHANGED vars
    BY <2>13 DEF vars, TypeOK, CallInv, StartedInPast, LockDiscipline, NoExpiredEntrySeen
  <2>14. QED
    BY <2>1, <2>2, <2>3, <2>4, <2>5, <2>6, <2>7, <2>8, <2>9, <2>10, <2>11, <2>12, <2>13
    DEF Next, Call, Run, Body
<1>3. QED
  BY <1>1, <1>2, PTL DEF Spec

(***************************************************************************)
(* Every variable of the store keeps its type.                             *)
(***************************************************************************)
THEOREM TypeCorrect == Spec => []TypeOK
<1>1. MemoryInv => TypeOK
  BY DEF MemoryInv
<1>2. QED
  BY <1>1, MemoryInvariant, PTL

(***************************************************************************)
(* A goroutine is between s.mu.Lock and the deferred Unlock exactly when   *)
(* it holds the mutex, and so two never are.                               *)
(***************************************************************************)
THEOREM MutualExclusion == Spec => [](LockDiscipline /\ AtMostOneInside)
<1>1. MemoryInv => LockDiscipline /\ AtMostOneInside
  BY MemoryAssumption DEF MemoryInv, LockDiscipline, AtMostOneInside
<1>2. QED
  BY <1>1, MemoryInvariant, PTL

(***************************************************************************)
(* No body of an operation acts on an entry that had expired when its call *)
(* was made, however long the goroutine waited for the mutex.              *)
(***************************************************************************)
THEOREM ExpiredNeverSeen == Spec => []NoExpiredEntrySeen
<1>1. MemoryInv => NoExpiredEntrySeen
  BY DEF MemoryInv
<1>2. QED
  BY <1>1, MemoryInvariant, PTL

-----------------------------------------------------------------------------
(***************************************************************************)
(* What a step may do to the entry of a nonce and to its counts: nothing,  *)
(* sweep it, register, complete or fetch it.                               *)
(***************************************************************************)
EntryStep(n) ==
  \/ entry'[n] \in {entry[n], Absent} /\ UNCHANGED <<puts[n], completes[n], fetches[n]>>
  \/ /\ entry[n] = Absent /\ entry'[n] = Waiting
     /\ puts'[n] = puts[n] + 1 /\ UNCHANGED <<completes[n], fetches[n]>>
  \/ /\ entry[n] = Waiting /\ entry'[n].status = "ready"
     /\ completes'[n] = completes[n] + 1 /\ UNCHANGED <<puts[n], fetches[n]>>
  \/ /\ entry[n].status = "ready" /\ entry'[n] = Absent
     /\ fetches'[n] = fetches[n] + 1 /\ UNCHANGED <<puts[n], completes[n]>>

\* Every step of the store is one of these, for every nonce.
LEMMA EntrySteps ==
  ASSUME MemoryInv, [Next]_vars, NEW n \in Nonces
  PROVE  EntryStep(n)
<1> USE DEF MemoryInv
<1>1. CASE UNCHANGED <<entry, tally>>
  BY <1>1 DEF tally, EntryStep
<1>2. ASSUME NEW c \in Callers, SweepLocked(c)
      PROVE  EntryStep(n)
  BY <1>2 DEF SweepLocked, tally, EntryStep
<1>3. ASSUME NEW c \in Callers, Put(c)
      PROVE  EntryStep(n)
  <2>1. CASE entry[req[c].nonce] # Absent \/ req[c].nonce # n
    <3>1. entry'[n] = entry[n] /\ UNCHANGED <<puts[n], completes[n], fetches[n]>>
      BY <1>3, <2>1 DEF Put, Refuse, tally, TypeOK
    <3>2. QED
      BY <3>1 DEF EntryStep
  <2>2. CASE entry[n] = Absent /\ req[c].nonce = n
    <3>1. /\ entry'[n] = Waiting /\ puts'[n] = puts[n] + 1
          /\ UNCHANGED <<completes[n], fetches[n]>>
      BY <1>3, <2>2 DEF Put, TypeOK
    <3>2. QED
      BY <2>2, <3>1 DEF EntryStep
  <2>3. QED
    BY <2>1, <2>2
<1>4. ASSUME NEW c \in Callers, Complete(c)
      PROVE  EntryStep(n)
  <2> DEFINE m == req[c].nonce
  <2>1. m \in Nonces /\ req[c].payload \in Payloads
    BY <1>4, CallTypes, OtherCalls DEF Complete, InBody, CallInv
  <2>2. \/ entry[m] = Absent /\ entry[m].status = "absent"
        \/ entry[m] = Waiting /\ entry[m].status = "waiting"
        \/ entry[m] # Absent /\ entry[m].status = "ready"
    BY <2>1, EntryTypes DEF TypeOK
  <2>3. CASE entry[m] # Waiting \/ m # n
    <3>1. entry'[n] = entry[n] /\ UNCHANGED <<puts[n], completes[n], fetches[n]>>
      BY <1>4, <2>1, <2>2, <2>3 DEF Complete, Refuse, tally, TypeOK
    <3>2. QED
      BY <3>1 DEF EntryStep
  <2>4. CASE entry[n] = Waiting /\ m = n
    <3>1. /\ entry'[n] = Ready(req[c].payload) /\ completes'[n] = completes[n] + 1
          /\ UNCHANGED <<puts[n], fetches[n]>>
      BY <1>4, <2>2, <2>4, EntryTypes DEF Complete, TypeOK
    <3>2. entry'[n].status = "ready"
      BY <2>1, <3>1, EntryTypes
    <3>3. QED
      BY <2>4, <3>1, <3>2 DEF EntryStep
  <2>5. QED
    BY <2>3, <2>4
<1>5. ASSUME NEW c \in Callers, FetchAndDelete(c)
      PROVE  EntryStep(n)
  <2> DEFINE m == req[c].nonce
  <2>1. m \in Nonces
    BY <1>5, CallTypes, OtherCalls DEF FetchAndDelete, InBody, CallInv
  <2>2. \/ entry[m] = Absent /\ entry[m].status = "absent"
        \/ entry[m] # Absent /\ entry[m].status = "waiting"
        \/ entry[m] # Absent /\ entry[m].status = "ready"
    BY <2>1, EntryTypes DEF TypeOK
  <2>3. CASE entry[m].status # "ready" \/ m # n
    <3>1. entry'[n] = entry[n] /\ UNCHANGED <<puts[n], completes[n], fetches[n]>>
      BY <1>5, <2>1, <2>2, <2>3 DEF FetchAndDelete, Refuse, tally, TypeOK
    <3>2. QED
      BY <3>1 DEF EntryStep
  <2>4. CASE entry[n].status = "ready" /\ m = n
    <3>1. /\ entry'[n] = Absent /\ fetches'[n] = fetches[n] + 1
          /\ UNCHANGED <<puts[n], completes[n]>>
      BY <1>5, <2>2, <2>4 DEF FetchAndDelete, TypeOK
    <3>2. QED
      BY <2>4, <3>1 DEF EntryStep
  <2>5. QED
    BY <2>3, <2>4
<1>6. ASSUME \/ Tick
             \/ \E c \in Callers : CallLen(c) \/ ContextErr(c) \/ ContextLive(c) \/ Lock(c)
                  \/ Len(c) \/ Return(c) \/ \E r \in Requests : CallStore(c, r)
             \/ UNCHANGED vars
      PROVE  UNCHANGED <<entry, tally>>
  BY <1>6 DEF Tick, CallLen, ContextErr, ContextLive, Lock, Len, Return, CallStore, vars, tally
<1>7. QED
  BY <1>1, <1>2, <1>3, <1>4, <1>5, <1>6 DEF Next, Call, Run, Body

(***************************************************************************)
(* One-time handoff: the store completes a registration once at most, and  *)
(* hands a completion out once at most, however the calls interleave.      *)
(***************************************************************************)
THEOREM HandoffTheorem == Spec => []Abs!HandoffLaw
<1> DEFINE Law(s, f, k, p) ==
             /\ f + (IF s = "ready" THEN 1 ELSE 0) <= k
             /\ k + (IF s = "waiting" THEN 1 ELSE 0) <= p
<1>0. Abs!HandoffLaw <=>
        \A n \in Nonces : Law(entry[n].status, fetches[n], completes[n], puts[n])
  BY DEF Abs!HandoffLaw, Abs!Held
<1>1. Init => Abs!HandoffLaw
  <2> SUFFICES ASSUME Init, NEW n \in Nonces
               PROVE  Law(entry[n].status, fetches[n], completes[n], puts[n])
    BY <1>0
  <2>1. fetches[n] = 0 /\ completes[n] = 0 /\ puts[n] = 0 /\ entry[n].status = "absent"
    BY EntryTypes DEF Init
  <2>2. QED
    BY <2>1
<1>2. MemoryInv /\ Abs!HandoffLaw /\ [Next]_vars => Abs!HandoffLaw'
  <2> SUFFICES ASSUME MemoryInv, Abs!HandoffLaw, [Next]_vars, NEW n \in Nonces
               PROVE  Law(entry'[n].status, fetches'[n], completes'[n], puts'[n])
    BY DEF Abs!HandoffLaw, Abs!Held
  <2>1. /\ Law(entry[n].status, fetches[n], completes[n], puts[n])
        /\ fetches[n] \in Nat /\ completes[n] \in Nat /\ puts[n] \in Nat
    BY <1>0 DEF MemoryInv, TypeOK
  <2>2. Absent.status = "absent" /\ Waiting.status = "waiting"
    BY EntryTypes
  <2>3. QED
    BY <2>1, <2>2, EntrySteps DEF EntryStep
<1>3. QED
  BY <1>1, <1>2, MemoryInvariant, PTL DEF Spec

(***************************************************************************)
(* First completion wins: a token in the store leaves it by a fetch or by  *)
(* a sweep, and is never exchanged for another one or taken back.          *)
(***************************************************************************)
THEOREM FirstCompletionWins == Spec => Abs!ReadyIsFinal
<1> DEFINE Final == \A n \in Nonces :
                      entry[n].status = "ready" => entry'[n] \in {entry[n], Abs!Absent}
<1>1. MemoryInv /\ [Next]_vars => [Final]_(Abs!vars)
  <2> SUFFICES ASSUME MemoryInv, [Next]_vars, NEW n \in Nonces, entry[n].status = "ready"
               PROVE  entry'[n] \in {entry[n], Abs!Absent}
    OBVIOUS
  <2>1. entry[n] # Absent /\ entry[n] # Waiting /\ Absent = Abs!Absent
    BY EntryTypes DEF Absent, Abs!Absent
  <2>2. QED
    BY <2>1, EntrySteps DEF EntryStep
<1>2. QED
  BY <1>1, MemoryInvariant, PTL DEF Spec, Abs!ReadyIsFinal

-----------------------------------------------------------------------------

(***************************************************************************)
(* The refinement.  Only the goroutine that moves changes its mapped       *)
(* state.                                                                  *)
(***************************************************************************)
LEMMA MappedCaller ==
  ASSUME MemoryInv, NEW c \in Callers, InStoreCall(c), InStoreCall(c)',
         req' = req, started' = started,
         \A d \in Callers : d # c => pc'[d] = pc[d]
  PROVE  /\ AbsReq' = AbsReq /\ AbsStarted' = AbsStarted
         /\ \A label : AbsPc'[c] = label => AbsPc' = [AbsPc EXCEPT ![c] = label]
  BY DEF AbsPc, AbsReq, AbsStarted, InStoreCall

(***************************************************************************)
(* memory.go implements the contract of pairing.Store: the body of an      *)
(* operation is the point where it takes effect, the sweep is an expiry,   *)
(* every other step is invisible to the callers.                           *)
(***************************************************************************)
THEOREM Refinement == Spec => ImplementsPairingStore
<1>1. Init => Abs!Init
  <2> SUFFICES ASSUME Init PROVE Abs!Init
    OBVIOUS
  <2>1. /\ AbsPc = [c \in Callers |-> "idle"]
        /\ AbsReq = [c \in Callers |-> NoCall]
        /\ AbsStarted = [c \in Callers |-> 0]
    BY DEF Init, AbsPc, AbsReq, AbsStarted, InStoreCall
  <2>2. QED
    BY <2>1 DEF Init, Abs!Init, Abs!Absent, Abs!NoCall, Abs!NoReply, Abs!Answer,
                Absent, NoCall, NoReply, Answer
<1>2. MemoryInv /\ [Next]_vars => [Abs!Next]_(Abs!vars)
  <2> SUFFICES ASSUME MemoryInv, [Next]_vars
               PROVE  Abs!Next \/ UNCHANGED Abs!vars
    OBVIOUS
  <2> USE DEF MemoryInv
  <2>0. ASSUME UNCHANGED <<AbsPc, AbsReq, AbsStarted>>,
               UNCHANGED <<now, entry, expiresAt, reply, invoked, tally>>
        PROVE  UNCHANGED Abs!vars
    BY <2>0 DEF Abs!vars, tally
  <2>1. CASE Tick
    <3>1. UNCHANGED <<AbsPc, AbsReq, AbsStarted>>
      BY <2>1 DEF Tick, AbsPc, AbsReq, AbsStarted, InStoreCall
    <3>2. Abs!Tick
      BY <2>1, <3>1 DEF Tick, Abs!Tick, tally, Abs!tally
    <3>3. QED
      BY <3>2 DEF Abs!Next
  <2>2. ASSUME NEW c \in Callers, NEW r \in Requests, CallStore(c, r)
        PROVE  Abs!Next
    <3>1. r.op # "Len"
      BY CallTypes
    <3>2. /\ AbsPc[c] = "idle"
          /\ AbsPc' = [AbsPc EXCEPT ![c] = "called"]
          /\ AbsReq' = [AbsReq EXCEPT ![c] = r]
          /\ AbsStarted' = [AbsStarted EXCEPT ![c] = now]
      BY <2>2, <3>1 DEF CallStore, Goto, TypeOK, AbsPc, AbsReq, AbsStarted, InStoreCall
    <3>3. Abs!Invoke(c, r)
      BY <2>2, <3>2 DEF CallStore, Abs!Invoke, tally, Abs!tally
    <3>4. r \in Abs!Requests
      BY DEF Requests, Calls, Abs!Requests, Abs!Calls
    <3>5. QED
      BY <3>3, <3>4 DEF Abs!Next, Abs!CallerStep
  <2>3. ASSUME NEW c \in Callers, CallLen(c)
        PROVE  UNCHANGED Abs!vars
    <3>1. UNCHANGED <<AbsPc, AbsReq, AbsStarted>>
      BY <2>3, OtherCalls DEF CallLen, Goto, TypeOK, AbsPc, AbsReq, AbsStarted, InStoreCall
    <3>2. QED
      BY <2>0, <2>3, <3>1 DEF CallLen
  <2>4. ASSUME NEW c \in Callers, ContextErr(c)
        PROVE  Abs!Next
    <3>1. req[c].op # "Len"
      BY <2>4, CallTypes DEF ContextErr, CallInv
    <3>2. /\ AbsPc[c] = "called" /\ AbsPc'[c] = "returned"
          /\ InStoreCall(c) /\ InStoreCall(c)'
      BY <2>4, <3>1 DEF ContextErr, Goto, TypeOK, AbsPc, InStoreCall
    <3>3. req' = req /\ started' = started /\ \A d \in Callers : d # c => pc'[d] = pc[d]
      BY <2>4 DEF ContextErr, Goto, TypeOK
    <3>4. /\ AbsPc' = [AbsPc EXCEPT ![c] = "returned"]
          /\ UNCHANGED <<AbsReq, AbsStarted>>
      BY <3>2, <3>3, MappedCaller
    <3>5. Abs!Cancelled(c)
      BY <2>4, <3>2, <3>4
      DEF ContextErr, Abs!Cancelled, Abs!Answered, tally, Abs!tally, Answer, Abs!Answer
    <3>6. QED
      BY <3>5 DEF Abs!Next, Abs!CallerStep
  <2>5. ASSUME NEW c \in Callers, ContextLive(c) \/ Lock(c)
        PROVE  UNCHANGED Abs!vars
    <3>1. UNCHANGED <<AbsPc, AbsReq, AbsStarted>>
      BY <2>5 DEF ContextLive, Lock, Goto, TypeOK, AbsPc, AbsReq, AbsStarted, InStoreCall
    <3>2. QED
      BY <2>0, <2>5, <3>1 DEF ContextLive, Lock
  <2>6. ASSUME NEW c \in Callers, SweepLocked(c)
        PROVE  Abs!Next
    <3> DEFINE S == {n \in Nonces : Expired(n)}
    <3>1. UNCHANGED <<AbsPc, AbsReq, AbsStarted>>
      BY <2>6 DEF SweepLocked, Goto, TypeOK, AbsPc, AbsReq, AbsStarted, InStoreCall
    <3>2. Absent = Abs!Absent
      BY DEF Absent, Abs!Absent
    <3>3. \A n \in S : entry[n] # Abs!Absent /\ now > expiresAt[n]
      BY <3>2 DEF Expired
    <3>4. entry' = [n \in Nonces |-> IF n \in S THEN Abs!Absent ELSE entry[n]]
      BY <2>6, <3>2 DEF SweepLocked
    <3>5. S \in SUBSET Nonces
      OBVIOUS
    <3>6. Abs!Expire(S)
      BY <2>6, <3>1, <3>3, <3>4 DEF SweepLocked, Abs!Expire, tally, Abs!tally
    <3>7. QED
      BY <3>5, <3>6 DEF Abs!Next
  <2>7. ASSUME NEW c \in Callers, NEW r, pc[c] = "body", req[c].op # "Len", Leave(c, r)
        PROVE  /\ AbsReq[c] = req[c] /\ AbsStarted[c] = started[c]
               /\ Abs!Answered(c, r)
               /\ req[c].nonce \in Nonces => Abs!Sees(c)
    <3>1. /\ AbsPc[c] = "called" /\ AbsPc'[c] = "returned"
          /\ InStoreCall(c) /\ InStoreCall(c)'
      BY <2>7 DEF Leave, Goto, TypeOK, AbsPc, InStoreCall
    <3>2. req' = req /\ started' = started /\ \A d \in Callers : d # c => pc'[d] = pc[d]
      BY <2>7 DEF Leave, Goto, TypeOK
    <3>3. /\ AbsPc' = [AbsPc EXCEPT ![c] = "returned"]
          /\ UNCHANGED <<AbsReq, AbsStarted>>
      BY <3>1, <3>2, MappedCaller
    <3>4. AbsReq[c] = req[c] /\ AbsStarted[c] = started[c]
      BY <3>1 DEF AbsReq, AbsStarted
    <3>5. Abs!Answered(c, r)
      BY <2>7, <3>3 DEF Leave, Abs!Answered
    <3>6. req[c].nonce \in Nonces => Abs!Sees(c)
      BY <2>7, <3>1, <3>4 DEF Abs!Sees, NoExpiredEntrySeen, Absent, Abs!Absent
    <3>7. QED
      BY <3>4, <3>5, <3>6
  <2>8. ASSUME NEW c \in Callers, Put(c)
        PROVE  Abs!Next
    <3> DEFINE n == req[c].nonce
    <3>1. pc[c] = "body" /\ req[c].op = "Put" /\ n \in Nonces
      BY <2>8, CallTypes, OtherCalls DEF Put, InBody, CallInv
    <3>2. Leave(c, Abs!PutReply(entry[n]))
      BY <2>8 DEF Put, Refuse, Abs!PutReply, Abs!Answer, Answer, Absent, Abs!Absent
    <3>3. entry' = [entry EXCEPT ![n] = Abs!PutEntry(entry[n])]
      BY <2>8, <3>1 DEF Put, Refuse, TypeOK, Abs!PutEntry, Abs!Absent, Abs!Waiting, Absent, Waiting
    <3>4. /\ IF entry[n] = Abs!Absent
             THEN /\ expiresAt' = [expiresAt EXCEPT ![n] = now + req[c].ttl]
                  /\ puts' = [puts EXCEPT ![n] = @ + 1]
             ELSE UNCHANGED <<expiresAt, puts>>
          /\ UNCHANGED <<completes, fetches>>
      BY <2>8 DEF Put, Refuse, tally, Absent, Abs!Absent
    <3>5. Abs!Put(c)
      BY <2>7, <3>1, <3>2, <3>3, <3>4 DEF Abs!Put
    <3>6. QED
      BY <3>5 DEF Abs!Next, Abs!CallerStep
  <2>9. ASSUME NEW c \in Callers, Complete(c)
        PROVE  Abs!Next
    <3> DEFINE n == req[c].nonce
    <3>1. pc[c] = "body" /\ req[c].op = "Complete" /\ n \in Nonces
      BY <2>9, CallTypes, OtherCalls DEF Complete, InBody, CallInv
    <3>2. entry[n] = Absent \/ entry[n] = Waiting \/ entry[n].status = "ready"
      BY <3>1, EntryTypes DEF TypeOK
    <3>3. ASSUME entry[n] = Absent
         PROVE  Abs!Complete(c)
      <4>1. entry[n].status = "absent" /\ Refuse(c, "ErrNotFound")
        BY <2>9, <3>3, EntryTypes DEF Complete
      <4>2. Leave(c, Abs!CompleteReply(entry[n]))
        BY <4>1 DEF Refuse, Abs!CompleteReply, Abs!Answer, Answer
      <4>3. entry' = [entry EXCEPT ![n] = Abs!CompleteEntry(entry[n], req[c].payload)]
        BY <4>1, <3>1 DEF Refuse, TypeOK, Abs!CompleteEntry
      <4>4. QED
        BY <2>7, <3>1, <4>1, <4>2, <4>3 DEF Abs!Complete, Refuse, tally
    <3>4. ASSUME entry[n] = Waiting
         PROVE  Abs!Complete(c)
      <4>1. /\ entry[n].status = "waiting"
            /\ entry' = [entry EXCEPT ![n] = Ready(req[c].payload)]
            /\ completes' = [completes EXCEPT ![n] = @ + 1]
            /\ UNCHANGED <<expiresAt, puts, fetches>>
            /\ Leave(c, Answer("ok"))
        BY <2>9, <3>4, EntryTypes DEF Complete
      <4>2. Leave(c, Abs!CompleteReply(entry[n]))
        BY <4>1 DEF Abs!CompleteReply, Abs!Answer, Answer
      <4>3. entry' = [entry EXCEPT ![n] = Abs!CompleteEntry(entry[n], req[c].payload)]
        BY <4>1 DEF Abs!CompleteEntry, Ready, Abs!Ready
      <4>4. QED
        BY <2>7, <3>1, <4>1, <4>2, <4>3 DEF Abs!Complete
    <3>5. ASSUME entry[n].status = "ready"
         PROVE  Abs!Complete(c)
      <4>1. Refuse(c, "ErrInvalidState")
        BY <2>9, <3>5, EntryTypes DEF Complete
      <4>2. Leave(c, Abs!CompleteReply(entry[n]))
        BY <4>1, <3>5 DEF Refuse, Abs!CompleteReply, Abs!Answer, Answer
      <4>3. entry' = [entry EXCEPT ![n] = Abs!CompleteEntry(entry[n], req[c].payload)]
        BY <4>1, <3>1, <3>5 DEF Refuse, TypeOK, Abs!CompleteEntry
      <4>4. QED
        BY <2>7, <3>1, <3>5, <4>1, <4>2, <4>3 DEF Abs!Complete, Refuse, tally
    <3>6. Abs!Complete(c)
      BY <3>2, <3>3, <3>4, <3>5
    <3>7. QED
      BY <3>6 DEF Abs!Next, Abs!CallerStep
  <2>10. ASSUME NEW c \in Callers, FetchAndDelete(c)
         PROVE  Abs!Next
    <3> DEFINE n == req[c].nonce
    <3>1. pc[c] = "body" /\ req[c].op = "FetchAndDelete" /\ n \in Nonces
      BY <2>10, CallTypes, OtherCalls DEF FetchAndDelete, InBody, CallInv
    <3>2. entry[n] = Absent \/ entry[n] = Waiting \/ entry[n].status = "ready"
      BY <3>1, EntryTypes DEF TypeOK
    <3>3. ASSUME entry[n] = Absent
         PROVE  Abs!FetchAndDelete(c)
      <4>1. entry[n].status = "absent" /\ Refuse(c, "ErrNotFound")
        BY <2>10, <3>3, EntryTypes DEF FetchAndDelete
      <4>2. Leave(c, Abs!FetchReply(entry[n]))
        BY <4>1 DEF Refuse, Abs!FetchReply, Abs!Answer, Answer
      <4>3. entry' = [entry EXCEPT ![n] = Abs!FetchEntry(entry[n])]
        BY <4>1, <3>1 DEF Refuse, TypeOK, Abs!FetchEntry
      <4>4. QED
        BY <2>7, <3>1, <4>1, <4>2, <4>3 DEF Abs!FetchAndDelete, Refuse, tally
    <3>4. ASSUME entry[n] = Waiting
         PROVE  Abs!FetchAndDelete(c)
      <4>1. entry[n].status = "waiting" /\ Refuse(c, "ErrNotReady")
        BY <2>10, <3>4, EntryTypes DEF FetchAndDelete
      <4>2. Leave(c, Abs!FetchReply(entry[n]))
        BY <4>1 DEF Refuse, Abs!FetchReply, Abs!Answer, Answer
      <4>3. entry' = [entry EXCEPT ![n] = Abs!FetchEntry(entry[n])]
        BY <4>1, <3>1 DEF Refuse, TypeOK, Abs!FetchEntry
      <4>4. QED
        BY <2>7, <3>1, <4>1, <4>2, <4>3 DEF Abs!FetchAndDelete, Refuse, tally
    <3>5. ASSUME entry[n].status = "ready"
         PROVE  Abs!FetchAndDelete(c)
      <4>1. /\ entry' = [entry EXCEPT ![n] = Absent]
            /\ fetches' = [fetches EXCEPT ![n] = @ + 1]
            /\ UNCHANGED <<expiresAt, puts, completes>>
            /\ Leave(c, [err |-> "ok", payload |-> entry[n].payload])
        BY <2>10, <3>5, EntryTypes DEF FetchAndDelete
      <4>2. Leave(c, Abs!FetchReply(entry[n]))
        BY <4>1, <3>5 DEF Abs!FetchReply
      <4>3. entry' = [entry EXCEPT ![n] = Abs!FetchEntry(entry[n])]
        BY <4>1, <3>5 DEF Abs!FetchEntry, Absent, Abs!Absent
      <4>4. QED
        BY <2>7, <3>1, <3>5, <4>1, <4>2, <4>3 DEF Abs!FetchAndDelete
    <3>6. Abs!FetchAndDelete(c)
      BY <3>2, <3>3, <3>4, <3>5
    <3>7. QED
      BY <3>6 DEF Abs!Next, Abs!CallerStep
  <2>11. ASSUME NEW c \in Callers, Len(c)
         PROVE  UNCHANGED Abs!vars
    <3>1. UNCHANGED <<AbsPc, AbsReq, AbsStarted>>
      BY <2>11 DEF Len, InBody, Goto, TypeOK, AbsPc, AbsReq, AbsStarted, InStoreCall
    <3>2. QED
      BY <2>0, <2>11, <3>1 DEF Len
  <2>12. ASSUME NEW c \in Callers, Return(c), req[c].op = "Len"
         PROVE  UNCHANGED Abs!vars
    <3>1. UNCHANGED <<AbsPc, AbsReq, AbsStarted>>
      BY <2>12, OtherCalls DEF Return, Goto, TypeOK, AbsPc, AbsReq, AbsStarted, InStoreCall
    <3>2. reply' = reply
      BY <2>12 DEF Return, CallInv, TypeOK
    <3>3. QED
      BY <2>0, <2>12, <3>1, <3>2 DEF Return
  <2>13. ASSUME NEW c \in Callers, Return(c), req[c].op # "Len"
         PROVE  Abs!Next
    <3>1. /\ AbsPc[c] = "returned"
          /\ AbsPc' = [AbsPc EXCEPT ![c] = "idle"]
          /\ AbsReq' = [AbsReq EXCEPT ![c] = NoCall]
          /\ AbsStarted' = [AbsStarted EXCEPT ![c] = 0]
      BY <2>13 DEF Return, Goto, TypeOK, AbsPc, AbsReq, AbsStarted, InStoreCall
    <3>2. NoCall = Abs!NoCall /\ NoReply = Abs!NoReply
      BY DEF NoCall, Abs!NoCall, NoReply, Abs!NoReply, Answer, Abs!Answer
    <3>3. Abs!Return(c)
      BY <2>13, <3>1, <3>2 DEF Return, Abs!Return, tally, Abs!tally
    <3>4. QED
      BY <3>3 DEF Abs!Next, Abs!CallerStep
  <2>14. CASE UNCHANGED vars
    <3>1. UNCHANGED <<AbsPc, AbsReq, AbsStarted>>
      BY <2>14 DEF vars, AbsPc, AbsReq, AbsStarted, InStoreCall
    <3>2. QED
      BY <2>0, <2>14, <3>1 DEF vars, tally
  <2>15. QED
    BY <2>1, <2>2, <2>3, <2>4, <2>5, <2>6, <2>8, <2>9, <2>10, <2>11, <2>12, <2>13, <2>14
    DEF Next, Call, Run, Body
<1>3. QED
  BY <1>1, <1>2, MemoryInvariant, PTL DEF Spec, ImplementsPairingStore, Abs!Spec
=============================================================================
