-------------------------- MODULE RedisStoreProofs --------------------------
(***************************************************************************)
(* Theorems about the Redis store, for any sets of callers, nonces,        *)
(* payloads and time-to-live values, any number of retries and of failed   *)
(* connections: a token is answered once at most, and the scripts with the *)
(* client around them implement the contract of a store behind a network.  *)
(***************************************************************************)
EXTENDS RedisStore, FiniteSetTheorems, TLAPS

(***************************************************************************)
(* What the call of a caller is, given where the caller stands.  There is  *)
(* a result only on its way back and a reply only once the call is done.   *)
(***************************************************************************)
CallInv ==
  \A c \in Callers :
    /\ pc[c] = "idle" => req[c] = NoCall
    /\ pc[c] # "idle" => req[c] \in Requests
    /\ pc[c] # "done" => reply[c] = NoReply
    /\ pc[c] # "result" => result[c] = Value("nil")

StartedInPast == \A c \in Callers : started[c] <= now

RedisInv == TypeOK /\ CallInv /\ StartedInPast

-----------------------------------------------------------------------------

\* What a call of the interface carries.
LEMMA CallTypes ==
  ASSUME NEW ttls, NEW r \in Calls(ttls)
  PROVE  /\ r.nonce \in Nonces
         /\ r.op \in {"Put", "Complete", "FetchAndDelete"}
         /\ r.op = "Put" => r.ttl \in ttls
         /\ r.op # "Put" => r.ttl = 0
         /\ r.op = "Complete" => r.payload \in Payloads
         /\ r = [op |-> r.op, nonce |-> r.nonce, payload |-> r.payload, ttl |-> r.ttl]
  BY DEF Calls

(***************************************************************************)
(* Truncation to milliseconds: a natural number, 0 for what is shorter     *)
(* than one millisecond and for nothing else.                              *)
(***************************************************************************)
LEMMA MillisecondsTypes ==
  ASSUME NEW ttl \in Nat
  PROVE  /\ Milliseconds(ttl) \in Nat
         /\ Milliseconds(ttl) = 0 <=> ttl < Millisecond
<1>1. Millisecond \in Nat /\ Millisecond > 0
  BY RedisAssumption
<1> DEFINE q == ttl \div Millisecond
           m == ttl % Millisecond
<1>2. /\ q \in Int /\ m \in 0 .. Millisecond - 1
      /\ ttl = Millisecond * q + m
  BY <1>1
<1> HIDE DEF q, m
<1>3. q \in Nat
  <2>1. CASE q < 0
    <3>1. Millisecond * q <= 0 - Millisecond
      BY <1>1, <1>2, <2>1
    <3>2. QED
      BY <1>1, <1>2, <3>1
  <2>2. QED
    BY <1>2, <2>1
<1>4. q = 0 => ttl < Millisecond
  BY <1>1, <1>2
<1>5. q # 0 => ttl >= Millisecond
  <2>1. q >= 1 => Millisecond * q >= Millisecond
    BY <1>1, <1>3
  <2>2. QED
    BY <1>1, <1>2, <1>3, <2>1
<1>6. QED
  BY <1>1, <1>3, <1>4, <1>5 DEF Milliseconds, q

(***************************************************************************)
(* What is sent is the call with its time-to-live in milliseconds.         *)
(***************************************************************************)
LEMMA CommandTypes ==
  ASSUME NEW r \in Requests
  PROVE  /\ InMilliseconds(r) \in Commands
         /\ InMilliseconds(r).op = r.op /\ InMilliseconds(r).nonce = r.nonce
         /\ InMilliseconds(r).payload = r.payload
         /\ r.op = "Put" => r.ttl \in TTLs /\ InMilliseconds(r).ttl = Milliseconds(r.ttl)
<1> DEFINE ms == {Milliseconds(ttl) : ttl \in TTLs}
<1>1. Milliseconds(0) = 0
  BY MillisecondsTypes, RedisAssumption
<1>2. InMilliseconds(r) = [op |-> r.op, nonce |-> r.nonce, payload |-> r.payload,
                           ttl |-> Milliseconds(r.ttl)]
  BY CallTypes DEF Requests, InMilliseconds
<1>3. CASE r.op = "Put"
  <2>1. r.ttl \in TTLs /\ r.payload = NoPayload /\ r.nonce \in Nonces
    BY <1>3 DEF Requests, Calls
  <2>2. InMilliseconds(r) \in [op : {"Put"}, nonce : Nonces, payload : {NoPayload}, ttl : ms]
    BY <1>2, <1>3, <2>1
  <2>3. QED
    BY <1>2, <1>3, <2>1, <2>2 DEF Commands, Calls
<1>4. CASE r.op # "Put"
  <2>1. InMilliseconds(r) = r
    BY <1>1, <1>2, <1>4, CallTypes DEF Requests
  <2>2. QED
    BY <1>4, <2>1 DEF Requests, Commands, Calls
<1>5. QED
  BY <1>3, <1>4

\* A caller that is in no call sends nothing.
LEMMA NoCommand == InMilliseconds(NoCall) = NoCall
<1>1. Milliseconds(0) = 0
  BY MillisecondsTypes, RedisAssumption
<1>2. QED
  BY <1>1 DEF InMilliseconds, NoCall

\* Commands are calls with natural time-to-lives.
LEMMA CommandFields ==
  ASSUME NEW r \in Commands
  PROVE  /\ r.nonce \in Nonces
         /\ r.op \in {"Put", "Complete", "FetchAndDelete"}
         /\ r.op = "Complete" => r.payload \in Payloads
         /\ r.ttl \in Nat
<1>1. \A ttl \in TTLs : Milliseconds(ttl) \in Nat
  BY MillisecondsTypes, RedisAssumption
<1>2. QED
  BY <1>1, CallTypes DEF Commands

\* What an entry is, by its status.
LEMMA EntryTypes ==
  /\ Absent \in Entry /\ Waiting \in Entry /\ \A p \in Payloads : Ready(p) \in Entry
  /\ Absent.status = "absent" /\ Waiting.status = "waiting"
  /\ \A p \in Payloads : Ready(p).status = "ready"
  /\ \A e \in Entry : \/ e = Absent
                      \/ e = Waiting
                      \/ e.status = "ready" /\ e.payload \in Payloads
<1>1. /\ Absent.status = "absent" /\ Waiting.status = "waiting"
      /\ \A p \in Payloads : Ready(p).status = "ready" /\ Ready(p).payload = p
  BY DEF Absent, Waiting, Ready
<1>2. QED
  BY <1>1 DEF Entry

(***************************************************************************)
(* Every answer is one of the interface.                                   *)
(***************************************************************************)
LEMMA AnswerTypes == \A x \in Errs : Answer(x) \in Reply
  BY DEF Answer, Reply

\* The answer made of any result a script can come back with.
LEMMA AnswerOfTypes ==
  ASSUME TypeOK, NEW c \in Callers, req[c] \in Requests
  PROVE  AnswerOf(c) \in Reply
<1>1. req[c].op \in {"Put", "Complete", "FetchAndDelete"}
  BY CallTypes DEF Requests
<1>2. result[c].payload \in Payloads \cup {NoPayload}
  BY DEF TypeOK, Result
<1>3. [err |-> "ok", payload |-> result[c].payload] \in Reply
  BY <1>2 DEF Reply, Errs
<1>4. PutAnswer(result[c]) \in Reply
  BY AnswerTypes DEF PutAnswer, Errs
<1>5. CompleteAnswer(result[c]) \in Reply
  BY AnswerTypes DEF CompleteAnswer, Errs
<1>6. FetchAnswer(result[c]) \in Reply
  BY <1>3, AnswerTypes DEF FetchAnswer, Errs
<1>7. QED
  BY <1>1, <1>4, <1>5, <1>6 DEF AnswerOf

(***************************************************************************)
(* A script leaves entries, expiry times and counts of their types.        *)
(***************************************************************************)
LEMMA ScriptTypes ==
  ASSUME TypeOK, NEW r \in Commands, NEW res, Script(r, res)
  PROVE  /\ entry' \in [Nonces -> Entry] /\ expiresAt' \in [Nonces -> Nat]
         /\ puts' \in [Nonces -> Nat] /\ completes' \in [Nonces -> Nat]
         /\ fetches' \in [Nonces -> Nat]
<1>1. /\ r.nonce \in Nonces /\ r.ttl \in Nat
      /\ r.op = "Complete" => r.payload \in Payloads
  BY CommandFields
<1>2. CASE PutLua(r, res)
  <2>1. now + r.ttl \in Nat
    BY <1>1 DEF TypeOK
  <2>2. QED
    BY <1>1, <1>2, <2>1, EntryTypes DEF PutLua, redis, TypeOK
<1>3. CASE CompleteLua(r, res)
  <2>1. Ready(r.payload) \in Entry
    BY <1>1, <1>3, EntryTypes DEF CompleteLua
  <2>2. QED
    BY <1>1, <1>3, <2>1 DEF CompleteLua, redis, TypeOK
<1>4. CASE FetchAndDeleteLua(r, res)
  BY <1>1, <1>4, EntryTypes DEF FetchAndDeleteLua, redis, TypeOK
<1>5. QED
  BY <1>2, <1>3, <1>4 DEF Script

(***************************************************************************)
(* RedisInv is an invariant.                                               *)
(***************************************************************************)
THEOREM RedisInvariant == Spec => []RedisInv
<1>1. Init => RedisInv
  <2> SUFFICES ASSUME Init PROVE RedisInv
    OBVIOUS
  <2>1. NoReply \in Reply /\ Value("nil") \in Result
    BY AnswerTypes DEF NoReply, Errs, Value, Result
  <2>2. TypeOK
    BY <2>1, EntryTypes, RedisAssumption DEF Init, TypeOK
  <2>3. CallInv /\ StartedInPast
    BY DEF Init, CallInv, StartedInPast
  <2>4. QED
    BY <2>2, <2>3 DEF RedisInv
<1>2. RedisInv /\ [Next]_vars => RedisInv'
  <2> SUFFICES ASSUME RedisInv, [Next]_vars PROVE RedisInv'
    OBVIOUS
  <2> USE DEF RedisInv
  <2>0. Value("nil") \in Result
    BY DEF Value, Result
  <2>1. CASE Tick
    BY <2>1 DEF Tick, redis, TypeOK, CallInv, StartedInPast
  <2>2. ASSUME NEW n \in Nonces, Reap(n)
        PROVE  RedisInv'
    BY <2>2, EntryTypes DEF Reap, tally, TypeOK, CallInv, StartedInPast
  <2>3. ASSUME NEW c \in Callers, NEW r \in Requests, CallStore(c, r)
        PROVE  RedisInv'
    <3>1. TypeOK'
      BY <2>3 DEF CallStore, Goto, redis, TypeOK
    <3>2. CallInv' /\ StartedInPast'
      BY <2>3 DEF CallStore, Goto, TypeOK, CallInv, StartedInPast
    <3>3. QED
      BY <3>1, <3>2
  <2>4. ASSUME NEW c \in Callers, ContextErr(c)
        PROVE  RedisInv'
    <3>1. Answer("ctxErr") \in Reply
      BY AnswerTypes DEF Errs
    <3>2. TypeOK'
      BY <2>4, <3>1 DEF ContextErr, Goto, redis, TypeOK
    <3>3. CallInv' /\ StartedInPast'
      BY <2>4 DEF ContextErr, Goto, TypeOK, CallInv, StartedInPast
    <3>4. QED
      BY <3>2, <3>3
  <2>5. ASSUME NEW c \in Callers, Send(c)
        PROVE  RedisInv'
    BY <2>5 DEF Send, Goto, redis, TypeOK, CallInv, StartedInPast
  <2>6. ASSUME NEW c \in Callers, RunScript(c)
        PROVE  RedisInv'
    <3>1. PICK res \in Result : /\ Script(InMilliseconds(req[c]), res)
                                /\ result' = [result EXCEPT ![c] = res]
      BY <2>6 DEF RunScript
    <3>2. req[c] \in Requests
      BY <2>6 DEF RunScript, CallInv
    <3>3. InMilliseconds(req[c]) \in Commands
      BY <3>2, CommandTypes
    <3>4. TypeOK'
      BY <2>6, <3>1, <3>3, ScriptTypes DEF RunScript, Goto, TypeOK
    <3>5. CallInv' /\ StartedInPast'
      BY <2>6, <3>1 DEF RunScript, Goto, TypeOK, CallInv, StartedInPast
    <3>6. QED
      BY <3>4, <3>5
  <2>7. ASSUME NEW c \in Callers, Receive(c)
        PROVE  RedisInv'
    <3>1. req[c] \in Requests
      BY <2>7 DEF Receive, CallInv
    <3>2. AnswerOf(c) \in Reply /\ req[c].nonce \in Nonces
      BY <3>1, AnswerOfTypes, CallTypes DEF Requests
    <3>3. handouts' \in [Nonces -> Nat]
      BY <2>7, <3>2 DEF Receive, TypeOK
    <3>4. TypeOK'
      BY <2>0, <2>7, <3>2, <3>3 DEF Receive, Goto, redis, TypeOK
    <3>5. CallInv' /\ StartedInPast'
      BY <2>7 DEF Receive, Goto, TypeOK, CallInv, StartedInPast
    <3>6. QED
      BY <3>4, <3>5
  <2>8. ASSUME NEW c \in Callers, Retry(c) \/ Fail(c)
        PROVE  RedisInv'
    <3>1. req[c] \in Requests /\ reply[c] = NoReply
      BY <2>8 DEF Retry, Fail, Break, CallInv
    <3>2. InMilliseconds(req[c]) \in Commands
      BY <3>1, CommandTypes
    <3>3. Break(c) /\ wire' \subseteq Commands /\ faults' \in Nat
      BY <2>8, <3>2 DEF Retry, Fail, Break, TypeOK
    <3>4. /\ reply' \in [Callers -> Reply] /\ tries' \in [Callers -> 0 .. MaxRetries]
          /\ pc' \in [Callers -> {"idle", "context", "sent", "result", "done"}]
      <4>1. Answer("error") \in Reply
        BY AnswerTypes DEF Errs
      <4>2. CASE Retry(c)
        <5>1. tries[c] + 1 \in 0 .. MaxRetries
          BY <4>2, RedisAssumption DEF Retry, TypeOK
        <5>2. QED
          BY <4>2, <5>1 DEF Retry, Goto, TypeOK
      <4>3. CASE Fail(c)
        BY <4>1, <4>3 DEF Fail, Goto, TypeOK
      <4>4. QED
        BY <2>8, <4>2, <4>3
    <3>5. TypeOK'
      BY <2>0, <3>3, <3>4 DEF Break, redis, TypeOK
    <3>6. CallInv' /\ StartedInPast'
      BY <2>8, <3>1, <3>3 DEF Retry, Fail, Break, Goto, TypeOK, CallInv, StartedInPast
    <3>7. QED
      BY <3>5, <3>6
  <2>9. ASSUME NEW c \in Callers, Return(c)
        PROVE  RedisInv'
    <3>1. NoReply \in Reply
      BY AnswerTypes DEF NoReply, Errs
    <3>2. TypeOK'
      BY <2>9, <3>1, RedisAssumption DEF Return, Goto, redis, TypeOK
    <3>3. CallInv' /\ StartedInPast'
      BY <2>9 DEF Return, Goto, TypeOK, CallInv, StartedInPast
    <3>4. QED
      BY <3>2, <3>3
  <2>10. ASSUME NEW r \in wire, RunLate(r)
         PROVE  RedisInv'
    <3>1. r \in Commands
      BY DEF TypeOK
    <3>2. TypeOK'
      BY <2>10, <3>1, ScriptTypes DEF RunLate, TypeOK
    <3>3. CallInv' /\ StartedInPast'
      BY <2>10 DEF RunLate, CallInv, StartedInPast
    <3>4. QED
      BY <3>2, <3>3
  <2>11. ASSUME NEW r \in wire, Drop(r)
         PROVE  RedisInv'
    BY <2>11 DEF Drop, redis, TypeOK, CallInv, StartedInPast
  <2>12. CASE UNCHANGED vars
    BY <2>12 DEF vars, redis, TypeOK, CallInv, StartedInPast
  <2>13. QED
    BY <2>1, <2>2, <2>3, <2>4, <2>5, <2>6, <2>7, <2>8, <2>9, <2>10, <2>11, <2>12
    DEF Next, Run
<1>3. QED
  BY <1>1, <1>2, PTL DEF Spec

(***************************************************************************)
(* Every variable of the Redis store and of its clients keeps its type.    *)
(***************************************************************************)
THEOREM TypeCorrect == Spec => []TypeOK
<1>1. RedisInv => TypeOK
  BY DEF RedisInv
<1>2. QED
  BY <1>1, RedisInvariant, PTL

-----------------------------------------------------------------------------

(***************************************************************************)
(* One-time handoff.  The tokens of a nonce are counted: one in the entry  *)
(* if it is Ready, one per array on its way back, the ones handed out.     *)
(***************************************************************************)
One(condition) == IF condition THEN 1 ELSE 0

HandoffInv == NoTokenAnsweredTwice /\ \A n \in Nonces : IsFiniteSet(UnderWay(n))

(***************************************************************************)
(* A script that returns an array takes the token out of the entry, and    *)
(* puts one in only if it counts a completion.                             *)
(***************************************************************************)
LEMMA ScriptBalance ==
  ASSUME TypeOK, NEW r \in Commands, NEW res, Script(r, res), NEW n \in Nonces
  PROVE  One(entry'[n].status = "ready") + One(r.nonce = n /\ res.value = "array")
           + completes[n] <= One(entry[n].status = "ready") + completes'[n]
<1>1. r.nonce \in Nonces /\ completes[n] \in Nat
  BY CommandFields DEF TypeOK
<1>2. CASE PutLua(r, res)
  <2>1. res.value # "array" /\ completes' = completes
    BY <1>2 DEF PutLua, Value, redis
  <2>2. entry'[n] = entry[n] \/ entry'[n] \in {Absent, Waiting}
    BY <1>1, <1>2 DEF PutLua, redis, TypeOK
  <2>3. entry'[n].status = "ready" => entry[n].status = "ready"
    BY <2>2, EntryTypes
  <2>4. QED
    BY <1>1, <2>1, <2>3 DEF One
<1>3. CASE CompleteLua(r, res)
  <2>1. res.value # "array"
    BY <1>3 DEF CompleteLua, Value
  <2>2. CASE entry'[n] = entry[n] /\ completes'[n] = completes[n]
    BY <1>1, <2>1, <2>2 DEF One
  <2>3. CASE completes'[n] = completes[n] + 1 /\ entry[n] = Waiting
    BY <1>1, <2>1, <2>3 DEF One
  <2>4. QED
    BY <1>1, <1>3, <2>2, <2>3 DEF CompleteLua, redis, TypeOK
<1>4. CASE FetchAndDeleteLua(r, res)
  <2>1. CASE res.value # "array"
    <3>1. entry' = entry /\ completes' = completes
      BY <1>4, <2>1 DEF FetchAndDeleteLua, redis, Value
    <3>2. QED
      BY <1>1, <2>1, <3>1 DEF One
  <2>2. CASE res.value = "array"
    <3>1. /\ entry[r.nonce].status = "ready" /\ completes' = completes
          /\ entry' = [entry EXCEPT ![r.nonce] = Absent]
      BY <1>4, <2>2 DEF FetchAndDeleteLua, redis, Value
    <3>2. CASE r.nonce = n
      <4>1. entry'[n] = Absent
        BY <1>1, <3>1, <3>2 DEF TypeOK
      <4>2. QED
        BY <1>1, <3>1, <3>2, <4>1, EntryTypes DEF One
    <3>3. CASE r.nonce # n
      <4>1. entry'[n] = entry[n]
        BY <1>1, <3>1, <3>3 DEF TypeOK
      <4>2. QED
        BY <1>1, <3>1, <3>3, <4>1 DEF One
    <3>4. QED
      BY <3>2, <3>3
  <2>3. QED
    BY <2>1, <2>2
<1>5. QED
  BY <1>2, <1>3, <1>4 DEF Script

(***************************************************************************)
(* The caller that moves is the only one that may join or leave the        *)
(* callers an array is on its way to.                                      *)
(***************************************************************************)
LEMMA UnderWayStep ==
  ASSUME NEW n \in Nonces, IsFiniteSet(UnderWay(n)), NEW c \in Callers,
         \A d \in Callers \ {c} :
           pc'[d] = pc[d] /\ req'[d] = req[d] /\ result'[d] = result[d]
  PROVE  /\ IsFiniteSet(UnderWay(n)')
         /\ Cardinality(UnderWay(n)) \in Nat /\ Cardinality(UnderWay(n)') \in Nat
         /\ Cardinality(UnderWay(n)') + One(c \in UnderWay(n))
              = Cardinality(UnderWay(n)) + One(c \in UnderWay(n)')
<1> DEFINE U == UnderWay(n)
           V == UnderWay(n)'
<1>1. U \ {c} = V \ {c}
  BY DEF UnderWay
<1>2. CASE c \in V
  <2>1. V = U \cup {c}
    BY <1>1, <1>2
  <2>2. IsFiniteSet(V) /\ Cardinality(V) = IF c \in U THEN Cardinality(U) ELSE Cardinality(U) + 1
    BY <2>1, FS_AddElement
  <2>3. Cardinality(U) \in Nat /\ Cardinality(V) \in Nat
    BY <2>2, FS_CardinalityType
  <2>4. QED
    BY <1>2, <2>2, <2>3 DEF One
<1>3. CASE c \notin V
  <2>1. V = U \ {c}
    BY <1>1, <1>3
  <2>2. IsFiniteSet(V) /\ Cardinality(V) = IF c \in U THEN Cardinality(U) - 1 ELSE Cardinality(U)
    BY <2>1, FS_RemoveElement
  <2>3. Cardinality(U) \in Nat /\ Cardinality(V) \in Nat
    BY <2>2, FS_CardinalityType
  <2>4. QED
    BY <1>3, <2>2, <2>3 DEF One
<1>4. QED
  BY <1>2, <1>3

\* A step that moves no caller leaves the arrays on their way where they are.
LEMMA UnderWaySame ==
  ASSUME NEW n, UNCHANGED <<pc, req, result>>
  PROVE  UnderWay(n)' = UnderWay(n)
  BY DEF UnderWay

(***************************************************************************)
(* A token that was completed once is answered once at most, whatever is   *)
(* sent again, runs late or is given up.                                   *)
(***************************************************************************)
THEOREM OneTimeHandoff == Spec => []NoTokenAnsweredTwice
<1>1. Init => HandoffInv
  <2> SUFFICES ASSUME Init, NEW n \in Nonces
               PROVE  /\ IsFiniteSet(UnderWay(n))
                      /\ handouts[n] + Cardinality(UnderWay(n))
                           + (IF entry[n].status = "ready" THEN 1 ELSE 0) <= completes[n]
    BY DEF HandoffInv, NoTokenAnsweredTwice
  <2>1. UnderWay(n) = {}
    BY DEF Init, UnderWay
  <2>2. handouts[n] = 0 /\ completes[n] = 0 /\ entry[n].status = "absent"
    BY EntryTypes DEF Init
  <2>3. QED
    BY <2>1, <2>2, FS_EmptySet
<1>2. RedisInv /\ HandoffInv /\ [Next]_vars => HandoffInv'
  <2> SUFFICES ASSUME RedisInv, HandoffInv, [Next]_vars, NEW n \in Nonces
               PROVE  /\ IsFiniteSet(UnderWay(n)')
                      /\ handouts'[n] + Cardinality(UnderWay(n)') + One(entry'[n].status = "ready")
                           <= completes'[n]
    BY DEF HandoffInv, NoTokenAnsweredTwice, One
  <2> USE DEF RedisInv
  <2>0. /\ handouts[n] \in Nat /\ completes[n] \in Nat
        /\ IsFiniteSet(UnderWay(n)) /\ Cardinality(UnderWay(n)) \in Nat
        /\ handouts[n] + Cardinality(UnderWay(n)) + One(entry[n].status = "ready")
             <= completes[n]
    BY FS_CardinalityType DEF HandoffInv, NoTokenAnsweredTwice, One, TypeOK
  <2>1. CASE UNCHANGED <<pc, req, result, entry, completes, handouts>>
    BY <2>0, <2>1, UnderWaySame
  <2>2. ASSUME NEW m \in Nonces, Reap(m)
        PROVE  /\ IsFiniteSet(UnderWay(n)')
               /\ handouts'[n] + Cardinality(UnderWay(n)') + One(entry'[n].status = "ready")
                    <= completes'[n]
    <3>1. UNCHANGED <<pc, req, result, completes, handouts>>
      BY <2>2 DEF Reap, tally
    <3>2. entry'[n] = entry[n] \/ entry'[n].status # "ready"
      BY <2>2, EntryTypes DEF Reap, TypeOK
    <3>3. One(entry'[n].status = "ready") <= One(entry[n].status = "ready")
      BY <3>2 DEF One
    <3>4. One(entry'[n].status = "ready") \in Nat /\ One(entry[n].status = "ready") \in Nat
      BY DEF One
    <3>5. UnderWay(n)' = UnderWay(n)
      BY <3>1, UnderWaySame
    <3>6. QED
      BY <2>0, <3>1, <3>3, <3>4, <3>5
  <2>4. ASSUME NEW c \in Callers,
               (\E r \in Requests : CallStore(c, r)) \/ ContextErr(c) \/ Send(c) \/ Return(c)
                 \/ Retry(c) \/ Fail(c)
        PROVE  /\ IsFiniteSet(UnderWay(n)')
               /\ handouts'[n] + Cardinality(UnderWay(n)') + One(entry'[n].status = "ready")
                    <= completes'[n]
    <3>1. /\ \A d \in Callers \ {c} :
               pc'[d] = pc[d] /\ req'[d] = req[d] /\ result'[d] = result[d]
          /\ pc'[c] # "result"
          /\ UNCHANGED <<entry, completes, handouts>>
      BY <2>4 DEF CallStore, ContextErr, Send, Return, Retry, Fail, Break, Goto, redis, TypeOK
    <3>2. c \notin UnderWay(n)'
      BY <3>1 DEF UnderWay
    <3>3. /\ IsFiniteSet(UnderWay(n)') /\ Cardinality(UnderWay(n)') \in Nat
          /\ Cardinality(UnderWay(n)') <= Cardinality(UnderWay(n))
      BY <2>0, <3>1, <3>2, UnderWayStep DEF One
    <3>4. One(entry[n].status = "ready") \in Nat
      BY DEF One
    <3>5. QED
      BY <2>0, <3>1, <3>3, <3>4
  <2>5. ASSUME NEW c \in Callers, Receive(c)
        PROVE  /\ IsFiniteSet(UnderWay(n)')
               /\ handouts'[n] + Cardinality(UnderWay(n)') + One(entry'[n].status = "ready")
                    <= completes'[n]
    <3>1. /\ \A d \in Callers \ {c} :
               pc'[d] = pc[d] /\ req'[d] = req[d] /\ result'[d] = result[d]
          /\ pc[c] = "result" /\ pc'[c] = "done"
          /\ UNCHANGED <<entry, completes>>
      BY <2>5 DEF Receive, Goto, redis, TypeOK
    <3>2. c \notin UnderWay(n)'
      BY <3>1 DEF UnderWay
    <3>3. handouts'[n] = handouts[n] + One(c \in UnderWay(n))
      BY <2>0, <2>5, <3>1 DEF Receive, UnderWay, One, TypeOK
    <3>4. /\ IsFiniteSet(UnderWay(n)') /\ Cardinality(UnderWay(n)') \in Nat
          /\ Cardinality(UnderWay(n)') + One(c \in UnderWay(n)) = Cardinality(UnderWay(n))
      BY <2>0, <3>1, <3>2, UnderWayStep DEF One
    <3>5. One(entry[n].status = "ready") \in Nat /\ One(c \in UnderWay(n)) \in Nat
      BY DEF One
    <3>6. QED
      BY <2>0, <3>1, <3>3, <3>4, <3>5
  <2>6. ASSUME NEW c \in Callers, RunScript(c)
        PROVE  /\ IsFiniteSet(UnderWay(n)')
               /\ handouts'[n] + Cardinality(UnderWay(n)') + One(entry'[n].status = "ready")
                    <= completes'[n]
    <3> DEFINE r == InMilliseconds(req[c])
    <3>1. req[c] \in Requests
      BY <2>6 DEF RunScript, CallInv
    <3>2. r \in Commands /\ r.nonce = req[c].nonce
      BY <3>1, CommandTypes
    <3>3. PICK res \in Result : Script(r, res) /\ result' = [result EXCEPT ![c] = res]
      BY <2>6 DEF RunScript
    <3>4. One(entry'[n].status = "ready") + One(r.nonce = n /\ res.value = "array")
            + completes[n] <= One(entry[n].status = "ready") + completes'[n]
      BY <3>2, <3>3, ScriptBalance
    <3>5. /\ \A d \in Callers \ {c} :
               pc'[d] = pc[d] /\ req'[d] = req[d] /\ result'[d] = result[d]
          /\ pc[c] = "sent" /\ pc'[c] = "result" /\ result'[c] = res
          /\ UNCHANGED <<req, handouts>>
      BY <2>6, <3>3 DEF RunScript, Goto, TypeOK
    <3>6. c \notin UnderWay(n) /\ (c \in UnderWay(n)' <=> r.nonce = n /\ res.value = "array")
      BY <3>2, <3>5 DEF UnderWay
    <3>7. /\ IsFiniteSet(UnderWay(n)') /\ Cardinality(UnderWay(n)') \in Nat
          /\ Cardinality(UnderWay(n)')
               = Cardinality(UnderWay(n)) + One(r.nonce = n /\ res.value = "array")
      BY <2>0, <3>5, <3>6, UnderWayStep DEF One
    <3>8. completes'[n] \in Nat
      BY <3>2, <3>3, ScriptTypes
    <3>9. /\ One(entry'[n].status = "ready") \in Nat /\ One(entry[n].status = "ready") \in Nat
          /\ One(r.nonce = n /\ res.value = "array") \in Nat
      BY DEF One
    <3> HIDE DEF r
    <3>10. QED
      BY <2>0, <3>4, <3>5, <3>7, <3>8, <3>9
  <2>7. ASSUME NEW r \in wire, RunLate(r)
        PROVE  /\ IsFiniteSet(UnderWay(n)')
               /\ handouts'[n] + Cardinality(UnderWay(n)') + One(entry'[n].status = "ready")
                    <= completes'[n]
    <3>1. r \in Commands
      BY DEF TypeOK
    <3>2. PICK res \in Result : Script(r, res)
      BY <2>7 DEF RunLate
    <3>3. One(entry'[n].status = "ready") + One(r.nonce = n /\ res.value = "array")
            + completes[n] <= One(entry[n].status = "ready") + completes'[n]
      BY <3>1, <3>2, ScriptBalance
    <3>4. UNCHANGED handouts /\ UnderWay(n)' = UnderWay(n)
      BY <2>7, UnderWaySame DEF RunLate
    <3>5. completes'[n] \in Nat
      BY <3>1, <3>2, ScriptTypes
    <3>6. /\ One(entry'[n].status = "ready") \in Nat /\ One(entry[n].status = "ready") \in Nat
          /\ One(r.nonce = n /\ res.value = "array") \in Nat
      BY DEF One
    <3>7. QED
      BY <2>0, <3>3, <3>4, <3>5, <3>6
  <2>8. QED
    BY <2>1, <2>2, <2>4, <2>5, <2>6, <2>7 DEF Next, Run, Tick, Drop, vars, redis
<1>3. HandoffInv => NoTokenAnsweredTwice
  BY DEF HandoffInv
<1>4. QED
  BY <1>1, <1>2, <1>3, RedisInvariant, PTL DEF Spec

(***************************************************************************)
(* What a step may do to the entry of a nonce and to its counts: nothing,  *)
(* let it expire, register, complete or fetch it.  A registration with a   *)
(* time-to-live of 0 is gone at once.                                      *)
(***************************************************************************)
EntryStep(n) ==
  \/ entry'[n] = entry[n] /\ UNCHANGED <<puts[n], completes[n], fetches[n]>>
  \/ entry'[n] = Absent /\ UNCHANGED <<puts[n], completes[n], fetches[n]>>
  \/ /\ entry[n] = Absent /\ entry'[n] \in {Absent, Waiting}
     /\ puts'[n] = puts[n] + 1 /\ UNCHANGED <<completes[n], fetches[n]>>
  \/ /\ entry[n] = Waiting /\ entry'[n].status = "ready"
     /\ completes'[n] = completes[n] + 1 /\ UNCHANGED <<puts[n], fetches[n]>>
  \/ /\ entry[n].status = "ready" /\ entry'[n] = Absent
     /\ fetches'[n] = fetches[n] + 1 /\ UNCHANGED <<puts[n], completes[n]>>

\* Each script is one of these steps, whoever sent it and whenever it runs.
LEMMA ScriptEffect ==
  ASSUME TypeOK, NEW r \in Commands, NEW res, Script(r, res), NEW n \in Nonces
  PROVE  EntryStep(n)
<1>1. /\ r.nonce \in Nonces
      /\ r.op = "Complete" => r.payload \in Payloads
  BY CommandFields
<1>2. CASE UNCHANGED redis
  BY <1>2 DEF redis, EntryStep
<1>3. CASE r.nonce # n
  <2>1. entry'[n] = entry[n] /\ UNCHANGED <<puts[n], completes[n], fetches[n]>>
    BY <1>1, <1>3 DEF Script, PutLua, CompleteLua, FetchAndDeleteLua, redis, TypeOK
  <2>2. QED
    BY <2>1 DEF EntryStep
<1>4. CASE r.nonce = n /\ PutLua(r, res) /\ ~UNCHANGED redis
  <2>1. /\ entry[n] = Absent /\ entry'[n] \in {Absent, Waiting}
        /\ puts'[n] = puts[n] + 1 /\ UNCHANGED <<completes[n], fetches[n]>>
    BY <1>1, <1>4 DEF PutLua, TypeOK
  <2>2. QED
    BY <2>1 DEF EntryStep
<1>5. CASE r.nonce = n /\ CompleteLua(r, res) /\ ~UNCHANGED redis
  <2>1. /\ entry[n] = Waiting /\ entry'[n] = Ready(r.payload) /\ r.payload \in Payloads
        /\ completes'[n] = completes[n] + 1 /\ UNCHANGED <<puts[n], fetches[n]>>
    BY <1>1, <1>5 DEF CompleteLua, TypeOK
  <2>2. entry'[n].status = "ready"
    BY <2>1, EntryTypes
  <2>3. QED
    BY <2>1, <2>2 DEF EntryStep
<1>6. CASE r.nonce = n /\ FetchAndDeleteLua(r, res) /\ ~UNCHANGED redis
  <2>1. /\ entry[n].status = "ready" /\ entry'[n] = Absent
        /\ fetches'[n] = fetches[n] + 1 /\ UNCHANGED <<puts[n], completes[n]>>
    BY <1>1, <1>6 DEF FetchAndDeleteLua, TypeOK
  <2>2. QED
    BY <2>1 DEF EntryStep
<1>7. QED
  BY <1>2, <1>3, <1>4, <1>5, <1>6 DEF Script

\* And so is every step of Redis, of the clients and of the network.
LEMMA EntrySteps ==
  ASSUME RedisInv, [Next]_vars, NEW n \in Nonces
  PROVE  EntryStep(n)
<1> USE DEF RedisInv
<1>1. CASE UNCHANGED redis
  BY <1>1 DEF redis, EntryStep
<1>2. ASSUME NEW m \in Nonces, Reap(m)
      PROVE  EntryStep(n)
  <2>1. entry'[n] = entry[n] \/ entry'[n] = Absent
    BY <1>2 DEF Reap, TypeOK
  <2>2. QED
    BY <1>2, <2>1 DEF Reap, tally, EntryStep
<1>3. ASSUME NEW c \in Callers, RunScript(c)
      PROVE  EntryStep(n)
  <2>1. req[c] \in Requests
    BY <1>3 DEF RunScript, CallInv
  <2>2. InMilliseconds(req[c]) \in Commands
    BY <2>1, CommandTypes
  <2>3. PICK res \in Result : Script(InMilliseconds(req[c]), res)
    BY <1>3 DEF RunScript
  <2>4. QED
    BY <2>2, <2>3, ScriptEffect
<1>4. ASSUME NEW r \in wire, RunLate(r)
      PROVE  EntryStep(n)
  <2>1. r \in Commands
    BY DEF TypeOK
  <2>2. PICK res \in Result : Script(r, res)
    BY <1>4 DEF RunLate
  <2>3. QED
    BY <2>1, <2>2, ScriptEffect
<1>5. ASSUME \/ Tick
             \/ \E c \in Callers : ContextErr(c) \/ Send(c) \/ Receive(c) \/ Return(c)
                  \/ Retry(c) \/ Fail(c) \/ \E r \in Requests : CallStore(c, r)
             \/ \E r \in wire : Drop(r)
             \/ UNCHANGED vars
      PROVE  UNCHANGED redis
  BY <1>5 DEF Tick, ContextErr, Send, Receive, Return, Retry, Fail, Break, CallStore, Drop, vars
<1>6. QED
  BY <1>1, <1>2, <1>3, <1>4, <1>5 DEF Next, Run

(***************************************************************************)
(* One-time handoff as Redis counts it, for every time-to-live, those that *)
(* are truncated to 0 included: a registration is completed once at most   *)
(* and a completion fetched once at most, whatever is sent again or late.  *)
(***************************************************************************)
THEOREM HandoffTheorem == Spec => []Abs!HandoffLaw
<1> DEFINE Law(s, f, k, p) ==
             /\ f + One(s = "ready") <= k
             /\ k + One(s = "waiting") <= p
<1>0. Abs!HandoffLaw <=>
        \A n \in Nonces : Law(entry[n].status, fetches[n], completes[n], puts[n])
  BY DEF Abs!HandoffLaw, Abs!Held, One
<1>1. Init => Abs!HandoffLaw
  <2> SUFFICES ASSUME Init, NEW n \in Nonces
               PROVE  Law(entry[n].status, fetches[n], completes[n], puts[n])
    BY <1>0
  <2>1. fetches[n] = 0 /\ completes[n] = 0 /\ puts[n] = 0 /\ entry[n].status = "absent"
    BY EntryTypes DEF Init
  <2>2. QED
    BY <2>1 DEF One
<1>2. RedisInv /\ Abs!HandoffLaw /\ [Next]_vars => Abs!HandoffLaw'
  <2> SUFFICES ASSUME RedisInv, Abs!HandoffLaw, [Next]_vars, NEW n \in Nonces
               PROVE  Law(entry'[n].status, fetches'[n], completes'[n], puts'[n])
    BY DEF Abs!HandoffLaw, Abs!Held, One
  <2>1. /\ Law(entry[n].status, fetches[n], completes[n], puts[n])
        /\ fetches[n] \in Nat /\ completes[n] \in Nat /\ puts[n] \in Nat
    BY <1>0 DEF RedisInv, TypeOK
  <2>2. Absent.status = "absent" /\ Waiting.status = "waiting"
    BY EntryTypes
  <2>3. QED
    BY <2>1, <2>2, EntrySteps DEF EntryStep, One
<1>3. QED
  BY <1>1, <1>2, RedisInvariant, PTL DEF Spec

(***************************************************************************)
(* First completion wins: no script, not even one that is sent again or    *)
(* runs late, exchanges the token of a Ready entry or takes it back.       *)
(***************************************************************************)
THEOREM FirstCompletionWins == Spec => Abs!ReadyIsFinal
<1> DEFINE Final == \A n \in Nonces :
                      entry[n].status = "ready" => entry'[n] \in {entry[n], Abs!Absent}
<1>1. RedisInv /\ [Next]_vars => [Final]_(Abs!vars)
  <2> SUFFICES ASSUME RedisInv, [Next]_vars, NEW n \in Nonces, entry[n].status = "ready"
               PROVE  entry'[n] \in {entry[n], Abs!Absent}
    OBVIOUS
  <2>1. entry[n] # Absent /\ entry[n] # Waiting /\ Absent = Abs!Absent
    BY EntryTypes DEF Absent, Abs!Absent
  <2>2. QED
    BY <2>1, EntrySteps DEF EntryStep
<1>2. QED
  BY <1>1, RedisInvariant, PTL DEF Spec, Abs!ReadyIsFinal

-----------------------------------------------------------------------------

(***************************************************************************)
(* The refinement.  What a caller sees of its call, as the mapping has it. *)
(***************************************************************************)
AbsReq == [c \in Callers |-> InMilliseconds(req[c])]

LongEnough == \A ttl \in TTLs : ttl >= Millisecond

\* Entries, answers and calls are the same above and below.
LEMMA SameValues ==
  /\ Abs!Absent = Absent /\ Abs!Waiting = Waiting
  /\ \A p : Abs!Ready(p) = Ready(p)
  /\ \A x : Abs!Answer(x) = Answer(x)
  /\ Abs!NoCall = NoCall /\ Abs!NoReply = NoReply
  /\ Abs!Requests = Commands
<1>1. /\ Abs!Absent = Absent /\ Abs!Waiting = Waiting
      /\ \A p : Abs!Ready(p) = Ready(p)
      /\ \A x : Abs!Answer(x) = Answer(x)
      /\ Abs!NoCall = NoCall
  BY DEF Absent, Waiting, Ready, Answer, NoCall,
         Abs!Absent, Abs!Waiting, Abs!Ready, Abs!Answer, Abs!NoCall
<1>2. Abs!NoReply = NoReply
  BY <1>1 DEF NoReply, Abs!NoReply
<1>3. Abs!Requests = Commands
  BY DEF Commands, Calls, Abs!Requests, Abs!Calls
<1>4. QED
  BY <1>1, <1>2, <1>3

(***************************************************************************)
(* The mapped state of a caller changes only when that caller moves.       *)
(***************************************************************************)
LEMMA MappedCaller ==
  ASSUME TypeOK, TypeOK', NEW c \in Callers,
         \A d \in Callers \ {c} : /\ pc'[d] = pc[d] /\ req'[d] = req[d]
                                  /\ result'[d] = result[d] /\ reply'[d] = reply[d]
  PROVE  /\ AbsPc' = [AbsPc EXCEPT ![c] = AbsPc'[c]]
         /\ AbsReq' = [AbsReq EXCEPT ![c] = InMilliseconds(req'[c])]
         /\ AbsReply' = [AbsReply EXCEPT ![c] = AbsReply'[c]]
<1>1. AbsPc' = [AbsPc EXCEPT ![c] = AbsPc'[c]]
  <2>1. \A d \in Callers \ {c} : AbsPc'[d] = AbsPc[d]
    BY DEF AbsPc, TypeOK
  <2>2. /\ AbsPc \in [Callers -> {"idle", "called", "returned"}]
        /\ AbsPc' \in [Callers -> {"idle", "called", "returned"}]
    BY DEF AbsPc, TypeOK
  <2>3. QED
    BY <2>1, <2>2
<1>2. AbsReq' = [AbsReq EXCEPT ![c] = InMilliseconds(req'[c])]
  <2>1. \A d \in Callers \ {c} : InMilliseconds(req'[d]) = InMilliseconds(req[d])
    OBVIOUS
  <2>2. QED
    BY <2>1 DEF AbsReq
<1>3. AbsReply' = [AbsReply EXCEPT ![c] = AbsReply'[c]]
  <2>1. \A d \in Callers \ {c} : AnswerOf(d)' = AnswerOf(d)
    BY DEF AnswerOf
  <2>2. \A d \in Callers \ {c} : AbsReply'[d] = AbsReply[d]
    BY <2>1 DEF AbsReply
  <2>3. QED
    BY <2>2 DEF AbsReply
<1>4. QED
  BY <1>1, <1>2, <1>3

\* A step that moves no caller leaves the mapped state of all of them alone.
LEMMA MappedSame ==
  ASSUME TypeOK, UNCHANGED <<pc, req, result, reply>>
  PROVE  UNCHANGED <<AbsPc, AbsReq, AbsReply>>
<1>1. \A d \in Callers : AnswerOf(d)' = AnswerOf(d)
  BY DEF AnswerOf
<1>2. QED
  BY <1>1 DEF AbsPc, AbsReq, AbsReply

(***************************************************************************)
(* A script takes effect as the operation of the contract does, and its    *)
(* result is turned into the answer the contract gives.                    *)
(***************************************************************************)
LEMMA ScriptStep ==
  ASSUME LongEnough, RedisInv, RedisInv', NEW c \in Callers, RunScript(c)
  PROVE  Abs!Put(c) \/ Abs!Complete(c) \/ Abs!FetchAndDelete(c)
<1> USE DEF RedisInv
<1> DEFINE r == InMilliseconds(req[c])
           n == req[c].nonce
<1>1. PICK res \in Result : Script(r, res) /\ result' = [result EXCEPT ![c] = res]
  BY DEF RunScript
<1>2. /\ req[c] \in Requests /\ n \in Nonces
      /\ r.op = req[c].op /\ r.nonce = n /\ r.payload = req[c].payload
      /\ r.op = "Put" => r.ttl # 0
  <2>1. req[c] \in Requests
    BY DEF RunScript, CallInv
  <2>2. req[c].op = "Put" => req[c].ttl \in TTLs /\ r.ttl = Milliseconds(req[c].ttl)
    BY <2>1, CommandTypes
  <2>3. req[c].op = "Put" => r.ttl # 0
    <3>1. ASSUME req[c].op = "Put" PROVE Milliseconds(req[c].ttl) # 0
      <4>1. req[c].ttl \in Nat /\ ~ req[c].ttl < Millisecond
        <5>1. req[c].ttl \in TTLs
          BY <2>2, <3>1
        <5>2. req[c].ttl >= Millisecond
          BY <5>1 DEF LongEnough
        <5>3. req[c].ttl \in Nat /\ Millisecond \in Nat
          BY <5>1, RedisAssumption
        <5>4. QED
          BY <5>2, <5>3
      <4>2. QED
        BY <4>1, MillisecondsTypes
    <3>2. QED
      BY <2>2, <3>1
  <2>4. QED
    BY <2>1, <2>3, CommandTypes, CallTypes DEF Requests
<1>3. /\ pc[c] = "sent" /\ pc' = [pc EXCEPT ![c] = "result"] /\ result'[c] = res
      /\ UNCHANGED <<now, req, started, reply, wire, invoked, faults>>
  BY <1>1 DEF RunScript, Goto, TypeOK
<1>4. /\ AbsPc[c] = "called" /\ AbsPc'[c] = "returned"
      /\ AbsReq[c] = r /\ AbsReply'[c] = AnswerOf(c)'
  BY <1>3 DEF AbsPc, AbsReq, AbsReply, TypeOK
<1>5. /\ AbsPc' = [AbsPc EXCEPT ![c] = "returned"]
      /\ AbsReq' = AbsReq
      /\ AbsReply' = [AbsReply EXCEPT ![c] = AnswerOf(c)']
  <2>1. \A d \in Callers \ {c} : /\ pc'[d] = pc[d] /\ req'[d] = req[d]
                                 /\ result'[d] = result[d] /\ reply'[d] = reply[d]
    BY <1>1, <1>3 DEF TypeOK
  <2>2. AbsReq' = AbsReq
    BY <1>3 DEF AbsReq
  <2>3. QED
    BY <1>4, <2>1, <2>2, MappedCaller
<1>6. Abs!Sees(c)
  <2>1. entry[n] # Absent => expiresAt[n] >= started[c]
    <3>1. ~Expired(n)
      BY <1>1, <1>2 DEF Script
    <3>2. now \in Nat /\ expiresAt[n] \in Nat /\ started[c] \in Nat /\ started[c] <= now
      BY <1>2 DEF TypeOK, StartedInPast
    <3>3. QED
      BY <3>1, <3>2 DEF Expired
  <2>2. QED
    BY <1>2, <1>4, <2>1, SameValues DEF Abs!Sees, AbsReq
<1>7. Abs!Answered(c, AnswerOf(c)')
  BY <1>3, <1>5 DEF Abs!Answered, AbsReq
<1>8. entry[n] = Absent \/ entry[n] = Waiting \/ entry[n].status = "ready"
  BY <1>2, EntryTypes DEF TypeOK
<1> HIDE DEF r, n
<1>9. CASE PutLua(r, res)
  <2>1. r.op = "Put" /\ AnswerOf(c)' = PutAnswer(res)
    <3>1. r.op = "Put"
      BY <1>9 DEF PutLua
    <3>2. QED
      BY <1>2, <1>3, <3>1 DEF AnswerOf
  <2>2. CASE entry[n] # Absent
    <3>1. res.value = "0" /\ UNCHANGED redis
      BY <1>2, <1>9, <2>2 DEF PutLua, Value
    <3>2. AnswerOf(c)' = Abs!PutReply(entry[n])
      BY <2>1, <2>2, <3>1, SameValues DEF PutAnswer, Abs!PutReply
    <3>3. entry' = [entry EXCEPT ![n] = Abs!PutEntry(entry[n])]
      BY <2>2, <3>1, SameValues DEF redis, Abs!PutEntry, TypeOK
    <3>4. QED
      BY <1>2, <1>4, <1>6, <1>7, <2>1, <2>2, <3>1, <3>2, <3>3, SameValues
      DEF Abs!Put, AbsReq, redis
  <2>3. CASE entry[n] = Absent
    <3>1. /\ res.value = "1"
          /\ entry' = [entry EXCEPT ![n] = Waiting]
          /\ expiresAt' = [expiresAt EXCEPT ![n] = now + r.ttl]
          /\ puts' = [puts EXCEPT ![n] = @ + 1]
          /\ UNCHANGED <<completes, fetches>>
      BY <1>2, <1>9, <2>3 DEF PutLua, Value
    <3>2. AnswerOf(c)' = Abs!PutReply(entry[n])
      BY <2>1, <2>3, <3>1, SameValues DEF PutAnswer, Abs!PutReply
    <3>3. entry' = [entry EXCEPT ![n] = Abs!PutEntry(entry[n])]
      BY <2>3, <3>1, SameValues DEF Abs!PutEntry
    <3>4. QED
      BY <1>2, <1>4, <1>6, <1>7, <2>1, <2>3, <3>1, <3>2, <3>3, SameValues
      DEF Abs!Put, AbsReq
  <2>4. QED
    BY <2>2, <2>3
<1>10. CASE CompleteLua(r, res)
  <2>1. r.op = "Complete" /\ AnswerOf(c)' = CompleteAnswer(res)
    <3>1. r.op = "Complete"
      BY <1>10 DEF CompleteLua
    <3>2. QED
      BY <1>2, <1>3, <3>1 DEF AnswerOf
  <2>2. CASE entry[n] = Waiting
    <3>1. /\ res.value = "1" /\ entry[n].status = "waiting"
          /\ entry' = [entry EXCEPT ![n] = Ready(r.payload)]
          /\ completes' = [completes EXCEPT ![n] = @ + 1]
          /\ UNCHANGED <<expiresAt, puts, fetches>>
      BY <1>2, <1>10, <2>2, EntryTypes DEF CompleteLua, Value
    <3>2. AnswerOf(c)' = Abs!CompleteReply(entry[n])
      BY <2>1, <3>1, SameValues DEF CompleteAnswer, Abs!CompleteReply
    <3>3. entry' = [entry EXCEPT ![n] = Abs!CompleteEntry(entry[n], r.payload)]
      BY <3>1, SameValues DEF Abs!CompleteEntry
    <3>4. QED
      BY <1>2, <1>4, <1>6, <1>7, <2>1, <3>1, <3>2, <3>3 DEF Abs!Complete, AbsReq
  <2>3. CASE entry[n] # Waiting
    <3>1. UNCHANGED redis /\ entry[n].status \in {"absent", "ready"}
      BY <1>2, <1>8, <1>10, <2>3, EntryTypes DEF CompleteLua
    <3>2. res.value = IF entry[n].status = "absent" THEN "-1" ELSE "-2"
      BY <1>2, <1>8, <1>10, <2>3, EntryTypes DEF CompleteLua, Value
    <3>3. AnswerOf(c)' = Abs!CompleteReply(entry[n])
      BY <2>1, <3>1, <3>2, SameValues DEF CompleteAnswer, Abs!CompleteReply
    <3>4. entry' = [entry EXCEPT ![n] = Abs!CompleteEntry(entry[n], r.payload)]
      BY <3>1 DEF redis, Abs!CompleteEntry, TypeOK
    <3>5. QED
      BY <1>2, <1>4, <1>6, <1>7, <2>1, <3>1, <3>3, <3>4 DEF Abs!Complete, AbsReq, redis
  <2>4. QED
    BY <2>2, <2>3
<1>11. CASE FetchAndDeleteLua(r, res)
  <2>1. r.op = "FetchAndDelete" /\ AnswerOf(c)' = FetchAnswer(res)
    <3>1. r.op = "FetchAndDelete"
      BY <1>11 DEF FetchAndDeleteLua
    <3>2. QED
      BY <1>2, <1>3, <3>1 DEF AnswerOf
  <2>2. CASE entry[n].status = "ready"
    <3>1. /\ res = [value |-> "array", payload |-> entry[n].payload]
          /\ entry' = [entry EXCEPT ![n] = Absent]
          /\ fetches' = [fetches EXCEPT ![n] = @ + 1]
          /\ UNCHANGED <<expiresAt, puts, completes>>
      BY <1>2, <1>11, <2>2, EntryTypes DEF FetchAndDeleteLua
    <3>2. AnswerOf(c)' = Abs!FetchReply(entry[n])
      BY <2>1, <2>2, <3>1, SameValues DEF FetchAnswer, Abs!FetchReply
    <3>3. entry' = [entry EXCEPT ![n] = Abs!FetchEntry(entry[n])]
      BY <2>2, <3>1, SameValues DEF Abs!FetchEntry
    <3>4. QED
      BY <1>2, <1>4, <1>6, <1>7, <2>1, <2>2, <3>1, <3>2, <3>3 DEF Abs!FetchAndDelete, AbsReq
  <2>3. CASE entry[n].status # "ready"
    <3>1. UNCHANGED redis /\ entry[n].status \in {"absent", "waiting"}
      BY <1>2, <1>8, <1>11, <2>3, EntryTypes DEF FetchAndDeleteLua
    <3>2. res.value = IF entry[n].status = "absent" THEN "nil" ELSE "-1"
      BY <1>2, <1>8, <1>11, <2>3, EntryTypes DEF FetchAndDeleteLua, Value
    <3>3. AnswerOf(c)' = Abs!FetchReply(entry[n])
      BY <2>1, <3>1, <3>2, SameValues DEF FetchAnswer, Abs!FetchReply
    <3>4. entry' = [entry EXCEPT ![n] = Abs!FetchEntry(entry[n])]
      BY <2>3, <3>1 DEF redis, Abs!FetchEntry, TypeOK
    <3>5. QED
      BY <1>2, <1>4, <1>6, <1>7, <2>1, <2>3, <3>1, <3>3, <3>4
      DEF Abs!FetchAndDelete, AbsReq, redis
  <2>4. QED
    BY <2>2, <2>3
<1>12. QED
  BY <1>1, <1>9, <1>10, <1>11 DEF Script

(***************************************************************************)
(* A script that runs late takes effect late, or finds nothing to do.      *)
(***************************************************************************)
LEMMA LateStep ==
  ASSUME LongEnough, RedisInv, NEW r \in wire, RunLate(r)
  PROVE  Abs!Late(r) \/ Abs!Forget(r)
<1> USE DEF RedisInv
<1>1. PICK res \in Result : Script(r, res)
  BY DEF RunLate
<1>2. r \in Commands /\ r.nonce \in Nonces /\ (r.op = "Put" => r.ttl # 0)
  <2>1. r \in Commands
    BY DEF TypeOK
  <2>2. ASSUME r.op = "Put" PROVE r.ttl # 0
    <3>1. PICK ttl \in TTLs : r.ttl = Milliseconds(ttl)
      BY <2>1, <2>2, CallTypes DEF Commands
    <3>2. ttl \in Nat /\ Millisecond \in Nat
      BY RedisAssumption
    <3>3. ttl >= Millisecond
      BY DEF LongEnough
    <3>4. Milliseconds(ttl) # 0
      BY <3>2, <3>3, MillisecondsTypes
    <3>5. QED
      BY <3>1, <3>4
  <2>3. QED
    BY <2>1, <2>2, CommandFields
<1>3. /\ r \in wire /\ wire' = wire \ {r}
      /\ UNCHANGED <<now, pc, req, started, result, reply, invoked, faults>>
  BY DEF RunLate
<1>4. UNCHANGED <<AbsPc, AbsReq, AbsReply>>
  BY <1>3, MappedSame
<1>5. CASE UNCHANGED redis
  <2>1. UNCHANGED Abs!vars
    BY <1>3, <1>4, <1>5 DEF redis, Abs!vars, AbsReq
  <2>2. QED
    BY <1>3, <2>1 DEF Abs!Forget
<1>6. CASE ~UNCHANGED redis
  <2>1. CASE PutLua(r, res)
    <3>1. /\ r.op = "Put" /\ entry[r.nonce] = Absent
          /\ entry' = [entry EXCEPT ![r.nonce] = Waiting]
          /\ expiresAt' = [expiresAt EXCEPT ![r.nonce] = now + r.ttl]
          /\ puts' = [puts EXCEPT ![r.nonce] = @ + 1]
          /\ UNCHANGED <<completes, fetches>>
      BY <1>2, <1>6, <2>1 DEF PutLua
    <3>2. QED
      BY <1>3, <1>4, <3>1, SameValues DEF Abs!Late, AbsReq
  <2>2. CASE CompleteLua(r, res)
    <3>1. /\ r.op = "Complete" /\ entry[r.nonce] = Waiting
          /\ entry' = [entry EXCEPT ![r.nonce] = Ready(r.payload)]
          /\ completes' = [completes EXCEPT ![r.nonce] = @ + 1]
          /\ UNCHANGED <<expiresAt, puts, fetches>>
      BY <1>6, <2>2 DEF CompleteLua
    <3>2. QED
      BY <1>3, <1>4, <3>1, SameValues DEF Abs!Late, AbsReq
  <2>3. CASE FetchAndDeleteLua(r, res)
    <3>1. /\ r.op = "FetchAndDelete" /\ entry[r.nonce].status = "ready"
          /\ entry' = [entry EXCEPT ![r.nonce] = Absent]
          /\ fetches' = [fetches EXCEPT ![r.nonce] = @ + 1]
          /\ UNCHANGED <<expiresAt, puts, completes>>
      BY <1>6, <2>3 DEF FetchAndDeleteLua
    <3>2. QED
      BY <1>3, <1>4, <3>1, SameValues DEF Abs!Late, AbsReq
  <2>4. QED
    BY <1>1, <2>1, <2>2, <2>3 DEF Script
<1>7. QED
  BY <1>5, <1>6

(***************************************************************************)
(* The Redis store implements the contract of a store behind a network     *)
(* provided no time-to-live is shorter than a millisecond: such a Put      *)
(* registers nothing and answers that it did.                              *)
(***************************************************************************)
THEOREM Refinement ==
  ASSUME LongEnough
  PROVE  Spec => ImplementsAtLeastOnceStore
<1>1. Init => Abs!AtLeastOnceInit
  <2> SUFFICES ASSUME Init PROVE Abs!AtLeastOnceInit
    OBVIOUS
  <2>1. /\ AbsPc = [c \in Callers |-> "idle"]
        /\ AbsReq = [c \in Callers |-> NoCall]
        /\ AbsReply = [c \in Callers |-> NoReply]
    BY NoCommand DEF Init, AbsPc, AbsReq, AbsReply
  <2>2. QED
    BY <2>1, SameValues DEF Init, Abs!AtLeastOnceInit, Abs!Init, AbsReq
<1>2. RedisInv /\ RedisInv' /\ [Next]_vars => [Abs!AtLeastOnceNext]_(Abs!allVars)
  <2> SUFFICES ASSUME RedisInv, RedisInv', [Next]_vars
               PROVE  Abs!AtLeastOnceNext \/ UNCHANGED Abs!allVars
    OBVIOUS
  <2> USE DEF RedisInv
  <2>0. ASSUME Abs!Next, UNCHANGED <<wire, faults>>
        PROVE  Abs!AtLeastOnceNext
    BY <2>0 DEF Abs!AtLeastOnceNext
  <2>1. CASE Tick
    <3>1. UNCHANGED <<AbsPc, AbsReq, AbsReply>>
      BY <2>1, MappedSame DEF Tick
    <3>2. Abs!Tick
      BY <2>1, <3>1 DEF Tick, redis, Abs!Tick, Abs!tally, AbsReq
    <3>3. QED
      BY <2>0, <2>1, <3>2 DEF Tick, Abs!Next
  <2>2. ASSUME NEW n \in Nonces, Reap(n)
        PROVE  Abs!AtLeastOnceNext
    <3>1. UNCHANGED <<AbsPc, AbsReq, AbsReply>>
      BY <2>2, MappedSame DEF Reap
    <3>2. \A m \in {n} : entry[m] # Abs!Absent /\ now > expiresAt[m]
      BY <2>2, SameValues DEF Reap, Expired
    <3>3. entry' = [m \in Nonces |-> IF m \in {n} THEN Abs!Absent ELSE entry[m]]
      BY <2>2, SameValues DEF Reap, TypeOK
    <3>4. Abs!Expire({n})
      BY <2>2, <3>1, <3>2, <3>3 DEF Reap, tally, Abs!Expire, Abs!tally, AbsReq
    <3>5. {n} \in SUBSET Nonces
      OBVIOUS
    <3>6. QED
      BY <2>0, <2>2, <3>4, <3>5 DEF Reap, Abs!Next
  <2>3. ASSUME NEW c \in Callers,
               \A d \in Callers \ {c} : /\ pc'[d] = pc[d] /\ req'[d] = req[d]
                                        /\ result'[d] = result[d] /\ reply'[d] = reply[d]
        PROVE  /\ AbsPc' = [AbsPc EXCEPT ![c] = AbsPc'[c]]
               /\ AbsReq' = [AbsReq EXCEPT ![c] = InMilliseconds(req'[c])]
               /\ AbsReply' = [AbsReply EXCEPT ![c] = AbsReply'[c]]
    BY <2>3, MappedCaller
  <2>4. ASSUME NEW c \in Callers, NEW r \in Requests, CallStore(c, r)
        PROVE  Abs!AtLeastOnceNext
    <3>1. /\ pc[c] = "idle" /\ pc'[c] = "context" /\ req'[c] = r
          /\ \A d \in Callers \ {c} : /\ pc'[d] = pc[d] /\ req'[d] = req[d]
                                      /\ result'[d] = result[d] /\ reply'[d] = reply[d]
      BY <2>4 DEF CallStore, Goto, TypeOK
    <3>2. AbsPc[c] = "idle" /\ AbsPc'[c] = "called" /\ AbsReply'[c] = AbsReply[c]
      BY <2>4, <3>1 DEF CallStore, AbsPc, AbsReply
    <3>3. /\ AbsPc' = [AbsPc EXCEPT ![c] = "called"]
          /\ AbsReq' = [AbsReq EXCEPT ![c] = InMilliseconds(r)]
          /\ AbsReply' = AbsReply
      <4>1. AbsReply' = [AbsReply EXCEPT ![c] = AbsReply[c]]
        BY <2>3, <3>1, <3>2
      <4>2. AbsReply' = AbsReply
        BY <4>1 DEF AbsReply
      <4>3. QED
        BY <2>3, <3>1, <3>2, <4>2
    <3>4. InMilliseconds(r) \in Abs!Requests
      BY CommandTypes, SameValues
    <3>5. Abs!Invoke(c, InMilliseconds(r))
      BY <2>4, <3>2, <3>3 DEF CallStore, redis, Abs!Invoke, Abs!tally, AbsReq
    <3>6. QED
      BY <2>0, <2>4, <3>4, <3>5 DEF CallStore, Abs!Next, Abs!CallerStep
  <2>5. ASSUME NEW c \in Callers, ContextErr(c)
        PROVE  Abs!AtLeastOnceNext
    <3>1. /\ pc[c] = "context" /\ pc'[c] = "done" /\ reply'[c] = Answer("ctxErr")
          /\ \A d \in Callers \ {c} : /\ pc'[d] = pc[d] /\ req'[d] = req[d]
                                      /\ result'[d] = result[d] /\ reply'[d] = reply[d]
      BY <2>5 DEF ContextErr, Goto, TypeOK
    <3>2. AbsPc[c] = "called" /\ AbsPc'[c] = "returned" /\ AbsReply'[c] = Answer("ctxErr")
      BY <3>1 DEF AbsPc, AbsReply
    <3>3. /\ AbsPc' = [AbsPc EXCEPT ![c] = "returned"]
          /\ AbsReq' = AbsReq
          /\ AbsReply' = [AbsReply EXCEPT ![c] = Answer("ctxErr")]
      BY <2>3, <2>5, <3>1, <3>2 DEF ContextErr, AbsReq
    <3>4. Abs!Cancelled(c)
      BY <2>5, <3>2, <3>3, SameValues
      DEF ContextErr, redis, Abs!Cancelled, Abs!Answered, Abs!tally, AbsReq
    <3>5. QED
      BY <2>0, <2>5, <3>4 DEF ContextErr, Abs!Next, Abs!CallerStep
  <2>6. ASSUME NEW c \in Callers, Send(c)
        PROVE  UNCHANGED Abs!allVars
    <3>1. /\ pc[c] = "context" /\ pc'[c] = "sent"
          /\ \A d \in Callers \ {c} : pc'[d] = pc[d]
          /\ UNCHANGED <<req, result, reply>>
      BY <2>6 DEF Send, Goto, TypeOK
    <3>2. UNCHANGED <<AbsPc, AbsReq, AbsReply>>
      <4>1. AbsPc'[c] = AbsPc[c] /\ AbsReply'[c] = AbsReply[c]
        BY <3>1 DEF AbsPc, AbsReply
      <4>2. /\ AbsPc' = [AbsPc EXCEPT ![c] = AbsPc[c]]
            /\ AbsReply' = [AbsReply EXCEPT ![c] = AbsReply[c]]
        BY <2>3, <3>1, <4>1
      <4>3. AbsPc' = AbsPc /\ AbsReply' = AbsReply
        BY <4>2 DEF AbsPc, AbsReply
      <4>4. QED
        BY <3>1, <4>3 DEF AbsReq
    <3>3. QED
      BY <2>6, <3>2 DEF Send, redis, Abs!allVars, Abs!vars, AbsReq
  <2>7. ASSUME NEW c \in Callers, RunScript(c)
        PROVE  Abs!AtLeastOnceNext
    BY <2>0, <2>7, ScriptStep DEF RunScript, Abs!Next, Abs!CallerStep
  <2>8. ASSUME NEW c \in Callers, Receive(c)
        PROVE  UNCHANGED Abs!allVars
    <3>1. /\ pc[c] = "result" /\ pc'[c] = "done" /\ reply'[c] = AnswerOf(c) /\ req' = req
          /\ \A d \in Callers \ {c} : /\ pc'[d] = pc[d] /\ req'[d] = req[d]
                                      /\ result'[d] = result[d] /\ reply'[d] = reply[d]
      BY <2>8 DEF Receive, Goto, TypeOK
    <3>2. UNCHANGED <<AbsPc, AbsReq, AbsReply>>
      <4>1. AbsPc'[c] = AbsPc[c] /\ AbsReply'[c] = AbsReply[c]
        BY <3>1 DEF AbsPc, AbsReply
      <4>2. /\ AbsPc' = [AbsPc EXCEPT ![c] = AbsPc[c]]
            /\ AbsReply' = [AbsReply EXCEPT ![c] = AbsReply[c]]
        BY <2>3, <3>1, <4>1
      <4>3. AbsPc' = AbsPc /\ AbsReply' = AbsReply
        BY <4>2 DEF AbsPc, AbsReply
      <4>4. QED
        BY <3>1, <4>3 DEF AbsReq
    <3>3. QED
      BY <2>8, <3>2 DEF Receive, redis, Abs!allVars, Abs!vars, AbsReq
  <2>9. ASSUME NEW c \in Callers, Retry(c) \/ Fail(c)
        PROVE  Abs!AtLeastOnceNext
    <3>1. /\ pc[c] \in {"sent", "result"} /\ reply[c] = NoReply /\ Break(c)
          /\ \A d \in Callers \ {c} : /\ pc'[d] = pc[d] /\ req'[d] = req[d]
                                      /\ result'[d] = result[d] /\ reply'[d] = reply[d]
      BY <2>9 DEF Retry, Fail, Break, Goto, TypeOK, CallInv
    <3>2. /\ AbsPc[c] = IF pc[c] = "sent" THEN "called" ELSE "returned"
          /\ AbsReq[c] = InMilliseconds(req[c])
          /\ AbsReq' = AbsReq
      BY <3>1 DEF Break, AbsPc, AbsReq
    <3>3. Abs!Disconnected(c)
      BY <3>1, <3>2 DEF Break, redis, Abs!Disconnected, Abs!tally, AbsReq
    <3>4. CASE Retry(c)
      <4>1. AbsPc'[c] = "called" /\ AbsReply'[c] = NoReply
        BY <3>1, <3>4 DEF Retry, Goto, TypeOK, AbsPc, AbsReply
      <4>2. Abs!Resend(c)
        BY <2>3, <3>1, <3>3, <4>1, SameValues DEF Abs!Resend
      <4>3. QED
        BY <4>2 DEF Abs!AtLeastOnceNext
    <3>5. CASE Fail(c)
      <4>1. AbsPc'[c] = "returned" /\ AbsReply'[c] = Answer("error")
        BY <3>1, <3>5 DEF Fail, Goto, TypeOK, AbsPc, AbsReply
      <4>2. Abs!GiveUp(c)
        BY <2>3, <3>1, <3>3, <4>1, SameValues DEF Abs!GiveUp
      <4>3. QED
        BY <4>2 DEF Abs!AtLeastOnceNext
    <3>6. QED
      BY <2>9, <3>4, <3>5
  <2>10. ASSUME NEW c \in Callers, Return(c)
         PROVE  Abs!AtLeastOnceNext
    <3>1. /\ pc[c] = "done" /\ pc'[c] = "idle" /\ req'[c] = NoCall /\ reply'[c] = NoReply
          /\ \A d \in Callers \ {c} : /\ pc'[d] = pc[d] /\ req'[d] = req[d]
                                      /\ result'[d] = result[d] /\ reply'[d] = reply[d]
      BY <2>10 DEF Return, Goto, TypeOK
    <3>2. AbsPc[c] = "returned" /\ AbsPc'[c] = "idle" /\ AbsReply'[c] = NoReply
      BY <3>1 DEF AbsPc, AbsReply
    <3>3. /\ AbsPc' = [AbsPc EXCEPT ![c] = "idle"]
          /\ AbsReq' = [AbsReq EXCEPT ![c] = NoCall]
          /\ AbsReply' = [AbsReply EXCEPT ![c] = NoReply]
      BY <2>3, <3>1, <3>2, NoCommand
    <3>4. Abs!Return(c)
      BY <2>10, <3>2, <3>3, SameValues DEF Return, redis, Abs!Return, Abs!tally, AbsReq
    <3>5. QED
      BY <2>0, <2>10, <3>4 DEF Return, Abs!Next, Abs!CallerStep
  <2>11. ASSUME NEW r \in wire, RunLate(r)
         PROVE  Abs!AtLeastOnceNext
    BY <2>11, LateStep DEF Abs!AtLeastOnceNext
  <2>12. ASSUME NEW r \in wire, Drop(r)
         PROVE  Abs!AtLeastOnceNext
    <3>1. UNCHANGED <<AbsPc, AbsReq, AbsReply>>
      BY <2>12, MappedSame DEF Drop
    <3>2. Abs!Forget(r)
      BY <2>12, <3>1 DEF Drop, redis, Abs!Forget, Abs!vars, AbsReq
    <3>3. QED
      BY <3>2 DEF Abs!AtLeastOnceNext
  <2>13. CASE UNCHANGED vars
    <3>1. UNCHANGED <<AbsPc, AbsReq, AbsReply>>
      BY <2>13, MappedSame DEF vars
    <3>2. QED
      BY <2>13, <3>1 DEF vars, redis, Abs!allVars, Abs!vars, AbsReq
  <2>14. QED
    BY <2>1, <2>2, <2>4, <2>5, <2>6, <2>7, <2>8, <2>9, <2>10, <2>11, <2>12, <2>13
    DEF Next, Run
<1>3. QED
  BY <1>1, <1>2, RedisInvariant, PTL DEF Spec, ImplementsAtLeastOnceStore, Abs!AtLeastOnceSpec
=============================================================================
