----------------------------- MODULE RedisStore -----------------------------
(***************************************************************************)
(* pairing/stores/redis: each operation of pairing.Store is a Lua script   *)
(* that Redis runs in one step on the hash of the nonce.  The client sends *)
(* the script, waits for its result and turns it into the answer of the    *)
(* call.  Its connection may fail before or after the script has run;      *)
(* go-redis then sends the script again, a bounded number of times, and    *)
(* what was left on the old connection may still reach Redis.              *)
(***************************************************************************)
EXTENDS PairingEntries, Integers, FiniteSets

CONSTANTS
  Callers,      \* goroutines and processes that share the Redis
  TTLs,         \* time.Durations a Put may ask for
  Millisecond,  \* one millisecond as a time.Duration
  MaxRetries,   \* of the go-redis client
  MaxTime,      \* bound: the clock stops here
  MaxCalls,     \* bound: number of Store calls made in a behaviour
  MaxFaults     \* bound: connections that fail

ASSUME RedisAssumption ==
  /\ TTLs \subseteq Nat /\ Millisecond \in Nat \ {0}
  /\ MaxRetries \in Nat /\ MaxTime \in Nat /\ MaxCalls \in Nat /\ MaxFaults \in Nat

Requests == Calls(TTLs)

(***************************************************************************)
(* What is sent carries the time-to-live truncated to milliseconds.        *)
(***************************************************************************)
Milliseconds(ttl)  == ttl \div Millisecond
InMilliseconds(r)  == [r EXCEPT !.ttl = Milliseconds(@)]
Commands           == Calls({Milliseconds(ttl) : ttl \in TTLs})

VARIABLES
  now,         \* the clock of Redis, in milliseconds
  entry,       \* the hash of each nonce; a missing key is Absent
  expiresAt,   \* the expiry time of the key, meaningless while it is missing
  pc,          \* where each caller is
  req,         \* the call it is in
  started,     \* history: when it made that call
  tries,       \* attempts that failed so far
  result,      \* the result of the script, on its way back
  reply,       \* what the call answered
  wire,        \* scripts on connections that were given up
  invoked,     \* number of Store calls made so far
  faults,      \* connections that failed so far
  puts,        \* history, per nonce: Puts, Completes and FetchAndDeletes
  completes,   \* that had their effect in Redis,
  fetches,
  handouts     \* and FetchAndDeletes that answered "ok"

tally  == <<puts, completes, fetches, handouts>>
redis  == <<entry, expiresAt, puts, completes, fetches>>
vars   == <<now, pc, req, started, tries, result, reply, wire, invoked, faults,
            handouts, redis>>

(***************************************************************************)
(* Script results: an integer, nil, or the array of token and username.    *)
(***************************************************************************)
Result == [value : {"1", "0", "-1", "-2", "nil", "array"},
           payload : Payloads \cup {NoPayload}]

Value(v) == [value |-> v, payload |-> NoPayload]

TypeOK ==
  /\ now \in Nat
  /\ entry \in [Nonces -> Entry]
  /\ expiresAt \in [Nonces -> Nat]
  /\ pc \in [Callers -> {"idle", "context", "sent", "result", "done"}]
  /\ req \in [Callers -> Requests \cup {NoCall}]
  /\ started \in [Callers -> Nat]
  /\ tries \in [Callers -> 0 .. MaxRetries]
  /\ result \in [Callers -> Result]
  /\ reply \in [Callers -> Reply]
  /\ wire \subseteq Commands
  /\ invoked \in Nat /\ faults \in Nat
  /\ puts \in [Nonces -> Nat] /\ completes \in [Nonces -> Nat]
  /\ fetches \in [Nonces -> Nat] /\ handouts \in [Nonces -> Nat]

Init ==
  /\ now = 0
  /\ entry = [n \in Nonces |-> Absent]
  /\ expiresAt = [n \in Nonces |-> 0]
  /\ pc = [c \in Callers |-> "idle"]
  /\ req = [c \in Callers |-> NoCall]
  /\ started = [c \in Callers |-> 0]
  /\ tries = [c \in Callers |-> 0]
  /\ result = [c \in Callers |-> Value("nil")]
  /\ reply = [c \in Callers |-> NoReply]
  /\ wire = {}
  /\ invoked = 0
  /\ faults = 0
  /\ puts = [n \in Nonces |-> 0]
  /\ completes = [n \in Nonces |-> 0]
  /\ fetches = [n \in Nonces |-> 0]
  /\ handouts = [n \in Nonces |-> 0]

-----------------------------------------------------------------------------
(***************************************************************************)
(* Redis.  A key past its expiry time is removed by the next command that  *)
(* touches it, or earlier in the background.                               *)
(***************************************************************************)
Tick ==
  /\ now < MaxTime
  /\ now' = now + 1
  /\ UNCHANGED <<pc, req, started, tries, result, reply, wire, invoked, faults, handouts, redis>>

Expired(n) == entry[n] # Absent /\ now > expiresAt[n]

Reap(n) ==
  /\ Expired(n)
  /\ entry' = [entry EXCEPT ![n] = Absent]
  /\ UNCHANGED <<now, expiresAt, pc, req, started, tries, result, reply, wire,
                 invoked, faults, tally>>

(***************************************************************************)
(* put.lua.  PEXPIRE with a time-to-live of 0 deletes the key.             *)
(***************************************************************************)
PutLua(r, res) ==
  LET n == r.nonce IN
  /\ r.op = "Put"
  /\ \/ /\ entry[n] # Absent
        /\ res = Value("0")
        /\ UNCHANGED redis
     \/ /\ entry[n] = Absent
        /\ res = Value("1")
        /\ entry' = [entry EXCEPT ![n] = IF r.ttl = 0 THEN Absent ELSE Waiting]
        /\ expiresAt' = [expiresAt EXCEPT ![n] = now + r.ttl]
        /\ puts' = [puts EXCEPT ![n] = @ + 1]
        /\ UNCHANGED <<completes, fetches>>

(***************************************************************************)
(* complete.lua                                                            *)
(***************************************************************************)

\* Slip: the script sets the status alone.
CompleteLuaNoToken(r, res) ==
  /\ r.op = "Complete" /\ entry[r.nonce] = Waiting /\ res = Value("1")
  /\ entry' = [entry EXCEPT ![r.nonce].status = "ready"]
  /\ completes' = [completes EXCEPT ![r.nonce] = @ + 1]
  /\ UNCHANGED <<expiresAt, puts, fetches>>

CompleteLua(r, res) ==
  LET n == r.nonce IN
  /\ r.op = "Complete"
  /\ \/ entry[n] = Absent /\ res = Value("-1") /\ UNCHANGED redis
     \/ entry[n].status = "ready" /\ res = Value("-2") /\ UNCHANGED redis
     \/ /\ entry[n] = Waiting
        /\ res = Value("1")
        /\ entry' = [entry EXCEPT ![n] = Ready(r.payload)]
        /\ completes' = [completes EXCEPT ![n] = @ + 1]
        /\ UNCHANGED <<expiresAt, puts, fetches>>

(***************************************************************************)
(* fetch_and_delete.lua                                                    *)
(***************************************************************************)

\* Slip: the script reads the fields and leaves the DEL to the expiry.
FetchLuaKept(r, res) ==
  /\ r.op = "FetchAndDelete" /\ entry[r.nonce].status = "ready"
  /\ res = [value |-> "array", payload |-> entry[r.nonce].payload]
  /\ fetches' = [fetches EXCEPT ![r.nonce] = @ + 1]
  /\ UNCHANGED <<entry, expiresAt, puts, completes>>

FetchAndDeleteLua(r, res) ==
  LET n == r.nonce IN
  /\ r.op = "FetchAndDelete"
  /\ \/ entry[n] = Absent /\ res = Value("nil") /\ UNCHANGED redis
     \/ entry[n] = Waiting /\ res = Value("-1") /\ UNCHANGED redis
     \/ /\ entry[n].status = "ready"
        /\ res = [value |-> "array", payload |-> entry[n].payload]
        /\ entry' = [entry EXCEPT ![n] = Absent]
        /\ fetches' = [fetches EXCEPT ![n] = @ + 1]
        /\ UNCHANGED <<expiresAt, puts, completes>>

Script(r, res) ==
  /\ ~Expired(r.nonce)
  /\ PutLua(r, res) \/ CompleteLua(r, res) \/ FetchAndDeleteLua(r, res)

-----------------------------------------------------------------------------
(***************************************************************************)
(* The client.                                                             *)
(***************************************************************************)
Goto(c, label) == pc' = [pc EXCEPT ![c] = label]

CallStore(c, r) ==
  /\ pc[c] = "idle"
  /\ invoked < MaxCalls
  /\ Goto(c, "context")
  /\ req' = [req EXCEPT ![c] = r]
  /\ started' = [started EXCEPT ![c] = now]
  /\ invoked' = invoked + 1
  /\ UNCHANGED <<now, tries, result, reply, wire, faults, handouts, redis>>

ContextErr(c) ==
  /\ pc[c] = "context"
  /\ Goto(c, "done")
  /\ reply' = [reply EXCEPT ![c] = Answer("ctxErr")]
  /\ UNCHANGED <<now, req, started, tries, result, wire, invoked, faults, handouts, redis>>

Send(c) ==
  /\ pc[c] = "context"
  /\ Goto(c, "sent")
  /\ UNCHANGED <<now, req, started, tries, result, reply, wire, invoked, faults, handouts, redis>>

RunScript(c) ==
  /\ pc[c] = "sent"
  /\ Goto(c, "result")
  /\ \E res \in Result : Script(InMilliseconds(req[c]), res) /\ result' = [result EXCEPT ![c] = res]
  /\ UNCHANGED <<now, req, started, tries, reply, wire, invoked, faults, handouts>>

(***************************************************************************)
(* The answer made of a result.                                            *)
(***************************************************************************)
PutAnswer(res) ==
  CASE res.value = "1" -> Answer("ok")
    [] res.value = "0" -> Answer("ErrAlreadyExists")
    [] OTHER           -> Answer("error")

\* Slip: the sentinels of complete.lua are taken for each other.
CompleteAnswerSwapped(res) ==
  CASE res.value = "1"  -> Answer("ok")
    [] res.value = "-1" -> Answer("ErrInvalidState")
    [] res.value = "-2" -> Answer("ErrNotFound")
    [] OTHER            -> Answer("error")

CompleteAnswer(res) ==
  CASE res.value = "1"  -> Answer("ok")
    [] res.value = "-1" -> Answer("ErrNotFound")
    [] res.value = "-2" -> Answer("ErrInvalidState")
    [] OTHER            -> Answer("error")

FetchAnswer(res) ==
  CASE res.value = "nil"   -> Answer("ErrNotFound")
    [] res.value = "-1"    -> Answer("ErrNotReady")
    [] res.value = "array" -> [err |-> "ok", payload |-> res.payload]
    [] OTHER               -> Answer("error")

AnswerOf(c) ==
  CASE req[c].op = "Put"            -> PutAnswer(result[c])
    [] req[c].op = "Complete"       -> CompleteAnswer(result[c])
    [] req[c].op = "FetchAndDelete" -> FetchAnswer(result[c])

Receive(c) ==
  /\ pc[c] = "result"
  /\ Goto(c, "done")
  /\ reply' = [reply EXCEPT ![c] = AnswerOf(c)]
  /\ result' = [result EXCEPT ![c] = Value("nil")]
  /\ handouts' = IF result[c].value = "array"
                 THEN [handouts EXCEPT ![req[c].nonce] = @ + 1] ELSE handouts
  /\ UNCHANGED <<now, req, started, tries, wire, invoked, faults, redis>>

(***************************************************************************)
(* The connection fails, or the context is over: a script that has not run *)
(* may stay behind on the old connection.                                  *)
(***************************************************************************)
Break(c) ==
  /\ pc[c] \in {"sent", "result"}
  /\ faults < MaxFaults
  /\ faults' = faults + 1
  /\ wire' \in IF pc[c] = "sent" THEN {wire, wire \cup {InMilliseconds(req[c])}} ELSE {wire}
  /\ result' = [result EXCEPT ![c] = Value("nil")]
  /\ UNCHANGED <<now, req, started, invoked, handouts, redis>>

Retry(c) ==
  /\ Break(c)
  /\ tries[c] < MaxRetries
  /\ tries' = [tries EXCEPT ![c] = @ + 1]
  /\ Goto(c, "sent")
  /\ UNCHANGED reply

Fail(c) ==
  /\ Break(c)
  /\ Goto(c, "done")
  /\ reply' = [reply EXCEPT ![c] = Answer("error")]
  /\ UNCHANGED tries

Return(c) ==
  /\ pc[c] = "done"
  /\ Goto(c, "idle")
  /\ req' = [req EXCEPT ![c] = NoCall]
  /\ started' = [started EXCEPT ![c] = 0]
  /\ tries' = [tries EXCEPT ![c] = 0]
  /\ reply' = [reply EXCEPT ![c] = NoReply]
  /\ UNCHANGED <<now, result, wire, invoked, faults, handouts, redis>>

(***************************************************************************)
(* A script left on a broken connection runs after all, for nobody, or is  *)
(* dropped.                                                                *)
(***************************************************************************)
RunLate(r) ==
  /\ r \in wire
  /\ wire' = wire \ {r}
  /\ \E res \in Result : Script(r, res)
  /\ UNCHANGED <<now, pc, req, started, tries, result, reply, invoked, faults, handouts>>

Drop(r) ==
  /\ r \in wire
  /\ wire' = wire \ {r}
  /\ UNCHANGED <<now, pc, req, started, tries, result, reply, invoked, faults, handouts, redis>>

Run(c) == ContextErr(c) \/ Send(c) \/ RunScript(c) \/ Receive(c) \/ Return(c)

Next ==
  \/ Tick
  \/ \E n \in Nonces : Reap(n)
  \/ \E c \in Callers : Run(c) \/ Retry(c) \/ Fail(c) \/ \E r \in Requests : CallStore(c, r)
  \/ \E r \in wire : RunLate(r) \/ Drop(r)

Spec == Init /\ [][Next]_vars

-----------------------------------------------------------------------------

UnderWay(n) ==
  {c \in Callers : pc[c] = "result" /\ req[c].nonce = n /\ result[c].value = "array"}

(***************************************************************************)
(* One-time handoff as the callers see it: a token that was completed once *)
(* is answered once at most, whatever is sent again, runs late or is given *)
(* up ("exactly one success", fetch_and_delete.lua).                       *)
(***************************************************************************)
NoTokenAnsweredTwice ==
  \A n \in Nonces :
    handouts[n] + Cardinality(UnderWay(n)) + (IF entry[n].status = "ready" THEN 1 ELSE 0)
      <= completes[n]

(***************************************************************************)
(* The Redis store implements the contract of a store behind a network,    *)
(* with time-to-lives in whole milliseconds, none of them 0.  A call takes *)
(* effect when its script runs.                                            *)
(***************************************************************************)
AbsPc == [c \in Callers |-> CASE pc[c] = "idle"                -> "idle"
                              [] pc[c] \in {"context", "sent"} -> "called"
                              [] pc[c] \in {"result", "done"}  -> "returned"]
AbsReply == [c \in Callers |-> IF pc[c] = "result" THEN AnswerOf(c) ELSE reply[c]]

Abs == INSTANCE AtLeastOnceStore WITH
         TTLs  <- {Milliseconds(ttl) : ttl \in TTLs},
         pc    <- AbsPc,
         req   <- [c \in Callers |-> InMilliseconds(req[c])],
         reply <- AbsReply,
         lost  <- wire

ImplementsAtLeastOnceStore == Abs!AtLeastOnceSpec

(***************************************************************************)
(* "Put registers a new nonce in StatusWaiting with the given TTL"         *)
(* (store.go:75), for every time.Duration there is.                        *)
(***************************************************************************)
PutRegisters ==
  [][\A c \in Callers :
       pc[c] = "sent" /\ req[c].op = "Put" /\ result'[c] = Value("1") =>
         entry'[req[c].nonce] = Waiting]_vars
=============================================================================
