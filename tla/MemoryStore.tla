---------------------------- MODULE MemoryStore ----------------------------
(***************************************************************************)
(* The in-process store of pairing/memory.go: a Go map under one           *)
(* sync.Mutex.  Every goroutine in an operation goes through the same      *)
(* steps: check the context, take the lock, sweep out the expired entries, *)
(* run the body of the operation and release the lock on return.  The      *)
(* clock may advance between any two of them.                              *)
(***************************************************************************)
EXTENDS PairingEntries, Naturals

CONSTANTS
  Callers,     \* goroutines
  Free,        \* the mutex is held by nobody
  TTLs,        \* the time-to-live values a Put may ask for
  MaxTime,     \* bound: the clock stops here
  MaxCalls     \* bound: number of Store calls made in a behaviour

ASSUME MemoryAssumption ==
  TTLs \subseteq Nat /\ MaxTime \in Nat /\ MaxCalls \in Nat /\ Free \notin Callers

Requests == Calls(TTLs)
LenCall  == [NoCall EXCEPT !.op = "Len"]

VARIABLES
  now,         \* time.Now()
  entry,       \* the map s.entries; a missing key is Absent
  expiresAt,   \* e.expiresAt, meaningless while the key is missing
  mu,          \* holder of s.mu, or Free
  pc,          \* where each goroutine is
  req,         \* the call it is in
  started,     \* history: when it made that call
  reply,       \* what the call answered
  invoked,     \* number of Store calls made so far
  puts,        \* history, per nonce: Puts that answered "ok",
  completes,   \* Completes that answered "ok",
  fetches      \* FetchAndDeletes that answered "ok"

vars == <<now, entry, expiresAt, mu, pc, req, started, reply, invoked,
          puts, completes, fetches>>

tally == <<puts, completes, fetches>>

TypeOK ==
  /\ now \in Nat
  /\ entry \in [Nonces -> Entry]
  /\ expiresAt \in [Nonces -> Nat]
  /\ mu \in Callers \cup {Free}
  /\ pc \in [Callers -> {"idle", "context", "lock", "sweep", "body", "done"}]
  /\ req \in [Callers -> Requests \cup {NoCall, LenCall}]
  /\ started \in [Callers -> Nat]
  /\ reply \in [Callers -> Reply]
  /\ invoked \in Nat
  /\ puts \in [Nonces -> Nat]
  /\ completes \in [Nonces -> Nat]
  /\ fetches \in [Nonces -> Nat]

Init ==
  /\ now = 0
  /\ entry = [n \in Nonces |-> Absent]
  /\ expiresAt = [n \in Nonces |-> 0]
  /\ mu = Free
  /\ pc = [c \in Callers |-> "idle"]
  /\ req = [c \in Callers |-> NoCall]
  /\ started = [c \in Callers |-> 0]
  /\ reply = [c \in Callers |-> NoReply]
  /\ invoked = 0
  /\ puts = [n \in Nonces |-> 0]
  /\ completes = [n \in Nonces |-> 0]
  /\ fetches = [n \in Nonces |-> 0]

Tick ==
  /\ now < MaxTime
  /\ now' = now + 1
  /\ UNCHANGED <<entry, expiresAt, mu, pc, req, started, reply, invoked, tally>>

Goto(c, label) == pc' = [pc EXCEPT ![c] = label]

CallStore(c, r) ==
  /\ pc[c] = "idle"
  /\ invoked < MaxCalls
  /\ Goto(c, "context")
  /\ req' = [req EXCEPT ![c] = r]
  /\ started' = [started EXCEPT ![c] = now]
  /\ invoked' = invoked + 1
  /\ UNCHANGED <<now, entry, expiresAt, mu, reply, tally>>

(***************************************************************************)
(* Len takes no context and goes straight to the lock.                     *)
(***************************************************************************)
CallLen(c) ==
  /\ pc[c] = "idle"
  /\ Goto(c, "lock")
  /\ req' = [req EXCEPT ![c] = LenCall]
  /\ started' = [started EXCEPT ![c] = now]
  /\ UNCHANGED <<now, entry, expiresAt, mu, reply, invoked, tally>>

(***************************************************************************)
(* if err := ctx.Err(); err != nil { return err }                          *)
(***************************************************************************)
ContextErr(c) ==
  /\ pc[c] = "context"
  /\ Goto(c, "done")
  /\ reply' = [reply EXCEPT ![c] = Answer("ctxErr")]
  /\ UNCHANGED <<now, entry, expiresAt, mu, req, started, invoked, tally>>

ContextLive(c) ==
  /\ pc[c] = "context"
  /\ Goto(c, "lock")
  /\ UNCHANGED <<now, entry, expiresAt, mu, req, started, reply, invoked, tally>>

\* Slip: the critical section is entered without waiting for the mutex.
LockUnguarded(c) ==
  /\ pc[c] = "lock"
  /\ mu' = c
  /\ Goto(c, "sweep")
  /\ UNCHANGED <<now, entry, expiresAt, req, started, reply, invoked, tally>>

Lock(c) ==
  /\ pc[c] = "lock"
  /\ mu = Free
  /\ mu' = c
  /\ Goto(c, "sweep")
  /\ UNCHANGED <<now, entry, expiresAt, req, started, reply, invoked, tally>>

\* Slip: an entry is kept for one unit of time too long.
ExpiredLate(n) == entry[n] # Absent /\ now > expiresAt[n] + 1

Expired(n) == entry[n] # Absent /\ now > expiresAt[n]

SweepLocked(c) ==
  /\ pc[c] = "sweep"
  /\ entry' = [n \in Nonces |-> IF Expired(n) THEN Absent ELSE entry[n]]
  /\ Goto(c, "body")
  /\ UNCHANGED <<now, expiresAt, mu, req, started, reply, invoked, tally>>

(***************************************************************************)
(* The bodies.  Leaving one answers the call and runs the deferred Unlock. *)
(***************************************************************************)
InBody(c, op) == pc[c] = "body" /\ req[c].op = op

Leave(c, answer) ==
  /\ reply' = [reply EXCEPT ![c] = answer]
  /\ mu' = Free
  /\ Goto(c, "done")
  /\ UNCHANGED <<now, req, started, invoked>>

\* Slip: an early return forgets to unlock.
RefuseLocked(c, err) ==
  /\ reply' = [reply EXCEPT ![c] = Answer(err)]
  /\ Goto(c, "done")
  /\ UNCHANGED <<now, entry, expiresAt, mu, req, started, invoked, tally>>

Refuse(c, err) ==
  /\ Leave(c, Answer(err))
  /\ UNCHANGED <<entry, expiresAt, tally>>

\* Slip: an entry already registered is overwritten.
PutOverwrites(c) ==
  LET n == req[c].nonce IN
  /\ InBody(c, "Put")
  /\ entry' = [entry EXCEPT ![n] = Waiting]
  /\ expiresAt' = [expiresAt EXCEPT ![n] = now + req[c].ttl]
  /\ puts' = [puts EXCEPT ![n] = @ + 1]
  /\ UNCHANGED <<completes, fetches>>
  /\ Leave(c, Answer("ok"))

Put(c) ==
  LET n == req[c].nonce IN
  /\ InBody(c, "Put")
  /\ IF entry[n] # Absent
     THEN Refuse(c, "ErrAlreadyExists")
     ELSE /\ entry' = [entry EXCEPT ![n] = Waiting]
          /\ expiresAt' = [expiresAt EXCEPT ![n] = now + req[c].ttl]
          /\ puts' = [puts EXCEPT ![n] = @ + 1]
          /\ UNCHANGED <<completes, fetches>>
          /\ Leave(c, Answer("ok"))

\* Slip: the status is set and the token is not.
CompleteNoToken(c) ==
  LET n == req[c].nonce IN
  /\ InBody(c, "Complete")
  /\ entry[n] # Absent
  /\ entry' = [entry EXCEPT ![n].status = "ready"]
  /\ completes' = [completes EXCEPT ![n] = @ + 1]
  /\ UNCHANGED <<expiresAt, puts, fetches>>
  /\ Leave(c, Answer("ok"))

Complete(c) ==
  LET n == req[c].nonce IN
  /\ InBody(c, "Complete")
  /\ CASE entry[n] = Absent -> Refuse(c, "ErrNotFound")
       [] entry[n] # Absent /\ entry[n].status # "waiting" -> Refuse(c, "ErrInvalidState")
       [] entry[n].status = "waiting" ->
            /\ entry' = [entry EXCEPT ![n] = Ready(req[c].payload)]
            /\ completes' = [completes EXCEPT ![n] = @ + 1]
            /\ UNCHANGED <<expiresAt, puts, fetches>>
            /\ Leave(c, Answer("ok"))

FetchAndDelete(c) ==
  LET n == req[c].nonce IN
  /\ InBody(c, "FetchAndDelete")
  /\ CASE entry[n] = Absent -> Refuse(c, "ErrNotFound")
       [] entry[n] # Absent /\ entry[n].status # "ready" -> Refuse(c, "ErrNotReady")
       [] entry[n].status = "ready" ->
            /\ entry' = [entry EXCEPT ![n] = Absent]
            /\ fetches' = [fetches EXCEPT ![n] = @ + 1]
            /\ UNCHANGED <<expiresAt, puts, completes>>
            /\ Leave(c, [err |-> "ok", payload |-> entry[n].payload])

(***************************************************************************)
(* Len's count is not kept: only its sweep has an effect.                  *)
(***************************************************************************)
Len(c) ==
  /\ InBody(c, "Len")
  /\ mu' = Free
  /\ Goto(c, "done")
  /\ UNCHANGED <<now, entry, expiresAt, req, started, reply, invoked, tally>>

Return(c) ==
  /\ pc[c] = "done"
  /\ Goto(c, "idle")
  /\ req' = [req EXCEPT ![c] = NoCall]
  /\ started' = [started EXCEPT ![c] = 0]
  /\ reply' = [reply EXCEPT ![c] = NoReply]
  /\ UNCHANGED <<now, entry, expiresAt, mu, invoked, tally>>

Body(c) == Put(c) \/ Complete(c) \/ FetchAndDelete(c) \/ Len(c)

Call(c) == CallLen(c) \/ \E r \in Requests : CallStore(c, r)

Run(c) == ContextErr(c) \/ ContextLive(c) \/ SweepLocked(c) \/ Body(c) \/ Return(c)

Next == Tick \/ \E c \in Callers : Call(c) \/ Lock(c) \/ Run(c)

Spec == Init /\ [][Next]_vars

(***************************************************************************)
(* A running goroutine is scheduled, and sync.Mutex does not starve a      *)
(* waiter: after a millisecond of waiting the lock is handed over in FIFO  *)
(* order.                                                                  *)
(***************************************************************************)
Fairness == \A c \in Callers : WF_vars(Run(c)) /\ SF_vars(Lock(c))

FairSpec == Spec /\ Fairness

-----------------------------------------------------------------------------

(***************************************************************************)
(* The lock guards the map: a goroutine is between Lock and Unlock exactly *)
(* when it holds the mutex, so that at most one is there.                  *)
(***************************************************************************)
LockDiscipline == \A c \in Callers : pc[c] \in {"sweep", "body"} <=> mu = c

(***************************************************************************)
(* A body acts on no entry that had expired when its call was made, even   *)
(* if the clock moves on while the goroutine waits for the lock or between *)
(* the sweep and the body.                                                 *)
(***************************************************************************)
NoExpiredEntrySeen ==
  \A c \in Callers, n \in Nonces :
    pc[c] = "body" /\ entry[n] # Absent => expiresAt[n] >= started[c]

(***************************************************************************)
(* memory.go implements the contract of pairing.Store.  A call to Len is   *)
(* no call of the interface: while it runs its goroutine is idle, and its  *)
(* sweep is an expiry.                                                     *)
(***************************************************************************)
InStoreCall(c) == pc[c] # "idle" /\ req[c].op # "Len"

AbsPc == [c \in Callers |-> IF ~InStoreCall(c) THEN "idle"
                            ELSE IF pc[c] = "done" THEN "returned" ELSE "called"]
AbsReq     == [c \in Callers |-> IF InStoreCall(c) THEN req[c] ELSE NoCall]
AbsStarted == [c \in Callers |-> IF InStoreCall(c) THEN started[c] ELSE 0]

Abs == INSTANCE PairingStore WITH pc <- AbsPc, req <- AbsReq, started <- AbsStarted

ImplementsPairingStore == Abs!Spec

(***************************************************************************)
(* Every call returns: no path leaves a goroutine waiting for a mutex that *)
(* an early return forgot to release.                                      *)
(***************************************************************************)
EveryCallReturns == \A c \in Callers : pc[c] # "idle" ~> pc[c] = "idle"
=============================================================================
