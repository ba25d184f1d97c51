---------------------------- MODULE PairingStore ----------------------------
(***************************************************************************)
(* The contract of pairing.Store (pairing/store.go), as a concurrent       *)
(* object: a call is made, takes effect in one atomic step some time       *)
(* later, and returns.  Every implementation of the interface must look    *)
(* like this to its callers.                                               *)
(*                                                                         *)
(* Time-to-live.  An entry may leave the store on its own only after its   *)
(* deadline, and a call that starts after the deadline must not see it;    *)
(* a call that was already under way when the deadline passed may see it   *)
(* or not.                                                                 *)
(***************************************************************************)
EXTENDS PairingEntries, Naturals

CONSTANTS
  Callers,     \* concurrent callers: HTTP requests, webhook deliveries
  TTLs,        \* the time-to-live values a Put may ask for
  MaxTime,     \* bound: the clock stops here
  MaxCalls     \* bound: number of calls made in a behaviour

ASSUME TimeAssumption ==
  TTLs \subseteq Nat /\ MaxTime \in Nat /\ MaxCalls \in Nat

Requests == Calls(TTLs)

VARIABLES
  now,         \* the clock
  entry,       \* [Nonces -> Entry]
  expiresAt,   \* deadline of the entry of each nonce
  pc,          \* "idle", "called" or "returned", per caller
  req,         \* the call a caller is in
  started,     \* when that call was made
  reply,       \* what it answered
  invoked,     \* number of calls made so far
  puts,        \* history, per nonce: Puts that answered "ok",
  completes,   \* Completes that answered "ok",
  fetches      \* FetchAndDeletes that answered "ok"

vars == <<now, entry, expiresAt, pc, req, started, reply, invoked,
          puts, completes, fetches>>

tally == <<puts, completes, fetches>>

TypeOK ==
  /\ now \in Nat
  /\ entry \in [Nonces -> Entry]
  /\ expiresAt \in [Nonces -> Nat]
  /\ pc \in [Callers -> {"idle", "called", "returned"}]
  /\ req \in [Callers -> Requests \cup {NoCall}]
  /\ started \in [Callers -> Nat]
  /\ reply \in [Callers -> Reply]
  /\ invoked \in Nat
  /\ puts \in [Nonces -> Nat]
  /\ completes \in [Nonces -> Nat]
  /\ fetches \in [Nonces -> Nat]

Init ==
  /\ now = 0
  /\ entry = [n \in Nonces |-> Absent]
  /\ expiresAt = [n \in Nonces |-> 0]
  /\ pc = [c \in Callers |-> "idle"]
  /\ req = [c \in Callers |-> NoCall]
  /\ started = [c \in Callers |-> 0]
  /\ reply = [c \in Callers |-> NoReply]
  /\ invoked = 0
  /\ puts = [n \in Nonces |-> 0]
  /\ completes = [n \in Nonces |-> 0]
  /\ fetches = [n \in Nonces |-> 0]

Tick ==
  /\ now < MaxTime
  /\ now' = now + 1
  /\ UNCHANGED <<entry, expiresAt, pc, req, started, reply, invoked, tally>>

(***************************************************************************)
(* Some entries past their deadline leave the store.                       *)
(***************************************************************************)
Expire(S) ==
  /\ \A n \in S : entry[n] # Absent /\ now > expiresAt[n]
  /\ entry' = [n \in Nonces |-> IF n \in S THEN Absent ELSE entry[n]]
  /\ UNCHANGED <<now, expiresAt, pc, req, started, reply, invoked, tally>>

Invoke(c, r) ==
  /\ pc[c] = "idle"
  /\ invoked < MaxCalls
  /\ pc' = [pc EXCEPT ![c] = "called"]
  /\ req' = [req EXCEPT ![c] = r]
  /\ started' = [started EXCEPT ![c] = now]
  /\ invoked' = invoked + 1
  /\ UNCHANGED <<now, entry, expiresAt, reply, tally>>

(***************************************************************************)
(* The atomic effect of a call.  It may not act on an entry whose deadline *)
(* had passed when the call was made.                                      *)
(***************************************************************************)
Sees(c) ==
  /\ pc[c] = "called"
  /\ entry[req[c].nonce] # Absent => expiresAt[req[c].nonce] >= started[c]

Answered(c, r) ==
  /\ pc' = [pc EXCEPT ![c] = "returned"]
  /\ reply' = [reply EXCEPT ![c] = r]
  /\ UNCHANGED <<now, req, started, invoked>>

Put(c) ==
  LET n == req[c].nonce IN
  /\ Sees(c)
  /\ req[c].op = "Put"
  /\ Answered(c, PutReply(entry[n]))
  /\ entry' = [entry EXCEPT ![n] = PutEntry(entry[n])]
  /\ IF entry[n] = Absent
     THEN /\ expiresAt' = [expiresAt EXCEPT ![n] = now + req[c].ttl]
          /\ puts' = [puts EXCEPT ![n] = @ + 1]
     ELSE UNCHANGED <<expiresAt, puts>>
  /\ UNCHANGED <<completes, fetches>>

Complete(c) ==
  LET n == req[c].nonce IN
  /\ Sees(c)
  /\ req[c].op = "Complete"
  /\ Answered(c, CompleteReply(entry[n]))
  /\ entry' = [entry EXCEPT ![n] = CompleteEntry(entry[n], req[c].payload)]
  /\ completes' = IF entry[n].status = "waiting"
                  THEN [completes EXCEPT ![n] = @ + 1] ELSE completes
  /\ UNCHANGED <<expiresAt, puts, fetches>>

FetchAndDelete(c) ==
  LET n == req[c].nonce IN
  /\ Sees(c)
  /\ req[c].op = "FetchAndDelete"
  /\ Answered(c, FetchReply(entry[n]))
  /\ entry' = [entry EXCEPT ![n] = FetchEntry(entry[n])]
  /\ fetches' = IF entry[n].status = "ready"
                THEN [fetches EXCEPT ![n] = @ + 1] ELSE fetches
  /\ UNCHANGED <<expiresAt, puts, completes>>

(***************************************************************************)
(* A call whose context is already cancelled answers ctx.Err(), with no    *)
(* effect.                                                                 *)
(***************************************************************************)
Cancelled(c) ==
  /\ pc[c] = "called"
  /\ Answered(c, Answer("ctxErr"))
  /\ UNCHANGED <<entry, expiresAt, tally>>

Return(c) ==
  /\ pc[c] = "returned"
  /\ pc' = [pc EXCEPT ![c] = "idle"]
  /\ req' = [req EXCEPT ![c] = NoCall]
  /\ started' = [started EXCEPT ![c] = 0]
  /\ reply' = [reply EXCEPT ![c] = NoReply]
  /\ UNCHANGED <<now, entry, expiresAt, invoked, tally>>

CallerStep(c) ==
  \/ \E r \in Requests : Invoke(c, r)
  \/ Put(c) \/ Complete(c) \/ FetchAndDelete(c)
  \/ Cancelled(c)
  \/ Return(c)

Next ==
  \/ Tick
  \/ \E S \in SUBSET Nonces : Expire(S)
  \/ \E c \in Callers : CallerStep(c)

Spec == Init /\ [][Next]_vars

-----------------------------------------------------------------------------

Held(n, status) == IF entry[n].status = status THEN 1 ELSE 0

(***************************************************************************)
(* One-time handoff ("the token is one-time-retrievable", store.go): every *)
(* registration is completed at most once, and every completion is fetched *)
(* at most once, however the calls on a nonce interleave and whatever      *)
(* expires in between.                                                     *)
(***************************************************************************)
HandoffLaw ==
  \A n \in Nonces :
    /\ fetches[n] + Held(n, "ready") <= completes[n]
    /\ completes[n] + Held(n, "waiting") <= puts[n]

(***************************************************************************)
(* First completion wins (store.go: Complete answers ErrInvalidState if    *)
(* the entry is not Waiting): while an entry stays in the store, a token   *)
(* that is in it is never exchanged for another one and never taken back   *)
(* to Waiting.                                                             *)
(***************************************************************************)
ReadyIsFinal ==
  [][\A n \in Nonces :
       entry[n].status = "ready" => entry'[n] \in {entry[n], Absent}]_vars
=============================================================================
