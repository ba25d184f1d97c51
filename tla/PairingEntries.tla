--------------------------- MODULE PairingEntries ---------------------------
(***************************************************************************)
(* One pairing entry and the three operations of pairing.Store on it, as   *)
(* the interface comment of pairing/store.go promises them: what an        *)
(* operation answers and what it leaves behind, as functions of the entry  *)
(* it finds.  Tokens and bot usernames travel together, as one payload.    *)
(***************************************************************************)
CONSTANTS
  Nonces,      \* the pairing nonces
  Payloads,    \* the (token, bot username) pairs a Complete may carry
  NoPayload    \* stands for the empty token and username

ASSUME PayloadAssumption == NoPayload \notin Payloads

(***************************************************************************)
(* An entry is missing, StatusWaiting or StatusReady.                      *)
(***************************************************************************)
Absent   == [status |-> "absent",  payload |-> NoPayload]
Waiting  == [status |-> "waiting", payload |-> NoPayload]
Ready(p) == [status |-> "ready",   payload |-> p]

Entry == {Absent, Waiting} \cup {Ready(p) : p \in Payloads}

(***************************************************************************)
(* Answers.  A FetchAndDelete that answers "ok" also hands out a payload.  *)
(* "ctxErr" is the error of a context that was over before the call began, *)
(* "error" any error that leaves the outcome of the call open.             *)
(***************************************************************************)
Errs == {"ok", "ErrNotFound", "ErrNotReady", "ErrAlreadyExists",
         "ErrInvalidState", "ctxErr", "error"}

Reply == [err : Errs, payload : Payloads \cup {NoPayload}]

Answer(err) == [err |-> err, payload |-> NoPayload]

(***************************************************************************)
(* The calls of the interface, for a set of time-to-live values, and what  *)
(* a caller that is in no call holds.                                      *)
(***************************************************************************)
Calls(ttls) ==
  [op : {"Put"}, nonce : Nonces, payload : {NoPayload}, ttl : ttls]
    \cup [op : {"Complete"}, nonce : Nonces, payload : Payloads, ttl : {0}]
    \cup [op : {"FetchAndDelete"}, nonce : Nonces, payload : {NoPayload}, ttl : {0}]

NoCall  == [op |-> "none", nonce |-> NoPayload, payload |-> NoPayload, ttl |-> 0]
NoReply == Answer("ok")

(***************************************************************************)
(* Put registers an unused nonce; Complete moves Waiting to Ready;         *)
(* FetchAndDelete takes a Ready entry out of the store.                    *)
(***************************************************************************)
PutReply(e) == Answer(IF e = Absent THEN "ok" ELSE "ErrAlreadyExists")
PutEntry(e) == IF e = Absent THEN Waiting ELSE e

CompleteReply(e) ==
  Answer(CASE e.status = "absent"  -> "ErrNotFound"
           [] e.status = "waiting" -> "ok"
           [] e.status = "ready"   -> "ErrInvalidState")

\* Slips: the token is not written; a Ready entry is completed again.
CompleteEntryNoToken(e, p)    == IF e = Waiting THEN [Waiting EXCEPT !.status = "ready"] ELSE e
CompleteEntryOverwrites(e, p) == IF e = Absent THEN e ELSE Ready(p)

CompleteEntry(e, p) == IF e.status = "waiting" THEN Ready(p) ELSE e

FetchReply(e) ==
  CASE e.status = "absent"  -> Answer("ErrNotFound")
    [] e.status = "waiting" -> Answer("ErrNotReady")
    [] e.status = "ready"   -> [err |-> "ok", payload |-> e.payload]

\* Slip: fetching does not delete.
FetchEntryKept(e) == e

FetchEntry(e) == IF e.status = "ready" THEN Absent ELSE e
=============================================================================
