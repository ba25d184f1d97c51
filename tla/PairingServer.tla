--------------------------- MODULE PairingServer ---------------------------
(***************************************************************************)
(* pairing/server: the HTTP handlers POST /pair, PUT /pair/{nonce} and     *)
(* DELETE /pair/{nonce}, with the client sessions that call the first and  *)
(* the last, and the remote managers that call the second.  A handler runs *)
(* its one store call and writes its response in one step; the response    *)
(* then travels and may be lost.                                           *)
(***************************************************************************)
EXTENDS SharedStore

CONSTANTS
  Clients,      \* client sessions, one connection flow each
  FreshNonces   \* TRUE: nonce.New never returns the same nonce twice

ASSUME FreshAssumption == FreshNonces \in BOOLEAN

VARIABLES
  drawn,        \* history: the nonces nonce.New has returned
  client,       \* "start", "posting", "polling", "served" or "stopped"
  nonceOf,      \* the nonce a session was given
  response,     \* the response on its way to a session
  token,        \* the token a session has obtained
  putStatus     \* HTTP status of the last answer to a remote manager, per bot

serverVars == <<drawn, client, nonceOf, response, token, putStatus>>

NoResponse == [status |-> "none", nonce |-> NoNonce, payload |-> NoPayload]

Response ==
  [status : {"none", "created", "token", "waiting", "not_found", "error"},
   nonce : Nonces \cup {NoNonce}, payload : Payloads \cup {NoPayload}]

ServerTypeOK ==
  /\ drawn \in SUBSET Nonces
  /\ client \in [Clients -> {"start", "posting", "polling", "served", "stopped"}]
  /\ nonceOf \in [Clients -> Nonces \cup {NoNonce}]
  /\ response \in [Clients -> Response]
  /\ token \in [Clients -> Payloads \cup {NoPayload}]
  /\ putStatus \in [Bots -> {0, 200, 400, 401, 404, 409, 500}]

ServerInit ==
  /\ drawn = {}
  /\ client = [c \in Clients |-> "start"]
  /\ nonceOf = [c \in Clients |-> NoNonce]
  /\ response = [c \in Clients |-> NoResponse]
  /\ token = [c \in Clients |-> NoPayload]
  /\ putStatus = [b \in Bots |-> 0]

Status(s)  == [NoResponse EXCEPT !.status = s]
Created(n) == [Status("created") EXCEPT !.nonce = n]
Token(p)   == [Status("token") EXCEPT !.payload = p]

Respond(c, r) == response' = [response EXCEPT ![c] = r]

(***************************************************************************)
(* POST /pair.  The link is built before the store is touched; a Put that  *)
(* fails, collision included, answers 500 and is not tried again.          *)
(***************************************************************************)
Draw(n) ==
  /\ FreshNonces => n \notin drawn
  /\ drawn' = drawn \cup {n}

PostPair(c, n) ==
  /\ client[c] = "start"
  /\ client' = [client EXCEPT ![c] = "posting"]
  /\ UNCHANGED <<nonceOf, token, putStatus>>
  /\ \/ /\ Draw(n)
        /\ StorePut(n)
        /\ Respond(c, IF PutReply(entry[n]).err = "ok" THEN Created(n) ELSE Status("error"))
        /\ UNCHANGED faults
     \/ /\ Draw(n)
        /\ Fault
        /\ StorePut(n) \/ StoreUntouched
        /\ Respond(c, Status("error"))

(***************************************************************************)
(* DELETE /pair/{nonce}: the session consumes its token.                   *)
(***************************************************************************)
\* Slip: a missing entry is reported as one still waiting.
DeleteResponseAlwaysWaiting(e) ==
  LET r == FetchReply(e) IN IF r.err = "ok" THEN Token(r.payload) ELSE Status("waiting")

DeleteResponse(e) ==
  LET r == FetchReply(e) IN
  CASE r.err = "ok"          -> Token(r.payload)
    [] r.err = "ErrNotReady" -> Status("waiting")
    [] r.err = "ErrNotFound" -> Status("not_found")

DeletePair(c) ==
  LET n == nonceOf[c] IN
  /\ client[c] = "polling"
  /\ response[c] = NoResponse
  /\ UNCHANGED <<drawn, client, nonceOf, token, putStatus>>
  /\ \/ /\ StoreFetch(n)
        /\ Respond(c, DeleteResponse(entry[n]))
        /\ UNCHANGED faults
     \/ /\ Fault
        /\ StoreFetch(n) \/ StoreUntouched
        /\ Respond(c, Status("error"))

(***************************************************************************)
(* PUT /pair/{nonce}: a remote manager delivers p under nonce n, once or   *)
(* more often.  A rejected bearer, a malformed nonce or body never reach   *)
(* the store.                                                              *)
(***************************************************************************)
\* Slip: an expired entry is reported as already completed.
PutPairStatusMerged(err) == IF err = "ok" THEN 200 ELSE 409

PutPairStatus(err) ==
  CASE err = "ok"              -> 200
    [] err = "ErrNotFound"     -> 404
    [] err = "ErrInvalidState" -> 409

PutPair(n, p) ==
  /\ UNCHANGED <<drawn, client, nonceOf, response, token>>
  /\ \/ /\ putStatus' = [putStatus EXCEPT ![p.bot] = PutPairStatus(CompleteReply(entry[n]).err)]
        /\ StoreComplete(n, p)
        /\ UNCHANGED faults
     \/ /\ Fault
        /\ putStatus' = [putStatus EXCEPT ![p.bot] = 500]
        /\ StoreComplete(n, p) \/ StoreUntouched
     \/ /\ \E status \in {400, 401} : putStatus' = [putStatus EXCEPT ![p.bot] = status]
        /\ StoreUntouched
        /\ UNCHANGED faults

(***************************************************************************)
(* The session reads its response: it starts polling with the nonce it was *)
(* given, tries a failed request again, stops on 404 not_found.            *)
(***************************************************************************)
NextState(c) ==
  CASE response[c].status = "created"   -> "polling"
    [] response[c].status = "token"     -> "served"
    [] response[c].status = "not_found" -> "stopped"
    [] response[c].status = "error" /\ client[c] = "posting" -> "start"
    [] OTHER                            -> client[c]

Receive(c) ==
  /\ response[c] # NoResponse
  /\ client' = [client EXCEPT ![c] = NextState(c)]
  /\ nonceOf' = IF response[c].status = "created"
                THEN [nonceOf EXCEPT ![c] = response[c].nonce] ELSE nonceOf
  /\ token' = IF response[c].status = "token"
              THEN [token EXCEPT ![c] = response[c].payload] ELSE token
  /\ Respond(c, NoResponse)
  /\ StoreUntouched
  /\ UNCHANGED <<drawn, faults, putStatus>>

(***************************************************************************)
(* A response is lost: the session sends its request again.                *)
(***************************************************************************)
LoseResponse(c) ==
  /\ response[c] # NoResponse
  /\ Fault
  /\ client' = IF client[c] = "posting" THEN [client EXCEPT ![c] = "start"] ELSE client
  /\ Respond(c, NoResponse)
  /\ StoreUntouched
  /\ UNCHANGED <<drawn, nonceOf, token, putStatus>>

(***************************************************************************)
(* The time-to-live of an entry runs out.                                  *)
(***************************************************************************)
Expire(n) ==
  /\ entry[n] # Absent
  /\ entry' = [entry EXCEPT ![n] = Absent]
  /\ UNCHANGED <<handed, faults>>
  /\ UNCHANGED serverVars

SessionStep(c) ==
  \/ \E n \in Nonces : PostPair(c, n)
  \/ DeletePair(c)
  \/ Receive(c)
  \/ LoseResponse(c)
=============================================================================
