--------------------------- MODULE ManagedPairing ---------------------------
(***************************************************************************)
(* The whole handoff: client sessions and the pairing server, the users    *)
(* who follow deep links, Telegram and the manager's webhook workers, all  *)
(* around one store.                                                       *)
(***************************************************************************)
EXTENDS PairingServer, ManagerHandler

CONSTANT External   \* bots whose manager runs elsewhere and calls PUT /pair/{nonce}

ASSUME ExternalAssumption == External \subseteq Bots
ASSUME ClientAssumption == NoNonce \notin Clients

vars == <<entry, handed, faults, drawn, client, nonceOf, response, token,
          putStatus, botState, botNonce, ver, from, update, wpc, wbot, wtok,
          wret, dm>>

TypeOK == StoreTypeOK /\ ServerTypeOK /\ ManagerTypeOK

Init == StoreInit /\ ServerInit /\ ManagerInit

(***************************************************************************)
(* A user follows the deep link a session shows, now or long after, and    *)
(* creates the bot under the suggested username or an edited one.  Bot     *)
(* usernames are unique in Telegram, so a nonce names one bot.             *)
(***************************************************************************)
Shown == {nonceOf[c] : c \in Clients} \ {NoNonce}

CreateBot(b, n, named) ==
  /\ botState[b] = "none"
  /\ n = NoNonce \/ (n \in Shown /\ \A a \in Bots : botNonce[a] # n)
  /\ botState' = [botState EXCEPT ![b] = "live"]
  /\ botNonce' = [botNonce EXCEPT ![b] = n]
  /\ from' = [from EXCEPT ![b] = named]
  /\ update' = IF b \in External THEN update ELSE [update EXCEPT ![b] = "pending"]
  /\ StoreUntouched
  /\ UNCHANGED <<faults, ver, dm>>
  /\ UNCHANGED workerVars
  /\ UNCHANGED serverVars

(***************************************************************************)
(* A remote manager delivers a token it fetched some time ago.             *)
(***************************************************************************)
RemotePut(b) ==
  /\ b \in External
  /\ botNonce[b] # NoNonce
  /\ \E v \in 0 .. ver[b] : PutPair(botNonce[b], [bot |-> b, ver |-> v])
  /\ UNCHANGED managerVars

Next ==
  \/ /\ \E c \in Clients : SessionStep(c)
     /\ UNCHANGED managerVars
  \/ /\ \E n \in Nonces : Expire(n)
     /\ UNCHANGED managerVars
  \/ \E b \in Bots, n \in Nonces \cup {NoNonce}, named \in BOOLEAN : CreateBot(b, n, named)
  \/ \E b \in Bots : RemotePut(b)
  \/ ManagerStep /\ UNCHANGED serverVars

Spec == Init /\ [][Next]_vars

(***************************************************************************)
(* A session goes on polling and reads its responses; a worker finishes    *)
(* its delivery; Telegram delivers an update again as long as no delivery  *)
(* was answered 200, however busy the workers are; time-to-lives run out.  *)
(* Nothing is assumed of users, of remote managers and of faults.          *)
(***************************************************************************)
Fairness ==
  /\ \A c \in Clients :
       /\ WF_vars(DeletePair(c) /\ UNCHANGED managerVars)
       /\ WF_vars(Receive(c) /\ UNCHANGED managerVars)
  /\ \A n \in Nonces : WF_vars(Expire(n) /\ UNCHANGED managerVars)
  /\ \A w \in Workers : WF_vars(WorkerStep(w) /\ UNCHANGED serverVars)
  /\ \A b \in Bots :
       SF_vars((\E w \in Workers : HandleUpdate(w, b)) /\ UNCHANGED serverVars)

FairSpec == Spec /\ Fairness

-----------------------------------------------------------------------------

(***************************************************************************)
(* One-time handoff, end to end: the token of a bot is in at most one of   *)
(* the places a client can get it from, an entry of the store, a response  *)
(* under way, a session that has it, whatever is delivered twice, lost,    *)
(* crashed or expired.  Relies on nonces being fresh.                      *)
(***************************************************************************)
OfBot(p, b) == p # NoPayload /\ p.bot = b

Places(b) ==
  {<<"store", n>> : n \in {m \in Nonces : OfBot(entry[m].payload, b)}}
    \cup {<<"response", c>> : c \in {d \in Clients : OfBot(response[d].payload, b)}}
    \cup {<<"session", c>> : c \in {d \in Clients : OfBot(token[d], b)}}

TokenInOnePlace == \A b \in Bots : \A x, y \in Places(b) : x = y

(***************************************************************************)
(* A session is only ever served the token of the bot that was created     *)
(* from its own link.                                                      *)
(***************************************************************************)
RightBot ==
  \A c \in Clients : token[c] # NoPayload => botNonce[token[c].bot] = nonceOf[c]

(***************************************************************************)
(* The fallback message says that the bot could not be linked to the       *)
(* session (handler.go:155-158).  From then on it stays so: for a live bot *)
(* the store will not hand out a token under its nonce.                    *)
(***************************************************************************)
FallbackIsFinal ==
  \A b \in dm : botState[b] = "live" /\ botNonce[b] # NoNonce => entry[botNonce[b]] = Absent

(***************************************************************************)
(* No update is lost: a delivery is answered 200, so that Telegram stops,  *)
(* only when the token has reached the store or the creator was told,      *)
(* provided there is a creator to tell; and a remote manager is told "ok"  *)
(* or "already completed" only when its token has reached the store.       *)
(***************************************************************************)
Outcome(b) == b \in handed \/ b \in dm \/ ~from[b]

AckImpliesOutcome ==
  \A b \in Bots :
    /\ update[b] = "acked" => Outcome(b)
    /\ putStatus[b] \in {200, 409} => b \in handed

(***************************************************************************)
(* Every update is answered in the end, unless the creator refuses         *)
(* messages, in spite of crashes, lost responses and failing calls, as     *)
(* long as these do not go on forever.                                     *)
(***************************************************************************)
EveryUpdateAnswered ==
  \A b \in Bots \ Blocked : update[b] = "pending" ~> update[b] = "acked"

(***************************************************************************)
(* A session polls until it is served or told that its pairing is gone;    *)
(* it never polls forever.                                                 *)
(***************************************************************************)
EverySessionEnds ==
  \A c \in Clients : client[c] = "polling" ~> client[c] \in {"served", "stopped"}

Holds(c, b) == OfBot(response[c].payload, b) \/ OfBot(token[c], b)

(***************************************************************************)
(* The whole handoff implements its abstract specification: what happens   *)
(* to each bot, read off the places where its token is.                    *)
(***************************************************************************)
InStore(b)    == \E n \in Nonces : OfBot(entry[n].payload, b)
InResponse(b) == \E c \in Clients : OfBot(response[c].payload, b)
InSession(b)  == \E c \in Clients : OfBot(token[c], b)

AbsStage ==
  [b \in Bots |->
     CASE botState[b] = "none" -> "unborn"
       [] InStore(b)           -> "stored"
       [] InResponse(b)        -> "sent"
       [] InSession(b)         -> "served"
       [] OTHER                -> IF b \in handed THEN "lost" ELSE "open"]

Owns(c, b) == botNonce[b] # NoNonce /\ nonceOf[c] = botNonce[b]

AbsHome ==
  [b \in Bots |-> IF \E c \in Clients : Owns(c, b) THEN CHOOSE c \in Clients : Owns(c, b)
                                                   ELSE NoNonce]
AbsHolder ==
  [b \in Bots |-> IF \E c \in Clients : Holds(c, b) THEN CHOOSE c \in Clients : Holds(c, b)
                                                    ELSE NoNonce]

Abstract ==
  INSTANCE Handoff WITH
    NoClient <- NoNonce,
    stage    <- AbsStage,
    home     <- AbsHome,
    holder   <- AbsHolder,
    deleted  <- {b \in Bots : botState[b] = "deleted"},
    told     <- dm

ImplementsHandoff == Abstract!HandoffSpec

-----------------------------------------------------------------------------

(***************************************************************************)
(* The inductive invariant behind the safety properties above.  A nonce in *)
(* use anywhere was drawn, so that a fresh one is in use nowhere; a nonce  *)
(* names one bot; what is in the store under a nonce is a token of that    *)
(* bot; what has left the store for a session leaves an absent entry,      *)
(* which, its nonce being drawn, stays absent.                             *)
(***************************************************************************)
DrawnInv ==
  /\ \A n \in Nonces : entry[n] # Absent => n \in drawn
  /\ \A c \in Clients : nonceOf[c] # NoNonce => nonceOf[c] \in drawn
  /\ \A b \in Bots : botNonce[b] # NoNonce => botNonce[b] \in drawn

OneBotPerNonce ==
  \A a, b \in Bots : botNonce[a] = botNonce[b] /\ botNonce[a] # NoNonce => a = b

UnbornInv ==
  \A b \in Bots : botState[b] = "none" =>
    botNonce[b] = NoNonce /\ update[b] = "none" /\ b \notin dm /\ \A w \in Workers : wbot[w] # b

SessionInv ==
  \A c \in Clients :
    /\ response[c].status = "none" <=> response[c] = NoResponse
    /\ response[c].status # "none" => client[c] \in {"posting", "polling"}
    /\ response[c].status = "created" => client[c] = "posting" /\ response[c].nonce \in drawn
    /\ response[c].status = "token" <=> response[c].payload # NoPayload
    /\ response[c].status = "token" => client[c] = "polling"
    /\ token[c] # NoPayload => client[c] = "served"
    /\ client[c] = "polling" => nonceOf[c] # NoNonce

StoreInv ==
  \A n \in Nonces : entry[n].status = "ready" =>
    botNonce[entry[n].payload.bot] = n /\ entry[n].payload.bot \in handed

HeldInv ==
  \A c \in Clients : \A p \in {response[c].payload, token[c]} : p # NoPayload =>
    /\ botNonce[p.bot] = nonceOf[c]
    /\ nonceOf[c] # NoNonce
    /\ entry[nonceOf[c]] = Absent

OneHolder ==
  \A c, d \in Clients : \A b \in Bots : Holds(c, b) /\ Holds(d, b) => c = d

WorkerInv ==
  \A w \in Workers :
    /\ wpc[w] = "idle" <=> wbot[w] = NoBot
    /\ wpc[w] \in {"token", "complete"} => botNonce[wbot[w]] # NoNonce
    /\ wpc[w] = "complete" => wtok[w] \in Payloads /\ wtok[w].bot = wbot[w]
    /\ wpc[w] = "fallback" /\ botState[wbot[w]] = "live" /\ botNonce[wbot[w]] # NoNonce
         => entry[botNonce[wbot[w]]] = Absent
    /\ wpc[w] = "respond" /\ wret[w] = "nil" => Outcome(wbot[w])

PairingInv ==
  /\ TypeOK
  /\ DrawnInv /\ OneBotPerNonce /\ UnbornInv /\ SessionInv /\ StoreInv
  /\ HeldInv /\ OneHolder /\ WorkerInv
  /\ FallbackIsFinal /\ AckImpliesOutcome

(***************************************************************************)
(* What the refinement needs besides: a nonce is given to one session and  *)
(* for good, a bot's nonce is that of a session already, and a token that  *)
(* was stored has no entry waiting for it and can only be stored once.     *)
(***************************************************************************)
HomeInv ==
  /\ \A c \in Clients : client[c] \in {"start", "posting"} => nonceOf[c] = NoNonce
  /\ \A c, d \in Clients : nonceOf[c] = nonceOf[d] /\ nonceOf[c] # NoNonce => c = d
  /\ \A c, d \in Clients : response[c].status = "created" =>
       /\ nonceOf[d] # response[c].nonce
       /\ response[d].status = "created" /\ response[d].nonce = response[c].nonce => c = d
  /\ \A b \in Bots : botNonce[b] # NoNonce => botNonce[b] \in Shown

HandedInv ==
  /\ \A b \in handed : botNonce[b] # NoNonce /\ entry[botNonce[b]] # Waiting
  /\ \A b \in Bots : (\E c \in Clients : Holds(c, b)) => b \in handed

HandoffInv == PairingInv /\ HomeInv /\ HandedInv

-----------------------------------------------------------------------------
(***************************************************************************)
(* What the comments of the code claim, and the code does not keep.        *)
(***************************************************************************)

(***************************************************************************)
(* "this one genuinely has no prior successful handoff to dedupe against"  *)
(* (handler.go:130-132): Complete answers ErrNotFound to a delivery only   *)
(* if no earlier delivery of that bot's update completed the pairing.      *)
(***************************************************************************)
NotFoundMeansNoHandoff ==
  [][\A w \in Workers :
       wpc[w] = "complete" /\ wpc'[w] = "fallback" => wbot[w] \notin handed]_vars

(***************************************************************************)
(* "Returns 200 OK as long as the body is well-formed JSON" and "Swallow   *)
(* non-retryable errors; retryable go out as 500" (main.go:245-247, 268):  *)
(* without a passing fault, no delivery is answered 500.                   *)
(***************************************************************************)
NonRetryableSwallowed ==
  faults = 0 => \A w \in Workers : wpc[w] = "respond" => wret[w] = "nil"
=============================================================================
