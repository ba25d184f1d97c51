--------------------------- MODULE ManagerHandler ---------------------------
(***************************************************************************)
(* manager.Handler.HandleUpdate behind the webhook route of                *)
(* examples/alva-like: Telegram delivers the managed_bot_created update of *)
(* a bot until a delivery is answered 200, so that several workers         *)
(* (goroutines, replicas) may be at the same update.  A worker fetches the *)
(* token of the bot, completes the pairing named by the nonce in the       *)
(* username, and falls back to a message to the creator.  Telegram, the    *)
(* owner of the bot and the other workers act between any two stages.      *)
(***************************************************************************)
EXTENDS SharedStore

CONSTANTS
  Workers,     \* concurrent deliveries
  Blocked      \* bots whose creator refuses messages of the manager bot

ASSUME BlockedAssumption == Blocked \subseteq Bots

Api == INSTANCE TgApi WITH Nothing <- NoPayload

VARIABLES
  botState,    \* "none", "live" or "deleted"
  botNonce,    \* the nonce in the username, NoNonce if the user edited it
  ver,         \* version of the bot's current token
  from,        \* the update names the creator
  update,      \* "none", "pending" or "acked", per bot
  wpc,         \* the stage a worker is at
  wbot,        \* the bot of the update it handles
  wtok,        \* the token it has fetched
  wret,        \* what HandleUpdate returned: "nil" or "err"
  dm           \* the bots whose creator got the fallback message

botVars     == <<botState, botNonce, ver, from>>
workerVars  == <<wpc, wbot, wtok, wret>>
managerVars == <<botState, botNonce, ver, from, update, wpc, wbot, wtok, wret, dm>>

ManagerTypeOK ==
  /\ botState \in [Bots -> {"none", "live", "deleted"}]
  /\ botNonce \in [Bots -> Nonces \cup {NoNonce}]
  /\ ver \in [Bots -> 0 .. MaxVer]
  /\ from \in [Bots -> BOOLEAN]
  /\ update \in [Bots -> {"none", "pending", "acked"}]
  /\ wpc \in [Workers -> {"idle", "token", "complete", "fallback", "respond"}]
  /\ wbot \in [Workers -> Bots \cup {NoBot}]
  /\ wtok \in [Workers -> Payloads \cup {NoPayload}]
  /\ wret \in [Workers -> {"nil", "err"}]
  /\ dm \in SUBSET Bots

ManagerInit ==
  /\ botState = [b \in Bots |-> "none"]
  /\ botNonce = [b \in Bots |-> NoNonce]
  /\ ver = [b \in Bots |-> 0]
  /\ from = [b \in Bots |-> FALSE]
  /\ update = [b \in Bots |-> "none"]
  /\ wpc = [w \in Workers |-> "idle"]
  /\ wbot = [w \in Workers |-> NoBot]
  /\ wtok = [w \in Workers |-> NoPayload]
  /\ wret = [w \in Workers |-> "nil"]
  /\ dm = {}

-----------------------------------------------------------------------------

(***************************************************************************)
(* The owner of a bot deletes it or has its token replaced.                *)
(***************************************************************************)
DeleteBot(b) ==
  /\ botState[b] = "live"
  /\ botState' = [botState EXCEPT ![b] = "deleted"]
  /\ StoreUntouched
  /\ UNCHANGED <<faults, botNonce, ver, from, update, dm>>
  /\ UNCHANGED workerVars

ReplaceToken(b) ==
  /\ botState[b] = "live"
  /\ ver[b] < MaxVer
  /\ ver' = [ver EXCEPT ![b] = @ + 1]
  /\ StoreUntouched
  /\ UNCHANGED <<faults, botState, botNonce, from, update, dm>>
  /\ UNCHANGED workerVars

-----------------------------------------------------------------------------

Goto(w, stage) == wpc' = [wpc EXCEPT ![w] = stage]

(***************************************************************************)
(* HandleUpdate returns to the webhook, which answers the delivery.        *)
(***************************************************************************)
ReturnTo(w, ret) ==
  /\ Goto(w, "respond")
  /\ wtok' = [wtok EXCEPT ![w] = NoPayload]
  /\ wret' = [wret EXCEPT ![w] = ret]

(***************************************************************************)
(* Stage 1: a delivery, and the nonce in the username.                     *)
(***************************************************************************)
HandleUpdate(w, b) ==
  /\ wpc[w] = "idle"
  /\ update[b] = "pending"
  /\ wbot' = [wbot EXCEPT ![w] = b]
  /\ Goto(w, IF botNonce[b] = NoNonce THEN "fallback" ELSE "token")
  /\ StoreUntouched
  /\ UNCHANGED <<faults, update, wtok, wret, dm>>
  /\ UNCHANGED botVars

(***************************************************************************)
(* A call to the Bot API with the manager's own token is answered, or      *)
(* fails for reasons that have nothing to do with what it asks for.        *)
(***************************************************************************)
Exchange(answer, x) ==
  \/ x = answer /\ UNCHANGED faults
  \/ x \in Api!Failures \cup {Api!Unauthorized} /\ Fault

(***************************************************************************)
(* Stage 2: getManagedBotToken, which refuses the token of a deleted bot.  *)
(***************************************************************************)
TokenOf(b) ==
  IF botState[b] = "deleted" THEN Api!Deactivated ELSE Api!Ok([bot |-> b, ver |-> ver[b]])

\* Slip: a deleted bot is an error like any other.
GetTokenDeletedIsError(w) ==
  /\ wpc[w] = "token"
  /\ StoreUntouched
  /\ UNCHANGED <<update, wbot, dm>>
  /\ UNCHANGED botVars
  /\ \E x \in {TokenOf(wbot[w])} \cup Api!Failures :
       /\ Exchange(TokenOf(wbot[w]), x)
       /\ IF Api!do(x).err = "nil"
          THEN /\ wtok' = [wtok EXCEPT ![w] = Api!do(x).result]
               /\ Goto(w, "complete")
               /\ UNCHANGED wret
          ELSE ReturnTo(w, "err")

GetManagedBotToken(w) ==
  /\ wpc[w] = "token"
  /\ StoreUntouched
  /\ UNCHANGED <<update, wbot, dm>>
  /\ UNCHANGED botVars
  /\ \E x \in {TokenOf(wbot[w]), Api!Unauthorized} \cup Api!Failures :
       LET outcome == Api!do(x) IN
       /\ Exchange(TokenOf(wbot[w]), x)
       /\ \/ /\ outcome.err = "nil"
             /\ wtok' = [wtok EXCEPT ![w] = outcome.result]
             /\ Goto(w, "complete")
             /\ UNCHANGED wret
          \/ /\ Api!IsBotDeactivated(outcome.err)
             /\ Goto(w, "fallback")
             /\ UNCHANGED <<wtok, wret>>
          \/ /\ outcome.err # "nil" /\ ~Api!IsBotDeactivated(outcome.err)
             /\ ReturnTo(w, "err")

(***************************************************************************)
(* Stage 3: Store.Complete.  ErrInvalidState counts as success, ErrNotFound*)
(* falls back, any other error is returned, whether or not the store       *)
(* completed the entry.                                                    *)
(***************************************************************************)
Complete(w) ==
  LET n   == botNonce[wbot[w]]
      err == CompleteReply(entry[n]).err
  IN
  /\ wpc[w] = "complete"
  /\ UNCHANGED <<update, wbot, dm>>
  /\ UNCHANGED botVars
  /\ \/ /\ err \in {"ok", "ErrInvalidState"}
        /\ StoreComplete(n, wtok[w])
        /\ ReturnTo(w, "nil")
        /\ UNCHANGED faults
     \/ /\ err = "ErrNotFound"
        /\ StoreComplete(n, wtok[w])
        /\ Goto(w, "fallback")
        /\ wtok' = [wtok EXCEPT ![w] = NoPayload]
        /\ UNCHANGED <<faults, wret>>
     \/ /\ Fault
        /\ StoreComplete(n, wtok[w]) \/ StoreUntouched
        /\ ReturnTo(w, "err")

(***************************************************************************)
(* defaultFallback: nothing to send to if the update names no creator.     *)
(* Telegram refuses a message to a creator who has blocked the manager.  A *)
(* SendMessage whose answer is lost or garbled may have been delivered.    *)
(***************************************************************************)
SentTo(b) == IF b \in Blocked THEN Api!Forbidden ELSE Api!Ok(NoPayload)

Delivered(b, x) ==
  IF x = Api!Ok(NoPayload) THEN {dm \cup {b}}
  ELSE IF x \in {Api!Lost, Api!Junk} /\ b \notin Blocked THEN {dm, dm \cup {b}}
  ELSE {dm}

SendMessage(w) ==
  LET b == wbot[w] IN
  \E x \in {SentTo(b), Api!Unauthorized} \cup Api!Failures :
    /\ Exchange(SentTo(b), x)
    /\ dm' \in Delivered(b, x)
    /\ ReturnTo(w, IF Api!do(x).err = "nil" THEN "nil" ELSE "err")

Fallback(w) ==
  /\ wpc[w] = "fallback"
  /\ StoreUntouched
  /\ UNCHANGED <<update, wbot>>
  /\ UNCHANGED botVars
  /\ \/ /\ ~from[wbot[w]]
        /\ ReturnTo(w, "nil")
        /\ UNCHANGED <<faults, dm>>
     \/ from[wbot[w]] /\ SendMessage(w)

Idle(w) ==
  /\ Goto(w, "idle")
  /\ wbot' = [wbot EXCEPT ![w] = NoBot]
  /\ wtok' = [wtok EXCEPT ![w] = NoPayload]
  /\ wret' = [wret EXCEPT ![w] = "nil"]
  /\ StoreUntouched
  /\ UNCHANGED dm
  /\ UNCHANGED botVars

(***************************************************************************)
(* managerWebhook answers 200 or 500; Telegram may not see the answer.     *)
(***************************************************************************)
\* Slip: the webhook answers 200 whatever HandleUpdate returned.
WebhookAlwaysOk(w) ==
  /\ wpc[w] = "respond"
  /\ Idle(w)
  /\ update' = [update EXCEPT ![wbot[w]] = "acked"]
  /\ UNCHANGED faults

WebhookResponse(w) ==
  /\ wpc[w] = "respond"
  /\ Idle(w)
  /\ \/ /\ wret[w] = "nil"
        /\ update' = [update EXCEPT ![wbot[w]] = "acked"]
        /\ UNCHANGED faults
     \/ /\ wret[w] = "nil"
        /\ Fault
        /\ UNCHANGED update
     \/ /\ wret[w] = "err"
        /\ UNCHANGED <<faults, update>>

(***************************************************************************)
(* The process of a worker dies; its delivery stays unanswered.            *)
(***************************************************************************)
Crash(w) ==
  /\ wpc[w] # "idle"
  /\ Fault
  /\ Idle(w)
  /\ UNCHANGED update

WorkerStep(w) ==
  \/ GetManagedBotToken(w)
  \/ Complete(w)
  \/ Fallback(w)
  \/ WebhookResponse(w)

ManagerStep ==
  \/ \E b \in Bots : DeleteBot(b) \/ ReplaceToken(b)
  \/ \E w \in Workers : Crash(w) \/ WorkerStep(w) \/ \E b \in Bots : HandleUpdate(w, b)
=============================================================================
