----------------------------- MODULE DriftProbe -----------------------------
(***************************************************************************)
(* driftProbe of examples/alva-like: a probe looks at a bot twice, with    *)
(* getMe and with getWebhookInfo, and gives the two views to CheckDrift.   *)
(* The owner of the bot, and anyone who has its token, acts meanwhile.     *)
(* One request is modelled: requests share nothing but Telegram.           *)
(***************************************************************************)
EXTENDS Reconcile, Naturals

CONSTANTS
  Records,     \* the stored records a probe may start from
  MaxVer,      \* bound: token replacements per bot
  MaxFaults    \* bound: calls that fail on the way

ASSUME ProbeAssumption == Records \subseteq State /\ MaxVer \in Nat /\ MaxFaults \in Nat

VARIABLES
  bot,         \* per bot: what Telegram knows of it
  pc,          \* where the probe is
  state,       \* the record it checks
  token,       \* the bot token it uses
  me, hook,    \* what the two calls came to
  drifts,      \* the kinds of drift it reports
  faults,      \* calls that failed on the way so far
  seen,        \* history: differences there were at some time since getMe was sent,
  steady       \*   and those there were all the time

world  == <<bot>>
probe  == <<pc, state, token, me, hook, drifts, faults>>
past   == <<seen, steady>>
vars   == <<world, probe, past>>

Token == [bot : Bots, ver : 0 .. MaxVer]

NoToken  == [bot |-> NoBot, ver |-> 0]
NoState  == [BotID |-> NoBot, ExpectedWebhookURL |-> NoURL,
             ExpectPrivacyOff |-> TRUE, LastKnownUsername |-> NoName]
NotAsked == [err |-> "nil", result |-> Nothing]

Outcome(results) ==
  [err : {"nil", "transport", "ErrUnauthorized", "ErrBotDeactivated",
          "ErrTooManyRequests", "APIError"}, result : results \cup {Nothing}]

User == [id : Bots, privacyOff : BOOLEAN, username : Names]

TypeOK ==
  /\ bot \in [Bots -> [deleted : BOOLEAN, ver : 0 .. MaxVer, webhook : URLs \cup {NoURL},
                       privacyOff : BOOLEAN, username : Names]]
  /\ pc \in {"start", "getMe", "getWebhookInfo", "check", "done"}
  /\ state \in Records \cup {NoState}
  /\ token \in Token \cup {NoToken}
  /\ me \in Outcome(User)
  /\ hook \in Outcome(URLs \cup {NoURL})
  /\ drifts \in Seq(DriftKind) /\ Len(drifts) <= 3
  /\ faults \in 0 .. MaxFaults
  /\ seen \subseteq DriftKind /\ steady \subseteq DriftKind

Init ==
  /\ bot \in [Bots -> [deleted : {FALSE}, ver : {0}, webhook : URLs \cup {NoURL},
                       privacyOff : BOOLEAN, username : Names]]
  /\ pc = "start" /\ state = NoState /\ token = NoToken
  /\ me = NotAsked /\ hook = NotAsked /\ drifts = <<>>
  /\ faults = 0
  /\ seen = {} /\ steady = {}

-----------------------------------------------------------------------------
(***************************************************************************)
(* What Telegram answers a call made with token t, for which a bot that is *)
(* there has the given result.                                             *)
(***************************************************************************)
BotAPI(t, result) ==
  IF bot[t.bot].deleted THEN Deactivated
  ELSE IF bot[t.bot].ver # t.ver THEN Unauthorized
  ELSE Ok(result)

(***************************************************************************)
(* A call comes to that answer, or to a failure on the way.                *)
(***************************************************************************)
Calls(answer, outcome) ==
  \/ outcome = do(answer) /\ UNCHANGED faults
  \/ /\ faults < MaxFaults
     /\ \E x \in Failures : outcome = do(x)
     /\ faults' = faults + 1

(***************************************************************************)
(* The differences between a record and the bot of a token.                *)
(***************************************************************************)
Differences(s, t) ==
  LET b == bot[t.bot] IN
    {k \in DriftKind :
       \/ k = "Deleted"           /\ b.deleted
       \/ k = "TokenRotated"      /\ ~b.deleted /\ b.ver # t.ver
       \/ k = "IdentityMismatch"  /\ s.BotID # NoBot /\ t.bot # s.BotID
       \/ k = "WebhookHijacked"   /\ s.ExpectedWebhookURL # NoURL
                                  /\ b.webhook # s.ExpectedWebhookURL
       \/ k = "PrivacyRegression" /\ b.privacyOff # s.ExpectPrivacyOff
       \/ k = "UsernameChanged"   /\ s.LastKnownUsername # NoName
                                  /\ b.username # s.LastKnownUsername}

-----------------------------------------------------------------------------
(***************************************************************************)
(* The owner, BotFather, and whoever else uses the bot's token.            *)
(***************************************************************************)
Looked == pc \in {"getMe", "getWebhookInfo", "check"}

Change(b, what) ==
  /\ ~bot[b].deleted
  /\ what # bot[b]
  /\ bot' = [bot EXCEPT ![b] = what]
  /\ UNCHANGED probe
  /\ seen' = IF Looked THEN seen \cup Differences(state, token)' ELSE seen
  /\ steady' = IF Looked THEN steady \cap Differences(state, token)' ELSE steady

DeleteBot(b)      == Change(b, [bot[b] EXCEPT !.deleted = TRUE])
ReplaceToken(b)   == bot[b].ver < MaxVer /\ Change(b, [bot[b] EXCEPT !.ver = @ + 1])
SetWebhook(b, u)  == Change(b, [bot[b] EXCEPT !.webhook = u])
SetPrivacy(b)     == Change(b, [bot[b] EXCEPT !.privacyOff = ~@])
SetUsername(b, n) == Change(b, [bot[b] EXCEPT !.username = n])

-----------------------------------------------------------------------------
(***************************************************************************)
(* The request.  The token comes with the request, and may be an old one or  *)
(* another bot's, or is asked for, with the manager's own token, which may *)
(* be refused.                                                             *)
(***************************************************************************)
Begin(s, t) ==
  /\ pc' = "getMe"
  /\ state' = s
  /\ token' = t
  /\ seen' = Differences(s, t)
  /\ steady' = Differences(s, t)
  /\ UNCHANGED <<bot, me, hook, drifts>>

GivenToken(s, t) ==
  /\ pc = "start"
  /\ t.ver <= bot[t.bot].ver
  /\ Begin(s, t)
  /\ UNCHANGED faults

FreshToken(s) ==
  LET b == s.BotID
      answer == IF bot[b].deleted THEN Deactivated ELSE Ok([bot |-> b, ver |-> bot[b].ver])
  IN
  /\ pc = "start"
  /\ b # NoBot
  /\ \E x \in {answer, Unauthorized}, outcome \in Outcome(Token) :
       /\ Calls(x, outcome)
       /\ \/ outcome.err = "nil" /\ Begin(s, outcome.result)
          \/ /\ outcome.err # "nil"
             /\ pc' = "done"
             /\ UNCHANGED <<bot, state, token, me, hook, drifts, past>>

GetMe ==
  LET b == bot[token.bot] IN
  /\ pc = "getMe"
  /\ pc' = "getWebhookInfo"
  /\ me' \in Outcome(User)
  /\ Calls(BotAPI(token, [id |-> token.bot, privacyOff |-> b.privacyOff,
                          username |-> b.username]), me')
  /\ UNCHANGED <<bot, state, token, hook, drifts, past>>

GetWebhookInfo ==
  /\ pc = "getWebhookInfo"
  /\ pc' = "check"
  /\ hook' \in Outcome(URLs \cup {NoURL})
  /\ Calls(BotAPI(token, bot[token.bot].webhook), hook')
  /\ UNCHANGED <<bot, state, token, me, drifts, past>>

Check ==
  /\ pc = "check"
  /\ pc' = "done"
  /\ drifts' = CheckDrift(state, me, hook)
  /\ UNCHANGED <<bot, state, token, me, hook, faults, past>>

ProbeStep ==
  \/ \E s \in Records : FreshToken(s) \/ \E t \in Token : GivenToken(s, t)
  \/ GetMe \/ GetWebhookInfo \/ Check

(***************************************************************************)
(* What happens after the report is of no consequence to it.               *)
(***************************************************************************)
WorldStep ==
  /\ pc # "done"
  /\ \E b \in Bots :
       \/ DeleteBot(b) \/ ReplaceToken(b) \/ SetPrivacy(b)
       \/ \E u \in URLs \cup {NoURL} : SetWebhook(b, u)
       \/ \E n \in Names : SetUsername(b, n)

Next == WorldStep \/ ProbeStep

Spec == Init /\ [][Next]_vars

-----------------------------------------------------------------------------

Reported == {drifts[i] : i \in DOMAIN drifts}

(***************************************************************************)
(* A drift that is reported was there at some time while the probe looked, *)
(* although its two calls see the bot at two times and the report is made  *)
(* of both ("Deleted", "TokenRotated" and the like make callers mark       *)
(* records, doc.go:11-12).                                                 *)
(***************************************************************************)
EveryDriftWasReal == Reported \subseteq seen \cup {"Unreachable"}

(***************************************************************************)
(* Inductive invariant: what the two views hold against the record was     *)
(* seen, and what is there now is seen while the probe looks.              *)
(***************************************************************************)
MeInv ==
  pc \in {"getWebhookInfo", "check"} =>
    /\ IsBotDeactivated(me.err) => "Deleted" \in seen
    /\ IsUnauthorized(me.err) => "TokenRotated" \in seen
    /\ me.err = "nil" =>
         /\ state.BotID # NoBot /\ me.result.id # state.BotID => "IdentityMismatch" \in seen
         /\ me.result.privacyOff # state.ExpectPrivacyOff => "PrivacyRegression" \in seen
         /\ state.LastKnownUsername # NoName /\ me.result.username # state.LastKnownUsername
              => "UsernameChanged" \in seen

HookInv ==
  pc = "check" /\ hook.err = "nil" /\ state.ExpectedWebhookURL # NoURL
    /\ hook.result # state.ExpectedWebhookURL => "WebhookHijacked" \in seen

ProbeInv ==
  /\ Looked => Differences(state, token) \subseteq seen
  /\ MeInv /\ HookInv
  /\ pc # "done" => drifts = <<>>
  /\ EveryDriftWasReal

(***************************************************************************)
(* A drift that was there all the while is reported, unless the report     *)
(* says why it could not be seen: the token shows nothing or another bot,  *)
(* or a call failed.                                                       *)
(***************************************************************************)
Excuses == {"Deleted", "TokenRotated", "IdentityMismatch", "Unreachable"}

SteadyDriftReported ==
  pc = "done" /\ state # NoState =>
    \/ steady \subseteq Reported
    \/ Reported \cap Excuses # {}

(***************************************************************************)
(* If no call failed and the differences stayed what they were, the report *)
(* is exactly the strongest one, of a deletion, a replaced token and       *)
(* another bot's identity, or else all of them.  Whether another bot's     *)
(* webhook is reported with its identity is left open here: see            *)
(* MismatchComesAlone.                                                     *)
(***************************************************************************)
Strongest(K) ==
  IF "Deleted" \in K THEN {"Deleted"}
  ELSE IF "TokenRotated" \in K THEN {"TokenRotated"}
  ELSE IF "IdentityMismatch" \in K THEN {"IdentityMismatch"}
  ELSE K

LeftOpen(K) == IF "IdentityMismatch" \in K THEN {"WebhookHijacked"} ELSE {}

QuietProbeIsExact ==
  pc = "done" /\ state # NoState /\ faults = 0 /\ seen = steady =>
    Reported \ LeftOpen(steady) = Strongest(steady)

(***************************************************************************)
(* DriftIdentityMismatch is terminal: "CheckDrift returns immediately with *)
(* just that single drift" (drift.go:115-117), "Nothing else should be     *)
(* reported" (drift_test.go:230).                                          *)
(***************************************************************************)
MismatchComesAlone ==
  "IdentityMismatch" \in Reported => Reported = {"IdentityMismatch"}

(***************************************************************************)
(* "DriftUnreachable: transport-level failure from either getMe or         *)
(* getWebhookInfo" (reconcile/doc.go:26-27).                               *)
(***************************************************************************)
UnreachableIsTransport ==
  "Unreachable" \in Reported => "transport" \in {me.err, hook.err}
=============================================================================
