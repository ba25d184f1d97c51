----------------------------- MODULE Reconcile -----------------------------
(***************************************************************************)
(* reconcile.CheckDrift: a stored record of a managed bot against what     *)
(* getMe and getWebhookInfo showed.                                        *)
(***************************************************************************)
EXTENDS TgApi, Sequences

CONSTANTS
  Bots,        \* ids of managed bots
  NoBot,       \* BotID 0: do not check the identity
  URLs,        \* webhook URLs
  NoURL,       \* "": no webhook, or do not check it
  Names,       \* bot usernames
  NoName       \* "": do not check the username

ASSUME SentinelAssumption == NoBot \notin Bots /\ NoURL \notin URLs /\ NoName \notin Names

State == [BotID : Bots \cup {NoBot}, ExpectedWebhookURL : URLs \cup {NoURL},
          ExpectPrivacyOff : BOOLEAN, LastKnownUsername : Names \cup {NoName}]

DriftKind == {"Deleted", "TokenRotated", "Unreachable", "WebhookHijacked",
              "PrivacyRegression", "UsernameChanged", "IdentityMismatch"}

\* Slip: a stage that finds nothing adds DriftNone.
OnlyOrNone(condition, kind) == <<IF condition THEN kind ELSE "None">>

Only(condition, kind) == IF condition THEN <<kind>> ELSE <<>>

(***************************************************************************)
(* The stages of CheckDrift.  me and hook are outcomes of Client.do.       *)
(***************************************************************************)
Identity(me) ==
  CASE me.err = "nil"             -> <<>>
    [] IsBotDeactivated(me.err)   -> <<"Deleted">>
    [] IsUnauthorized(me.err)     -> <<"TokenRotated">>
    [] OTHER                      -> <<"Unreachable">>

Terminal(me) == IsBotDeactivated(me.err) \/ IsUnauthorized(me.err)

\* Slip: a webhook that could not be read is no drift.
WebhookErrIgnored(state, hook) ==
  Only(/\ state.ExpectedWebhookURL # NoURL /\ hook.err = "nil"
       /\ hook.result # state.ExpectedWebhookURL, "WebhookHijacked")

Webhook(state, hook) ==
  IF state.ExpectedWebhookURL = NoURL THEN <<>>
  ELSE IF hook.err # "nil" THEN <<"Unreachable">>
  ELSE Only(hook.result # state.ExpectedWebhookURL, "WebhookHijacked")

Metadata(state, me) ==
  IF me.err # "nil" THEN <<>>
  ELSE IF state.BotID # NoBot /\ me.result.id # state.BotID THEN <<"IdentityMismatch">>
  ELSE Only(me.result.privacyOff # state.ExpectPrivacyOff, "PrivacyRegression")
         \o Only(state.LastKnownUsername # NoName
                   /\ me.result.username # state.LastKnownUsername, "UsernameChanged")

\* Slip: the check goes on after a terminal failure of getMe.
CheckDriftGoesOn(state, me, hook) ==
  Identity(me) \o Webhook(state, hook) \o Metadata(state, me)

CheckDrift(state, me, hook) ==
  IF Terminal(me) THEN Identity(me)
  ELSE Identity(me) \o Webhook(state, hook) \o Metadata(state, me)
=============================================================================
