--------------------------- MODULE DriftProbeProofs ---------------------------
(***************************************************************************)
(* A probe reports nothing that was not there, for any bots, records, URLs *)
(* and usernames, and however often the world changes meanwhile.           *)
(***************************************************************************)
EXTENDS DriftProbe, TLAPS

(***************************************************************************)
(* What the stages of CheckDrift add is in any set that holds the kinds    *)
(* for which there is cause.                                               *)
(***************************************************************************)
LEMMA OnlySeq ==
  ASSUME NEW S, NEW condition \in BOOLEAN, NEW kind, condition => kind \in S
  PROVE  Only(condition, kind) \in Seq(S)
  BY DEF Only

\* Two reports put together are made of the same kinds.
LEMMA ConcatSeq ==
  ASSUME NEW S, NEW s \in Seq(S), NEW t \in Seq(S)
  PROVE  s \o t \in Seq(S)
  OBVIOUS

(***************************************************************************)
(* A report is made of what the two views hold against the record, and of  *)
(* "Unreachable".                                                          *)
(***************************************************************************)
LEMMA ReportSeen ==
  ASSUME MeInv, HookInv, pc = "check"
  PROVE  CheckDrift(state, me, hook) \in Seq(seen \cup {"Unreachable"})
<1> DEFINE S == seen \cup {"Unreachable"}
<1>1. Identity(me) \in Seq(S)
  <2>1. CASE me.err = "nil"
    <3>1. Identity(me) = <<>>
      BY <2>1 DEF Identity, IsBotDeactivated, IsUnauthorized
    <3>2. QED
      BY <3>1
  <2>2. CASE IsBotDeactivated(me.err)
    <3>1. Identity(me) = <<"Deleted">> /\ "Deleted" \in S
      BY <2>2 DEF Identity, IsBotDeactivated, IsUnauthorized, MeInv
    <3>2. QED
      BY <3>1
  <2>3. CASE IsUnauthorized(me.err)
    <3>1. Identity(me) = <<"TokenRotated">> /\ "TokenRotated" \in S
      BY <2>3 DEF Identity, IsBotDeactivated, IsUnauthorized, MeInv
    <3>2. QED
      BY <3>1
  <2>4. CASE me.err # "nil" /\ ~IsBotDeactivated(me.err) /\ ~IsUnauthorized(me.err)
    <3>1. Identity(me) = <<"Unreachable">>
      BY <2>4 DEF Identity
    <3>2. QED
      BY <3>1
  <2>5. QED
    BY <2>1, <2>2, <2>3, <2>4
<1>2. Webhook(state, hook) \in Seq(S)
  <2>1. CASE state.ExpectedWebhookURL = NoURL \/ hook.err # "nil"
    <3>1. Webhook(state, hook) = <<>> \/ Webhook(state, hook) = <<"Unreachable">>
      BY <2>1 DEF Webhook
    <3>2. <<>> \in Seq(S) /\ <<"Unreachable">> \in Seq(S)
      OBVIOUS
    <3>3. QED
      BY <3>1, <3>2
  <2>2. CASE state.ExpectedWebhookURL # NoURL /\ hook.err = "nil"
    <3>1. hook.result # state.ExpectedWebhookURL => "WebhookHijacked" \in S
      BY <2>2 DEF HookInv
    <3>2. Only(hook.result # state.ExpectedWebhookURL, "WebhookHijacked") \in Seq(S)
      BY <3>1, OnlySeq
    <3>3. Webhook(state, hook)
            = Only(hook.result # state.ExpectedWebhookURL, "WebhookHijacked")
      BY <2>2 DEF Webhook
    <3>4. QED
      BY <3>2, <3>3
  <2>3. QED
    BY <2>1, <2>2
<1>3. Metadata(state, me) \in Seq(S)
  <2>1. CASE me.err # "nil"
    BY <2>1 DEF Metadata
  <2>2. CASE me.err = "nil" /\ state.BotID # NoBot /\ me.result.id # state.BotID
    <3>1. "IdentityMismatch" \in S
      BY <2>2 DEF MeInv
    <3>2. QED
      BY <2>2, <3>1 DEF Metadata
  <2>3. CASE me.err = "nil" /\ ~(state.BotID # NoBot /\ me.result.id # state.BotID)
    <3> DEFINE privacy  == me.result.privacyOff # state.ExpectPrivacyOff
               username == /\ state.LastKnownUsername # NoName
                           /\ me.result.username # state.LastKnownUsername
    <3>1. /\ privacy => "PrivacyRegression" \in S
          /\ username => "UsernameChanged" \in S
      BY <2>3 DEF MeInv
    <3>2. /\ Only(privacy, "PrivacyRegression") \in Seq(S)
          /\ Only(username, "UsernameChanged") \in Seq(S)
      BY <3>1, OnlySeq
    <3>3. Metadata(state, me) =
            Only(privacy, "PrivacyRegression") \o Only(username, "UsernameChanged")
      BY <2>3 DEF Metadata
    <3> HIDE DEF privacy, username
    <3>4. QED
      BY <3>2, <3>3, ConcatSeq
  <2>4. QED
    BY <2>1, <2>2, <2>3
<1>4. QED
  BY <1>1, <1>2, <1>3, ConcatSeq DEF CheckDrift

\* What a refusal because of the bot itself, or of its token, comes to.
LEMMA RefusalErrors ==
  do(Deactivated).err = "ErrBotDeactivated" /\ do(Unauthorized).err = "ErrUnauthorized"
  BY DEF do, classify, Refused, Deactivated, Unauthorized

\* No failure on the way is taken for an answer of Telegram about the bot.
LEMMA FailureErrors ==
  \A x \in Failures : do(x).err \in {"transport", "ErrTooManyRequests", "APIError"}
<1> SUFFICES ASSUME NEW x \in Failures
             PROVE  do(x).err \in {"transport", "ErrTooManyRequests", "APIError"}
  OBVIOUS
<1>1. CASE x \in {Lost, Junk}
  BY <1>1 DEF do, Lost, Junk
<1>2. CASE x \in {RateLimited, ServerError, Forbidden}
  <2>1. /\ x.kind = "refused" /\ x.code \in {403, 429, 500} /\ x.desc = "other"
    BY <1>2 DEF Refused, RateLimited, ServerError, Forbidden
  <2>2. do(x).err = classify(x.code, x.desc)
    BY <2>1 DEF do
  <2>3. classify(x.code, x.desc) \in {"ErrTooManyRequests", "APIError"}
    BY <2>1 DEF classify
  <2>4. QED
    BY <2>2, <2>3
<1>3. QED
  BY <1>1, <1>2 DEF Failures

(***************************************************************************)
(* What a call comes to, if not to a failure on the way.                   *)
(***************************************************************************)
LEMMA OutcomeCases ==
  ASSUME NEW t, NEW result, NEW outcome, Calls(BotAPI(t, result), outcome)
  PROVE  /\ IsBotDeactivated(outcome.err) => bot[t.bot].deleted
         /\ IsUnauthorized(outcome.err) => ~bot[t.bot].deleted /\ bot[t.bot].ver # t.ver
         /\ outcome.err = "nil" => outcome.result = result
<1>2. CASE \E x \in Failures : outcome = do(x)
  BY <1>2, FailureErrors DEF IsBotDeactivated, IsUnauthorized
<1>3. CASE outcome = do(BotAPI(t, result))
  <2>1. do(Ok(result)).err = "nil" /\ do(Ok(result)).result = result
    BY DEF do, Ok
  <2>2. QED
    BY <1>3, <2>1, RefusalErrors DEF BotAPI, IsBotDeactivated, IsUnauthorized
<1>4. QED
  BY <1>2, <1>3 DEF Calls

(***************************************************************************)
(* The invariant survives what the owner of a bot does: what was seen      *)
(* stays seen, and what a change brings about is added.                    *)
(***************************************************************************)
LEMMA ChangeStep ==
  ASSUME ProbeInv, NEW b, NEW what, Change(b, what)
  PROVE  ProbeInv'
<1>1. UNCHANGED <<pc, state, me, hook, drifts>> /\ seen \subseteq seen'
  BY DEF Change, probe
<1>2. Looked' => Differences(state, token)' \subseteq seen'
  BY DEF Change, Looked, probe
<1>3. MeInv' /\ HookInv'
  BY <1>1 DEF ProbeInv, MeInv, HookInv
<1>4. (pc # "done" => drifts = <<>>)' /\ EveryDriftWasReal'
  BY <1>1 DEF ProbeInv, EveryDriftWasReal, Reported
<1>5. QED
  BY <1>2, <1>3, <1>4 DEF ProbeInv

(***************************************************************************)
(* The invariant holds when a request begins with a token.                 *)
(***************************************************************************)
LEMMA BeginStep ==
  ASSUME ProbeInv, pc = "start", NEW s, NEW t, Begin(s, t)
  PROVE  ProbeInv'
<1>1. Differences(state, token)' = Differences(s, t)
  BY DEF Begin, Differences
<1>2. drifts' = <<>> /\ pc' = "getMe" /\ seen' = Differences(s, t)
  BY DEF ProbeInv, Begin
<1>3. QED
  BY <1>1, <1>2 DEF ProbeInv, Looked, MeInv, HookInv, EveryDriftWasReal, Reported

(***************************************************************************)
(* ProbeInv is an invariant.                                               *)
(***************************************************************************)
THEOREM ProbeInvariant == Spec => []ProbeInv
<1>1. Init => ProbeInv
  BY DEF Init, ProbeInv, Looked, MeInv, HookInv, EveryDriftWasReal, Reported
<1>2. ProbeInv /\ [Next]_vars => ProbeInv'
  <2> SUFFICES ASSUME ProbeInv, [Next]_vars PROVE ProbeInv'
    OBVIOUS
  <2>1. CASE WorldStep
    <3>1. PICK b \in Bots : \E what : Change(b, what)
      BY <2>1 DEF WorldStep, DeleteBot, ReplaceToken, SetPrivacy, SetWebhook, SetUsername
    <3>2. QED
      BY <3>1, ChangeStep
  <2>2. ASSUME NEW s \in Records, NEW t \in Token, GivenToken(s, t) PROVE ProbeInv'
    BY <2>2, BeginStep DEF GivenToken
  <2>3. ASSUME NEW s \in Records, FreshToken(s) PROVE ProbeInv'
    <3>1. pc = "start"
      BY <2>3 DEF FreshToken
    <3>2. CASE \E t : Begin(s, t)
      BY <3>1, <3>2, BeginStep
    <3>3. CASE pc' = "done" /\ UNCHANGED <<bot, state, token, me, hook, drifts, past>>
      BY <3>1, <3>3 DEF ProbeInv, Looked, MeInv, HookInv, EveryDriftWasReal, Reported
    <3>4. QED
      BY <2>3, <3>2, <3>3 DEF FreshToken
  <2>4. CASE GetMe
    <3>1. /\ pc = "getMe" /\ pc' = "getWebhookInfo" /\ Differences(state, token) \subseteq seen
          /\ UNCHANGED <<bot, state, token, hook, drifts, seen>>
      BY <2>4 DEF GetMe, ProbeInv, Looked, past
    <3>2. Differences(state, token)' = Differences(state, token)
      BY <3>1 DEF Differences
    <3>3. MeInv'
      <4> DEFINE b == bot[token.bot]
                 user == [id |-> token.bot, privacyOff |-> b.privacyOff, username |-> b.username]
      <4>1. Calls(BotAPI(token, user), me')
        BY <2>4 DEF GetMe
      <4>2. /\ IsBotDeactivated(me'.err) => b.deleted
            /\ IsUnauthorized(me'.err) => ~b.deleted /\ b.ver # token.ver
            /\ me'.err = "nil" => me'.result = user
        BY <4>1, OutcomeCases
      <4>3. QED
        BY <3>1, <4>2 DEF MeInv, Differences, DriftKind, IsBotDeactivated, IsUnauthorized
    <3>4. QED
      BY <3>1, <3>2, <3>3 DEF ProbeInv, Looked, HookInv, EveryDriftWasReal, Reported
  <2>5. CASE GetWebhookInfo
    <3>1. /\ pc = "getWebhookInfo" /\ pc' = "check" /\ Differences(state, token) \subseteq seen
          /\ UNCHANGED <<bot, state, token, me, drifts, seen>>
      BY <2>5 DEF GetWebhookInfo, ProbeInv, Looked, past
    <3>2. Differences(state, token)' = Differences(state, token)
      BY <3>1 DEF Differences
    <3>3. HookInv'
      <4>1. Calls(BotAPI(token, bot[token.bot].webhook), hook')
        BY <2>5 DEF GetWebhookInfo
      <4>2. hook'.err = "nil" => hook'.result = bot[token.bot].webhook
        BY <4>1, OutcomeCases
      <4>3. QED
        BY <3>1, <4>2 DEF HookInv, Differences, DriftKind
    <3>4. MeInv'
      BY <3>1 DEF ProbeInv, MeInv
    <3>5. QED
      BY <3>1, <3>2, <3>3, <3>4 DEF ProbeInv, Looked, EveryDriftWasReal, Reported
  <2>6. CASE Check
    <3>1. /\ pc = "check" /\ pc' = "done" /\ seen' = seen
          /\ drifts' = CheckDrift(state, me, hook)
      BY <2>6 DEF Check, past
    <3>2. drifts' \in Seq(seen \cup {"Unreachable"})
      BY <3>1, ReportSeen DEF ProbeInv
    <3>3. EveryDriftWasReal'
      BY <3>1, <3>2 DEF EveryDriftWasReal, Reported
    <3>4. QED
      BY <3>1, <3>3 DEF ProbeInv, Looked, MeInv, HookInv
  <2>7. CASE UNCHANGED vars
    <3>1. UNCHANGED <<bot, pc, state, token, me, hook, drifts, seen>>
      BY <2>7 DEF vars, world, probe, past
    <3>2. QED
      BY <3>1 DEF ProbeInv, Looked, Differences, MeInv, HookInv, EveryDriftWasReal, Reported
  <2>8. QED
    BY <2>1, <2>2, <2>3, <2>4, <2>5, <2>6, <2>7 DEF Next, ProbeStep
<1>3. QED
  BY <1>1, <1>2, PTL DEF Spec

(***************************************************************************)
(* A drift that is reported was there at some time while the probe looked. *)
(***************************************************************************)
THEOREM DriftSoundness == Spec => []EveryDriftWasReal
<1>1. ProbeInv => EveryDriftWasReal
  BY DEF ProbeInv
<1>2. QED
  BY <1>1, ProbeInvariant, PTL

-----------------------------------------------------------------------------

(***************************************************************************)
(* The other direction: what was there all the while is in the views.  A   *)
(* difference that was there when getMe was answered, and still is, made   *)
(* the view differ from the record; a token that was refused was replaced  *)
(* or its bot deleted, unless the call failed on the way.                  *)
(***************************************************************************)
MeShows ==
  pc \in {"getWebhookInfo", "check"} =>
    /\ me.err = "nil" =>
         /\ "Deleted" \notin steady /\ "TokenRotated" \notin steady
         /\ "IdentityMismatch" \in steady =>
              state.BotID # NoBot /\ me.result.id # state.BotID
         /\ "PrivacyRegression" \in steady => me.result.privacyOff # state.ExpectPrivacyOff
         /\ "UsernameChanged" \in steady =>
              state.LastKnownUsername # NoName /\ me.result.username # state.LastKnownUsername
    /\ IsUnauthorized(me.err) => "Deleted" \notin steady
    /\ faults = 0 => me.err = "nil" \/ Terminal(me)

HookShows ==
  pc = "check" =>
    /\ hook.err = "nil" /\ "WebhookHijacked" \in steady =>
         hook.result # state.ExpectedWebhookURL
    /\ faults = 0 /\ hook.err # "nil" => {"Deleted", "TokenRotated"} \cap seen # {}

SteadyInv ==
  /\ pc = "start" => state = NoState
  /\ Looked => steady \subseteq Differences(state, token)
  /\ MeShows /\ HookShows
  /\ SteadyDriftReported /\ QuietProbeIsExact

(***************************************************************************)
(* The kinds in a report.                                                  *)
(***************************************************************************)
Kinds(report) == {report[i] : i \in DOMAIN report}

\* A report of one kind, and one of none.
LEMMA KindsSingle ==
  /\ <<>> \in Seq(DriftKind) /\ Len(<<>>) = 0 /\ Kinds(<<>>) = {}
  /\ \A kind \in DriftKind :
       <<kind>> \in Seq(DriftKind) /\ Len(<<kind>>) = 1 /\ Kinds(<<kind>>) = {kind}
  BY DEF Kinds

\* A stage that adds its kind or nothing.
LEMMA KindsOnly ==
  ASSUME NEW condition \in BOOLEAN, NEW kind
  PROVE  Kinds(Only(condition, kind)) = IF condition THEN {kind} ELSE {}
  BY DEF Only, Kinds

\* Two reports put together are made of the kinds of both.
LEMMA KindsConcat ==
  ASSUME NEW S, NEW s \in Seq(S), NEW t \in Seq(S)
  PROVE  Kinds(s \o t) = Kinds(s) \cup Kinds(t)
<1>1. \A i \in DOMAIN (s \o t) : (s \o t)[i] \in Kinds(s) \cup Kinds(t)
  <2> SUFFICES ASSUME NEW i \in 1 .. Len(s) + Len(t)
               PROVE  (s \o t)[i] \in Kinds(s) \cup Kinds(t)
    OBVIOUS
  <2>1. CASE i <= Len(s)
    <3>1. (s \o t)[i] = s[i] /\ i \in DOMAIN s
      BY <2>1
    <3>2. QED
      BY <3>1 DEF Kinds
  <2>2. CASE i > Len(s)
    <3>1. (s \o t)[i] = t[i - Len(s)] /\ i - Len(s) \in DOMAIN t
      BY <2>2
    <3>2. QED
      BY <3>1 DEF Kinds
  <2>3. QED
    BY <2>1, <2>2
<1>2. \A i \in DOMAIN s : s[i] \in Kinds(s \o t)
  <2> SUFFICES ASSUME NEW i \in DOMAIN s PROVE s[i] \in Kinds(s \o t)
    OBVIOUS
  <2>1. i \in DOMAIN (s \o t) /\ (s \o t)[i] = s[i]
    OBVIOUS
  <2>2. QED
    BY <2>1 DEF Kinds
<1>3. \A i \in DOMAIN t : t[i] \in Kinds(s \o t)
  <2> SUFFICES ASSUME NEW i \in DOMAIN t PROVE t[i] \in Kinds(s \o t)
    OBVIOUS
  <2>1. i + Len(s) \in DOMAIN (s \o t) /\ (s \o t)[i + Len(s)] = t[i]
    OBVIOUS
  <2>2. QED
    BY <2>1 DEF Kinds
<1>4. QED
  BY <1>1, <1>2, <1>3 DEF Kinds

(***************************************************************************)
(* What CheckDrift reports, as a set: of a view that could not be had, its *)
(* cause; else what the views hold against the record.                     *)
(***************************************************************************)
WebhookKinds ==
  IF state.ExpectedWebhookURL = NoURL THEN {}
  ELSE IF hook.err # "nil" THEN {"Unreachable"}
  ELSE IF hook.result # state.ExpectedWebhookURL THEN {"WebhookHijacked"} ELSE {}

MetadataKinds ==
  IF state.BotID # NoBot /\ me.result.id # state.BotID THEN {"IdentityMismatch"}
  ELSE (IF me.result.privacyOff # state.ExpectPrivacyOff THEN {"PrivacyRegression"} ELSE {})
         \cup (IF state.LastKnownUsername # NoName /\ me.result.username # state.LastKnownUsername
               THEN {"UsernameChanged"} ELSE {})

\* The kinds of the two stages that look at the record.
LEMMA StageKinds ==
  /\ Webhook(state, hook) \in Seq(DriftKind) /\ Len(Webhook(state, hook)) <= 1
  /\ Kinds(Webhook(state, hook)) = WebhookKinds
  /\ Metadata(state, me) \in Seq(DriftKind) /\ Len(Metadata(state, me)) <= 2
  /\ me.err = "nil" => Kinds(Metadata(state, me)) = MetadataKinds
  /\ me.err # "nil" => Metadata(state, me) = <<>>
<1>1. /\ Webhook(state, hook) \in Seq(DriftKind) /\ Len(Webhook(state, hook)) <= 1
      /\ Kinds(Webhook(state, hook)) = WebhookKinds
  <2>1. CASE state.ExpectedWebhookURL = NoURL
    <3>1. Webhook(state, hook) = <<>> /\ WebhookKinds = {}
      BY <2>1 DEF Webhook, WebhookKinds
    <3>2. QED
      BY <3>1, KindsSingle
  <2>2. CASE state.ExpectedWebhookURL # NoURL /\ hook.err # "nil"
    <3>1. Webhook(state, hook) = <<"Unreachable">> /\ WebhookKinds = {"Unreachable"}
      BY <2>2 DEF Webhook, WebhookKinds
    <3>2. QED
      BY <3>1, KindsSingle DEF DriftKind
  <2>3. CASE state.ExpectedWebhookURL # NoURL /\ hook.err = "nil"
    <3> DEFINE hijacked == hook.result # state.ExpectedWebhookURL
    <3>1. /\ Webhook(state, hook) = Only(hijacked, "WebhookHijacked")
          /\ WebhookKinds = IF hijacked THEN {"WebhookHijacked"} ELSE {}
      BY <2>3 DEF Webhook, WebhookKinds
    <3>2. hijacked \in BOOLEAN /\ "WebhookHijacked" \in DriftKind
      BY DEF DriftKind
    <3> HIDE DEF hijacked
    <3>3. Only(hijacked, "WebhookHijacked") \in Seq(DriftKind)
      BY <3>2, OnlySeq
    <3>4. Len(Only(hijacked, "WebhookHijacked")) <= 1
      BY DEF Only
    <3>5. QED
      BY <3>1, <3>2, <3>3, <3>4, KindsOnly
  <2>4. QED
    BY <2>1, <2>2, <2>3
<1>2. /\ Metadata(state, me) \in Seq(DriftKind) /\ Len(Metadata(state, me)) <= 2
      /\ me.err = "nil" => Kinds(Metadata(state, me)) = MetadataKinds
  <2>1. CASE me.err # "nil"
    BY <2>1 DEF Metadata
  <2>2. CASE me.err = "nil" /\ state.BotID # NoBot /\ me.result.id # state.BotID
    <3>1. Metadata(state, me) = <<"IdentityMismatch">> /\ MetadataKinds = {"IdentityMismatch"}
      BY <2>2 DEF Metadata, MetadataKinds
    <3>2. QED
      BY <3>1, KindsSingle DEF DriftKind
  <2>3. CASE me.err = "nil" /\ ~(state.BotID # NoBot /\ me.result.id # state.BotID)
    <3> DEFINE privacy  == me.result.privacyOff # state.ExpectPrivacyOff
               username == /\ state.LastKnownUsername # NoName
                           /\ me.result.username # state.LastKnownUsername
               p == Only(privacy, "PrivacyRegression")
               u == Only(username, "UsernameChanged")
    <3>1. /\ Metadata(state, me) = p \o u
          /\ MetadataKinds = (IF privacy THEN {"PrivacyRegression"} ELSE {})
                               \cup (IF username THEN {"UsernameChanged"} ELSE {})
      BY <2>3 DEF Metadata, MetadataKinds
    <3>2. /\ privacy \in BOOLEAN /\ username \in BOOLEAN
          /\ "PrivacyRegression" \in DriftKind /\ "UsernameChanged" \in DriftKind
      BY DEF DriftKind
    <3> HIDE DEF privacy, username
    <3>3. p \in Seq(DriftKind) /\ u \in Seq(DriftKind)
      BY <3>2, OnlySeq
    <3>4. Len(p) \in 0 .. 1 /\ Len(u) \in 0 .. 1
      BY DEF Only
    <3>5. /\ Kinds(p) = IF privacy THEN {"PrivacyRegression"} ELSE {}
          /\ Kinds(u) = IF username THEN {"UsernameChanged"} ELSE {}
      BY <3>2, KindsOnly
    <3> HIDE DEF p, u
    <3>6. p \o u \in Seq(DriftKind) /\ Len(p \o u) <= 2
      <4>1. p \o u \in Seq(DriftKind) /\ Len(p \o u) = Len(p) + Len(u)
        BY <3>3
      <4>2. QED
        BY <3>4, <4>1
    <3>7. QED
      BY <3>1, <3>3, <3>5, <3>6, KindsConcat
  <2>4. QED
    BY <2>1, <2>2, <2>3
<1>3. me.err # "nil" => Metadata(state, me) = <<>>
  BY DEF Metadata
<1>4. QED
  BY <1>1, <1>2, <1>3

\* The report and its kinds.
LEMMA ReportKinds ==
  /\ CheckDrift(state, me, hook) \in Seq(DriftKind)
  /\ Len(CheckDrift(state, me, hook)) <= 3
  /\ Kinds(CheckDrift(state, me, hook)) =
       IF IsBotDeactivated(me.err) THEN {"Deleted"}
       ELSE IF IsUnauthorized(me.err) THEN {"TokenRotated"}
       ELSE IF me.err # "nil" THEN {"Unreachable"} \cup WebhookKinds
       ELSE WebhookKinds \cup MetadataKinds
<1> DEFINE i == Identity(me)
           w == Webhook(state, hook)
           m == Metadata(state, me)
<1>1. i = CASE me.err = "nil" -> <<>>
            [] IsBotDeactivated(me.err) -> <<"Deleted">>
            [] IsUnauthorized(me.err) -> <<"TokenRotated">>
            [] OTHER -> <<"Unreachable">>
  BY DEF Identity
<1>2. /\ w \in Seq(DriftKind) /\ Len(w) <= 1 /\ Kinds(w) = WebhookKinds
      /\ m \in Seq(DriftKind) /\ Len(m) <= 2
      /\ me.err = "nil" => Kinds(m) = MetadataKinds
      /\ me.err # "nil" => m = <<>>
  BY StageKinds
<1>3. CheckDrift(state, me, hook) = IF Terminal(me) THEN i ELSE i \o w \o m
  BY DEF CheckDrift
<1> HIDE DEF i, w, m
<1>4. CASE IsBotDeactivated(me.err)
  <2>1. i = <<"Deleted">> /\ CheckDrift(state, me, hook) = i
    BY <1>1, <1>3, <1>4 DEF IsBotDeactivated, IsUnauthorized, Terminal
  <2>2. QED
    BY <1>4, <2>1, KindsSingle DEF DriftKind
<1>5. CASE IsUnauthorized(me.err)
  <2>1. i = <<"TokenRotated">> /\ CheckDrift(state, me, hook) = i /\ ~IsBotDeactivated(me.err)
    BY <1>1, <1>3, <1>5 DEF IsBotDeactivated, IsUnauthorized, Terminal
  <2>2. QED
    BY <1>5, <2>1, KindsSingle DEF DriftKind
<1>6. CASE me.err = "nil"
  <2>1. i = <<>> /\ ~IsBotDeactivated(me.err) /\ ~IsUnauthorized(me.err)
    BY <1>1, <1>6 DEF IsBotDeactivated, IsUnauthorized
  <2>2. CheckDrift(state, me, hook) = w \o m
    <3>1. i \o w = w
      BY <1>2, <2>1
    <3>2. QED
      BY <1>3, <2>1, <3>1 DEF Terminal
  <2>3. w \o m \in Seq(DriftKind) /\ Len(w \o m) <= 3
    BY <1>2
  <2>4. QED
    BY <1>2, <1>6, <2>1, <2>2, <2>3, KindsConcat
<1>7. CASE me.err # "nil" /\ ~IsBotDeactivated(me.err) /\ ~IsUnauthorized(me.err)
  <2>1. i = <<"Unreachable">> /\ m = <<>> /\ i \in Seq(DriftKind)
    BY <1>1, <1>2, <1>7 DEF DriftKind
  <2>2. CheckDrift(state, me, hook) = i \o w
    <3>1. (i \o w) \o m = i \o w
      BY <1>2, <2>1
    <3>2. QED
      BY <1>3, <1>7, <3>1 DEF Terminal
  <2>3. i \o w \in Seq(DriftKind) /\ Len(i \o w) <= 3
    <3>1. i \in Seq(DriftKind) /\ w \in Seq(DriftKind)
      BY <1>2, <2>1
    <3>2. i \o w \in Seq(DriftKind) /\ Len(i \o w) = Len(i) + Len(w)
      BY <3>1
    <3>3. Len(i) = 1 /\ Len(w) \in Nat /\ Len(w) <= 1
      BY <1>2, <2>1
    <3>4. QED
      BY <3>2, <3>3
  <2>4. Kinds(i) = {"Unreachable"}
    BY <2>1, KindsSingle DEF DriftKind
  <2>5. Kinds(i \o w) = {"Unreachable"} \cup WebhookKinds
    <3>1. i \in Seq(DriftKind) /\ w \in Seq(DriftKind)
      BY <1>2, <2>1
    <3>2. Kinds(i \o w) = Kinds(i) \cup Kinds(w)
      BY <3>1, KindsConcat
    <3>3. QED
      BY <1>2, <2>4, <3>2
  <2>6. QED
    BY <1>7, <2>2, <2>3, <2>5
<1>8. QED
  BY <1>4, <1>5, <1>6, <1>7

-----------------------------------------------------------------------------

\* What Calls does to the count of failures.
LEMMA FaultsCounted ==
  ASSUME faults \in 0 .. MaxFaults, NEW answer, NEW outcome, Calls(answer, outcome)
  PROVE  /\ faults' \in 0 .. MaxFaults
         /\ faults' = 0 => faults = 0 /\ outcome = do(answer)
  BY ProbeAssumption DEF Calls

\* An answer is what it is, and a failure on the way is not an answer.
LEMMA OkOutcome ==
  ASSUME NEW answer, NEW outcome, Calls(answer, outcome), outcome.err = "nil"
  PROVE  outcome = do(answer)
  BY FailureErrors DEF Calls

\* What happens in the world keeps the types.
LEMMA WorldTypes ==
  ASSUME TypeOK, WorldStep
  PROVE  TypeOK'
<1> DEFINE Bot == [deleted : BOOLEAN, ver : 0 .. MaxVer, webhook : URLs \cup {NoURL},
                   privacyOff : BOOLEAN, username : Names]
<1>1. PICK b \in Bots :
        \/ DeleteBot(b) \/ ReplaceToken(b) \/ SetPrivacy(b)
        \/ \E u \in URLs \cup {NoURL} : SetWebhook(b, u)
        \/ \E n \in Names : SetUsername(b, n)
  BY DEF WorldStep
<1>2. bot[b] \in Bot /\ bot \in [Bots -> Bot]
  BY DEF TypeOK
<1>3. \E what \in Bot : Change(b, what)
  <2>1. CASE DeleteBot(b)
    BY <1>2, <2>1 DEF DeleteBot
  <2>2. CASE ReplaceToken(b)
    <3>1. bot[b].ver + 1 \in 0 .. MaxVer
      BY <1>2, <2>2, ProbeAssumption DEF ReplaceToken
    <3>2. [bot[b] EXCEPT !.ver = @ + 1] \in Bot
      BY <1>2, <3>1
    <3>3. QED
      BY <2>2, <3>2 DEF ReplaceToken
  <2>3. CASE SetPrivacy(b)
    BY <1>2, <2>3 DEF SetPrivacy
  <2>4. CASE \E u \in URLs \cup {NoURL} : SetWebhook(b, u)
    BY <1>2, <2>4 DEF SetWebhook
  <2>5. CASE \E n \in Names : SetUsername(b, n)
    BY <1>2, <2>5 DEF SetUsername
  <2>6. QED
    BY <1>1, <2>1, <2>2, <2>3, <2>4, <2>5
<1>4. PICK what \in Bot : Change(b, what)
  BY <1>3
<1>5. bot' \in [Bots -> Bot]
  BY <1>2, <1>4 DEF Change
<1>6. Differences(state, token)' \subseteq DriftKind
  BY DEF Differences
<1>7. seen' \subseteq DriftKind /\ steady' \subseteq DriftKind
  BY <1>4, <1>6 DEF Change, TypeOK
<1>8. QED
  BY <1>4, <1>5, <1>7 DEF Change, probe, TypeOK

(***************************************************************************)
(* Every variable keeps its type; a report has three kinds at most.        *)
(***************************************************************************)
THEOREM ProbeTypes == Spec => []TypeOK
<1>1. Init => TypeOK
  <2> SUFFICES ASSUME Init PROVE TypeOK
    OBVIOUS
  <2>1. NotAsked \in Outcome(User) /\ NotAsked \in Outcome(URLs \cup {NoURL})
    BY DEF NotAsked, Outcome
  <2>2. bot \in [Bots -> [deleted : BOOLEAN, ver : 0 .. MaxVer, webhook : URLs \cup {NoURL},
                          privacyOff : BOOLEAN, username : Names]]
    <3>1. 0 \in 0 .. MaxVer
      BY ProbeAssumption
    <3>2. QED
      BY <3>1 DEF Init
  <2>3. drifts \in Seq(DriftKind) /\ Len(drifts) <= 3
    BY KindsSingle DEF Init
  <2>4. QED
    BY <2>1, <2>2, <2>3, ProbeAssumption DEF Init, TypeOK
<1>2. TypeOK /\ [Next]_vars => TypeOK'
  <2> SUFFICES ASSUME TypeOK, [Next]_vars PROVE TypeOK'
    OBVIOUS
  <2>1. CASE WorldStep
    BY <2>1, WorldTypes
  <2>2. ASSUME NEW s \in Records, NEW t \in Token, Begin(s, t), faults' \in 0 .. MaxFaults
        PROVE  TypeOK'
    <3>1. Differences(s, t) \subseteq DriftKind
      BY DEF Differences
    <3>2. QED
      BY <2>2, <3>1 DEF Begin, TypeOK
  <2>3. ASSUME NEW s \in Records, NEW t \in Token, GivenToken(s, t)
        PROVE  TypeOK'
    BY <2>2, <2>3 DEF GivenToken, TypeOK
  <2>4. ASSUME NEW s \in Records, FreshToken(s)
        PROVE  TypeOK'
    <3> DEFINE fresh == [bot |-> s.BotID, ver |-> bot[s.BotID].ver]
               answer == IF bot[s.BotID].deleted THEN Deactivated ELSE Ok(fresh)
    <3>1. s.BotID \in Bots
      BY <2>4, ProbeAssumption DEF FreshToken, State
    <3>2. fresh \in Token
      BY <3>1 DEF TypeOK, Token
    <3>3. PICK x \in {answer, Unauthorized}, outcome \in Outcome(Token) :
            /\ Calls(x, outcome)
            /\ \/ outcome.err = "nil" /\ Begin(s, outcome.result)
               \/ /\ outcome.err # "nil"
                  /\ pc' = "done"
                  /\ UNCHANGED <<bot, state, token, me, hook, drifts, past>>
      BY <2>4 DEF FreshToken
    <3> HIDE DEF fresh
    <3>4. faults' \in 0 .. MaxFaults
      BY <3>3, FaultsCounted DEF TypeOK
    <3>5. CASE outcome.err = "nil" /\ Begin(s, outcome.result)
      <4>1. outcome = do(x)
        BY <3>3, <3>5, OkOutcome
      <4>2. x = Ok(fresh)
        <5>1. x # Deactivated /\ x # Unauthorized
          BY <3>5, <4>1, RefusalErrors
        <5>2. QED
          BY <5>1
      <4>3. outcome.result = fresh
        BY <4>1, <4>2 DEF do, Ok
      <4>4. QED
        BY <2>2, <3>2, <3>4, <3>5, <4>3
    <3>6. CASE pc' = "done" /\ UNCHANGED <<bot, state, token, me, hook, drifts, past>>
      BY <3>4, <3>6 DEF past, TypeOK
    <3>7. QED
      BY <3>3, <3>5, <3>6
  <2>5. CASE GetMe
    <3>1. faults' \in 0 .. MaxFaults
      BY <2>5, FaultsCounted DEF GetMe, TypeOK
    <3>2. QED
      BY <2>5, <3>1 DEF GetMe, past, TypeOK
  <2>6. CASE GetWebhookInfo
    <3>1. faults' \in 0 .. MaxFaults
      BY <2>6, FaultsCounted DEF GetWebhookInfo, TypeOK
    <3>2. QED
      BY <2>6, <3>1 DEF GetWebhookInfo, past, TypeOK
  <2>7. CASE Check
    <3>1. drifts' \in Seq(DriftKind) /\ Len(drifts') <= 3
      BY <2>7, ReportKinds DEF Check
    <3>2. QED
      BY <2>7, <3>1 DEF Check, past, TypeOK
  <2>8. CASE UNCHANGED vars
    BY <2>8 DEF vars, world, probe, past, TypeOK
  <2>9. QED
    BY <2>1, <2>3, <2>4, <2>5, <2>6, <2>7, <2>8 DEF Next, ProbeStep
<1>3. QED
  BY <1>1, <1>2, PTL DEF Spec

-----------------------------------------------------------------------------

(***************************************************************************)
(* What the report makes of the two views, when the drifts that were there *)
(* all the while are in them.                                              *)
(***************************************************************************)
LEMMA ReportComplete ==
  ASSUME ProbeInv, MeShows, HookShows, pc = "check", steady \subseteq Differences(state, token),
         NEW K, K = Kinds(CheckDrift(state, me, hook))
  PROVE  /\ steady \subseteq K \/ K \cap Excuses # {}
         /\ faults = 0 /\ seen = steady => K \ LeftOpen(steady) = Strongest(steady)
<1>1. /\ "Unreachable" \notin steady /\ steady \subseteq DriftKind
      /\ "WebhookHijacked" \in steady => state.ExpectedWebhookURL # NoURL
  BY DEF Differences
<1>2. CASE IsBotDeactivated(me.err)
  <2>1. K = {"Deleted"}
    BY <1>2, ReportKinds
  <2>2. "Deleted" \in seen
    BY <1>2 DEF ProbeInv, MeInv
  <2>3. QED
    BY <2>1, <2>2 DEF Excuses, Strongest, LeftOpen
<1>3. CASE IsUnauthorized(me.err)
  <2>1. K = {"TokenRotated"}
    BY <1>3, ReportKinds DEF IsBotDeactivated, IsUnauthorized
  <2>2. "TokenRotated" \in seen /\ "Deleted" \notin steady
    BY <1>3 DEF ProbeInv, MeInv, MeShows
  <2>3. QED
    BY <2>1, <2>2 DEF Excuses, Strongest, LeftOpen
<1>4. CASE me.err # "nil" /\ ~IsBotDeactivated(me.err) /\ ~IsUnauthorized(me.err)
  <2>1. "Unreachable" \in K
    BY <1>4, ReportKinds
  <2>2. faults # 0
    BY <1>4 DEF MeShows, Terminal
  <2>3. QED
    BY <2>1, <2>2 DEF Excuses
<1>5. CASE me.err = "nil"
  <2>1. K = WebhookKinds \cup MetadataKinds
    BY <1>5, ReportKinds DEF IsBotDeactivated, IsUnauthorized
  <2>2. /\ "Deleted" \notin steady /\ "TokenRotated" \notin steady
        /\ "IdentityMismatch" \in steady => state.BotID # NoBot /\ me.result.id # state.BotID
        /\ "PrivacyRegression" \in steady => me.result.privacyOff # state.ExpectPrivacyOff
        /\ "UsernameChanged" \in steady =>
             state.LastKnownUsername # NoName /\ me.result.username # state.LastKnownUsername
    BY <1>5 DEF MeShows
  <2>3. "WebhookHijacked" \in steady => WebhookKinds \in {{"WebhookHijacked"}, {"Unreachable"}}
    BY <1>1 DEF HookShows, WebhookKinds
  <2>4. steady \subseteq K \/ K \cap Excuses # {}
    <3>1. CASE "IdentityMismatch" \in MetadataKinds \/ "Unreachable" \in WebhookKinds
      BY <2>1, <3>1 DEF Excuses
    <3>2. CASE "IdentityMismatch" \notin MetadataKinds /\ "Unreachable" \notin WebhookKinds
      <4>1. ~(state.BotID # NoBot /\ me.result.id # state.BotID)
        BY <3>2 DEF MetadataKinds
      <4>2. MetadataKinds =
              (IF me.result.privacyOff # state.ExpectPrivacyOff THEN {"PrivacyRegression"} ELSE {})
                \cup (IF state.LastKnownUsername # NoName
                           /\ me.result.username # state.LastKnownUsername
                      THEN {"UsernameChanged"} ELSE {})
        BY <4>1 DEF MetadataKinds
      <4>3. "WebhookHijacked" \in steady => "WebhookHijacked" \in WebhookKinds
        BY <2>3, <3>2
      <4>4. steady \subseteq {"WebhookHijacked", "PrivacyRegression", "UsernameChanged"}
        BY <1>1, <2>2, <4>1 DEF DriftKind
      <4>5. QED
        BY <2>1, <2>2, <4>2, <4>3, <4>4
    <3>3. QED
      BY <3>1, <3>2
  <2>5. ASSUME faults = 0, seen = steady
        PROVE  K \ LeftOpen(steady) = Strongest(steady)
    <3>1. hook.err = "nil"
      BY <2>2, <2>5 DEF HookShows
    <3>2. WebhookKinds = steady \cap {"WebhookHijacked"}
      <4>1. CASE "WebhookHijacked" \in steady
        BY <1>1, <3>1, <4>1 DEF HookShows, WebhookKinds
      <4>2. CASE "WebhookHijacked" \notin steady
        BY <2>5, <3>1, <4>2 DEF ProbeInv, HookInv, WebhookKinds
      <4>3. QED
        BY <4>1, <4>2
    <3>3. "IdentityMismatch" \in steady <=> state.BotID # NoBot /\ me.result.id # state.BotID
      BY <1>5, <2>2, <2>5 DEF ProbeInv, MeInv
    <3>4. CASE "IdentityMismatch" \in steady
      <4>1. MetadataKinds = {"IdentityMismatch"}
        BY <3>3, <3>4 DEF MetadataKinds
      <4>2. Strongest(steady) = {"IdentityMismatch"} /\ LeftOpen(steady) = {"WebhookHijacked"}
        BY <2>2, <3>4 DEF Strongest, LeftOpen
      <4>3. QED
        BY <2>1, <3>2, <4>1, <4>2
    <3>5. CASE "IdentityMismatch" \notin steady
      <4>1. /\ "PrivacyRegression" \in steady <=> me.result.privacyOff # state.ExpectPrivacyOff
            /\ "UsernameChanged" \in steady <=>
                 state.LastKnownUsername # NoName /\ me.result.username # state.LastKnownUsername
        BY <1>5, <2>2, <2>5 DEF ProbeInv, MeInv
      <4>2. MetadataKinds = steady \cap {"PrivacyRegression", "UsernameChanged"}
        BY <3>3, <3>5, <4>1 DEF MetadataKinds
      <4>3. Strongest(steady) = steady /\ LeftOpen(steady) = {}
        BY <2>2, <3>5 DEF Strongest, LeftOpen
      <4>4. steady \subseteq {"WebhookHijacked", "PrivacyRegression", "UsernameChanged"}
        BY <1>1, <2>2, <3>5 DEF DriftKind
      <4>5. QED
        BY <2>1, <3>2, <4>2, <4>3, <4>4
    <3>6. QED
      BY <3>4, <3>5
  <2>6. QED
    BY <2>4, <2>5
<1>6. QED
  BY <1>2, <1>3, <1>4, <1>5

\* The error of a call that is answered.
LEMMA AnswerError ==
  ASSUME NEW t, NEW result
  PROVE  do(BotAPI(t, result)).err =
           IF bot[t.bot].deleted THEN "ErrBotDeactivated"
           ELSE IF bot[t.bot].ver # t.ver THEN "ErrUnauthorized" ELSE "nil"
<1>1. do(Ok(result)).err = "nil"
  BY DEF do, Ok
<1>2. QED
  BY <1>1, RefusalErrors DEF BotAPI

(***************************************************************************)
(* SteadyInv is an invariant.                                              *)
(***************************************************************************)
THEOREM SteadyInvariant == Spec => []SteadyInv
<1>1. Init => SteadyInv
  BY DEF Init, SteadyInv, Looked, MeShows, HookShows, SteadyDriftReported, QuietProbeIsExact
<1>2. TypeOK /\ ProbeInv /\ SteadyInv /\ [Next]_vars => SteadyInv'
  <2> SUFFICES ASSUME TypeOK, ProbeInv, SteadyInv, [Next]_vars PROVE SteadyInv'
    OBVIOUS
  <2>1. CASE WorldStep
    <3>1. pc # "done" /\ \E b \in Bots : \E what : Change(b, what)
      BY <2>1 DEF WorldStep, DeleteBot, ReplaceToken, SetPrivacy, SetWebhook, SetUsername
    <3>2. /\ UNCHANGED <<pc, state, token, me, hook, faults>>
          /\ seen \subseteq seen' /\ steady' \subseteq steady
          /\ Looked => steady' \subseteq Differences(state, token)'
      BY <3>1 DEF Change, probe
    <3>3. (Looked => steady \subseteq Differences(state, token))'
      BY <3>2 DEF Looked
    <3>4. MeShows' /\ HookShows'
      BY <3>2 DEF SteadyInv, MeShows, HookShows, Terminal
    <3>5. (pc = "start" => state = NoState)' /\ SteadyDriftReported' /\ QuietProbeIsExact'
      BY <3>1, <3>2 DEF SteadyInv, SteadyDriftReported, QuietProbeIsExact
    <3>6. QED
      BY <3>3, <3>4, <3>5 DEF SteadyInv
  <2>2. ASSUME NEW s, NEW t, Begin(s, t)
        PROVE  SteadyInv'
    <3>1. pc' = "getMe" /\ steady' = Differences(state, token)'
      BY <2>2 DEF Begin, Differences
    <3>2. QED
      BY <3>1 DEF SteadyInv, Looked, MeShows, HookShows, SteadyDriftReported, QuietProbeIsExact
  <2>3. ASSUME NEW s \in Records, FreshToken(s)
        PROVE  SteadyInv'
    <3>1. CASE \E t : Begin(s, t)
      BY <2>2, <3>1
    <3>2. CASE pc' = "done" /\ UNCHANGED <<bot, state, token, me, hook, drifts, past>>
      <4>1. state' = NoState
        BY <2>3, <3>2 DEF FreshToken, SteadyInv
      <4>2. QED
        BY <3>2, <4>1
        DEF SteadyInv, Looked, MeShows, HookShows, SteadyDriftReported, QuietProbeIsExact
    <3>3. QED
      BY <2>3, <3>1, <3>2 DEF FreshToken
  <2>4. CASE GetMe
    <3> DEFINE b == bot[token.bot]
               user == [id |-> token.bot, privacyOff |-> b.privacyOff, username |-> b.username]
    <3>1. /\ pc = "getMe" /\ pc' = "getWebhookInfo" /\ steady \subseteq Differences(state, token)
          /\ UNCHANGED <<bot, state, token, hook, drifts, seen, steady>>
          /\ Calls(BotAPI(token, user), me')
      BY <2>4 DEF GetMe, SteadyInv, Looked, past
    <3>2. Differences(state, token)' = Differences(state, token)
      BY <3>1 DEF Differences
    <3>3. /\ IsUnauthorized(me'.err) => ~b.deleted
          /\ me'.err = "nil" => me'.result = user
      BY <3>1, OutcomeCases
    <3>4. me'.err = "nil" => ~b.deleted /\ b.ver = token.ver
      <4>1. me'.err = "nil" => me' = do(BotAPI(token, user))
        BY <3>1, OkOutcome
      <4>2. QED
        BY <4>1, AnswerError
    <3>5. faults' = 0 => me'.err = "nil" \/ IsBotDeactivated(me'.err) \/ IsUnauthorized(me'.err)
      <4>1. faults' = 0 => me' = do(BotAPI(token, user))
        BY <3>1, FaultsCounted DEF TypeOK
      <4>2. do(BotAPI(token, user)).err \in {"nil", "ErrBotDeactivated", "ErrUnauthorized"}
        BY AnswerError
      <4>3. QED
        BY <4>1, <4>2 DEF IsBotDeactivated, IsUnauthorized
    <3>6. /\ "Deleted" \in steady => b.deleted
          /\ "TokenRotated" \in steady => b.ver # token.ver
          /\ "IdentityMismatch" \in steady => state.BotID # NoBot /\ user.id # state.BotID
          /\ "PrivacyRegression" \in steady => user.privacyOff # state.ExpectPrivacyOff
          /\ "UsernameChanged" \in steady =>
               state.LastKnownUsername # NoName /\ user.username # state.LastKnownUsername
      BY <3>1 DEF Differences
    <3> HIDE DEF user
    <3>7. MeShows'
      BY <3>1, <3>3, <3>4, <3>5, <3>6 DEF MeShows, Terminal
    <3>8. QED
      BY <3>1, <3>2, <3>7
      DEF SteadyInv, Looked, HookShows, SteadyDriftReported, QuietProbeIsExact
  <2>5. CASE GetWebhookInfo
    <3> DEFINE b == bot[token.bot]
    <3>1. /\ pc = "getWebhookInfo" /\ pc' = "check" /\ steady \subseteq Differences(state, token)
          /\ Differences(state, token) \subseteq seen
          /\ UNCHANGED <<bot, state, token, me, drifts, seen, steady>>
          /\ Calls(BotAPI(token, b.webhook), hook')
      BY <2>5 DEF GetWebhookInfo, SteadyInv, ProbeInv, Looked, past
    <3>2. Differences(state, token)' = Differences(state, token)
      BY <3>1 DEF Differences
    <3>3. hook'.err = "nil" => hook'.result = b.webhook
      BY <3>1, OutcomeCases
    <3>4. faults' = 0 => faults = 0 /\ hook' = do(BotAPI(token, b.webhook))
      BY <3>1, FaultsCounted DEF TypeOK
    <3>5. do(BotAPI(token, b.webhook)).err # "nil" =>
            {"Deleted", "TokenRotated"} \cap Differences(state, token) # {}
      <4>1. do(BotAPI(token, b.webhook)).err # "nil" => b.deleted \/ b.ver # token.ver
        BY AnswerError
      <4>2. b.deleted => "Deleted" \in Differences(state, token)
        BY DEF Differences, DriftKind
      <4>3. ~b.deleted /\ b.ver # token.ver => "TokenRotated" \in Differences(state, token)
        BY DEF Differences, DriftKind
      <4>4. QED
        BY <4>1, <4>2, <4>3
    <3>6. "WebhookHijacked" \in steady => b.webhook # state.ExpectedWebhookURL
      BY <3>1 DEF Differences
    <3>7. HookShows'
      BY <3>1, <3>3, <3>4, <3>5, <3>6 DEF HookShows
    <3>8. MeShows'
      BY <3>1, <3>4 DEF SteadyInv, MeShows, Terminal
    <3>9. QED
      BY <3>1, <3>2, <3>7, <3>8 DEF SteadyInv, Looked, SteadyDriftReported, QuietProbeIsExact
  <2>6. CASE Check
    <3>1. /\ pc = "check" /\ pc' = "done" /\ drifts' = CheckDrift(state, me, hook)
          /\ UNCHANGED <<state, faults, seen, steady>>
      BY <2>6 DEF Check, past
    <3>2. Reported' = Kinds(CheckDrift(state, me, hook))
      BY <3>1 DEF Reported, Kinds
    <3>3. /\ steady \subseteq Reported' \/ Reported' \cap Excuses # {}
          /\ faults = 0 /\ seen = steady => Reported' \ LeftOpen(steady) = Strongest(steady)
      BY <3>1, <3>2, ReportComplete DEF SteadyInv, Looked
    <3>4. SteadyDriftReported' /\ QuietProbeIsExact'
      BY <3>1, <3>3 DEF SteadyDriftReported, QuietProbeIsExact, LeftOpen, Strongest
    <3>5. QED
      BY <3>1, <3>4 DEF SteadyInv, Looked, MeShows, HookShows
  <2>7. CASE UNCHANGED vars
    <3>1. UNCHANGED <<bot, pc, state, token, me, hook, drifts, faults, seen, steady>>
      BY <2>7 DEF vars, world, probe, past
    <3>2. QED
      BY <3>1 DEF SteadyInv, Looked, Differences, MeShows, HookShows, Terminal,
                  SteadyDriftReported, QuietProbeIsExact, Reported
  <2>8. QED
    BY <2>1, <2>2, <2>3, <2>4, <2>5, <2>6, <2>7 DEF Next, ProbeStep, GivenToken
<1>3. QED
  BY <1>1, <1>2, ProbeTypes, ProbeInvariant, PTL DEF Spec

(***************************************************************************)
(* A drift that was there all the while is reported, or the report says    *)
(* why it could not be seen.                                               *)
(***************************************************************************)
THEOREM DriftCompleteness == Spec => []SteadyDriftReported
<1>1. SteadyInv => SteadyDriftReported
  BY DEF SteadyInv
<1>2. QED
  BY <1>1, SteadyInvariant, PTL

(***************************************************************************)
(* If no call failed and nothing changed, the report is exactly the        *)
(* strongest of the drifts, but for the webhook of another bot.            *)
(***************************************************************************)
THEOREM QuietExactness == Spec => []QuietProbeIsExact
<1>1. SteadyInv => QuietProbeIsExact
  BY DEF SteadyInv
<1>2. QED
  BY <1>1, SteadyInvariant, PTL
=============================================================================
