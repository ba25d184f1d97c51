------------------------------ MODULE LinkFlow ------------------------------
(***************************************************************************)
(* The way of a nonce through the names: a deployment is configured and    *)
(* started, shows deep links, users make bots of them under the suggested  *)
(* name or another, and the manager finds the nonce in the name again.     *)
(* Three deployments: the handlers of pairing/server behind Mount,         *)
(* examples/alva-like, examples/minimal; and a caller that uses link       *)
(* alone, with names of its own ("direct").  Store calls are atomic.       *)
(***************************************************************************)
EXTENDS LinkNames

CONSTANTS
  Envs,          \* what a deployment may be configured with
  Raws,          \* the strings a caller may want a username made of
  Alva,          \* the prefix "alva"
  AlvaManager,   \* "alva_manager_bot", the manager bot there is
  EditChars,     \* what a user may type into a suggested username
  MaxLinks,      \* bound: nonces registered
  MaxBots        \* bound: bots created

INSTANCE PairingEntries WITH Nonces <- New, Payloads <- Seq(WordChars \cup Capitals) \ {Empty},
                             NoPayload <- Empty

Apps == {"server", "alva", "minimal", "direct"}

ASSUME FlowAssumption ==
  /\ Envs \subseteq
       [app : Apps, secret : BOOLEAN, route : {"", "/slash", "bare"}, hook : {"", "http", "https"},
        prefix : Seq(AnyChar), manager : Seq(AnyChar), name : Seq(AnyChar), mgrPrefix : Seq(AnyChar)]
  /\ Raws \subseteq Seq(AnyChar) /\ EditChars \subseteq AnyChar
  /\ MaxLinks \in Nat /\ MaxBots \in Nat

(***************************************************************************)
(* What is built into examples/minimal makes working links: "alva" and a   *)
(* nonce fit into a username, and "alva_manager_bot" is one.               *)
(***************************************************************************)
ASSUME AlvaAssumption ==
  /\ Alva \in Seq(Letters) /\ Alva # Empty
  /\ Len(Alva) + 5 + DefaultLength <= UsernameMaxLen /\ Len(Alva) <= NameMaxLen
  /\ AlvaManager \in Seq(WordChars) /\ ValidateUsername(AlvaManager)

VARIABLES
  env,       \* the configuration given
  site,      \* the deployment made of it
  links,     \* the link shown for each nonce
  entry,     \* the store
  bots,      \* the bots made of a link: name, nonce of the link, how linking ended
  served,    \* the bot each session was handed
  raw        \* the string a "direct" caller wants a username made of

vars == <<env, site, links, entry, bots, served, raw>>

Down == [app |-> "down", prefix |-> Empty, manager |-> Empty, name |-> Empty, mgrPrefix |-> Empty]

Init ==
  /\ env \in Envs
  /\ site = Down
  /\ links = [n \in New |-> NoLink]
  /\ entry = [n \in New |-> Absent]
  /\ bots = {}
  /\ served = [n \in New |-> Empty]
  /\ raw = Empty

-----------------------------------------------------------------------------
(***************************************************************************)
(* Start-up, which a bad configuration stops before anything is served.    *)
(* An empty secret stops it too: BearerAuth panics, the examples exit.     *)
(***************************************************************************)
Up(app, prefix, manager, name, mgrPrefix) ==
  /\ site = Down /\ env.app = app /\ env.secret
  /\ site' = [app |-> app, prefix |-> prefix, manager |-> manager, name |-> name,
              mgrPrefix |-> mgrPrefix]
  /\ UNCHANGED <<env, links, entry, bots, served, raw>>

ConfigValidate == env.manager # Empty /\ env.prefix # Empty

Mount ==
  /\ ConfigValidate
  /\ env.route # "bare"
  /\ Up("server", env.prefix, env.manager, env.name, env.mgrPrefix)

Getenv(value, fallback) == IF value # Empty THEN value ELSE fallback

(***************************************************************************)
(* The alva-like service uses one prefix for both sides, and registers its *)
(* webhook, which SetWebhook refuses to do under a URL without https.  Of  *)
(* the display name "My Alva" only the length matters.                     *)
(***************************************************************************)
StartAlva ==
  LET prefix == Getenv(env.prefix, Alva) IN
  /\ env.manager # Empty
  /\ env.hook # "http"
  /\ Up("alva", prefix, env.manager, Alva, prefix)

StartMinimal == Up("minimal", Alva, AlvaManager, Alva, Alva)

StartDirect == Up("direct", Empty, AlvaManager, Empty, Empty)

-----------------------------------------------------------------------------
(***************************************************************************)
(* Registration.  An answer that fails leaves no trace of its own; one     *)
(* that is lost, or reports a store that registered the nonce as failing,  *)
(* leaves the entry and shows no link.                                     *)
(***************************************************************************)
LinkFor(n) ==
  LET username == PackIntoUsername(site.prefix, n) IN
  IF username = Empty THEN NoLink ELSE BuildNewBot(site.manager, username, site.name)

Put(n) ==
  /\ Cardinality({m \in New : links[m] # NoLink \/ entry[m] # Absent}) < MaxLinks
  /\ PutReply(entry[n]).err = "ok"
  /\ entry' = [entry EXCEPT ![n] = PutEntry(entry[n])]
  /\ links' \in {links, [links EXCEPT ![n] = LinkFor(n)]}
  /\ UNCHANGED <<env, site, bots, served, raw>>

\* Slip: the entry is stored before the link is known to work.
PostPairStoreFirst(n) == site.app \in {"server", "alva"} /\ Put(n)

PostPair(n) ==
  /\ site.app \in {"server", "alva"}
  /\ LinkFor(n) # NoLink
  /\ Put(n)

(***************************************************************************)
(* The example stores first and builds the link after that, but all that   *)
(* could go wrong with the link is a constant of the program.              *)
(***************************************************************************)
registerHandler(n) == site.app = "minimal" /\ Put(n)

Expire(n) ==
  /\ entry[n] # Absent
  /\ entry' = [entry EXCEPT ![n] = Absent]
  /\ UNCHANGED <<env, site, links, bots, served, raw>>

-----------------------------------------------------------------------------
(***************************************************************************)
(* A user follows the link of a nonce, which names the manager bot there   *)
(* is, and changes the suggested name or its case, or not.  Telegram takes *)
(* any valid name that no other bot has, whatever the case.                *)
(***************************************************************************)
Shout(u) ==
  [i \in DOMAIN u |-> IF \E C \in Capitals : Lower[C] = u[i]
                      THEN CHOOSE C \in Capitals : Lower[C] = u[i] ELSE u[i]]

Edits(u) ==
  {u, Shout(u)} \cup {<<c>> \o u : c \in EditChars}
    \cup {[u EXCEPT ![i] = c] : i \in DOMAIN u, c \in EditChars}

CreateBot(n, name) ==
  /\ links[n] # NoLink /\ ToLower(links[n].manager) = AlvaManager
  /\ Cardinality(bots) < MaxBots
  /\ ValidateUsername(name)
  /\ \A b \in bots : ToLower(b.name) # ToLower(name)
  /\ bots' = bots \cup {[name |-> name, via |-> n, outcome |-> "none"]}
  /\ UNCHANGED <<env, site, links, entry, served, raw>>

(***************************************************************************)
(* The manager completes the pairing it finds in the name, or tells the    *)
(* creator that it cannot.  ErrInvalidState, which the manager takes for   *)
(* success and the example answers with 409, counts as linked.             *)
(***************************************************************************)
Finish(b, outcome) == bots' = (bots \ {b}) \cup {[b EXCEPT !.outcome = outcome]}

Link(b) ==
  LET n == Extract(b.name, site.mgrPrefix) IN
  /\ b.outcome = "none"
  /\ n # Empty
  /\ CompleteReply(entry[n]).err \in {"ok", "ErrInvalidState"}
  /\ entry' = [entry EXCEPT ![n] = CompleteEntry(entry[n], b.name)]
  /\ Finish(b, "linked")
  /\ UNCHANGED <<env, site, links, served, raw>>

DoNotLink(b) ==
  LET n == Extract(b.name, site.mgrPrefix) IN
  /\ b.outcome = "none"
  /\ n # Empty => CompleteReply(entry[n]).err = "ErrNotFound"
  /\ Finish(b, "told")
  /\ UNCHANGED <<env, site, links, entry, served, raw>>

HandleUpdate(b) == site.app \in {"server", "alva"} /\ (Link(b) \/ DoNotLink(b))

(***************************************************************************)
(* The example without a manager: PUT /pair/:nonce from whoever manages    *)
(* the bot, refused before the store is asked if the nonce is malformed.   *)
(***************************************************************************)
completeHandler(b) ==
  /\ site.app = "minimal"
  /\ Validate(Extract(b.name, site.mgrPrefix))
  /\ Link(b) \/ DoNotLink(b)

(***************************************************************************)
(* DELETE /pair/{nonce}, which the example calls fetchHandler, from the    *)
(* session that was shown the nonce.                                       *)
(***************************************************************************)
fetchHandler(n) ==
  /\ links[n] # NoLink
  /\ Validate(n)
  /\ FetchReply(entry[n]).err = "ok"
  /\ served' = [served EXCEPT ![n] = FetchReply(entry[n]).payload]
  /\ entry' = [entry EXCEPT ![n] = FetchEntry(entry[n])]
  /\ UNCHANGED <<env, site, links, bots, raw>>

Suggest ==
  /\ site.app = "direct" /\ raw = Empty
  /\ raw' \in Raws
  /\ UNCHANGED <<env, site, links, entry, bots, served>>

Next ==
  \/ Mount \/ StartAlva \/ StartMinimal \/ StartDirect
  \/ \E n \in New :
       \/ PostPair(n) \/ registerHandler(n) \/ Expire(n) \/ fetchHandler(n)
       \/ \E name \in Edits(links[n].suggested) : CreateBot(n, name)
  \/ \E b \in bots : HandleUpdate(b) \/ completeHandler(b)
  \/ Suggest

Spec == Init /\ [][Next]_vars

-----------------------------------------------------------------------------

LinkOK(l) == ValidateUsername(l.manager) /\ ValidateUsername(l.suggested)

TypeOK ==
  /\ env \in Envs
  /\ site.app \in Apps \cup {"down"}
  /\ \A n \in New :
       /\ links[n] = NoLink \/ LinkOK(links[n])
       /\ entry[n] \in {Absent, Waiting} \cup {Ready(b.name) : b \in bots}
       /\ served[n] \in {Empty} \cup {b.name : b \in bots}
  /\ \A b \in bots :
       ValidateUsername(b.name) /\ b.via \in New /\ b.outcome \in {"none", "linked", "told"}
  /\ raw # Empty => site.app = "direct"

(***************************************************************************)
(* "We want to fail fast without leaving an orphaned Waiting entry"        *)
(* (handlers.go:94-97): a deployment whose links cannot be built registers *)
(* nothing, whatever it was configured with.                               *)
(***************************************************************************)
NoOrphanEntry == \A n \in New : entry[n] # Absent => LinkFor(n) # NoLink

(***************************************************************************)
(* A bot made of a link under the suggested name, in whatever case, leads  *)
(* back to the nonce of that link, if and only if the two sides are        *)
(* configured with the same prefix, up to case (server.go:35-40).          *)
(***************************************************************************)
LinkLeadsBack ==
  \A b \in bots : ToLower(b.name) = links[b.via].suggested =>
    (Extract(b.name, site.mgrPrefix) = b.via <=> ToLower(site.prefix) = ToLower(site.mgrPrefix))

(***************************************************************************)
(* Whatever users type, no two bots lead to one nonce: what Extract leaves *)
(* open of a name is what Telegram leaves open of it, the case.            *)
(***************************************************************************)
OneBotPerNonce ==
  \A a, b \in bots :
    LET n == Extract(a.name, site.mgrPrefix) IN
    n # Empty /\ n = Extract(b.name, site.mgrPrefix) => a = b

(***************************************************************************)
(* The bot a session is handed bears the name its own link suggested, also *)
(* when users edit names, into those of other links too.  With different   *)
(* prefixes on the two sides a link suggests a name that leads nowhere,    *)
(* and only a user who types the other prefix gets a bot through.          *)
(***************************************************************************)
RightName ==
  \A n \in New : served[n] # Empty =>
    /\ ToLower(served[n]) = Named(site.mgrPrefix, n)
    /\ ToLower(site.prefix) = ToLower(site.mgrPrefix) => ToLower(served[n]) = links[n].suggested

(***************************************************************************)
(* SanitizeUsername refuses blank strings and makes a username of every    *)
(* other one, however long it is and whatever is in it ("Returns an error  *)
(* only if the input is empty after cleaning", username.go:50).  Nothing   *)
(* is said here of "bot" and of "bot" behind a single letter.              *)
(***************************************************************************)
Blank    == TrimSpace(raw) = Empty
TooShort == ToLower(TrimSpace(raw)) \in {Bot} \cup {<<c>> \o Bot : c \in Letters}

SanitizeIsTotal == ~TooShort => (SanitizeUsername(raw) = Empty <=> Blank)

(***************************************************************************)
(* It changes nothing but the case of a username that is valid, and so     *)
(* nothing of its own result.                                              *)
(***************************************************************************)
SanitizeKeepsValid ==
  \A u \in {raw, SanitizeUsername(raw)} :
    ValidateUsername(u) => SanitizeUsername(u) = ToLower(u)
=============================================================================
