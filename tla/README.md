# Verification of tg-managed-bot-go

TLA+ modules, TLC runs and TLAPS proofs about the pairing protocol of
`tg-managed-bot-go`: how the token of a *managed bot*, which a user creates in
Telegram, gets back to the client session that asked for it, once and to no one
else.

## 1. The system

A client session asks the pairing server for a nonce and a deep link. The nonce
is part of the bot username the link suggests. A user follows the link and
creates the bot; Telegram then sends the manager bot a `managed_bot_created`
update. The manager takes the nonce out of the username, fetches the bot's
token and completes the pairing in the store. The session, which has been
polling, consumes the token.

```
 session ── POST /pair ──► pairing/server ── Put ────────────► store
    │                                                          ▲  │
    │  deep link, nonce                                Complete│  │FetchAndDelete
    ▼                                                          │  ▼
  user ── creates bot ──► Telegram ── webhook ──► manager ─────┘  pairing/server ◄── DELETE /pair/{nonce} ── session
                                                     │
                                                     └── fallback message to the creator
```

### Components

| component | state | operations | talks to |
|---|---|---|---|
| `pairing` (`store.go`) | per nonce: absent, Waiting, Ready with token and username, deadline | `Put`, `Complete`, `FetchAndDelete` | interface only |
| memory store (`pairing/memory.go`) | a map, a mutex | the same and `Len`, `sweepLocked` | its callers, concurrently |
| `pairing/stores/redis` | one Redis hash per nonce, with PEXPIRE | three Lua scripts, one per operation | Redis |
| `pairing/server` | none of its own (`Config`) | `POST /pair`, `PUT /pair/{nonce}`, `DELETE /pair/{nonce}` | store, `nonce`, `link`, clients, remote managers |
| `manager` | none of its own (`Handler`) | `HandleUpdate`, in three stages, and the fallback | Telegram, `nonce`, store |
| `tgapi` | token, base URL | `GetMe`, `GetManagedBotToken`, `ReplaceManagedBotToken`, `GetWebhookInfo`, `SendMessage`, `SetWebhook`; `classify` | Telegram |
| `nonce` | none | `NewN`, `PackIntoUsername`, `ExtractN`, `Validate` | - |
| `link` | none | `BuildNewBot`, `ValidateUsername`, `SanitizeUsername` | - |
| `reconcile` | none | `CheckDrift` on a stored `State` and an `Observed` | results of `tgapi` |
| `examples/alva-like` | the store and handler it wires together | `managerWebhook`, `driftProbe`, start-up | everything above |
| `examples/minimal` | a memory store | its own copy of the three HTTP handlers | store, `nonce`, `link` |

### What is hard

- **Deliveries repeat.** Telegram delivers an update until one delivery is
  answered 2xx, and replicas may handle it at the same time. `Complete` then runs
  on an entry that is Waiting, Ready, consumed or expired, and the handler
  decides by the error it gets.
- **Calls fail half-way.** A store call may fail after its effect, a message may
  be sent and reported as failed, a process may die between `Complete` and the
  200, a response may be lost after `FetchAndDelete` deleted the entry.
- **Entries expire** between any two steps, and `Complete` does not extend the
  deadline.
- **Users act meanwhile**: the bot is deleted, or its token replaced, between
  two stages of `HandleUpdate`; a link is followed long after its session ended;
  the username is edited.
- **The memory store reads the clock twice** in a call and may wait for its mutex
  first.
- **Redis is behind a network.** A script may have run although the call failed, run
  twice because go-redis sends it again, or run after everybody gave it up.
- **A nonce travels in a username**, through a link, a dialog in which the user may
  change it, and an update; the two sides build and read it with a prefix and
  lengths each is configured with on its own.
- **A drift probe looks twice**, with `getMe` and `getWebhookInfo`, at a bot that may change
  in between.

What makes each component correct: a store hands every token out at most once and
never exchanges one for another; the memory store does so under its mutex, keeps
expired entries from its callers and never keeps the mutex; the server gives a
session the token of the bot made from its own link; the manager answers 200 only
when the token reached the store or the creator was told otherwise, tells no one
of a failure whose token can still be fetched, and answers every update in the
end; a name leads back to the nonce it was made of, and no other name does; a
configuration whose links do not work registers nothing; a probe reports what was there and passes over nothing that was there all the time.

## 2. The modules

| module | what it is |
|---|---|
| `PairingEntries` | an entry, the answers, and what the three operations answer and leave behind, as functions of the entry they find |
| `PairingStore` | abstract specification: the `Store` contract as a concurrent object (call, atomic effect, return) with a clock |
| `MemoryStore` | `pairing/memory.go`, step by step; implements `PairingStore` |
| `AtLeastOnceStore` | abstract specification: `PairingStore` behind a network, where calls fail with or without effect, are sent again, or take effect late |
| `RedisStore` | the Redis store: `store.go` and the three Lua scripts; implements `AtLeastOnceStore` |
| `SharedStore` | the store as the HTTP handlers and the manager share it |
| `NonceNames` | `nonce`: drawing, packing into a username, extracting, validating, over sequences of characters |
| `LinkNames` | `link`: `ValidateUsername`, `SanitizeUsername` step by step, `BuildNewBot` |
| `LinkFlow` | a deployment from its configuration on: links, bots made of them under edited names, and where those names lead |
| `PairingServer` | the three HTTP handlers, sessions that poll, remote managers that call `PUT` |
| `ManagerHandler` | `HandleUpdate` and the webhook around it, with Telegram and the owners of bots |
| `ManagedPairing` | the composition of `SharedStore`, `PairingServer` and `ManagerHandler`, with its properties and inductive invariant |
| `Handoff` | abstract specification: what becomes of the token of a bot, and what its creator is told; implemented by `ManagedPairing` |
| `TgApi` | what `Client.do` makes of an exchange with the Bot API, and `classify` |
| `Reconcile` | `CheckDrift`, stage by stage |
| `DriftProbe` | `driftProbe`: two calls and a check, with owners changing their bots meanwhile |
| `MCMemoryStore`, `MCAtLeastOnceStore`, `MCRedisStore`, `MCManagedPairing`, `MCLinkFlow`, `MCDriftProbe` | instances for TLC: symmetry sets, the set of tokens, configurations and strings, the stored records |
| `PairingStoreProofs`, `AtLeastOnceStoreProofs`, `MemoryStoreProofs`, `RedisStoreProofs`, `ManagedPairingProofs`, `HandoffProofs`, `LinkFlowProofs`, `DriftProbeProofs` | the theorems, one module per component; `HandoffProofs` builds on `ManagedPairingProofs` |

A definition called a *slip* in its comment is no part of the specification: it is a wrong
version of the definition that follows it, kept to see that the properties
notice it (`PROJECT.json`, "mutants").

**Correspondence.** Tokens and usernames travel together and are one payload; in
the composed model it is `[bot, ver]`, the bot and the version of its token.

*MemoryStore.* `entry[n]` and `expiresAt[n]` are `s.entries[n]`; a missing key is
`Absent`. `mu` is the mutex. A goroutine goes through the labels of `pc`:
`context` (the check of `ctx.Err()`), `lock`, `sweep` (`sweepLocked`), `body`
(one action per operation) and `done`; every exit of a body goes through `Leave`,
which is the deferred `Unlock`. `now` is `time.Now()` and may advance
between any two steps. `started`, `puts`, `completes` and `fetches` are history.

*RedisStore.* `entry[n]` is the hash at `prefix + n` and `expiresAt[n]` its PEXPIRE time;
Redis runs a script in one step (`PutLua`, `CompleteLua`, `FetchAndDeleteLua`) that yields a
`result`. A call goes through `context` (the check of `ctx.Err()`), `sent`, `result` (the script has
run, its reply is on the way) and `done`; the `...Answer` operators are the switches of
`store.go`. `Retry` is go-redis sending the script again, `Fail` the error it returns in the end; a
script that was given up before it ran may stay in `wire` and run late. A Put sends its ttl cut to
milliseconds. `MemoryStore` implements `PairingStore`; `RedisStore` cannot, and
implements `AtLeastOnceStore`, provided no ttl is below a millisecond.

*PairingServer.* One handler run is one step: each makes exactly one store call,
which is atomic by the contract, and the rest of the handler only computes.
The response then waits in `response[c]`, where it may be lost. `Draw` is
`nonce.New`; with `FreshNonces` it never returns the same nonce twice.
A step with `Fault` is a store call that fails before or after its effect.
How a session reacts to responses is not in the repository; `Receive` assumes the
obvious: it polls, repeats failed requests, and stops at `not_found`.

*ManagerHandler.* A worker is one delivery in progress. Its stages are `token`
(`getManagedBotToken`), `complete` (`Store.Complete`), `fallback`
(`defaultFallback`) and `respond` (the webhook's answer), since the rest of the
world can act between those calls and nowhere else. `botNonce[b]` is what
`Extract` finds in the username. `Crash` is a process dying anywhere. The calls to the Bot API go
through `TgApi!do`: an `Exchange` is Telegram's answer (`TokenOf`, `SentTo`) or, as a fault, one of the
`Failures` any call may meet, or 401 for the manager's own token. A `sendMessage` whose
response is lost or garbled may have been delivered.

*Handoff.* The abstract state of a bot is read off the places its token is in: `stored` while an
entry holds it, `sent` while a response does, `served` when a session has it, `lost` when it has been in the store and is nowhere
now. `home` is the session whose link the bot was made of. `HandoffSpec` lets a token move forward only, and only to
that session, and lets the creator be told of a failure only while no token of a live bot is in the
store; no token enters it after that.

*NonceNames, LinkNames.* A string is a sequence of characters. Each definition is the function of its name; an error is
the empty string, which no function of the two packages returns otherwise. A pattern is modelled by what it matches. A deep link is
the pair of usernames it is made of.

*LinkFlow.* `env` is what a deployment is configured with, `site` what it runs with: the handlers behind
`Mount`, `examples/alva-like`, `examples/minimal`, or a caller that uses `link` alone, whose
strings are in `raw`. A configuration that start-up refuses stays down. `links[n]` is what `POST /pair` showed; a lost answer or a `Put` reported as failed shows
none and leaves the entry. The user in the dialog (`Edits`) keeps the suggested name, changes its case,
inserts a character in front or exchanges one; Telegram takes every valid name no bot has yet, case aside. The
manager goes by the final name alone (`Link`, `DoNotLink`). Token, expiry in detail, faults and races are those of `ManagedPairing`, which in turn knows of a name no
more than the nonce in it.

*DriftProbe.* `bot[b]` is what Telegram knows of a bot. `me` and `hook` are the outcomes
`Client.do` makes of what `BotAPI` answers or of a failure on the way. The token comes
with the request (`GivenToken`: any token of any bot, an old one too) or is asked for (`FreshToken`) with the manager's
own token, which may be refused: that ends the request.
The record is `State`; `driftProbe` fills in less of it than a caller with a database would, so the instance
has a full record and an empty one. `seen` and `steady` are history: the differences between record and
bot at some time, and all the time, since the probe began to look.

## 3. The runs

| run | instance | what it shows |
|---|---|---|
| `at_least_once_store` | 2 callers, 1 nonce, 2 payloads, ttl 0 or 1, clock to 2, 4 calls, 2 faults | the contract implies one-time handoff (`HandoffLaw`) and first-completion-wins (`ReadyIsFinal`), even when calls are sent again, fail after their effect or take effect late |
| `memory_store` | 2 goroutines, 1 nonce, 2 payloads, ttl 0 or 1, clock to 1, 4 calls | the mutex discipline, no expired entry seen by a body, the refinement of `PairingStore`, and that every call returns |
| `redis_store` | 2 callers, 1 nonce, 2 payloads, ttl 3 with 2 to a millisecond, 1 retry, clock to 2, 3 calls, 2 faults | refinement of `AtLeastOnceStore`; no token answered twice |
| `managed_pairing` | 2 sessions, 2 nonces, 2 bots (one whose creator refuses messages), 2 workers, 1 fault | one-time handoff, right bot, final fallback, no update lost; the inductive invariant `HandoffInv`, which contains `PairingInv` |
| `managed_pairing_live` | 1 session, 1 nonce, 2 bots (one completed by a remote manager through `PUT /pair`), 1 worker, 1 fault, tokens replaced once | every update answered, every session ends; a remote manager is answered 200 or 409 only for a token that reached the store; the refinement of `Handoff` |
| `link_flow` | nonces of 2 characters of 2, names of 5 to 10 characters, 19 configurations, 2 links, 2 bots, all strings of up to 4 characters and some long ones | a name leads back to its nonce exactly when both sides use one prefix; no two bots lead to one nonce; no session gets a bot of another name than its link suggested; a bad configuration registers nothing; what `SanitizeUsername` makes usernames of and keeps |
| `drift_probe` | 2 bots, 2 names, a webhook or none, 2 records, tokens replaced once, 1 fault | reports are sound, complete and, when nothing moves, exact but for a wrong bot's webhook; the inductive invariant |
| `redis_short_ttl` | 1 caller, ttl of half a millisecond | *violated*: `store.go:75` |
| `drift_unreachable` | as `drift_probe`, no fault | *violated*: `reconcile/doc.go:26-27` |
| `duplicate_delivery` | 1 session, 1 bot, 2 workers | *violated*: `handler.go:130-132` |
| `drift_mismatch` | as `drift_probe`, no fault | *violated*: `drift.go:115-117`, `drift_test.go:230` |
| `blocked_creator` | 1 bot | *violated*: `main.go:245-247, 268` |

`PairingStore` has no run of its own: every step of it is one of `AtLeastOnceStore`, whose run checks its two
laws, and `memory_store` checks that the memory store's behaviours are behaviours of it.

**Bounds, and why they are enough.** Entries do not interact, so one nonce
is enough for a store; with two payloads a wrong token can be told
from the right one; four calls make a registration, a completion, a fetch and
a competing call for any of them, over an expiry (ttl 0, or the clock moving past ttl 1). In the
composition two sessions, nonces and bots are what it takes to give a token to
the wrong one, and two workers what it takes to race; one fault of each kind
is enough to lose each message once, and a second one hits a state the
first already leads to; the Redis store has two, so that a call may be sent again and then
given up. A probe needs a second bot to be given the wrong token, and two names to see one change and change back. In `link_flow` the lengths are
scaled down together (the least and the default length of a nonce, the bounds of a username and of a display name), so
that each bound can be met, missed by one and passed; two nonce characters, one other letter, one capital, one digit and
two characters no username may have are enough to tell every class of characters from every other; with two characters that edits put in, `t` and `b`, a user can type the
manager's prefix over a different one of the link; two bots
are enough to be taken for each other, two links to edit one name into the other. `SanitizeUsername` looks at the first character, at the last four and at the length: all
strings of up to four characters, and long ones of any such beginning and end, meet every combination. The refinement of `Handoff` is checked with one session
(it needs no second to lose, repeat or expire a token) and proved for any number. `MaxVer` bounds token replacements: one is enough for a
token to be stale. `MaxTime` and `MaxCalls` bound the clock and the number of calls. The proofs
below have none of these bounds. Deadlock checking is off where
the system may come to rest: all calls made, or all sessions served and all updates answered.

**Symmetry** is used in `at_least_once_store`, `redis_store` and `managed_pairing`, which check no liveness property.

**Fairness.**
`MemoryStore!Fairness`: a running goroutine is scheduled (weak fairness of
`Run`), and one that waits for the mutex gets it (strong fairness of `Lock`: the
mutex is free again and again, and `sync.Mutex` hands it over in FIFO order after
a millisecond). No fairness of the clock or of new calls.
`ManagedPairing!Fairness`: a session keeps polling and reads its responses, a
worker finishes its delivery, time-to-lives run out (weak fairness, per session,
nonce and worker); Telegram delivers an update again as long as no delivery was answered
2xx. The last is strong fairness because the model has few workers, which may be busy with
another update each time; the code starts a goroutine per delivery. Nothing is assumed of users,
of remote managers or of faults, whose number is finite (`MaxFaults`).

## 4. What is proved

Every theorem is for all values of the constants, so without bounds on sessions, bots,
workers, faults, time and calls.

- **PairingStoreProofs.** `TypeCorrect`; `HandoffTheorem`, `HandoffLaw` is inductive
  given the types; `ReadyIsFinalTheorem`, from the effect of each operation on a Ready entry.
- **AtLeastOnceStoreProofs.** `AtLeastOnceTypeCorrect`, `AtLeastOnceHandoff`, `AtLeastOnceFinal`:
  the same holds behind a network. A step is one of `PairingStore`, for which its step lemmas are cited, or
  leaves entries and counts alone, or is a late effect, which changes an entry as its operation does (`LateEffect`).
- **MemoryStoreProofs.** `MemoryInvariant`: the invariant joins the types,
  which calls goroutines are in, `StartedInPast` (a call began no later than
  now), `LockDiscipline` and `NoExpiredEntrySeen`. The last needs the others: a
  sweep leaves entries that expire no earlier than now, hence than the start of the call,
  and between the sweep and the body no one else holds the mutex and changes the map.
  `Refinement`: under the mapping (`AbsPc`, `AbsReq`, `AbsStarted`) a sweep is an
  `Expire`, a body is the abstract operation, whose guard `Sees` is
  `NoExpiredEntrySeen`, and every other step is invisible.
  `HandoffTheorem` and `FirstCompletionWins`: the two laws of the contract hold of this store, by `EntrySteps`, which says
  what any step does to an entry and its counts.
- **ManagedPairingProofs.** `Invariance`: `PairingInv` is an
  invariant of `Spec`. Assumptions: those of the modules on their constants, and `FreshNonces`.
  A fresh nonce is used nowhere (`DrawnInv`), so a `Put` never
  revives an entry somebody's past depends on; a nonce names one bot (`OneBotPerNonce`); what is in the store under a
  nonce is a token of that bot (`StoreInv`); a token a session holds or is being
  sent belongs to its own nonce, whose entry is absent (`HeldInv`) and, since
  nonces are fresh, stays so. A worker that is about to send the fallback
  message for a live bot found no entry (`WorkerInv`), and none comes back; this rests on what `TgApi` makes of each failure
  (`ApiFacts`): only a deleted bot's 403 counts as a deletion. From
  it follow `OneTimeHandoff`, `RightBotTheorem`, `FallbackTheorem` and `OutcomeTheorem`.
- **HandoffProofs.** `HandoffInvariance`: `HandoffInv` joins to `PairingInv` that a nonce is given to one session and for good,
  that a bot's nonce is that of a session already (`HomeInv`), and that a token that has been stored has no entry waiting
  for it (`HandedInv`), so that it is stored once. `Refinement`: with it a bot's stage, home and holder are determined by where its
  token is (`Mapped`), the `CHOOSE` of the mapping has one choice, and no home ever changes. Each step of the server's side and each `Complete` moves one token
  or none (`TokenStep`); what becomes of it, `TokenStored`, `TokenSent`, `TokenServed` or `TokenLost`, is the abstract step
  (`TokenMapped`). The rest of the manager's side is `BotDeleted`, `CreatorTold` or invisible. Assumption besides those above: `NoNonce`, which stands for no
  session too, is no session. `NeverBack` and `NoSecondSession` use the refinement: in `Handoff` a token moves one way (`OneWay`) and a bot
  keeps its home (`HomeForLife`), so a token that left the store never returns to it, and of the sessions only the first ever holds a token of its bot.
- **RedisStoreProofs.** `RedisInvariant` and `TypeCorrect`: types, and what each call has under way. `OneTimeHandoff`: handouts, replies on their way and a
  Ready entry together never exceed the completions; a reply counts from its script on, a broken connection only takes
  replies away, and a late script answers nobody. `Refinement`, of `AtLeastOnceStore`: the call takes effect when its script runs;
  `Send` and `Receive` are invisible, a retry is `Resend`, an error `GiveUp`. It assumes `LongEnough`, that every ttl is at least a millisecond:
  without it the refinement is false, which run `redis_short_ttl` shows of `PutRegisters`. `OneTimeHandoff` does not assume it,
  nor do `HandoffTheorem` and `FirstCompletionWins`, the laws of the contract for the scripts themselves (`ScriptEffect`, `EntrySteps`).
- **DriftProbeProofs.** `ProbeInvariant`: `ProbeInv` says that what the outcomes of `getMe` and `getWebhookInfo`
  hold against the record is in `seen`, and that what is there now is in `seen` while the probe looks, so that the second
  call may find a world the first did not. `DriftSoundness` follows, for any number of changes between the calls. `SteadyInvariant`: an outcome
  without an error shows every difference of its kind that is in `steady`, which only shrinks. `DriftCompleteness` and, with both invariants, `QuietExactness`
  follow by going through the stages of `CheckDrift`. `QuietProbeIsExact` leaves open whether the drift of a wrong bot's webhook is reported,
  about which the documentation and the code disagree (section 5).
- **LinkFlowProofs.** Strings are sequences of any length over any alphabet with letters, capitals, digits, `_` and other characters.
  `NameShape` and `NameDeterminesNonce`: a name `prefix_nonce_bot` read with the same prefix has one nonce; `Packed`, `ExtractFound` and `PackThenExtract`:
  `Extract` finds in it what `PackIntoUsername` packed, for nonces of the length `Extract` looks for. The invariant of `FlowInvariant` adds what start-up guarantees of a
  site, that a link shown is one that could be built, that a bot's name is its own in any case, and that a completed entry
  or a served session has the name of a bot that leads to its nonce. From it: `NoOrphans`, `LeadsBack`, `OneBot` and `RightBotName`. `SanitizeTotal` and `SanitizeKeeps`
  follow the steps of `SanitizeUsername`: each leaves a name that ends in `bot`, cutting keeps the end, and what comes out too short was
  `bot` or a letter and `bot`, the strings `SanitizeTotal` excepts. Assumptions on constants: the classes of characters do not overlap, a username has at least 5
  characters, as in `username.go`, and what `examples/minimal` has built in (`AlvaAssumption`): its prefix with a nonce fits a username and its manager's username is valid.
  The first attempt at `RightBotName` failed for a reason: with prefixes that differ on the two sides, a user who types the manager's
  prefix into the dialog gets a bot of a name the link did not suggest through to the session. `RightName` now says so: the name is the one the manager's prefix makes of the session's nonce,
  and the suggested one if the prefixes agree.

`FreshNonces` stands for 60 random bits per nonce (`nonce.New`). That a nonce names one bot
rests on Telegram: bot usernames are unique, and the name of a deleted bot is not taken
to be used again while its pairing matters.

Every safety invariant and every refinement that a run checks is a theorem. **Only model-checked** are the liveness properties, `EveryCallReturns`,
`EveryUpdateAnswered` and `EverySessionEnds`: they need fairness and ENABLED.

## 5. What the code does not keep

Five statements of the documentation are refuted by runs (`PROJECT.json`, "findings"):
a duplicate
delivery after the token was consumed is taken for an expired pairing and the creator is told to
retry although the handoff succeeded; a token of another bot than the record's is not reported alone, but behind the drift of the webhook if there is one;
the webhook answers 500 to errors that will never go away; a ttl below a millisecond registers nothing in Redis; and a bot that is deleted or
gets a new token between a probe's two calls is called unreachable.

More need no run to be seen. Completing an expired entry answers `ErrNotFound` (`memory.go:60`, and `complete.lua`),
where `store.go:67-68` says `ErrInvalidState`. And a `FetchAndDelete` whose script ran in Redis and whose reply was lost
leaves a token that no caller gets, where `store.go:89-90` promises exactly one success; what holds is at most one
(`NoTokenAnsweredTwice`). `PostPair` answers 500 to a nonce that is in use (`handlers.go:121`), where `store.go:63-65` asks callers to draw again. `SanitizeUsername` prepends "a" and not
"alva_", leaves a trailing "bot" without "_", and refuses "bot" and "bot" behind one letter, where `username.go:46-50` says it refuses
empty input only; `SanitizeIsTotal` says nothing of these two. `PackIntoUsername` takes a nonce of any length from 8, and `Extract` finds
it again only at length 12, where `nonce.go:97-99` pairs the two without a condition; `LinkLeadsBack` holds
because `New` draws nonces of that length. And a user who edits the suggested name within the alphabet of nonces, or in case
only, is not noticed by `Extract`, where `nonce.go:154-156` gives any edit as an example of no match: a changed nonce
is one nobody registered, which falls back a stage later, or that of another link, whose session gets the bot (`RightName`).

`FallbackIsFinal` says what remains true of the duplicate delivery: by then the store has nothing to
hand out, so the message is wrong about the past only.

## 6. Not modelled

HTTP and JSON encoding, the 400 to a body that cannot be read, headers, logging, shutdown and the adapter of routers in `examples/alva-like`; a caller's own
`OnFallback`; bearer authentication beyond "accepted or rejected"; random bytes; the wording of errors and messages; a
response of Telegram that is ok and has no result (`methods.go:100` would leave the token empty), which
Telegram does not send. A display name counts by its length only. Of a drift only its kind is kept, not the
expected and observed values.

Nonces of two characters would collide where those of twelve do not; `LinkFlow` lets one be drawn again when its entry is
gone, which its properties survive. `ManagedPairing` assumes `FreshNonces` in every run and theorem about the handoff.

## 7. Plan

Done: the contract and both stores, the whole handoff with its abstract specification and on `TgApi`, the names, the
deployments, the drift probe; theorems for every safety property and every refinement. To do:

1. Lemmas about `LinkNames` and `NonceNames` that `LinkFlowProofs` states where it needs them, in one place.
