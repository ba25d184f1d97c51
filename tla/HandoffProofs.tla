---------------------------- MODULE HandoffProofs ----------------------------
(***************************************************************************)
(* The whole handoff implements its abstract specification.                *)
(***************************************************************************)
EXTENDS ManagedPairingProofs

(***************************************************************************)
(* The mapping at one bot.  Where its token is decides the stage; the one  *)
(* session with its nonce is its home, the one that holds its token the    *)
(* holder.                                                                 *)
(***************************************************************************)
StageMapped ==
  \A b \in Bots :
    /\ botState[b] = "none" => AbsStage[b] = "unborn" /\ b \notin handed
    /\ botState[b] # "none" /\ b \notin handed => AbsStage[b] = "open"
    /\ InStore(b) => AbsStage[b] = "stored"
    /\ InResponse(b) => AbsStage[b] = "sent"
    /\ InSession(b) => AbsStage[b] = "served"
    /\ b \in handed /\ ~InStore(b) /\ ~InResponse(b) /\ ~InSession(b) => AbsStage[b] = "lost"

HomeMapped ==
  \A b \in Bots :
    /\ \A c \in Clients : Owns(c, b) => AbsHome[b] = c
    /\ botNonce[b] = NoNonce => AbsHome[b] = NoNonce

HolderMapped ==
  \A b \in Bots :
    /\ \A c \in Clients : Holds(c, b) => AbsHolder[b] = c
    /\ ~InResponse(b) /\ ~InSession(b) => AbsHolder[b] = NoNonce

\* A token is in the store, in a response, in a session, or in none of them.
LEMMA PlacesApart ==
  ASSUME HandoffInv, NEW b \in Bots
  PROVE  /\ InStore(b) => b \in handed /\ ~InResponse(b) /\ ~InSession(b)
         /\ InResponse(b) => b \in handed /\ ~InSession(b)
         /\ InSession(b) => b \in handed
         /\ b \in handed => botState[b] # "none"
<1>1. InStore(b) => b \in handed /\ \A c \in Clients : ~ Holds(c, b)
  BY EntryFacts
  DEF InStore, OfBot, HandoffInv, PairingInv, StoreInv, HeldInv, Holds, TypeOK, StoreTypeOK
<1>2. InResponse(b) \/ InSession(b) <=> \E c \in Clients : Holds(c, b)
  BY DEF InResponse, InSession, Holds
<1>3. InResponse(b) => ~InSession(b)
  BY DEF InResponse, InSession, OfBot, Holds, HandoffInv, PairingInv, OneHolder, SessionInv
<1>4. b \in handed => botState[b] # "none"
  BY DEF HandoffInv, HandedInv, PairingInv, UnbornInv
<1> QED
  BY <1>1, <1>2, <1>3, <1>4 DEF HandoffInv, HandedInv

PlacedOnce ==
  \A b \in Bots :
    /\ InStore(b) => ~InResponse(b) /\ ~InSession(b)
    /\ b \notin handed => ~InResponse(b) /\ ~InSession(b)

LEMMA Apart == HandoffInv => PlacedOnce
  BY PlacesApart DEF PlacedOnce

LEMMA Mapped == HandoffInv => StageMapped /\ HomeMapped /\ HolderMapped
<1> SUFFICES ASSUME HandoffInv PROVE StageMapped /\ HomeMapped /\ HolderMapped
  OBVIOUS
<1>1. StageMapped
  BY PlacesApart DEF StageMapped, AbsStage
<1>2. HomeMapped
  <2>1. \A b \in Bots : \A c, d \in Clients : Owns(c, b) /\ Owns(d, b) => c = d
    BY DEF Owns, HandoffInv, HomeInv
  <2>2. \A b \in Bots : botNonce[b] = NoNonce => ~ \E c \in Clients : Owns(c, b)
    BY DEF Owns
  <2> QED
    BY <2>1, <2>2 DEF HomeMapped, AbsHome
<1>3. HolderMapped
  BY DEF HolderMapped, AbsHolder, InResponse, InSession, Holds, HandoffInv, PairingInv, OneHolder
<1> QED
  BY <1>1, <1>2, <1>3

LEMMA MappedNext == HandoffInv' => StageMapped' /\ HomeMapped' /\ HolderMapped'
  BY Mapped, PTL

-----------------------------------------------------------------------------
(***************************************************************************)
(* The strengthened invariant.                                             *)
(***************************************************************************)

\* A step that gives no nonce to a session, a response or a bot.
LEMMA HomeSame ==
  ASSUME HandoffInv, UNCHANGED <<nonceOf, botNonce>>,
         \A c \in Clients :
           /\ client'[c] \in {"start", "posting"} => client[c] \in {"start", "posting"}
           /\ response'[c].status = "created" =>
                response[c].status = "created" /\ response'[c].nonce = response[c].nonce
  PROVE  HomeInv'
  BY DEF HandoffInv, HomeInv, Shown

LEMMA HomeStep ==
  ASSUME FreshNonces, HandoffInv, [Next]_vars
  PROVE  HomeInv'
<1>1. ASSUME NEW c \in Clients, NEW n \in Nonces, PostPair(c, n), UNCHANGED managerVars
      PROVE  HomeInv'
  <2>1. /\ client[c] = "start" /\ nonceOf[c] = NoNonce /\ n \notin drawn
        /\ client' = [client EXCEPT ![c] = "posting"]
        /\ UNCHANGED <<nonceOf, botNonce>>
    BY <1>1 DEF PostPair, Draw, managerVars, HandoffInv, HomeInv
  <2>2. PICK r \in {Created(n), Status("error")} : Respond(c, r)
    BY <1>1 DEF PostPair
  <2>3. r.status = "created" => r.nonce = n
    BY <2>2, ResponseFacts
  <2>4. \A d \in Clients : /\ nonceOf[d] # n
                           /\ response[d].status = "created" => response[d].nonce # n
    BY <2>1, SharedStoreAssumption DEF HandoffInv, PairingInv, DrawnInv, SessionInv
  <2>5. \A d \in Clients : response'[d] = IF d = c THEN r ELSE response[d]
    BY <2>2 DEF Respond, HandoffInv, PairingInv, TypeOK, ServerTypeOK
  <2>6. \A d \in Clients : client'[d] = IF d = c THEN "posting" ELSE client[d]
    BY <2>1 DEF HandoffInv, PairingInv, TypeOK, ServerTypeOK
  <2> QED
    BY <2>1, <2>3, <2>4, <2>5, <2>6 DEF HandoffInv, HomeInv, Shown
<1>2. ASSUME NEW c \in Clients, DeletePair(c), UNCHANGED managerVars
      PROVE  HomeInv'
  <2>1. PICK r : Respond(c, r) /\ (r = Status("error") \/ r = DeleteResponse(entry[nonceOf[c]]))
    BY <1>2 DEF DeletePair
  <2>2. r.status # "created"
    <3>1. nonceOf[c] \in Nonces
      BY <1>2 DEF DeletePair, HandoffInv, PairingInv, SessionInv, TypeOK, ServerTypeOK
    <3>2. entry[nonceOf[c]] \in Entry
      BY <3>1 DEF HandoffInv, PairingInv, TypeOK, StoreTypeOK
    <3>3. DeleteResponse(entry[nonceOf[c]]).status # "created"
      <4> DEFINE e == entry[nonceOf[c]]
      <4>1. CASE e = Absent
        BY <4>1, ResponseFacts DEF DeleteResponse, FetchReply, Answer, Absent
      <4>2. CASE e = Waiting
        BY <4>2, ResponseFacts DEF DeleteResponse, FetchReply, Answer, Waiting
      <4>3. CASE e.status = "ready" /\ e.payload \in Payloads
        BY <4>3, ResponseFacts DEF DeleteResponse, FetchReply
      <4> QED
        BY <3>2, <4>1, <4>2, <4>3, EntryFacts
    <3> QED
      BY <2>1, <3>3, ResponseFacts
  <2>3. \A d \in Clients : response'[d] = IF d = c THEN r ELSE response[d]
    BY <2>1 DEF Respond, HandoffInv, PairingInv, TypeOK, ServerTypeOK
  <2> QED
    BY <1>2, <2>2, <2>3, HomeSame DEF DeletePair, managerVars
<1>3. ASSUME NEW c \in Clients, Receive(c), UNCHANGED managerVars
      PROVE  HomeInv'
  <2> DEFINE r == response[c]
  <2>1. \A d \in Clients : /\ d # c => response'[d] = response[d] /\ client'[d] = client[d]
                           /\ response'[c].status = "none" /\ client'[c] = NextState(c)
    BY <1>3, ResponseFacts DEF Receive, Respond, HandoffInv, PairingInv, TypeOK, ServerTypeOK
  <2>2. CASE r.status = "created"
    <3>1. /\ client[c] = "posting" /\ nonceOf[c] = NoNonce /\ NextState(c) = "polling"
          /\ r.nonce \in Nonces
      BY <2>2 DEF NextState, HandoffInv, PairingInv, SessionInv, HomeInv, TypeOK, StoreTypeOK,
                  ServerTypeOK
    <3>2. \A d \in Clients : nonceOf'[d] = IF d = c THEN r.nonce ELSE nonceOf[d]
      BY <1>3, <2>2 DEF Receive, HandoffInv, PairingInv, TypeOK, ServerTypeOK
    <3>3. Shown \subseteq Shown'
      BY <3>1, <3>2 DEF Shown
    <3>4. \A b \in Bots : botNonce'[b] # NoNonce => botNonce'[b] \in Shown'
      BY <1>3, <3>3 DEF managerVars, HandoffInv, HomeInv
    <3> QED
      BY <2>1, <2>2, <3>1, <3>2, <3>4 DEF HandoffInv, HomeInv
  <2>3. CASE r.status # "created"
    <3>1. NextState(c) \in {"start", "posting"} => client[c] \in {"start", "posting"}
      BY <2>3 DEF NextState
    <3>2. UNCHANGED <<nonceOf, botNonce>>
      BY <1>3, <2>3 DEF Receive, managerVars
    <3> QED
      BY <2>1, <3>1, <3>2, HomeSame
  <2> QED
    BY <2>2, <2>3
<1>4. ASSUME NEW c \in Clients, LoseResponse(c), UNCHANGED managerVars
      PROVE  HomeInv'
  <2>1. \A d \in Clients : /\ response'[d] = response[d] \/ response'[d].status = "none"
                           /\ client'[d] = client[d] \/ client[d] = "posting"
    BY <1>4, ResponseFacts DEF LoseResponse, Respond, HandoffInv, PairingInv, TypeOK, ServerTypeOK
  <2> QED
    BY <1>4, <2>1, HomeSame DEF LoseResponse, managerVars
<1>5. ASSUME NEW b \in Bots, NEW n \in Nonces \cup {NoNonce}, NEW named \in BOOLEAN,
             CreateBot(b, n, named)
      PROVE  HomeInv'
  <2>1. /\ UNCHANGED <<client, nonceOf, response>>
        /\ \A a \in Bots : botNonce'[a] = IF a = b THEN n ELSE botNonce[a]
        /\ n = NoNonce \/ n \in Shown
    BY <1>5 DEF CreateBot, serverVars, HandoffInv, PairingInv, TypeOK, ManagerTypeOK
  <2> QED
    BY <2>1 DEF HandoffInv, HomeInv, Shown
<1>6. CASE UNCHANGED <<client, nonceOf, response, botNonce>>
  BY <1>6, HomeSame
<1>7. ASSUME ManagerStep, UNCHANGED serverVars
      PROVE  UNCHANGED <<client, nonceOf, response, botNonce>>
  BY <1>7 DEF ManagerStep, WorkerStep, DeleteBot, ReplaceToken, HandleUpdate, GetManagedBotToken,
              Complete, Fallback, WebhookResponse, Crash, Idle, botVars, serverVars
<1> QED
  BY <1>1, <1>2, <1>3, <1>4, <1>5, <1>6, <1>7
  DEF Next, SessionStep, Expire, RemotePut, PutPair, serverVars, managerVars, vars

(***************************************************************************)
(* A token that has been stored stays so, and only a token that was stored *)
(* is held.                                                                *)
(***************************************************************************)
HandedStep ==
  /\ handed \subseteq handed'
  /\ \A b \in handed' \ handed : botNonce'[b] # NoNonce /\ entry'[botNonce'[b]].status = "ready"
  /\ \A b \in handed : botNonce'[b] = botNonce[b]
  /\ \A n \in drawn : n \in Nonces /\ entry[n] # Waiting => entry'[n] # Waiting
  /\ \A c \in Clients, b \in Bots : Holds(c, b)' => Holds(c, b) \/ b \in handed

LEMMA HandedKept ==
  ASSUME HandoffInv, HandedStep
  PROVE  HandedInv'
<1>1. \A b \in handed : botNonce[b] \in Nonces /\ botNonce[b] \in drawn
  BY DEF HandoffInv, HandedInv, PairingInv, DrawnInv, TypeOK, StoreTypeOK, ManagerTypeOK
<1>2. \A b \in handed' : botNonce'[b] # NoNonce /\ entry'[botNonce'[b]] # Waiting
  BY <1>1, EntryFacts DEF HandedStep, HandoffInv, HandedInv
<1>3. \A b \in Bots : (\E c \in Clients : Holds(c, b))' => b \in handed'
  BY DEF HandedStep, HandoffInv, HandedInv
<1> QED
  BY <1>2, <1>3 DEF HandedInv

-----------------------------------------------------------------------------
(***************************************************************************)
(* What a step does to the token of a bot, in terms of the places it can   *)
(* be in.                                                                  *)
(***************************************************************************)
Still(b) ==
  /\ botState'[b] = "none" <=> botState[b] = "none"
  /\ b \in handed' <=> b \in handed
  /\ InStore(b)' <=> InStore(b)
  /\ \A c \in Clients : /\ OfBot(response[c].payload, b)' <=> OfBot(response[c].payload, b)
                        /\ OfBot(token[c], b)' <=> OfBot(token[c], b)

OthersStill(b) == \A a \in Bots \ {b} : Still(a)

TokenStored(b) ==
  /\ OthersStill(b)
  /\ botState[b] # "none" /\ b \notin handed /\ InStore(b)'
  /\ botNonce[b] # NoNonce
  /\ b \in dm => botState[b] = "deleted"

TokenSent(b) ==
  /\ OthersStill(b)
  /\ InStore(b)
  /\ \E c \in Clients : Owns(c, b) /\ OfBot(response[c].payload, b)'

TokenServed(b) ==
  /\ OthersStill(b)
  /\ InResponse(b) /\ InSession(b)'
  /\ \A c \in Clients : Holds(c, b)' <=> Holds(c, b)

TokenLost(b) ==
  /\ OthersStill(b)
  /\ InStore(b) \/ InResponse(b)
  /\ b \in handed'
  /\ ~InStore(b)' /\ ~InResponse(b)' /\ ~InSession(b)'

HomesKept == \A c \in Clients : nonceOf[c] # NoNonce => nonceOf'[c] = nonceOf[c]

TokenStep ==
  /\ HomesKept
  /\ UNCHANGED <<botState, botNonce, dm>>
  /\ \/ \A b \in Bots : Still(b)
     \/ \E b \in Bots : TokenStored(b) \/ TokenSent(b) \/ TokenServed(b) \/ TokenLost(b)

(***************************************************************************)
(* What the mapping makes of it.                                           *)
(***************************************************************************)
LEMMA StillMapped ==
  ASSUME HandoffInv, HandoffInv', NEW b \in Bots, Still(b)
  PROVE  AbsStage'[b] = AbsStage[b] /\ AbsHolder'[b] = AbsHolder[b]
<1>1. /\ StageMapped /\ StageMapped' /\ HolderMapped /\ HolderMapped'
  BY Mapped, MappedNext
<1>2. /\ InResponse(b)' <=> InResponse(b)
      /\ InSession(b)' <=> InSession(b)
      /\ \A c \in Clients : Holds(c, b)' <=> Holds(c, b)
  BY DEF Still, InResponse, InSession, Holds
<1>3. AbsStage'[b] = AbsStage[b]
  BY <1>1, <1>2 DEF Still, StageMapped
<1>4. AbsHolder'[b] = AbsHolder[b]
  <2>1. CASE \E c \in Clients : Holds(c, b)
    BY <1>1, <1>2, <2>1 DEF HolderMapped
  <2>2. CASE ~ \E c \in Clients : Holds(c, b)
    BY <1>1, <1>2, <2>2 DEF HolderMapped, InResponse, InSession, Holds
  <2> QED
    BY <2>1, <2>2
<1> QED
  BY <1>3, <1>4

LEMMA OneMoves ==
  ASSUME HandoffInv, HandoffInv', NEW b \in Bots, OthersStill(b)
  PROVE  /\ AbsStage' = [AbsStage EXCEPT ![b] = AbsStage'[b]]
         /\ AbsHolder' = [AbsHolder EXCEPT ![b] = AbsHolder'[b]]
<1>1. \A a \in Bots \ {b} : AbsStage'[a] = AbsStage[a] /\ AbsHolder'[a] = AbsHolder[a]
  BY StillMapped DEF OthersStill
<1>2. \A s, h : /\ DOMAIN AbsStage = Bots /\ DOMAIN AbsStage' = Bots
                /\ DOMAIN AbsHolder = Bots /\ DOMAIN AbsHolder' = Bots
                /\ AbsStage = [a \in Bots |-> AbsStage[a]] /\ AbsStage' = [a \in Bots |-> AbsStage'[a]]
                /\ AbsHolder = [a \in Bots |-> AbsHolder[a]]
                /\ AbsHolder' = [a \in Bots |-> AbsHolder'[a]]
  BY DEF AbsStage, AbsHolder
<1> QED
  BY <1>1, <1>2

LEMMA NoneMoves ==
  ASSUME HandoffInv, HandoffInv', \A b \in Bots : Still(b)
  PROVE  AbsStage' = AbsStage /\ AbsHolder' = AbsHolder
<1>1. \A a \in Bots : AbsStage'[a] = AbsStage[a] /\ AbsHolder'[a] = AbsHolder[a]
  BY StillMapped
<1>2. /\ AbsStage = [a \in Bots |-> AbsStage[a]] /\ AbsStage' = [a \in Bots |-> AbsStage'[a]]
      /\ AbsHolder = [a \in Bots |-> AbsHolder[a]]
      /\ AbsHolder' = [a \in Bots |-> AbsHolder'[a]]
  BY DEF AbsStage, AbsHolder
<1> QED
  BY <1>1, <1>2

\* No home changes as long as sessions and bots keep their nonces.
LEMMA HomeMappedSame ==
  ASSUME HandoffInv, HandoffInv', HomesKept, NEW b \in Bots, botNonce'[b] = botNonce[b]
  PROVE  AbsHome'[b] = AbsHome[b]
<1>1. HomeMapped /\ HomeMapped'
  BY Mapped, MappedNext
<1>2. CASE botNonce[b] = NoNonce
  BY <1>1, <1>2 DEF HomeMapped
<1>3. CASE botNonce[b] # NoNonce
  <2>1. PICK c \in Clients : nonceOf[c] = botNonce[b]
    BY <1>3 DEF HandoffInv, HomeInv, Shown
  <2>2. Owns(c, b) /\ Owns(c, b)'
    BY <1>3, <2>1 DEF Owns, HomesKept
  <2> QED
    BY <1>1, <2>2 DEF HomeMapped
<1> QED
  BY <1>2, <1>3

LEMMA HomesMapped ==
  ASSUME HandoffInv, HandoffInv', HomesKept, UNCHANGED botNonce
  PROVE  AbsHome' = AbsHome
<1>1. \A b \in Bots : AbsHome'[b] = AbsHome[b]
  BY HomeMappedSame
<1>2. AbsHome = [b \in Bots |-> AbsHome[b]] /\ AbsHome' = [b \in Bots |-> AbsHome'[b]]
  BY DEF AbsHome
<1> QED
  BY <1>1, <1>2

\* A bot with a nonce in its name has a home.
LEMMA HasHome ==
  ASSUME HandoffInv, NEW b \in Bots, botNonce[b] # NoNonce
  PROVE  AbsHome[b] # NoNonce
<1>1. PICK c \in Clients : Owns(c, b)
  BY DEF HandoffInv, HomeInv, Shown, Owns
<1>2. AbsHome[b] = c
  BY <1>1, Mapped DEF HomeMapped
<1> QED
  BY <1>2, ClientAssumption

\* A token that is in the store, or was never there, has no holder.
LEMMA PlacesApartNext ==
  ASSUME HandoffInv', NEW b \in Bots
  PROVE  /\ InStore(b)' => ~InResponse(b)' /\ ~InSession(b)'
         /\ b \notin handed' => ~InResponse(b)' /\ ~InSession(b)'
<1>1. PlacedOnce'
  BY Apart, PTL
<1> QED
  BY <1>1 DEF PlacedOnce

\* The abstract step of a token that moves, or none.
LEMMA TokenMapped ==
  ASSUME HandoffInv, HandoffInv', TokenStep
  PROVE  Abstract!HandoffNext \/ UNCHANGED Abstract!handoffVars
<1>1. AbsHome' = AbsHome /\ UNCHANGED <<dm, botState>>
  BY HomesMapped DEF TokenStep
<1>2. /\ StageMapped /\ StageMapped' /\ HomeMapped /\ HolderMapped /\ HolderMapped'
  BY Mapped, MappedNext
<1>3. CASE \A b \in Bots : Still(b)
  <2>1. AbsStage' = AbsStage /\ AbsHolder' = AbsHolder
    BY <1>3, NoneMoves
  <2> QED
    BY <1>1, <2>1 DEF Abstract!handoffVars
<1>4. ASSUME NEW b \in Bots, TokenStored(b)
      PROVE  Abstract!Stored(b)
  <2>1. /\ AbsStage' = [AbsStage EXCEPT ![b] = AbsStage'[b]]
        /\ AbsHolder' = [AbsHolder EXCEPT ![b] = AbsHolder'[b]]
    BY <1>4, OneMoves DEF TokenStored
  <2>2. AbsStage[b] = "open" /\ AbsStage'[b] = "stored"
    BY <1>2, <1>4 DEF TokenStored, StageMapped
  <2>3. AbsHome[b] # NoNonce
    BY <1>4, HasHome DEF TokenStored
  <2>4. AbsHolder[b] = NoNonce /\ AbsHolder'[b] = NoNonce
    BY <1>2, <1>4, PlacesApart, PlacesApartNext DEF TokenStored, HolderMapped
  <2>5. AbsHolder' = AbsHolder
    BY <2>1, <2>4 DEF AbsHolder
  <2> QED
    BY <1>1, <1>4, <2>1, <2>2, <2>3, <2>5 DEF TokenStored, Abstract!Stored, Abstract!Move
<1>5. ASSUME NEW b \in Bots, TokenSent(b)
      PROVE  Abstract!Sent(b)
  <2>1. /\ AbsStage' = [AbsStage EXCEPT ![b] = AbsStage'[b]]
        /\ AbsHolder' = [AbsHolder EXCEPT ![b] = AbsHolder'[b]]
    BY <1>5, OneMoves DEF TokenSent
  <2>2. PICK c \in Clients : Owns(c, b) /\ OfBot(response[c].payload, b)'
    BY <1>5 DEF TokenSent
  <2>3. AbsStage[b] = "stored" /\ AbsStage'[b] = "sent"
    BY <1>2, <1>5, <2>2 DEF TokenSent, StageMapped, InResponse
  <2>4. AbsHome[b] = c /\ AbsHolder'[b] = c
    BY <1>2, <2>2 DEF HomeMapped, HolderMapped, Holds
  <2> QED
    BY <1>1, <2>1, <2>3, <2>4 DEF Abstract!Sent, Abstract!Move
<1>6. ASSUME NEW b \in Bots, TokenServed(b)
      PROVE  Abstract!Served(b)
  <2>1. /\ AbsStage' = [AbsStage EXCEPT ![b] = AbsStage'[b]]
        /\ AbsHolder' = [AbsHolder EXCEPT ![b] = AbsHolder'[b]]
    BY <1>6, OneMoves DEF TokenServed
  <2>2. AbsStage[b] = "sent" /\ AbsStage'[b] = "served"
    BY <1>2, <1>6 DEF TokenServed, StageMapped
  <2>3. PICK c \in Clients : Holds(c, b) /\ Holds(c, b)'
    BY <1>6 DEF TokenServed, InResponse, Holds
  <2>4. AbsHolder[b] = c /\ AbsHolder'[b] = c
    BY <1>2, <2>3 DEF HolderMapped
  <2>5. AbsHolder' = AbsHolder
    BY <2>1, <2>4 DEF AbsHolder
  <2> QED
    BY <1>1, <2>1, <2>2, <2>5 DEF Abstract!Served, Abstract!Move
<1>7. ASSUME NEW b \in Bots, TokenLost(b)
      PROVE  Abstract!GotLost(b)
  <2>1. /\ AbsStage' = [AbsStage EXCEPT ![b] = AbsStage'[b]]
        /\ AbsHolder' = [AbsHolder EXCEPT ![b] = AbsHolder'[b]]
    BY <1>7, OneMoves DEF TokenLost
  <2>2. AbsStage[b] \in {"stored", "sent"} /\ AbsStage'[b] = "lost" /\ AbsHolder'[b] = NoNonce
    BY <1>2, <1>7 DEF TokenLost, StageMapped, HolderMapped
  <2> QED
    BY <1>1, <2>1, <2>2 DEF Abstract!GotLost, Abstract!Move
<1> QED
  BY <1>3, <1>4, <1>5, <1>6, <1>7 DEF TokenStep, Abstract!HandoffNext

(***************************************************************************)
(* The steps of users and of the manager that move no token.               *)
(***************************************************************************)
LEMMA CreatedMapped ==
  ASSUME HandoffInv, HandoffInv', NEW b \in Bots, NEW n \in Nonces \cup {NoNonce},
         NEW named \in BOOLEAN, CreateBot(b, n, named)
  PROVE  Abstract!BotCreated(b)
<1>1. /\ \A a \in Bots : /\ botState'[a] = IF a = b THEN "live" ELSE botState[a]
                         /\ botNonce'[a] = IF a = b THEN n ELSE botNonce[a]
      /\ botState[b] = "none"
      /\ UNCHANGED <<entry, handed, dm, nonceOf, response, token>>
  BY DEF CreateBot, StoreUntouched, serverVars, HandoffInv, PairingInv, TypeOK, ManagerTypeOK
<1>2. OthersStill(b)
  BY <1>1 DEF OthersStill, Still, InStore, OfBot
<1>3. /\ AbsStage' = [AbsStage EXCEPT ![b] = AbsStage'[b]]
      /\ AbsHolder' = [AbsHolder EXCEPT ![b] = AbsHolder'[b]]
  BY <1>2, OneMoves
<1>4. /\ StageMapped /\ StageMapped' /\ HolderMapped /\ HolderMapped' /\ HomeMapped'
  BY Mapped, MappedNext
<1>5. b \notin handed /\ AbsStage[b] = "unborn" /\ AbsStage'[b] = "open"
  BY <1>1, <1>4 DEF StageMapped
<1>6. AbsHolder' = AbsHolder
  <2>1. AbsHolder[b] = NoNonce /\ AbsHolder'[b] = NoNonce
    BY <1>1, <1>4, <1>5, PlacesApart, PlacesApartNext DEF HolderMapped
  <2> QED
    BY <1>3, <2>1 DEF AbsHolder
<1>7. \E c \in Clients \cup {NoNonce} : AbsHome' = [AbsHome EXCEPT ![b] = c]
  <2>1. \A a \in Bots \ {b} : AbsHome'[a] = AbsHome[a]
    BY <1>1, HomeMappedSame DEF HomesKept
  <2>2. AbsHome = [a \in Bots |-> AbsHome[a]] /\ AbsHome' = [a \in Bots |-> AbsHome'[a]]
    BY DEF AbsHome
  <2>3. AbsHome' = [AbsHome EXCEPT ![b] = AbsHome'[b]]
    BY <2>1, <2>2
  <2>4. AbsHome'[b] \in Clients \cup {NoNonce}
    BY DEF AbsHome
  <2> QED
    BY <2>3, <2>4
<1>8. {a \in Bots : botState[a] = "deleted"}' = {a \in Bots : botState[a] = "deleted"}
  BY <1>1
<1> QED
  BY <1>1, <1>3, <1>5, <1>6, <1>7, <1>8 DEF Abstract!BotCreated, Abstract!Move

\* A step that leaves the store, the sessions and the names of bots alone.
LEMMA QuietMapped ==
  ASSUME HandoffInv, HandoffInv', UNCHANGED <<entry, handed, nonceOf, response, token, botNonce>>,
         \A a \in Bots : botState'[a] = "none" <=> botState[a] = "none"
  PROVE  AbsStage' = AbsStage /\ AbsHolder' = AbsHolder /\ AbsHome' = AbsHome
<1>1. \A a \in Bots : Still(a)
  BY DEF Still, InStore, OfBot
<1> QED
  BY <1>1, NoneMoves, HomesMapped DEF HomesKept

LEMMA DeletedMapped ==
  ASSUME HandoffInv, HandoffInv', NEW b \in Bots, DeleteBot(b), UNCHANGED serverVars
  PROVE  Abstract!BotDeleted(b)
<1>1. /\ \A a \in Bots : botState'[a] = IF a = b THEN "deleted" ELSE botState[a]
      /\ botState[b] = "live"
      /\ UNCHANGED <<entry, handed, dm, nonceOf, response, token, botNonce>>
  BY DEF DeleteBot, StoreUntouched, serverVars, HandoffInv, PairingInv, TypeOK, ManagerTypeOK
<1>2. AbsStage' = AbsStage /\ AbsHolder' = AbsHolder /\ AbsHome' = AbsHome
  BY <1>1, QuietMapped
<1>3. AbsStage[b] # "unborn"
  BY <1>1 DEF AbsStage
<1>4. {a \in Bots : botState[a] = "deleted"}' = {a \in Bots : botState[a] = "deleted"} \cup {b}
  BY <1>1
<1> QED
  BY <1>1, <1>2, <1>3, <1>4 DEF Abstract!BotDeleted

LEMMA FallbackMapped ==
  ASSUME HandoffInv, HandoffInv', NEW w \in Workers, Fallback(w), UNCHANGED serverVars
  PROVE  Abstract!CreatorTold(wbot[w]) \/ UNCHANGED Abstract!handoffVars
<1> DEFINE b == wbot[w]
<1>1. /\ UNCHANGED <<entry, handed, nonceOf, response, token, botNonce, botState>>
      /\ wpc[w] = "fallback"
  BY DEF Fallback, StoreUntouched, botVars, serverVars
<1>2. b \in Bots /\ botState[b] \in {"live", "deleted"}
  BY <1>1, BusyWorker DEF HandoffInv
<1>3. dm' \in {dm, dm \cup {b}}
  BY DEF Fallback, SendMessage, Delivered
<1>4. AbsStage' = AbsStage /\ AbsHolder' = AbsHolder /\ AbsHome' = AbsHome
  BY <1>1, QuietMapped
<1>5. StageMapped
  BY Mapped
<1>6. AbsStage[b] # "unborn"
  BY <1>2, <1>5, PlacesApart DEF StageMapped
<1>7. AbsStage[b] = "stored" => botState[b] = "deleted"
  <2> SUFFICES ASSUME botState[b] = "live" PROVE AbsStage[b] # "stored"
    BY <1>2
  <2>1. \A n \in Nonces : OfBot(entry[n].payload, b) =>
          entry[n].status = "ready" /\ botNonce[b] = n /\ entry[n] # Absent
    BY EntryFacts DEF OfBot, HandoffInv, PairingInv, StoreInv, TypeOK, StoreTypeOK
  <2>2. ~InStore(b)
    BY <1>1, <2>1, SharedStoreAssumption DEF InStore, HandoffInv, PairingInv, WorkerInv
  <2> QED
    BY <1>2, <1>5, <2>2, PlacesApart DEF StageMapped
<1> QED
  BY <1>1, <1>2, <1>3, <1>4, <1>6, <1>7 DEF Abstract!CreatorTold, Abstract!handoffVars

-----------------------------------------------------------------------------
(***************************************************************************)
(* What each step does to tokens.                                          *)
(***************************************************************************)

\* Places that do not change, bot by bot.
LEMMA StillHere ==
  ASSUME NEW b \in Bots, UNCHANGED <<handed, botState>>,
         \A n \in Nonces : OfBot(entry[n].payload, b)' <=> OfBot(entry[n].payload, b),
         \A c \in Clients : /\ OfBot(response[c].payload, b)' <=> OfBot(response[c].payload, b)
                            /\ OfBot(token[c], b)' <=> OfBot(token[c], b)
  PROVE  Still(b)
  BY DEF Still, InStore

LEMMA NoTokenMoves ==
  ASSUME UNCHANGED <<handed, botState, botNonce, dm>>, HomesKept,
         \A n \in Nonces : entry'[n].payload = entry[n].payload,
         \A c \in Clients : response'[c].payload = response[c].payload /\ token'[c] = token[c]
  PROVE  /\ TokenStep
         /\ \A c \in Clients, b \in Bots : Holds(c, b)' => Holds(c, b)
<1>1. \A b \in Bots : Still(b)
  BY StillHere DEF OfBot
<1>2. \A c \in Clients, b \in Bots : Holds(c, b)' => Holds(c, b)
  BY DEF Holds, OfBot
<1> QED
  BY <1>1, <1>2 DEF TokenStep

LEMMA PostPairToken ==
  ASSUME FreshNonces, HandoffInv, NEW c \in Clients, NEW n \in Nonces, PostPair(c, n),
         UNCHANGED managerVars
  PROVE  TokenStep /\ HandedStep
<1>1. client[c] = "start" /\ n \notin drawn /\ entry[n] = Absent /\ response[c].payload = NoPayload
  BY EntryFacts DEF PostPair, Draw, HandoffInv, PairingInv, DrawnInv, SessionInv, TypeOK,
                    StoreTypeOK, ServerTypeOK
<1>2. /\ handed' = handed
      /\ entry' = [entry EXCEPT ![n] = Waiting] \/ entry' = entry
  BY <1>1 DEF PostPair, StorePut, StoreUntouched, PutEntry
<1>3. PICK r \in {Created(n), Status("error")} : Respond(c, r)
  BY DEF PostPair
<1>4. r.payload = NoPayload
  BY <1>3, ResponseFacts
<1>5. \A d \in Clients : response'[d].payload = response[d].payload
  BY <1>1, <1>3, <1>4 DEF Respond, HandoffInv, PairingInv, TypeOK, ServerTypeOK
<1>6. \A m \in Nonces : entry'[m].payload = entry[m].payload
  BY <1>1, <1>2, EntryFacts DEF HandoffInv, PairingInv, TypeOK, StoreTypeOK
<1>7. TokenStep /\ \A d \in Clients, b \in Bots : Holds(d, b)' => Holds(d, b)
  BY <1>2, <1>5, <1>6, NoTokenMoves DEF PostPair, managerVars, HomesKept
<1>8. \A m \in drawn : m \in Nonces /\ entry[m] # Waiting => entry'[m] # Waiting
  BY <1>1, <1>2 DEF HandoffInv, PairingInv, TypeOK, StoreTypeOK
<1> QED
  BY <1>2, <1>7, <1>8 DEF HandedStep, managerVars

LEMMA DeletePairToken ==
  ASSUME HandoffInv, NEW c \in Clients, DeletePair(c), UNCHANGED managerVars
  PROVE  TokenStep /\ HandedStep
<1> DEFINE n == nonceOf[c]
           e == entry[n]
<1>1. /\ response[c] = NoResponse /\ response[c].payload = NoPayload
      /\ n \in Nonces /\ e \in Entry
  BY ResponseFacts
  DEF DeletePair, HandoffInv, PairingInv, SessionInv, TypeOK, StoreTypeOK, ServerTypeOK
<1>2. /\ UNCHANGED <<handed, nonceOf, token, botState, botNonce, dm>>
      /\ HomesKept
  BY DEF DeletePair, StoreFetch, StoreUntouched, managerVars, HomesKept
<1>3. PICK r : /\ Respond(c, r)
               /\ \/ r = Status("error") /\ entry' \in {entry, [entry EXCEPT ![n] = FetchEntry(e)]}
                  \/ r = DeleteResponse(e) /\ entry' = [entry EXCEPT ![n] = FetchEntry(e)]
  BY DEF DeletePair, StoreFetch, StoreUntouched
<1>4. \A d \in Clients : response'[d] = IF d = c THEN r ELSE response[d]
  BY <1>3 DEF Respond, HandoffInv, PairingInv, TypeOK, ServerTypeOK
<1>5. e # Waiting /\ e.status # "ready" => e = Absent
  BY <1>1, EntryFacts
<1>6. /\ e = Absent => FetchEntry(e) = e /\ DeleteResponse(e).payload = NoPayload
      /\ e = Waiting => FetchEntry(e) = e /\ DeleteResponse(e).payload = NoPayload
      /\ e.status = "ready" => FetchEntry(e) = Absent /\ DeleteResponse(e) = Token(e.payload)
                               /\ e.payload \in Payloads /\ e # Waiting
  <2>1. CASE e = Absent
    BY <2>1, EntryFacts, ResponseFacts DEF DeleteResponse, FetchReply, FetchEntry, Answer
  <2>2. CASE e = Waiting
    BY <2>2, EntryFacts, ResponseFacts DEF DeleteResponse, FetchReply, FetchEntry, Answer
  <2>3. CASE e.status = "ready"
    BY <1>1, <2>3, EntryFacts DEF DeleteResponse, FetchReply, FetchEntry
  <2> QED
    BY <1>1, <2>1, <2>2, <2>3, EntryFacts
<1>7. \A m \in drawn : m \in Nonces /\ entry[m] # Waiting => entry'[m] # Waiting
  BY <1>1, <1>3, <1>5, <1>6, EntryFacts DEF HandoffInv, PairingInv, TypeOK, StoreTypeOK
<1>8. CASE e.status # "ready" \/ (r = Status("error") /\ entry' = entry)
  <2>1. entry' = entry /\ r.payload = NoPayload
    BY <1>1, <1>3, <1>5, <1>6, <1>8, ResponseFacts DEF HandoffInv, PairingInv, TypeOK, StoreTypeOK
  <2>2. TokenStep /\ \A d \in Clients, b \in Bots : Holds(d, b)' => Holds(d, b)
    BY <1>1, <1>2, <1>4, <2>1, NoTokenMoves
  <2> QED
    BY <1>2, <1>7, <2>2 DEF HandedStep
<1>9. CASE e.status = "ready" /\ entry' = [entry EXCEPT ![n] = Absent]
  <2>0. PICK b \in Bots : b = e.payload.bot
    BY <1>6, <1>9, PayloadFacts
  <2>1. /\ botNonce[b] = n /\ b \in handed /\ n # NoNonce
        /\ e.payload # NoPayload /\ OfBot(e.payload, b) /\ InStore(b)
    BY <1>1, <1>6, <1>9, <2>0, PayloadFacts, SharedStoreAssumption
    DEF HandoffInv, PairingInv, StoreInv, InStore, OfBot
  <2>2. r.payload = NoPayload \/ r.payload = e.payload
    BY <1>3, <1>6, <1>9, ResponseFacts
  <2>3. \A m \in Nonces : entry'[m] = IF m = n THEN Absent ELSE entry[m]
    BY <1>9 DEF HandoffInv, PairingInv, TypeOK, StoreTypeOK
  <2>4. \A a \in Bots \ {b} : Still(a)
    <3> SUFFICES ASSUME NEW a \in Bots, a # b PROVE Still(a)
      OBVIOUS
    <3>1. \A m \in Nonces : OfBot(entry[m].payload, a)' <=> OfBot(entry[m].payload, a)
      BY <2>0, <2>3, EntryFacts DEF OfBot
    <3>2. \A d \in Clients : OfBot(response[d].payload, a)' <=> OfBot(response[d].payload, a)
      BY <1>1, <1>4, <2>0, <2>2 DEF OfBot
    <3>3. \A d \in Clients : OfBot(token[d], a)' <=> OfBot(token[d], a)
      BY <1>2
    <3> QED
      BY <1>2, <3>1, <3>2, <3>3, StillHere
  <2>5. \A d \in Clients : ~ OfBot(response[d].payload, b) /\ ~ OfBot(token[d], b)
    BY <2>1, PlacesApart DEF InResponse, InSession
  <2>6. \A m \in Nonces : OfBot(entry[m].payload, b) => m = n
    BY <2>1, EntryFacts DEF OfBot, HandoffInv, PairingInv, StoreInv, TypeOK, StoreTypeOK
  <2>7. ASSUME r.payload = e.payload PROVE TokenStep
    <3>1. Owns(c, b) /\ OfBot(response[c].payload, b)'
      BY <1>4, <2>1, <2>7 DEF Owns, OfBot
    <3> QED
      BY <1>2, <2>1, <2>4, <3>1 DEF TokenStep, TokenSent, OthersStill
  <2>8. ASSUME r.payload = NoPayload PROVE TokenStep
    <3>1. ~InStore(b)' /\ ~InResponse(b)' /\ ~InSession(b)'
      BY <1>2, <1>4, <2>3, <2>5, <2>6, <2>8, EntryFacts DEF InStore, InResponse, InSession, OfBot
    <3> QED
      BY <1>2, <2>1, <2>4, <3>1 DEF TokenStep, TokenLost, OthersStill
  <2>9. \A d \in Clients, a \in Bots : Holds(d, a)' => Holds(d, a) \/ a \in handed
    BY <1>2, <1>4, <2>0, <2>1, <2>2 DEF Holds, OfBot
  <2> QED
    BY <1>2, <1>7, <2>2, <2>7, <2>8, <2>9 DEF HandedStep
<1> QED
  BY <1>3, <1>6, <1>8, <1>9

LEMMA ReceiveToken ==
  ASSUME HandoffInv, NEW c \in Clients, Receive(c), UNCHANGED managerVars
  PROVE  TokenStep /\ HandedStep
<1>1. PICK p : p = response[c].payload
  OBVIOUS
<1>2. /\ UNCHANGED <<entry, handed, botState, botNonce, dm>>
      /\ \A d \in Clients : response'[d] = IF d = c THEN NoResponse ELSE response[d]
      /\ token' = IF response[c].status = "token" THEN [token EXCEPT ![c] = p] ELSE token
      /\ NoResponse.payload = NoPayload
  BY <1>1, ResponseFacts
  DEF Receive, Respond, StoreUntouched, managerVars, HandoffInv, PairingInv, TypeOK, ServerTypeOK
<1>3. /\ client[c] \in {"posting", "polling"} /\ token[c] = NoPayload
      /\ response[c].status = "token" <=> p # NoPayload
      /\ p \in Payloads \cup {NoPayload}
  BY <1>1 DEF Receive, HandoffInv, PairingInv, SessionInv, TypeOK, ServerTypeOK, Response
<1>4. HomesKept
  <2>1. response[c].status = "created" => nonceOf[c] = NoNonce
    BY DEF HandoffInv, PairingInv, SessionInv, HomeInv
  <2> QED
    BY <2>1 DEF Receive, HomesKept, HandoffInv, PairingInv, TypeOK, ServerTypeOK
<1>5. CASE p = NoPayload
  <2>1. \A d \in Clients : response'[d].payload = response[d].payload /\ token'[d] = token[d]
    BY <1>1, <1>2, <1>3, <1>5
  <2>2. TokenStep /\ \A d \in Clients, b \in Bots : Holds(d, b)' => Holds(d, b)
    BY <1>2, <1>4, <2>1, NoTokenMoves
  <2> QED
    BY <1>2, <2>2 DEF HandedStep
<1>6. CASE p # NoPayload
  <2>1. PICK b \in Bots : b = p.bot
    BY <1>3, <1>6, PayloadFacts
  <2>2. /\ \A d \in Clients : token'[d] = IF d = c THEN p ELSE token[d]
        /\ OfBot(p, b) /\ ~OfBot(NoPayload, b)
    BY <1>2, <1>3, <1>6, <2>1 DEF OfBot, HandoffInv, PairingInv, TypeOK, ServerTypeOK
  <2>3. \A d \in Clients, a \in Bots : Holds(d, a)' <=> Holds(d, a)
    BY <1>1, <1>2, <1>3, <2>2 DEF Holds, OfBot
  <2>4. \A a \in Bots \ {b} : Still(a)
    <3> SUFFICES ASSUME NEW a \in Bots, a # b PROVE Still(a)
      OBVIOUS
    <3>1. ~OfBot(p, a) /\ ~OfBot(NoPayload, a)
      BY <2>1 DEF OfBot
    <3>2. \A d \in Clients :
            /\ OfBot(response[d].payload, a)' <=> OfBot(response[d].payload, a)
            /\ OfBot(token[d], a)' <=> OfBot(token[d], a)
      BY <1>1, <1>2, <1>3, <2>2, <3>1
    <3> QED
      BY <1>2, <3>2, StillHere
  <2>5. InResponse(b) /\ InSession(b)'
    BY <1>1, <2>2 DEF InResponse, InSession
  <2>6. TokenServed(b)
    BY <2>3, <2>4, <2>5 DEF TokenServed, OthersStill
  <2> QED
    BY <1>2, <1>4, <2>3, <2>6 DEF TokenStep, HandedStep
<1> QED
  BY <1>5, <1>6

LEMMA LoseResponseToken ==
  ASSUME HandoffInv, NEW c \in Clients, LoseResponse(c), UNCHANGED managerVars
  PROVE  TokenStep /\ HandedStep
<1>1. PICK p : p = response[c].payload
  OBVIOUS
<1>2. /\ UNCHANGED <<entry, handed, nonceOf, token, botState, botNonce, dm>>
      /\ \A d \in Clients : response'[d] = IF d = c THEN NoResponse ELSE response[d]
      /\ NoResponse.payload = NoPayload
  BY ResponseFacts
  DEF LoseResponse, Respond, StoreUntouched, managerVars, HandoffInv, PairingInv, TypeOK,
      ServerTypeOK
<1>3. HomesKept /\ p \in Payloads \cup {NoPayload}
  BY <1>1, <1>2 DEF HomesKept, HandoffInv, PairingInv, TypeOK, ServerTypeOK, Response
<1>4. \A d \in Clients, a \in Bots : Holds(d, a)' => Holds(d, a)
  BY <1>2 DEF Holds, OfBot
<1>5. CASE p = NoPayload
  BY <1>1, <1>2, <1>3, <1>4, <1>5, NoTokenMoves DEF HandedStep
<1>6. CASE p # NoPayload
  <2>1. PICK b \in Bots : b = p.bot
    BY <1>3, <1>6, PayloadFacts
  <2>2. OfBot(response[c].payload, b) /\ ~OfBot(NoPayload, b)
    BY <1>1, <1>6, <2>1 DEF OfBot
  <2>3. \A a \in Bots \ {b} : Still(a)
    <3> SUFFICES ASSUME NEW a \in Bots, a # b PROVE Still(a)
      OBVIOUS
    <3>1. ~OfBot(p, a) /\ ~OfBot(NoPayload, a)
      BY <2>1 DEF OfBot
    <3>2. \A d \in Clients :
            /\ OfBot(response[d].payload, a)' <=> OfBot(response[d].payload, a)
            /\ OfBot(token[d], a)' <=> OfBot(token[d], a)
      BY <1>1, <1>2, <3>1
    <3> QED
      BY <1>2, <3>2, StillHere
  <2>4. InResponse(b) /\ b \in handed /\ ~InStore(b) /\ ~InSession(b)
    BY <2>2, PlacesApart DEF InResponse
  <2>5. \A d \in Clients : OfBot(response[d].payload, b) => d = c
    BY <2>2 DEF Holds, HandoffInv, PairingInv, OneHolder
  <2>6. ~InStore(b)' /\ ~InResponse(b)' /\ ~InSession(b)'
    BY <1>2, <2>2, <2>4, <2>5 DEF InStore, InResponse, InSession, OfBot
  <2>7. TokenLost(b)
    BY <1>2, <2>3, <2>4, <2>6 DEF TokenLost, OthersStill
  <2> QED
    BY <1>2, <1>3, <1>4, <2>7 DEF TokenStep, HandedStep
<1> QED
  BY <1>5, <1>6

LEMMA ExpireToken ==
  ASSUME HandoffInv, NEW n \in Nonces, Expire(n), UNCHANGED managerVars
  PROVE  TokenStep /\ HandedStep
<1>1. /\ UNCHANGED <<handed, nonceOf, response, token, botState, botNonce, dm>>
      /\ \A m \in Nonces : entry'[m] = IF m = n THEN Absent ELSE entry[m]
      /\ entry[n] \in Entry
  BY DEF Expire, serverVars, managerVars, HandoffInv, PairingInv, TypeOK, StoreTypeOK
<1>2. HomesKept /\ \A d \in Clients, a \in Bots : Holds(d, a)' => Holds(d, a)
  BY <1>1 DEF HomesKept, Holds, OfBot
<1>3. \A m \in drawn : m \in Nonces /\ entry[m] # Waiting => entry'[m] # Waiting
  BY <1>1, EntryFacts
<1>4. CASE entry[n].status # "ready"
  BY <1>1, <1>2, <1>3, <1>4, EntryFacts, NoTokenMoves DEF HandedStep
<1>5. CASE entry[n].status = "ready"
  <2>1. PICK b \in Bots : b = entry[n].payload.bot
    BY <1>1, <1>5, EntryFacts, PayloadFacts
  <2>2. /\ botNonce[b] = n /\ b \in handed /\ OfBot(entry[n].payload, b) /\ InStore(b)
        /\ ~OfBot(NoPayload, b)
    BY <1>1, <1>5, <2>1, EntryFacts, PayloadFacts
    DEF HandoffInv, PairingInv, StoreInv, OfBot, InStore
  <2>3. \A a \in Bots \ {b} : Still(a)
    <3> SUFFICES ASSUME NEW a \in Bots, a # b PROVE Still(a)
      OBVIOUS
    <3>1. \A m \in Nonces : OfBot(entry[m].payload, a)' <=> OfBot(entry[m].payload, a)
      BY <1>1, <2>1, EntryFacts DEF OfBot
    <3>2. \A d \in Clients : /\ OfBot(response[d].payload, a)' <=> OfBot(response[d].payload, a)
                             /\ OfBot(token[d], a)' <=> OfBot(token[d], a)
      BY <1>1
    <3> QED
      BY <1>1, <3>1, <3>2, StillHere
  <2>4. \A m \in Nonces : OfBot(entry[m].payload, b) => m = n
    BY <2>2, EntryFacts DEF OfBot, HandoffInv, PairingInv, StoreInv, TypeOK, StoreTypeOK
  <2>5. ~InStore(b)' /\ ~InResponse(b)' /\ ~InSession(b)'
    BY <1>1, <2>2, <2>4, EntryFacts, PlacesApart DEF InStore, InResponse, InSession
  <2>6. TokenLost(b)
    BY <1>1, <2>2, <2>3, <2>5 DEF TokenLost, OthersStill
  <2> QED
    BY <1>1, <1>2, <1>3, <2>6 DEF TokenStep, HandedStep
<1> QED
  BY <1>4, <1>5

\* A Complete, of a worker or of a remote manager.
LEMMA CompleteToken ==
  ASSUME HandoffInv, NEW b \in Bots, NEW p \in Payloads, p.bot = b, botNonce[b] # NoNonce,
         StoreComplete(botNonce[b], p) \/ StoreUntouched,
         UNCHANGED <<nonceOf, response, token, botState, botNonce, dm>>
  PROVE  TokenStep /\ HandedStep
<1>1. PICK n \in Nonces : n = botNonce[b]
  BY DEF HandoffInv, PairingInv, TypeOK, ManagerTypeOK
<1>2. HomesKept /\ \A d \in Clients, a \in Bots : Holds(d, a)' => Holds(d, a)
  BY DEF HomesKept, Holds, OfBot
<1>3. entry[n] \in Entry /\ botState[b] # "none" /\ n \in drawn
  BY <1>1 DEF HandoffInv, PairingInv, DrawnInv, UnbornInv, TypeOK, StoreTypeOK
<1>4. \/ UNCHANGED <<entry, handed>>
      \/ /\ entry[n] = Waiting
         /\ \A m \in Nonces : entry'[m] = IF m = n THEN Ready(p) ELSE entry[m]
         /\ handed' = handed \cup {b}
  <2>1. /\ entry[n] = Waiting => CompleteEntry(entry[n], p) = Ready(p) /\ entry[n].status = "waiting"
        /\ entry[n] # Waiting => CompleteEntry(entry[n], p) = entry[n] /\ entry[n].status # "waiting"
    BY <1>3, EntryFacts DEF CompleteEntry
  <2> QED
    BY <1>1, <2>1 DEF StoreComplete, StoreUntouched, HandoffInv, PairingInv, TypeOK, StoreTypeOK
<1>5. CASE UNCHANGED <<entry, handed>>
  BY <1>2, <1>5, NoTokenMoves DEF HandedStep
<1>6. CASE /\ entry[n] = Waiting
           /\ \A m \in Nonces : entry'[m] = IF m = n THEN Ready(p) ELSE entry[m]
           /\ handed' = handed \cup {b}
  <2>1. b \notin handed
    BY <1>1, <1>6 DEF HandoffInv, HandedInv
  <2>2. b \in dm => botState[b] = "deleted"
    BY <1>1, <1>3, <1>6, EntryFacts
    DEF HandoffInv, PairingInv, FallbackIsFinal, TypeOK, ManagerTypeOK
  <2>3. /\ Ready(p).status = "ready" /\ Ready(p) # Waiting
        /\ Ready(p).payload = p /\ p # NoPayload /\ entry[n].payload = NoPayload
    BY <1>6, EntryFacts, PayloadFacts
  <2>4. InStore(b)'
    BY <1>6, <2>3 DEF InStore, OfBot
  <2>5. \A a \in Bots \ {b} : Still(a)
    <3> SUFFICES ASSUME NEW a \in Bots, a # b PROVE Still(a)
      OBVIOUS
    <3>1. \A m \in Nonces : OfBot(entry[m].payload, a)' <=> OfBot(entry[m].payload, a)
      BY <1>6, <2>3 DEF OfBot
    <3>2. InStore(a)' <=> InStore(a)
      BY <3>1 DEF InStore
    <3> QED
      BY <1>6, <3>2 DEF Still
  <2>6. TokenStored(b)
    BY <1>1, <1>3, <2>1, <2>2, <2>4, <2>5 DEF TokenStored, OthersStill
  <2>7. \A m \in drawn : m \in Nonces /\ entry[m] # Waiting => entry'[m] # Waiting
    BY <1>6
  <2>8. \A a \in handed' \ handed : botNonce'[a] # NoNonce /\ entry'[botNonce'[a]].status = "ready"
    BY <1>1, <1>6, <2>3
  <2> QED
    BY <1>2, <1>6, <2>6, <2>7, <2>8 DEF TokenStep, HandedStep
<1> QED
  BY <1>4, <1>5, <1>6

LEMMA WorkerCompleteToken ==
  ASSUME HandoffInv, NEW w \in Workers, Complete(w), UNCHANGED serverVars
  PROVE  TokenStep /\ HandedStep
<1>1. PICK b \in Bots, p \in Payloads : b = wbot[w] /\ p = wtok[w]
  BY BusyWorker DEF Complete, HandoffInv, PairingInv, WorkerInv
<1>2. p.bot = b /\ botNonce[b] # NoNonce
  BY <1>1 DEF Complete, HandoffInv, PairingInv, WorkerInv
<1>3. StoreComplete(botNonce[b], p) \/ StoreUntouched
  BY <1>1 DEF Complete
<1> QED
  BY <1>1, <1>2, <1>3, CompleteToken DEF Complete, botVars, serverVars

LEMMA RemotePutToken ==
  ASSUME HandoffInv, NEW b \in Bots, RemotePut(b)
  PROVE  TokenStep /\ HandedStep
<1>1. PICK v \in 0 .. ver[b] : PutPair(botNonce[b], [bot |-> b, ver |-> v])
  BY DEF RemotePut
<1>2. PICK p : p = [bot |-> b, ver |-> v]
  OBVIOUS
<1>3. p \in Payloads /\ p.bot = b
  <2>1. v \in 0 .. MaxVer
    BY SharedStoreAssumption DEF HandoffInv, PairingInv, TypeOK, ManagerTypeOK
  <2> QED
    BY <1>2, <2>1, PayloadFacts
<1>4. StoreComplete(botNonce[b], p) \/ StoreUntouched
  BY <1>1, <1>2 DEF PutPair
<1> QED
  BY <1>1, <1>3, <1>4, CompleteToken DEF RemotePut, PutPair, managerVars

-----------------------------------------------------------------------------

\* A step that moves a token, whoever makes it.
LEMMA TokenMoves ==
  ASSUME FreshNonces, HandoffInv,
         \/ \E c \in Clients : SessionStep(c) /\ UNCHANGED managerVars
         \/ \E n \in Nonces : Expire(n) /\ UNCHANGED managerVars
         \/ \E b \in Bots : RemotePut(b)
         \/ \E w \in Workers : Complete(w) /\ UNCHANGED serverVars
  PROVE  TokenStep /\ HandedStep
  BY PostPairToken, DeletePairToken, ReceiveToken, LoseResponseToken, ExpireToken, RemotePutToken,
     WorkerCompleteToken
  DEF SessionStep

\* The steps of the manager's side that touch neither store nor sessions.
ManagerQuietStep ==
  \/ \E b \in Bots : DeleteBot(b) \/ ReplaceToken(b)
  \/ \E w \in Workers :
       \/ Crash(w) \/ GetManagedBotToken(w) \/ Fallback(w) \/ WebhookResponse(w)
       \/ \E b \in Bots : HandleUpdate(w, b)

LEMMA QuietStep ==
  ASSUME ManagerQuietStep, UNCHANGED serverVars
  PROVE  /\ UNCHANGED <<entry, handed, nonceOf, response, token, botNonce>>
         /\ ~(\E b \in Bots : DeleteBot(b)) => UNCHANGED botState
         /\ ~(\E b \in Bots : DeleteBot(b)) /\ ~(\E w \in Workers : Fallback(w)) => UNCHANGED dm
  BY DEF ManagerQuietStep, DeleteBot, ReplaceToken, HandleUpdate, GetManagedBotToken, Fallback,
         WebhookResponse, Crash, Idle, StoreUntouched, botVars, serverVars

\* A token cannot have been stored of a bot that does not exist yet.
LEMMA HandedQuiet ==
  ASSUME HandoffInv, UNCHANGED <<entry, handed, response, token>>,
         \A b \in Bots : botState[b] # "none" => botNonce'[b] = botNonce[b]
  PROVE  HandedStep
<1>1. \A b \in handed : b \in Bots /\ botState[b] # "none"
  BY DEF HandoffInv, HandedInv, PairingInv, UnbornInv, TypeOK, StoreTypeOK
<1> QED
  BY <1>1 DEF HandedStep, Holds, OfBot

LEMMA CreateBotHanded ==
  ASSUME HandoffInv, NEW b \in Bots, NEW n \in Nonces \cup {NoNonce}, NEW named \in BOOLEAN,
         CreateBot(b, n, named)
  PROVE  HandedStep
<1>1. \A a \in Bots : botState[a] # "none" => botNonce'[a] = botNonce[a]
  BY DEF CreateBot, HandoffInv, PairingInv, TypeOK, ManagerTypeOK
<1> QED
  BY <1>1, HandedQuiet DEF CreateBot, StoreUntouched, serverVars

LEMMA HandoffInvStep ==
  ASSUME FreshNonces, HandoffInv, [Next]_vars
  PROVE  HandoffInv'
<1>1. PairingInv' /\ HomeInv'
  BY PairingStep, HomeStep DEF HandoffInv
<1>2. HandedStep
  <2>1. ASSUME NEW b \in Bots, NEW n \in Nonces \cup {NoNonce}, NEW named \in BOOLEAN,
               CreateBot(b, n, named)
        PROVE  HandedStep
    BY <2>1, CreateBotHanded
  <2>2. ASSUME ManagerStep, UNCHANGED serverVars
        PROVE  HandedStep
    <3>1. ManagerQuietStep \/ \E w \in Workers : Complete(w)
      BY <2>2 DEF ManagerStep, WorkerStep, ManagerQuietStep
    <3>2. CASE ManagerQuietStep
      BY <2>2, <3>2, QuietStep, HandedQuiet
    <3> QED
      BY <2>2, <3>1, <3>2, TokenMoves
  <2>3. CASE UNCHANGED vars
    BY <2>3, HandedQuiet DEF vars
  <2> QED
    BY <2>1, <2>2, <2>3, TokenMoves DEF Next
<1> QED
  BY <1>1, <1>2, HandedKept DEF HandoffInv

\* A step that changes nothing the mapping looks at.
LEMMA SameMapped ==
  ASSUME HandoffInv, HandoffInv',
         UNCHANGED <<entry, handed, nonceOf, response, token, botNonce, botState, dm>>
  PROVE  UNCHANGED Abstract!handoffVars
<1>1. AbsStage' = AbsStage /\ AbsHolder' = AbsHolder /\ AbsHome' = AbsHome
  BY QuietMapped
<1> QED
  BY <1>1 DEF Abstract!handoffVars

LEMMA HandoffStep ==
  ASSUME FreshNonces, HandoffInv, HandoffInv', [Next]_vars
  PROVE  [Abstract!HandoffNext]_Abstract!handoffVars
<1>1. ASSUME NEW b \in Bots, NEW n \in Nonces \cup {NoNonce}, NEW named \in BOOLEAN,
             CreateBot(b, n, named)
      PROVE  Abstract!HandoffNext
  BY <1>1, CreatedMapped DEF Abstract!HandoffNext
<1>2. ASSUME NEW b \in Bots, DeleteBot(b), UNCHANGED serverVars
      PROVE  Abstract!HandoffNext
  BY <1>2, DeletedMapped DEF Abstract!HandoffNext
<1>3. ASSUME NEW w \in Workers, Fallback(w), UNCHANGED serverVars
      PROVE  Abstract!HandoffNext \/ UNCHANGED Abstract!handoffVars
  <2>1. wbot[w] \in Bots
    BY <1>3, BusyWorker DEF Fallback, HandoffInv
  <2> QED
    BY <1>3, <2>1, FallbackMapped DEF Abstract!HandoffNext
<1>4. ASSUME ManagerQuietStep, UNCHANGED serverVars,
             ~ \E b \in Bots : DeleteBot(b), ~ \E w \in Workers : Fallback(w)
      PROVE  UNCHANGED Abstract!handoffVars
  BY <1>4, QuietStep, SameMapped
<1>5. CASE UNCHANGED vars
  BY <1>5, SameMapped DEF vars
<1>6. ASSUME ManagerStep, UNCHANGED serverVars
      PROVE  ManagerQuietStep \/ \E w \in Workers : Complete(w)
  BY <1>6 DEF ManagerStep, WorkerStep, ManagerQuietStep
<1>7. ASSUME TokenStep
      PROVE  Abstract!HandoffNext \/ UNCHANGED Abstract!handoffVars
  BY <1>7, TokenMapped
<1> QED
  BY <1>1, <1>2, <1>3, <1>4, <1>5, <1>6, <1>7, TokenMoves DEF Next

LEMMA HandoffInitially == Init => HandoffInv /\ Abstract!HandoffInit
<1> SUFFICES ASSUME Init PROVE HandoffInv /\ Abstract!HandoffInit
  OBVIOUS
<1>1. PairingInv
  BY InitInv
<1>2. HomeInv
  BY ResponseFacts DEF Init, ServerInit, ManagerInit, HomeInv
<1>3. HandedInv
  BY ResponseFacts DEF Init, StoreInit, ServerInit, HandedInv, Holds, OfBot
<1>4. HandoffInv
  BY <1>1, <1>2, <1>3 DEF HandoffInv
<1>5. \A b \in Bots : /\ botState[b] = "none" /\ botNonce[b] = NoNonce
                      /\ ~InResponse(b) /\ ~InSession(b)
  BY ResponseFacts DEF Init, ServerInit, ManagerInit, InResponse, InSession, OfBot
<1>6. \A b \in Bots : AbsStage[b] = "unborn" /\ AbsHome[b] = NoNonce /\ AbsHolder[b] = NoNonce
  BY <1>4, <1>5, Mapped DEF StageMapped, HomeMapped, HolderMapped
<1>7. /\ AbsStage = [b \in Bots |-> AbsStage[b]] /\ AbsHome = [b \in Bots |-> AbsHome[b]]
      /\ AbsHolder = [b \in Bots |-> AbsHolder[b]]
  BY DEF AbsStage, AbsHome, AbsHolder
<1>8. {b \in Bots : botState[b] = "deleted"} = {} /\ dm = {}
  BY <1>5 DEF Init, ManagerInit
<1> QED
  BY <1>4, <1>6, <1>7, <1>8 DEF Abstract!HandoffInit

(***************************************************************************)
(* With fresh nonces the strengthened invariant holds of the whole handoff.*)
(***************************************************************************)
THEOREM HandoffInvariance ==
  ASSUME FreshNonces
  PROVE  Spec => []HandoffInv
<1>1. HandoffInv /\ [Next]_vars => HandoffInv'
  BY HandoffInvStep
<1> QED
  BY <1>1, HandoffInitially, PTL DEF Spec

(***************************************************************************)
(* With fresh nonces every behaviour of client sessions, server, users,    *)
(* Telegram and workers, whatever fails, is one of the abstract handoff.   *)
(***************************************************************************)
THEOREM Refinement ==
  ASSUME FreshNonces
  PROVE  Spec => ImplementsHandoff
<1>1. HandoffInv /\ HandoffInv' /\ [Next]_vars => [Abstract!HandoffNext]_Abstract!handoffVars
  BY HandoffStep
<1> QED
  BY <1>1, HandoffInitially, HandoffInvariance, PTL DEF Spec, ImplementsHandoff, Abstract!HandoffSpec

-----------------------------------------------------------------------------
(***************************************************************************)
(* What the abstract specification is good for: its steps move a token one *)
(* way only, and a bot keeps the home it was made with.                    *)
(***************************************************************************)
Gone == {"sent", "served", "lost"}

LEMMA OneWay ==
  ASSUME NEW b \in Bots, AbsStage[b] \in Gone,
         [Abstract!HandoffNext]_Abstract!handoffVars
  PROVE  AbsStage'[b] \in Gone
<1>1. b \in DOMAIN AbsStage
  BY DEF AbsStage
<1>2. CASE UNCHANGED Abstract!handoffVars
  BY <1>2 DEF Abstract!handoffVars
<1>3. CASE Abstract!HandoffNext
  BY <1>1, <1>3
  DEF Abstract!HandoffNext, Abstract!BotCreated, Abstract!Stored, Abstract!Sent, Abstract!Served,
      Abstract!GotLost, Abstract!BotDeleted, Abstract!CreatorTold, Abstract!Move, Gone
<1> QED
  BY <1>2, <1>3

LEMMA HomeForLife ==
  ASSUME NEW b \in Bots, AbsStage[b] # "unborn",
         [Abstract!HandoffNext]_Abstract!handoffVars
  PROVE  AbsStage'[b] # "unborn" /\ AbsHome'[b] = AbsHome[b]
<1>1. b \in DOMAIN AbsStage /\ b \in DOMAIN AbsHome
  BY DEF AbsStage, AbsHome
<1>2. CASE UNCHANGED Abstract!handoffVars
  BY <1>2 DEF Abstract!handoffVars
<1>3. CASE Abstract!HandoffNext
  BY <1>1, <1>3
  DEF Abstract!HandoffNext, Abstract!BotCreated, Abstract!Stored, Abstract!Sent, Abstract!Served,
      Abstract!GotLost, Abstract!BotDeleted, Abstract!CreatorTold, Abstract!Move
<1> QED
  BY <1>2, <1>3

LEMMA AbstractSteps ==
  ASSUME FreshNonces
  PROVE  Spec => [][Abstract!HandoffNext]_Abstract!handoffVars
  BY Refinement, PTL DEF ImplementsHandoff, Abstract!HandoffSpec

(***************************************************************************)
(* A token that has left the store never comes back to it: neither a late  *)
(* or repeated delivery of the update, nor a crash, nor a lost response    *)
(* makes it available a second time.                                       *)
(***************************************************************************)
THEOREM NeverBack ==
  ASSUME FreshNonces, NEW b \in Bots
  PROVE  Spec => [](b \in handed /\ ~InStore(b) => []~InStore(b))
<1>1. HandoffInv /\ b \in handed /\ ~InStore(b) => AbsStage[b] \in Gone
  BY Mapped DEF StageMapped, Gone
<1>2. AbsStage[b] \in Gone /\ [Abstract!HandoffNext]_Abstract!handoffVars
        => (AbsStage[b] \in Gone)'
  BY OneWay
<1>3. HandoffInv /\ AbsStage[b] \in Gone => ~InStore(b)
  BY Mapped DEF StageMapped, Gone
<1> QED
  BY <1>1, <1>2, <1>3, AbstractSteps, HandoffInvariance, PTL

(***************************************************************************)
(* Once a session has been sent the token of a bot, no other session ever  *)
(* holds a token of that bot, not even after the first one lost it.        *)
(***************************************************************************)
THEOREM NoSecondSession ==
  ASSUME FreshNonces, NEW b \in Bots, NEW c \in Clients
  PROVE  Spec => [](Holds(c, b) => [](\A d \in Clients : Holds(d, b) => d = c))
<1> DEFINE AtHome == AbsStage[b] # "unborn" /\ AbsHome[b] = c
<1>1. HandoffInv => \A d \in Clients : Holds(d, b) => AbsStage[b] # "unborn" /\ AbsHome[b] = d
  <2> SUFFICES ASSUME HandoffInv, NEW d \in Clients, Holds(d, b)
               PROVE  AbsStage[b] # "unborn" /\ AbsHome[b] = d
    OBVIOUS
  <2>1. InResponse(b) \/ InSession(b)
    BY DEF InResponse, InSession, Holds
  <2>2. AbsStage[b] \in {"sent", "served"}
    BY <2>1, Mapped DEF StageMapped
  <2>3. Owns(d, b)
    BY DEF HandoffInv, PairingInv, HeldInv, Holds, OfBot, Owns
  <2> QED
    BY <2>2, <2>3, Mapped DEF HomeMapped
<1>2. HandoffInv /\ Holds(c, b) => AtHome
  BY <1>1
<1>3. AtHome /\ [Abstract!HandoffNext]_Abstract!handoffVars => AtHome'
  BY HomeForLife
<1>4. HandoffInv /\ AtHome => \A d \in Clients : Holds(d, b) => d = c
  BY <1>1
<1> HIDE DEF AtHome
<1> QED
  BY <1>2, <1>3, <1>4, AbstractSteps, HandoffInvariance, PTL
=============================================================================
