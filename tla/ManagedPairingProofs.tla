------------------------ MODULE ManagedPairingProofs ------------------------
(***************************************************************************)
(* The safety of the whole handoff, for any sets of sessions, nonces, bots *)
(* and workers and any number of faults, given fresh nonces: PairingInv is *)
(* an invariant, and the properties of ManagedPairing follow from it.      *)
(***************************************************************************)
EXTENDS ManagedPairing, TLAPS

\* What the status of an entry says of its payload.
LEMMA EntryFacts ==
  /\ Absent \in Entry /\ Waiting \in Entry
  /\ \A p \in Payloads : Ready(p) \in Entry
  /\ Absent.status = "absent" /\ Waiting.status = "waiting"
  /\ Absent.payload = NoPayload /\ Waiting.payload = NoPayload
  /\ \A p \in Payloads : Ready(p).status = "ready" /\ Ready(p).payload = p
  /\ \A e \in Entry : \/ e = Absent \/ e = Waiting
                      \/ e.status = "ready" /\ e.payload \in Payloads /\ e = Ready(e.payload)
  <1>1. /\ Absent.status = "absent" /\ Waiting.status = "waiting"
        /\ Absent.payload = NoPayload /\ Waiting.payload = NoPayload
        /\ \A p \in Payloads : Ready(p).status = "ready" /\ Ready(p).payload = p
    BY DEF Absent, Waiting, Ready
  <1>2. /\ Absent \in Entry /\ Waiting \in Entry
        /\ \A p \in Payloads : Ready(p) \in Entry
        /\ \A e \in Entry : e = Absent \/ e = Waiting \/ \E p \in Payloads : e = Ready(p)
    BY DEF Entry
  <1>3. QED
    BY <1>1, <1>2

\* What tokens and the empty payload are.
LEMMA PayloadFacts ==
  /\ NoPayload \notin Payloads
  /\ \A p \in Payloads : p.bot \in Bots
  /\ \A b \in Bots : \A v \in 0 .. MaxVer : [bot |-> b, ver |-> v] \in Payloads
  BY PayloadAssumption, SharedStoreAssumption

(***************************************************************************)
(* What each store call answers and does, case by case.                    *)
(***************************************************************************)
LEMMA OperationFacts ==
  ASSUME NEW e \in Entry, NEW p \in Payloads
  PROVE  /\ e = Absent => /\ PutReply(e).err = "ok" /\ PutEntry(e) = Waiting
                          /\ CompleteReply(e).err = "ErrNotFound"
                          /\ CompleteEntry(e, p) = e
                          /\ FetchReply(e) = Answer("ErrNotFound") /\ FetchEntry(e) = e
         /\ e = Waiting => /\ CompleteReply(e).err = "ok"
                           /\ CompleteEntry(e, p) = Ready(p)
                           /\ FetchReply(e) = Answer("ErrNotReady") /\ FetchEntry(e) = e
         /\ e.status = "ready" => /\ CompleteReply(e).err = "ErrInvalidState"
                                  /\ CompleteEntry(e, p) = e
                                  /\ FetchReply(e) = [err |-> "ok", payload |-> e.payload]
                                  /\ FetchEntry(e) = Absent
  <1>1. CASE e = Absent
    BY <1>1, EntryFacts DEF PutReply, PutEntry, CompleteReply, CompleteEntry, FetchReply,
                            FetchEntry, Answer
  <1>2. CASE e = Waiting
    BY <1>2, EntryFacts DEF CompleteReply, CompleteEntry, FetchReply, FetchEntry, Answer
  <1>3. CASE e.status = "ready"
    BY <1>3, EntryFacts DEF CompleteReply, CompleteEntry, FetchReply, FetchEntry, Answer
  <1>4. QED
    BY <1>1, <1>2, <1>3, EntryFacts

-----------------------------------------------------------------------------

(***************************************************************************)
(* The responses, field by field.                                          *)
(***************************************************************************)
LEMMA ResponseFacts ==
  /\ NoResponse \in Response /\ NoResponse.status = "none" /\ NoResponse.payload = NoPayload
  /\ \A n \in Nonces : /\ Created(n) \in Response /\ Created(n).status = "created"
                        /\ Created(n).nonce = n /\ Created(n).payload = NoPayload
                        /\ Created(n) # NoResponse
  /\ \A p \in Payloads : /\ Token(p) \in Response /\ Token(p).status = "token"
                          /\ Token(p).payload = p /\ Token(p) # NoResponse
  /\ \A s \in {"waiting", "not_found", "error"} :
        /\ Status(s) \in Response /\ Status(s).status = s
        /\ Status(s).payload = NoPayload /\ Status(s) # NoResponse
<1>1. NoResponse \in Response /\ NoResponse.status = "none" /\ NoResponse.payload = NoPayload
  BY DEF NoResponse, Response
<1>2. \A s : Status(s) = [status |-> s, nonce |-> NoNonce, payload |-> NoPayload]
  BY DEF Status, NoResponse
<1>3. \A n : Created(n) = [status |-> "created", nonce |-> n, payload |-> NoPayload]
  BY <1>2 DEF Created
<1>4. \A p : Token(p) = [status |-> "token", nonce |-> NoNonce, payload |-> p]
  BY <1>2 DEF Token
<1>5. QED
  BY <1>1, <1>2, <1>3, <1>4 DEF Response

(***************************************************************************)
(* The only ways an entry changes.                                         *)
(***************************************************************************)
EntryStep ==
  \A n \in Nonces :
    \/ entry'[n] = entry[n]
    \/ entry'[n] = Absent
    \/ n \notin drawn /\ n \in drawn' /\ entry'[n] = Waiting
    \/ /\ entry[n] = Waiting
       /\ \E p \in Payloads : entry'[n] = Ready(p) /\ botNonce[p.bot] = n /\ p.bot \in handed'

(***************************************************************************)
(* A step that leaves the manager's side alone and changes entries in      *)
(* these ways keeps every part of the invariant that is about neither      *)
(* sessions nor the answers to remote managers.                            *)
(***************************************************************************)
LEMMA StoreSideStep ==
  ASSUME PairingInv, EntryStep, UNCHANGED managerVars,
         handed \subseteq handed', drawn \subseteq drawn'
  PROVE  /\ \A n \in Nonces : entry'[n] # Absent => n \in drawn'
         /\ \A n \in drawn : n \in Nonces /\ entry[n] = Absent => entry'[n] = Absent
         /\ \A b \in Bots : botNonce'[b] # NoNonce => botNonce'[b] \in drawn'
         /\ OneBotPerNonce' /\ UnbornInv' /\ StoreInv' /\ WorkerInv' /\ FallbackIsFinal'
         /\ \A b \in Bots : update'[b] = "acked" => Outcome(b)'
         /\ ManagerTypeOK'
  <1> USE DEF managerVars
  <1>1. \A n \in drawn : n \in Nonces /\ entry[n] = Absent => entry'[n] = Absent
    BY EntryFacts DEF EntryStep
  <1>2. \A n \in Nonces : entry'[n] # Absent => n \in drawn'
    BY EntryFacts DEF EntryStep, PairingInv, DrawnInv
  <1>3. /\ \A b \in Bots : botNonce'[b] # NoNonce => botNonce'[b] \in drawn'
        /\ OneBotPerNonce' /\ UnbornInv'
    BY DEF PairingInv, DrawnInv, OneBotPerNonce, UnbornInv
  <1>4. StoreInv'
    <2> SUFFICES ASSUME NEW n \in Nonces, entry'[n].status = "ready"
                 PROVE  /\ botNonce[entry'[n].payload.bot] = n
                        /\ entry'[n].payload.bot \in handed'
      BY DEF StoreInv
    <2>1. entry'[n] = entry[n] \/ \E p \in Payloads :
            entry'[n] = Ready(p) /\ botNonce[p.bot] = n /\ p.bot \in handed'
      BY EntryFacts DEF EntryStep
    <2>2. QED
      BY <2>1, EntryFacts DEF PairingInv, StoreInv
  <1>5. WorkerInv'
    <2>1. \A b : Outcome(b) => Outcome(b)'
      BY DEF Outcome
    <2>2. \A w \in Workers : wpc[w] = "fallback" => wbot[w] \in Bots
      BY DEF PairingInv, WorkerInv, TypeOK, ManagerTypeOK
    <2>3. \A b \in Bots : botNonce[b] # NoNonce /\ entry[botNonce[b]] = Absent
                            => entry'[botNonce[b]] = Absent
      BY <1>1 DEF PairingInv, DrawnInv, TypeOK, ManagerTypeOK
    <2>4. QED
      BY <2>1, <2>2, <2>3 DEF PairingInv, WorkerInv
  <1>6. FallbackIsFinal'
    BY <1>1 DEF PairingInv, FallbackIsFinal, DrawnInv, TypeOK, ManagerTypeOK
  <1>7. \A b \in Bots : update'[b] = "acked" => Outcome(b)'
    BY DEF PairingInv, AckImpliesOutcome, Outcome
  <1>8. ManagerTypeOK'
    BY DEF PairingInv, TypeOK, ManagerTypeOK
  <1>9. QED
    BY <1>1, <1>2, <1>3, <1>4, <1>5, <1>6, <1>7, <1>8

(***************************************************************************)
(* A step of the manager's side that touches neither the store nor the     *)
(* server nor the usernames of bots keeps the rest.                        *)
(***************************************************************************)
LEMMA ManagerSideStep ==
  ASSUME PairingInv, StoreUntouched, UNCHANGED serverVars, UNCHANGED <<botNonce, from>>,
         faults' \in Nat
  PROVE  /\ StoreTypeOK' /\ ServerTypeOK'
         /\ DrawnInv' /\ OneBotPerNonce' /\ SessionInv' /\ StoreInv' /\ HeldInv' /\ OneHolder'
         /\ \A b \in Bots : putStatus'[b] \in {200, 409} => b \in handed'
  <1> USE DEF StoreUntouched, serverVars
  <1>1. StoreTypeOK' /\ ServerTypeOK'
    BY DEF PairingInv, TypeOK, StoreTypeOK, ServerTypeOK
  <1>2. DrawnInv' /\ OneBotPerNonce' /\ SessionInv'
    BY DEF PairingInv, DrawnInv, OneBotPerNonce, SessionInv
  <1>3. StoreInv' /\ HeldInv'
    BY DEF PairingInv, StoreInv, HeldInv
  <1>4. OneHolder'
    BY DEF PairingInv, OneHolder, Holds, OfBot
  <1>5. \A b \in Bots : putStatus'[b] \in {200, 409} => b \in handed'
    BY DEF PairingInv, AckImpliesOutcome
  <1>6. QED
    BY <1>1, <1>2, <1>3, <1>4, <1>5

\* A call that fails leaves the count of faults within its type.
LEMMA FaultType ==
  ASSUME faults \in Nat, UNCHANGED faults \/ Fault
  PROVE  faults' \in Nat
  BY DEF Fault

-----------------------------------------------------------------------------
(***************************************************************************)
(* The steps of the server's side.                                         *)
(***************************************************************************)

(***************************************************************************)
(* POST /pair puts at most a fresh nonce in the store.                     *)
(***************************************************************************)
LEMMA PostPairStep ==
  ASSUME FreshNonces, PairingInv, NEW c \in Clients, NEW n \in Nonces, PostPair(c, n),
         UNCHANGED managerVars
  PROVE  PairingInv'
<1>1. client[c] = "start" /\ n \notin drawn /\ entry[n] = Absent /\ entry[n] \in Entry
  BY EntryFacts DEF PostPair, Draw, PairingInv, DrawnInv, TypeOK, StoreTypeOK
<1>2. /\ PutReply(entry[n]).err = "ok" /\ PutEntry(entry[n]) = Waiting
      /\ drawn' = drawn \cup {n} /\ handed' = handed
      /\ faults' \in Nat
      /\ entry' = [entry EXCEPT ![n] = Waiting] \/ entry' = entry
  BY <1>1, FaultType
  DEF PostPair, Draw, StorePut, StoreUntouched, PutReply, PutEntry, Answer,
      PairingInv, TypeOK, StoreTypeOK
<1>3. PICK r \in {Created(n), Status("error")} : Respond(c, r)
  BY DEF PostPair
<1>5. /\ r \in Response /\ r.payload = NoPayload /\ r.status \in {"created", "error"}
      /\ r.status = "created" => r.nonce = n
      /\ r # NoResponse
  BY <1>3, ResponseFacts
<1>6. EntryStep
  BY <1>1, <1>2 DEF EntryStep, PairingInv, TypeOK, StoreTypeOK
<1>7. UNCHANGED <<nonceOf, token, putStatus>> /\ client' = [client EXCEPT ![c] = "posting"]
  BY DEF PostPair
<1>8. StoreTypeOK'
  BY <1>2, EntryFacts DEF PairingInv, TypeOK, StoreTypeOK
<1>9. ServerTypeOK'
  BY <1>2, <1>3, <1>5, <1>7 DEF Respond, PairingInv, TypeOK, ServerTypeOK
<1>10. DrawnInv'
  BY <1>2, <1>6, <1>7, StoreSideStep DEF PairingInv, DrawnInv
<1>11. SessionInv'
  BY <1>1, <1>2, <1>3, <1>5, <1>7
  DEF Respond, PairingInv, SessionInv, TypeOK, ServerTypeOK, NoResponse
<1>12. HeldInv'
  <2>1. \A d \in Clients : nonceOf[d] # NoNonce /\ entry[nonceOf[d]] = Absent
                             => entry'[nonceOf[d]] = Absent
    BY <1>2, <1>6, StoreSideStep DEF PairingInv, DrawnInv, TypeOK, ServerTypeOK
  <2>2. QED
    BY <1>3, <1>5, <1>7, <2>1
    DEF Respond, PairingInv, HeldInv, TypeOK, ServerTypeOK, managerVars
<1>13. OneHolder'
  BY <1>3, <1>5, <1>7
  DEF Respond, PairingInv, OneHolder, Holds, OfBot, TypeOK, ServerTypeOK
<1>14. QED
  BY <1>2, <1>6, <1>7, <1>8, <1>9, <1>10, <1>11, <1>12, <1>13, StoreSideStep
  DEF PairingInv, TypeOK, AckImpliesOutcome

(***************************************************************************)
(* DELETE /pair/{nonce} moves a token from the store into a response, or   *)
(* loses it.                                                               *)
(***************************************************************************)
LEMMA DeletePairStep ==
  ASSUME FreshNonces, PairingInv, NEW c \in Clients, DeletePair(c), UNCHANGED managerVars
  PROVE  PairingInv'
<1> DEFINE n == nonceOf[c]
           e == entry[n]
<1>1. /\ client[c] = "polling" /\ response[c] = NoResponse
      /\ n \in Nonces /\ n \in drawn /\ e \in Entry
      /\ token[c] = NoPayload
  BY DEF DeletePair, PairingInv, SessionInv, DrawnInv, TypeOK, StoreTypeOK, ServerTypeOK
<1>2. /\ handed' = handed /\ faults' \in Nat
      /\ entry' = [entry EXCEPT ![n] = FetchEntry(e)] \/ entry' = entry
  BY FaultType
  DEF DeletePair, StoreFetch, StoreUntouched, PairingInv, TypeOK, StoreTypeOK
<1>3. FetchEntry(e) = e \/ FetchEntry(e) = Absent
  BY DEF FetchEntry
<1>4. PICK r : /\ Respond(c, r)
               /\ \/ r \in {Status("error"), Status("waiting"), Status("not_found")}
                  \/ /\ e.status = "ready" /\ e.payload \in Payloads
                     /\ r = Token(e.payload) /\ entry' = [entry EXCEPT ![n] = Absent]
  <2>1. \/ DeleteResponse(e) \in {Status("waiting"), Status("not_found")}
        \/ /\ e.status = "ready" /\ e.payload \in Payloads
           /\ DeleteResponse(e) = Token(e.payload) /\ FetchEntry(e) = Absent
    <3>1. CASE e = Absent
      BY <3>1 DEF DeleteResponse, FetchReply, Answer, Absent
    <3>2. CASE e = Waiting
      BY <3>2 DEF DeleteResponse, FetchReply, Answer, Waiting
    <3>3. CASE e.status = "ready"
      BY <1>1, <3>3, EntryFacts DEF DeleteResponse, FetchReply, FetchEntry
    <3>4. QED
      BY <1>1, <3>1, <3>2, <3>3, EntryFacts
  <2>2. QED
    BY <2>1 DEF DeletePair, StoreFetch
<1>5. /\ r \in Response /\ r.status \in {"token", "waiting", "not_found", "error"}
      /\ r # NoResponse
      /\ r.status = "token" <=> r.payload # NoPayload
      /\ r.payload # NoPayload =>
           /\ e.status = "ready" /\ r.payload = e.payload /\ e.payload \in Payloads
           /\ entry'[n] = Absent
  <2>1. CASE r \in {Status("error"), Status("waiting"), Status("not_found")}
    BY <2>1, ResponseFacts
  <2>2. CASE /\ e.status = "ready" /\ e.payload \in Payloads
             /\ r = Token(e.payload) /\ entry' = [entry EXCEPT ![n] = Absent]
    BY <1>1, <2>2, ResponseFacts, PayloadFacts DEF PairingInv, TypeOK, StoreTypeOK
  <2>3. QED
    BY <1>4, <2>1, <2>2
<1>6. UNCHANGED <<drawn, client, nonceOf, token, putStatus>>
  BY DEF DeletePair
<1>7. EntryStep
  BY <1>1, <1>2, <1>3 DEF EntryStep, PairingInv, TypeOK, StoreTypeOK
<1>8. \A d \in Clients : nonceOf[d] # NoNonce /\ entry[nonceOf[d]] = Absent
                           => entry'[nonceOf[d]] = Absent
  BY <1>2, <1>6, <1>7, StoreSideStep DEF PairingInv, DrawnInv, TypeOK, ServerTypeOK
<1>9. r.payload # NoPayload =>
        /\ botNonce[r.payload.bot] = n
        /\ \A d \in Clients : ~ Holds(d, r.payload.bot)
  <2> SUFFICES ASSUME r.payload # NoPayload
               PROVE  /\ botNonce[r.payload.bot] = n
                      /\ \A d \in Clients : ~ Holds(d, r.payload.bot)
    OBVIOUS
  <2>1. botNonce[r.payload.bot] = n
    BY <1>1, <1>5 DEF PairingInv, StoreInv
  <2>2. e # Absent
    BY <1>5, EntryFacts
  <2>3. QED
    BY <2>1, <2>2 DEF PairingInv, HeldInv, Holds, OfBot
<1>10. StoreTypeOK'
  BY <1>1, <1>2, <1>3, EntryFacts DEF PairingInv, TypeOK, StoreTypeOK
<1>11. ServerTypeOK'
  BY <1>4, <1>5, <1>6 DEF Respond, PairingInv, TypeOK, ServerTypeOK
<1>12. DrawnInv'
  BY <1>2, <1>6, <1>7, StoreSideStep DEF PairingInv, DrawnInv
<1>13. SessionInv'
  BY <1>1, <1>4, <1>5, <1>6
  DEF Respond, PairingInv, SessionInv, TypeOK, ServerTypeOK, NoResponse
<1>14. HeldInv'
  <2>1. \A d \in Clients : \A p \in {response'[d].payload, token'[d]} :
          p # NoPayload => \/ p \in {response[d].payload, token[d]}
                           \/ d = c /\ p = r.payload
    BY <1>4, <1>6 DEF Respond, PairingInv, TypeOK, ServerTypeOK
  <2>2. \A d \in Clients : \A p \in {response[d].payload, token[d]} : p # NoPayload =>
          botNonce[p.bot] = nonceOf[d] /\ nonceOf[d] # NoNonce /\ entry'[nonceOf[d]] = Absent
    BY <1>8 DEF PairingInv, HeldInv
  <2>3. r.payload # NoPayload =>
          botNonce[r.payload.bot] = nonceOf[c] /\ nonceOf[c] # NoNonce /\ entry'[nonceOf[c]] = Absent
    BY <1>1, <1>5, <1>9, SharedStoreAssumption
  <2>4. QED
    BY <1>6, <2>1, <2>2, <2>3 DEF HeldInv, managerVars
<1>15. OneHolder'
  <2>1. \A d \in Clients, b \in Bots :
          Holds(d, b)' => Holds(d, b) \/ (d = c /\ OfBot(r.payload, b))
    BY <1>4, <1>6 DEF Respond, Holds, PairingInv, TypeOK, ServerTypeOK
  <2>2. QED
    BY <1>9, <2>1 DEF PairingInv, OneHolder, OfBot
<1>16. QED
  BY <1>2, <1>6, <1>7, <1>10, <1>11, <1>12, <1>13, <1>14, <1>15, StoreSideStep
  DEF PairingInv, TypeOK, AckImpliesOutcome

(***************************************************************************)
(* A session reads its response or never gets it.                          *)
(***************************************************************************)
LEMMA ReceiveStep ==
  ASSUME PairingInv, NEW c \in Clients, Receive(c), UNCHANGED managerVars
  PROVE  PairingInv'
<1> DEFINE r == response[c]
<1>1. /\ r # NoResponse /\ r \in Response /\ r.status # "none"
      /\ client[c] \in {"posting", "polling"} /\ token[c] = NoPayload
  BY DEF Receive, PairingInv, SessionInv, TypeOK, ServerTypeOK
<1>2. UNCHANGED <<entry, handed, drawn, faults, putStatus>> /\ Respond(c, NoResponse)
  BY DEF Receive, StoreUntouched
<1>3. EntryStep
  BY <1>2 DEF EntryStep
<1>4. /\ client' = [client EXCEPT ![c] = NextState(c)]
      /\ nonceOf' = IF r.status = "created" THEN [nonceOf EXCEPT ![c] = r.nonce] ELSE nonceOf
      /\ token' = IF r.status = "token" THEN [token EXCEPT ![c] = r.payload] ELSE token
  BY DEF Receive
<1>5. /\ NextState(c) \in {"start", "posting", "polling", "served", "stopped"}
      /\ r.status = "created" => NextState(c) = "polling" /\ r.nonce \in Nonces
      /\ r.status = "token" => NextState(c) = "served"
      /\ NextState(c) = "polling" => r.status = "created" \/ client[c] = "polling"
  BY <1>1, SharedStoreAssumption
  DEF NextState, PairingInv, SessionInv, TypeOK, ServerTypeOK, StoreTypeOK, DrawnInv
<1>6. NoResponse \in Response /\ NoResponse.payload = NoPayload /\ NoResponse.status = "none"
  BY DEF NoResponse, Response
<1>7. ServerTypeOK'
  BY <1>1, <1>2, <1>4, <1>5, <1>6 DEF Respond, Response, PairingInv, TypeOK, ServerTypeOK
<1>8. StoreTypeOK'
  BY <1>2 DEF PairingInv, TypeOK, StoreTypeOK
<1>9. DrawnInv'
  BY <1>1, <1>2, <1>3, <1>4, StoreSideStep
  DEF PairingInv, DrawnInv, SessionInv, TypeOK, ServerTypeOK
<1>10. SessionInv'
  BY <1>1, <1>2, <1>4, <1>5, <1>6, SharedStoreAssumption
  DEF Respond, PairingInv, SessionInv, TypeOK, ServerTypeOK
<1>11. HeldInv'
  <2>1. \A d \in Clients : \A p \in {response'[d].payload, token'[d]} :
          p # NoPayload => /\ p \in {response[d].payload, token[d]}
                           /\ nonceOf'[d] = nonceOf[d]
    BY <1>1, <1>2, <1>4, <1>6 DEF Respond, PairingInv, SessionInv, TypeOK, ServerTypeOK
  <2>2. QED
    BY <1>2, <2>1 DEF PairingInv, HeldInv, managerVars
<1>12. OneHolder'
  <2>1. \A d \in Clients, b \in Bots : Holds(d, b)' => Holds(d, b)
    BY <1>2, <1>4, <1>6 DEF Respond, Holds, OfBot, PairingInv, TypeOK, ServerTypeOK
  <2>2. QED
    BY <2>1 DEF PairingInv, OneHolder
<1>13. QED
  BY <1>2, <1>3, <1>7, <1>8, <1>9, <1>10, <1>11, <1>12, StoreSideStep
  DEF PairingInv, TypeOK, AckImpliesOutcome

\* A response that is lost hands its token to nobody.
LEMMA LoseResponseStep ==
  ASSUME PairingInv, NEW c \in Clients, LoseResponse(c), UNCHANGED managerVars
  PROVE  PairingInv'
<1>1. /\ response[c] # NoResponse /\ client[c] \in {"posting", "polling"}
      /\ token[c] = NoPayload
  BY DEF LoseResponse, PairingInv, SessionInv, TypeOK, ServerTypeOK
<1>2. /\ UNCHANGED <<entry, handed, drawn, nonceOf, token, putStatus>>
      /\ Respond(c, NoResponse) /\ faults' \in Nat
      /\ client' = IF client[c] = "posting" THEN [client EXCEPT ![c] = "start"] ELSE client
  BY FaultType DEF LoseResponse, StoreUntouched, PairingInv, TypeOK, StoreTypeOK
<1>3. EntryStep
  BY <1>2 DEF EntryStep
<1>4. NoResponse \in Response /\ NoResponse.payload = NoPayload /\ NoResponse.status = "none"
  BY DEF NoResponse, Response
<1>5. ServerTypeOK'
  BY <1>2, <1>4 DEF Respond, PairingInv, TypeOK, ServerTypeOK
<1>6. StoreTypeOK'
  BY <1>2 DEF PairingInv, TypeOK, StoreTypeOK
<1>7. DrawnInv'
  BY <1>2, <1>3, StoreSideStep DEF PairingInv, DrawnInv
<1>8. SessionInv'
  BY <1>1, <1>2, <1>4 DEF Respond, PairingInv, SessionInv, TypeOK, ServerTypeOK
<1>9. HeldInv'
  BY <1>2, <1>4 DEF Respond, PairingInv, HeldInv, TypeOK, ServerTypeOK, managerVars
<1>10. OneHolder'
  BY <1>2, <1>4 DEF Respond, PairingInv, OneHolder, Holds, OfBot, TypeOK, ServerTypeOK
<1>11. QED
  BY <1>2, <1>3, <1>5, <1>6, <1>7, <1>8, <1>9, <1>10, StoreSideStep
  DEF PairingInv, TypeOK, AckImpliesOutcome

(***************************************************************************)
(* An entry runs out of time.                                              *)
(***************************************************************************)
LEMMA ExpireStep ==
  ASSUME PairingInv, NEW n \in Nonces, Expire(n), UNCHANGED managerVars
  PROVE  PairingInv'
<1>1. /\ entry' = [entry EXCEPT ![n] = Absent]
      /\ UNCHANGED <<handed, faults>> /\ UNCHANGED serverVars
  BY DEF Expire
<1>2. EntryStep
  BY <1>1 DEF EntryStep, PairingInv, TypeOK, StoreTypeOK
<1>3. StoreTypeOK' /\ ServerTypeOK'
  BY <1>1, EntryFacts DEF PairingInv, TypeOK, StoreTypeOK, ServerTypeOK, serverVars
<1>4. DrawnInv' /\ SessionInv'
  BY <1>1, <1>2, StoreSideStep DEF PairingInv, DrawnInv, SessionInv, serverVars
<1>5. HeldInv'
  BY <1>1 DEF PairingInv, HeldInv, TypeOK, StoreTypeOK, ServerTypeOK, serverVars, managerVars
<1>6. OneHolder'
  BY <1>1 DEF PairingInv, OneHolder, Holds, OfBot, serverVars
<1>7. QED
  BY <1>1, <1>2, <1>3, <1>4, <1>5, <1>6, StoreSideStep
  DEF PairingInv, TypeOK, AckImpliesOutcome, serverVars

(***************************************************************************)
(* What a Complete for bot b does to the entry of its nonce, whether it    *)
(* comes from a worker or through PUT /pair/{nonce}.                       *)
(***************************************************************************)
LEMMA CompleteEffect ==
  ASSUME PairingInv, NEW p \in Payloads, botNonce[p.bot] # NoNonce,
         StoreComplete(botNonce[p.bot], p) \/ StoreUntouched
  PROVE  LET n == botNonce[p.bot] IN
         /\ n \in Nonces /\ n \in drawn /\ entry[n] \in Entry
         /\ EntryStep /\ handed \subseteq handed' /\ handed' \in SUBSET Bots
         /\ entry' \in [Nonces -> Entry]
         /\ \A m \in drawn : m \in Nonces /\ entry[m] = Absent => entry'[m] = Absent
         /\ CompleteReply(entry[n]).err \in {"ok", "ErrNotFound", "ErrInvalidState"}
         /\ CompleteReply(entry[n]).err = "ErrNotFound" => entry[n] = Absent
         /\ StoreComplete(n, p) /\ CompleteReply(entry[n]).err # "ErrNotFound"
              => p.bot \in handed'
<1> DEFINE n == botNonce[p.bot]
<1>1. p.bot \in Bots /\ n \in Nonces /\ n \in drawn /\ entry[n] \in Entry
  BY PayloadFacts DEF PairingInv, DrawnInv, TypeOK, StoreTypeOK, ManagerTypeOK
<1>2. /\ entry[n] = Absent =>
           CompleteReply(entry[n]).err = "ErrNotFound" /\ CompleteEntry(entry[n], p) = entry[n]
      /\ entry[n] = Waiting =>
           CompleteReply(entry[n]).err = "ok" /\ CompleteEntry(entry[n], p) = Ready(p)
      /\ entry[n].status = "ready" =>
           CompleteReply(entry[n]).err = "ErrInvalidState" /\ CompleteEntry(entry[n], p) = entry[n]
  BY <1>1, OperationFacts
<1>3. entry[n] = Absent \/ entry[n] = Waiting \/ entry[n].status = "ready"
  BY <1>1, EntryFacts
<1>4. /\ handed \subseteq handed' /\ handed' \in SUBSET Bots
      /\ entry[n] = Waiting /\ StoreComplete(n, p) => p.bot \in handed'
  BY <1>1, EntryFacts DEF StoreComplete, StoreUntouched, PairingInv, TypeOK, StoreTypeOK
<1>5. \/ entry' = entry
      \/ entry[n] = Waiting /\ StoreComplete(n, p) /\ entry' = [entry EXCEPT ![n] = Ready(p)]
  BY <1>1, <1>2, <1>3 DEF StoreComplete, StoreUntouched, PairingInv, TypeOK, StoreTypeOK
<1>6. entry' \in [Nonces -> Entry]
  BY <1>5, EntryFacts DEF PairingInv, TypeOK, StoreTypeOK
<1>7. EntryStep
  BY <1>1, <1>4, <1>5 DEF EntryStep, PairingInv, TypeOK, StoreTypeOK
<1>8. \A m \in drawn : m \in Nonces /\ entry[m] = Absent => entry'[m] = Absent
  BY <1>1, <1>5, EntryFacts DEF PairingInv, TypeOK, StoreTypeOK
<1>9. entry[n].status = "ready" => p.bot \in handed
  BY <1>1, EntryFacts, PayloadFacts DEF PairingInv, StoreInv, OneBotPerNonce
<1>10. QED
  BY <1>1, <1>2, <1>3, <1>4, <1>6, <1>7, <1>8, <1>9

(***************************************************************************)
(* After a Complete, what sessions hold is as before.                      *)
(***************************************************************************)
LEMMA CompleteSessions ==
  ASSUME PairingInv, UNCHANGED <<drawn, client, nonceOf, response, token, botNonce>>,
         \A m \in drawn : m \in Nonces /\ entry[m] = Absent => entry'[m] = Absent
  PROVE  SessionInv' /\ HeldInv' /\ OneHolder'
<1>1. SessionInv'
  BY DEF PairingInv, SessionInv
<1>2. HeldInv'
  BY DEF PairingInv, HeldInv, DrawnInv, TypeOK, ServerTypeOK
<1>3. OneHolder'
  BY DEF PairingInv, OneHolder, Holds, OfBot
<1>4. QED
  BY <1>1, <1>2, <1>3

\* A remote manager completes with a token of the bot that has the nonce.
LEMMA RemotePutStep ==
  ASSUME PairingInv, NEW b \in Bots, RemotePut(b)
  PROVE  PairingInv'
<1>1. PICK v \in 0 .. ver[b] : PutPair(botNonce[b], [bot |-> b, ver |-> v])
  BY DEF RemotePut
<1> DEFINE p == [bot |-> b, ver |-> v]
           n == botNonce[b]
<1>2. p \in Payloads /\ p.bot = b /\ n # NoNonce
  <2>1. v \in 0 .. MaxVer
    BY SharedStoreAssumption DEF PairingInv, TypeOK, ManagerTypeOK
  <2>2. QED
    BY <2>1, PayloadFacts DEF RemotePut
<1>3. /\ UNCHANGED <<drawn, client, nonceOf, response, token>> /\ UNCHANGED managerVars
      /\ StoreComplete(n, p) \/ StoreUntouched
      /\ faults' \in Nat
  BY <1>1, FaultType DEF RemotePut, PutPair, PairingInv, TypeOK, StoreTypeOK
<1>4. /\ EntryStep /\ handed \subseteq handed' /\ handed' \in SUBSET Bots
      /\ entry' \in [Nonces -> Entry]
      /\ \A m \in drawn : m \in Nonces /\ entry[m] = Absent => entry'[m] = Absent
      /\ CompleteReply(entry[n]).err \in {"ok", "ErrNotFound", "ErrInvalidState"}
      /\ StoreComplete(n, p) /\ CompleteReply(entry[n]).err # "ErrNotFound" => b \in handed'
  BY <1>2, <1>3, CompleteEffect
<1> DEFINE err == CompleteReply(entry[n]).err
           Answered(s) == putStatus' = [putStatus EXCEPT ![b] = s]
<1>5. PICK status \in {200, 400, 401, 404, 409, 500} :
        Answered(status) /\ (status = 200 \/ status = 409 => b \in handed')
  <2>1. /\ err = "ok" => PutPairStatus(err) = 200
        /\ err = "ErrInvalidState" => PutPairStatus(err) = 409
        /\ err = "ErrNotFound" => PutPairStatus(err) = 404
    BY DEF PutPairStatus
  <2>2. \/ Answered(PutPairStatus(err)) /\ StoreComplete(n, p)
        \/ \E s \in {400, 401, 500} : Answered(s)
    BY <1>1, <1>2 DEF PutPair
  <2>3. \/ Answered(200) /\ b \in handed'
        \/ Answered(409) /\ b \in handed'
        \/ Answered(404) \/ Answered(400) \/ Answered(401) \/ Answered(500)
    <3> HIDE DEF Answered
    <3>1. CASE Answered(PutPairStatus(err)) /\ StoreComplete(n, p)
      BY <1>4, <2>1, <3>1
    <3>2. CASE \E s \in {400, 401, 500} : Answered(s)
      BY <3>2
    <3>3. QED
      BY <2>2, <3>1, <3>2
  <2>4. QED
    <3> HIDE DEF Answered
    <3>1. QED
      BY <2>3
<1>6. StoreTypeOK' /\ ServerTypeOK'
  BY <1>3, <1>4, <1>5 DEF PairingInv, TypeOK, StoreTypeOK, ServerTypeOK
<1>7. DrawnInv'
  BY <1>3, <1>4, StoreSideStep DEF PairingInv, DrawnInv
<1>8. SessionInv' /\ HeldInv' /\ OneHolder'
  BY <1>3, <1>4, CompleteSessions DEF managerVars
<1>9. \A a \in Bots : putStatus'[a] \in {200, 409} => a \in handed'
  BY <1>4, <1>5 DEF PairingInv, AckImpliesOutcome, TypeOK, ServerTypeOK
<1>10. QED
  BY <1>3, <1>4, <1>6, <1>7, <1>8, <1>9, StoreSideStep
  DEF PairingInv, TypeOK, AckImpliesOutcome

-----------------------------------------------------------------------------
(***************************************************************************)
(* The steps of users, of Telegram and of the workers.                     *)
(***************************************************************************)
LEMMA CreateBotStep ==
  ASSUME PairingInv, NEW b \in Bots, NEW n \in Nonces \cup {NoNonce}, NEW named \in BOOLEAN,
         CreateBot(b, n, named)
  PROVE  PairingInv'
<1>1. /\ botState[b] = "none" /\ botNonce[b] = NoNonce /\ update[b] = "none" /\ b \notin dm
      /\ \A w \in Workers : wbot[w] # b
  BY DEF CreateBot, PairingInv, UnbornInv
<1>2. n # NoNonce => n \in drawn /\ \A a \in Bots : botNonce[a] # n
  BY DEF CreateBot, Shown, PairingInv, DrawnInv
<1>3. /\ botState' = [botState EXCEPT ![b] = "live"]
      /\ botNonce' = [botNonce EXCEPT ![b] = n]
      /\ from' = [from EXCEPT ![b] = named]
      /\ update' \in {update, [update EXCEPT ![b] = "pending"]}
      /\ UNCHANGED <<entry, handed, faults, ver, dm, wpc, wbot, wtok, wret>>
      /\ UNCHANGED <<drawn, client, nonceOf, response, token, putStatus>>
  BY DEF CreateBot, StoreUntouched, workerVars, serverVars
<1>4. TypeOK'
  BY <1>3 DEF PairingInv, TypeOK, StoreTypeOK, ServerTypeOK, ManagerTypeOK
<1>5. \A a \in Bots : a # b => /\ botState'[a] = botState[a] /\ botNonce'[a] = botNonce[a]
                               /\ from'[a] = from[a] /\ update'[a] = update[a]
  BY <1>3 DEF PairingInv, TypeOK, ManagerTypeOK
<1>6. botState'[b] = "live" /\ botNonce'[b] = n /\ update'[b] # "acked"
  BY <1>1, <1>3 DEF PairingInv, TypeOK, ManagerTypeOK
<1>7. DrawnInv' /\ OneBotPerNonce' /\ UnbornInv' /\ SessionInv'
  BY <1>2, <1>3, <1>5, <1>6
  DEF PairingInv, DrawnInv, OneBotPerNonce, UnbornInv, SessionInv
<1>8. StoreInv'
  BY <1>1, <1>3, <1>5, SharedStoreAssumption, EntryFacts, PayloadFacts
  DEF PairingInv, StoreInv, TypeOK, StoreTypeOK
<1>9. HeldInv'
  <2>1. \A c \in Clients : \A q \in {response[c].payload, token[c]} :
          q # NoPayload => q.bot \in Bots /\ q.bot # b
    BY <1>1, PayloadFacts DEF PairingInv, HeldInv, TypeOK, ServerTypeOK, Response
  <2>2. QED
    BY <1>3, <1>5, <2>1 DEF PairingInv, HeldInv
<1>10. OneHolder'
  BY <1>3 DEF PairingInv, OneHolder, Holds, OfBot
<1>11. WorkerInv'
  <2>1. \A w \in Workers : wpc[w] # "idle" => wbot[w] \in Bots /\ wbot[w] # b
    BY <1>1 DEF PairingInv, WorkerInv, TypeOK, ManagerTypeOK
  <2>2. QED
    BY <1>3, <1>5, <2>1 DEF PairingInv, WorkerInv, Outcome
<1>12. FallbackIsFinal'
  BY <1>1, <1>3, <1>5 DEF PairingInv, FallbackIsFinal, TypeOK, ManagerTypeOK
<1>13. AckImpliesOutcome'
  BY <1>3, <1>5, <1>6 DEF PairingInv, AckImpliesOutcome, Outcome
<1>14. QED
  BY <1>4, <1>7, <1>8, <1>9, <1>10, <1>11, <1>12, <1>13 DEF PairingInv

\* What owners do to their bots touches no entry, session or worker.
LEMMA OwnerStep ==
  ASSUME PairingInv, NEW b \in Bots, DeleteBot(b) \/ ReplaceToken(b), UNCHANGED serverVars
  PROVE  PairingInv'
<1>1. /\ botState' \in {botState, [botState EXCEPT ![b] = "deleted"]} /\ botState[b] = "live"
      /\ ver' \in {ver, [ver EXCEPT ![b] = @ + 1]}
      /\ ver' = [ver EXCEPT ![b] = @ + 1] => ver[b] < MaxVer
      /\ UNCHANGED <<botNonce, from, update, dm, faults, wpc, wbot, wtok, wret>>
      /\ StoreUntouched
  BY DEF DeleteBot, ReplaceToken, workerVars, PairingInv, TypeOK, ManagerTypeOK
<1>2. ManagerTypeOK'
  <2>1. ver' \in [Bots -> 0 .. MaxVer]
    BY SharedStoreAssumption DEF DeleteBot, ReplaceToken, PairingInv, TypeOK, ManagerTypeOK
  <2>2. QED
    BY <1>1, <2>1 DEF PairingInv, TypeOK, ManagerTypeOK
<1>3. /\ StoreTypeOK' /\ ServerTypeOK'
      /\ DrawnInv' /\ OneBotPerNonce' /\ SessionInv' /\ StoreInv' /\ HeldInv' /\ OneHolder'
      /\ \A a \in Bots : putStatus'[a] \in {200, 409} => a \in handed'
  BY <1>1, ManagerSideStep DEF PairingInv, TypeOK, StoreTypeOK
<1>4. \A a \in Bots : /\ botState'[a] = "none" => botState[a] = "none"
                      /\ botState'[a] = "live" => botState[a] = "live"
  BY <1>1 DEF PairingInv, TypeOK, ManagerTypeOK
<1>5. UnbornInv'
  BY <1>1, <1>4 DEF PairingInv, UnbornInv
<1>6. WorkerInv'
  <2>1. \A w \in Workers : wpc[w] # "idle" => wbot[w] \in Bots
    BY DEF PairingInv, WorkerInv, TypeOK, ManagerTypeOK
  <2>2. QED
    BY <1>1, <1>4, <2>1 DEF StoreUntouched, PairingInv, WorkerInv, Outcome
<1>7. FallbackIsFinal'
  BY <1>1, <1>4 DEF StoreUntouched, PairingInv, FallbackIsFinal, TypeOK, ManagerTypeOK
<1>8. AckImpliesOutcome'
  BY <1>1, <1>3 DEF StoreUntouched, PairingInv, AckImpliesOutcome, Outcome
<1>9. QED
  BY <1>2, <1>3, <1>5, <1>6, <1>7, <1>8 DEF PairingInv, TypeOK

(***************************************************************************)
(* The part of the invariant that a step of worker w about bot b has to    *)
(* establish for w itself.                                                 *)
(***************************************************************************)
OwnInv(w, b) ==
  /\ wpc'[w] # "idle" /\ wbot'[w] = b
  /\ wpc'[w] \in {"token", "complete"} => botNonce[b] # NoNonce
  /\ wpc'[w] = "complete" => wtok'[w] \in Payloads /\ wtok'[w].bot = b
  /\ wpc'[w] = "fallback" /\ botState[b] = "live" /\ botNonce[b] # NoNonce
       => entry'[botNonce[b]] = Absent
  /\ wpc'[w] = "respond" /\ wret'[w] = "nil" => Outcome(b)'

(***************************************************************************)
(* A worker's step within HandleUpdate that leaves the store alone.        *)
(***************************************************************************)
LEMMA WorkerSideStep ==
  ASSUME PairingInv, NEW w \in Workers, NEW b \in Bots, botState[b] # "none",
         StoreUntouched, UNCHANGED serverVars, UNCHANGED botVars, UNCHANGED update,
         faults' \in Nat,
         NEW l \in {"token", "complete", "fallback", "respond"}, wpc' = [wpc EXCEPT ![w] = l],
         wbot' = [wbot EXCEPT ![w] = b],
         NEW t \in Payloads \cup {NoPayload}, wtok' = [wtok EXCEPT ![w] = t],
         NEW r \in {"nil", "err"}, wret' = [wret EXCEPT ![w] = r],
         dm' \in {dm, dm \cup {b}}, OwnInv(w, b), dm' # dm => FallbackIsFinal'
  PROVE  PairingInv'
<1>1. ManagerTypeOK'
  BY DEF botVars, PairingInv, TypeOK, ManagerTypeOK
<1>2. /\ StoreTypeOK' /\ ServerTypeOK'
      /\ DrawnInv' /\ OneBotPerNonce' /\ SessionInv' /\ StoreInv' /\ HeldInv' /\ OneHolder'
      /\ \A a \in Bots : putStatus'[a] \in {200, 409} => a \in handed'
  BY ManagerSideStep DEF botVars
<1>3. UnbornInv'
  BY DEF botVars, PairingInv, UnbornInv, TypeOK, ManagerTypeOK
<1>4. WorkerInv'
  <2>1. \A a : Outcome(a) => Outcome(a)'
    BY DEF Outcome, StoreUntouched, botVars
  <2>2. ASSUME NEW v \in Workers, v # w
        PROVE  wpc'[v] = wpc[v] /\ wbot'[v] = wbot[v] /\ wtok'[v] = wtok[v] /\ wret'[v] = wret[v]
    BY <2>2 DEF PairingInv, TypeOK, ManagerTypeOK
  <2>3. wpc'[w] = l /\ wbot'[w] = b /\ b # NoBot
    BY SharedStoreAssumption DEF PairingInv, TypeOK, ManagerTypeOK
  <2>4. QED
    BY <2>1, <2>2, <2>3 DEF StoreUntouched, botVars, OwnInv, PairingInv, WorkerInv
<1>5. FallbackIsFinal'
  BY DEF StoreUntouched, botVars, PairingInv, FallbackIsFinal
<1>6. AckImpliesOutcome'
  BY <1>2 DEF StoreUntouched, botVars, PairingInv, AckImpliesOutcome, Outcome
<1>7. QED
  BY <1>1, <1>2, <1>3, <1>4, <1>5, <1>6 DEF PairingInv, TypeOK

\* A worker in a stage is at work on an update.
LEMMA BusyWorker ==
  ASSUME PairingInv, NEW w \in Workers, wpc[w] # "idle"
  PROVE  wbot[w] \in Bots /\ wbot[w] # NoBot /\ botState[wbot[w]] \in {"live", "deleted"}
  BY DEF PairingInv, WorkerInv, UnbornInv, TypeOK, ManagerTypeOK

\* Stage 1 keeps the invariant.
LEMMA HandleUpdateStep ==
  ASSUME PairingInv, NEW w \in Workers, NEW b \in Bots, HandleUpdate(w, b), UNCHANGED serverVars
  PROVE  PairingInv'
<1>1. botState[b] # "none"
  BY DEF HandleUpdate, PairingInv, UnbornInv
<1>2. PICK l \in {"fallback", "token"} :
        /\ wpc' = [wpc EXCEPT ![w] = l]
        /\ l = "token" <=> botNonce[b] # NoNonce
  BY DEF HandleUpdate, Goto
<1>3. /\ wbot' = [wbot EXCEPT ![w] = b]
      /\ StoreUntouched /\ UNCHANGED <<faults, update, wtok, wret, dm>> /\ UNCHANGED botVars
  BY DEF HandleUpdate
<1>4. /\ wtok' = [wtok EXCEPT ![w] = wtok[w]] /\ wtok[w] \in Payloads \cup {NoPayload}
      /\ wret' = [wret EXCEPT ![w] = wret[w]] /\ wret[w] \in {"nil", "err"}
      /\ faults' \in Nat
  BY <1>3 DEF PairingInv, TypeOK, ManagerTypeOK, StoreTypeOK
<1>5. OwnInv(w, b)
  BY <1>2, <1>3 DEF OwnInv, PairingInv, TypeOK, ManagerTypeOK
<1>6. QED
  BY <1>1, <1>2, <1>3, <1>4, <1>5, WorkerSideStep

(***************************************************************************)
(* What the manager makes of each exchange with the Bot API: only an       *)
(* answer with a result is no error, and only the refusal of a deleted bot *)
(* is taken for one.                                                       *)
(***************************************************************************)
LEMMA ApiFacts ==
  /\ \A r : Api!do(Api!Ok(r)).err = "nil" /\ Api!do(Api!Ok(r)).result = r
  /\ Api!IsBotDeactivated(Api!do(Api!Deactivated).err)
  /\ \A x \in {Api!Unauthorized} \cup Api!Failures :
        Api!do(x).err # "nil" /\ ~Api!IsBotDeactivated(Api!do(x).err)
<1>1. \A r : Api!Ok(r).kind = "ok" /\ Api!Ok(r).result = r
  BY DEF Api!Ok
<1>2. \A code, desc :
        LET x == Api!Refused(code, desc) IN
        x.kind = "refused" /\ x.code = code /\ x.desc = desc
  BY DEF Api!Refused
<1>3. Api!Lost.kind = "lost" /\ Api!Junk.kind = "junk"
  BY DEF Api!Lost, Api!Junk
<1>4. \A r : Api!do(Api!Ok(r)).err = "nil" /\ Api!do(Api!Ok(r)).result = r
  BY <1>1 DEF Api!do
<1>5. \A code, desc : Api!do(Api!Refused(code, desc)).err = Api!classify(code, desc)
  BY <1>2 DEF Api!do
<1>6. Api!do(Api!Lost).err = "transport" /\ Api!do(Api!Junk).err = "transport"
  BY <1>3 DEF Api!do
<1>7. Api!classify(403, "user is deactivated") = "ErrBotDeactivated"
  BY DEF Api!classify
<1>8. Api!do(Api!Deactivated).err = "ErrBotDeactivated"
  BY <1>5, <1>7, Zenon DEF Api!Deactivated
<1>9. /\ Api!do(Api!Unauthorized).err = "ErrUnauthorized"
      /\ Api!do(Api!Forbidden).err = "APIError"
      /\ Api!do(Api!RateLimited).err = "ErrTooManyRequests"
      /\ Api!do(Api!ServerError).err = "APIError"
  <2>1. /\ Api!classify(401, "other") = "ErrUnauthorized"
        /\ Api!classify(403, "other") = "APIError"
        /\ Api!classify(429, "other") = "ErrTooManyRequests"
        /\ Api!classify(500, "other") = "APIError"
    BY DEF Api!classify
  <2>2. QED
    BY <1>5, <2>1 DEF Api!Unauthorized, Api!Forbidden, Api!RateLimited, Api!ServerError
<1>10. QED
  BY <1>4, <1>6, <1>8, <1>9 DEF Api!Failures, Api!IsBotDeactivated

\* Stage 2 keeps the invariant.
LEMMA GetManagedBotTokenStep ==
  ASSUME PairingInv, NEW w \in Workers, GetManagedBotToken(w), UNCHANGED serverVars
  PROVE  PairingInv'
<1> DEFINE b == wbot[w]
<1>1. b \in Bots /\ botState[b] # "none" /\ botNonce[b] # NoNonce
  BY BusyWorker DEF GetManagedBotToken, PairingInv, WorkerInv
<1>2. /\ StoreUntouched /\ UNCHANGED <<update, wbot, dm>> /\ UNCHANGED botVars
      /\ wbot' = [wbot EXCEPT ![w] = b]
  BY DEF GetManagedBotToken, PairingInv, TypeOK, ManagerTypeOK
<1>3. PICK l \in {"complete", "fallback", "respond"}, t \in Payloads \cup {NoPayload},
           r \in {"nil", "err"} :
        /\ wpc' = [wpc EXCEPT ![w] = l]
        /\ wtok' = [wtok EXCEPT ![w] = t]
        /\ wret' = [wret EXCEPT ![w] = r]
        /\ l = "complete" => t = [bot |-> b, ver |-> ver[b]] /\ t \in Payloads
        /\ l = "fallback" => botState[b] = "deleted"
        /\ l = "respond" => r = "err"
  <2>1. /\ wtok[w] \in Payloads \cup {NoPayload} /\ wtok = [wtok EXCEPT ![w] = wtok[w]]
        /\ wret[w] \in {"nil", "err"} /\ wret = [wret EXCEPT ![w] = wret[w]]
        /\ [bot |-> b, ver |-> ver[b]] \in Payloads
    BY <1>1, PayloadFacts DEF PairingInv, TypeOK, ManagerTypeOK
  <2>2. PICK x \in {TokenOf(b), Api!Unauthorized} \cup Api!Failures :
          \/ /\ Api!do(x).err = "nil"
             /\ wtok' = [wtok EXCEPT ![w] = Api!do(x).result]
             /\ Goto(w, "complete") /\ UNCHANGED wret
          \/ /\ Api!IsBotDeactivated(Api!do(x).err)
             /\ Goto(w, "fallback") /\ UNCHANGED <<wtok, wret>>
          \/ ReturnTo(w, "err")
    BY DEF GetManagedBotToken
  <2>3. CASE ReturnTo(w, "err")
    BY <2>3 DEF ReturnTo, Goto
  <2>4. /\ TokenOf(b) \in {Api!Deactivated, Api!Ok([bot |-> b, ver |-> ver[b]])}
        /\ botState[b] # "deleted" => TokenOf(b) = Api!Ok([bot |-> b, ver |-> ver[b]])
    BY DEF TokenOf
  <2>5. Api!do(Api!Deactivated).err # "nil" /\ ~Api!IsBotDeactivated("nil")
    BY ApiFacts DEF Api!IsBotDeactivated
  <2>6. CASE /\ Api!do(x).err = "nil"
             /\ wtok' = [wtok EXCEPT ![w] = Api!do(x).result]
             /\ Goto(w, "complete") /\ UNCHANGED wret
    <3>1. x = Api!Ok([bot |-> b, ver |-> ver[b]])
      BY <2>4, <2>5, <2>6, ApiFacts
    <3>2. QED
      BY <2>1, <2>6, <3>1, ApiFacts DEF Goto
  <2>7. CASE /\ Api!IsBotDeactivated(Api!do(x).err)
             /\ Goto(w, "fallback") /\ UNCHANGED <<wtok, wret>>
    <3>1. botState[b] = "deleted"
      BY <2>4, <2>5, <2>7, ApiFacts
    <3>2. QED
      BY <2>1, <2>7, <3>1 DEF Goto
  <2>8. QED
    BY <2>2, <2>3, <2>6, <2>7
<1>4. faults' \in Nat
  BY FaultType DEF GetManagedBotToken, Exchange, PairingInv, TypeOK, StoreTypeOK
<1>5. OwnInv(w, b)
  BY <1>1, <1>2, <1>3 DEF OwnInv, PairingInv, TypeOK, ManagerTypeOK
<1>6. QED
  BY <1>1, <1>2, <1>3, <1>4, <1>5, WorkerSideStep

\* The fallback keeps the invariant.
LEMMA FallbackStep ==
  ASSUME PairingInv, NEW w \in Workers, Fallback(w), UNCHANGED serverVars
  PROVE  PairingInv'
<1> DEFINE b == wbot[w]
<1>1. b \in Bots /\ botState[b] # "none" /\ wpc[w] = "fallback"
  BY BusyWorker DEF Fallback
<1>2. /\ StoreUntouched /\ UNCHANGED <<update, wbot>> /\ UNCHANGED botVars
      /\ wbot' = [wbot EXCEPT ![w] = b]
  BY DEF Fallback, PairingInv, TypeOK, ManagerTypeOK
<1>3. PICK r \in {"nil", "err"} :
        /\ ReturnTo(w, r)
        /\ dm' \in {dm, dm \cup {b}}
        /\ r = "nil" => ~ from[b] \/ b \in dm'
        /\ faults' \in {faults, faults + 1}
  <2>1. CASE ~ from[b] /\ ReturnTo(w, "nil") /\ UNCHANGED <<faults, dm>>
    BY <2>1
  <2>2. CASE SendMessage(w)
    <3>1. PICK x \in {SentTo(b), Api!Unauthorized} \cup Api!Failures :
            /\ Exchange(SentTo(b), x)
            /\ dm' \in Delivered(b, x)
            /\ ReturnTo(w, IF Api!do(x).err = "nil" THEN "nil" ELSE "err")
      BY <2>2 DEF SendMessage
    <3>2. dm' \in {dm, dm \cup {b}}
      BY <3>1 DEF Delivered
    <3>3. Api!do(x).err = "nil" => dm' = dm \cup {b}
      <4>1. SentTo(b) \in Api!Failures \/ SentTo(b) = Api!Ok(NoPayload)
        BY DEF SentTo, Api!Failures
      <4>2. QED
        BY <3>1, <4>1, ApiFacts DEF Delivered
    <3>4. faults' \in {faults, faults + 1}
      BY <3>1 DEF Exchange, Fault
    <3>5. QED
      BY <3>1, <3>2, <3>3, <3>4
  <2>3. QED
    BY <2>1, <2>2 DEF Fallback
<1>4. /\ wpc' = [wpc EXCEPT ![w] = "respond"]
      /\ wtok' = [wtok EXCEPT ![w] = NoPayload]
      /\ wret' = [wret EXCEPT ![w] = r]
      /\ faults' \in Nat
  BY <1>3 DEF ReturnTo, Goto, PairingInv, TypeOK, StoreTypeOK
<1>5. OwnInv(w, b)
  BY <1>1, <1>2, <1>3, <1>4
  DEF OwnInv, Outcome, botVars, PairingInv, TypeOK, ManagerTypeOK
<1>6. FallbackIsFinal'
  BY <1>1, <1>2, <1>3
  DEF PairingInv, FallbackIsFinal, WorkerInv, StoreUntouched, botVars
<1>7. QED
  BY <1>1, <1>2, <1>3, <1>4, <1>5, <1>6, WorkerSideStep

\* Stage 3 keeps the invariant.
LEMMA CompleteStep ==
  ASSUME PairingInv, NEW w \in Workers, Complete(w), UNCHANGED serverVars
  PROVE  PairingInv'
<1> DEFINE b == wbot[w]
           p == wtok[w]
           n == botNonce[b]
<1>1. /\ b \in Bots /\ botState[b] # "none" /\ n # NoNonce
      /\ p \in Payloads /\ p.bot = b /\ wpc[w] = "complete"
  BY BusyWorker DEF Complete, PairingInv, WorkerInv
<1>2. /\ UNCHANGED <<update, wbot, dm, botState, botNonce, ver, from>>
      /\ UNCHANGED <<drawn, client, nonceOf, response, token, putStatus>>
      /\ StoreComplete(n, p) \/ StoreUntouched
      /\ faults' \in Nat
  BY FaultType DEF Complete, botVars, serverVars, PairingInv, TypeOK, StoreTypeOK
<1>3. /\ n \in Nonces /\ n \in drawn /\ EntryStep
      /\ handed \subseteq handed' /\ handed' \in SUBSET Bots
      /\ entry' \in [Nonces -> Entry]
      /\ \A m \in drawn : m \in Nonces /\ entry[m] = Absent => entry'[m] = Absent
      /\ CompleteReply(entry[n]).err = "ErrNotFound" => entry[n] = Absent
      /\ StoreComplete(n, p) /\ CompleteReply(entry[n]).err # "ErrNotFound" => b \in handed'
  BY <1>1, <1>2, CompleteEffect
<1>4. PICK l \in {"fallback", "respond"}, r \in {"nil", "err"} :
        /\ wpc' = [wpc EXCEPT ![w] = l]
        /\ wtok' = [wtok EXCEPT ![w] = NoPayload]
        /\ wret' = [wret EXCEPT ![w] = r]
        /\ l = "fallback" => entry'[n] = Absent
        /\ l = "respond" /\ r = "nil" => b \in handed'
  <2>1. wret[w] \in {"nil", "err"} /\ wret = [wret EXCEPT ![w] = wret[w]]
    BY DEF PairingInv, TypeOK, ManagerTypeOK
  <2>2. CASE /\ CompleteReply(entry[n]).err \in {"ok", "ErrInvalidState"}
             /\ StoreComplete(n, p) /\ ReturnTo(w, "nil")
    BY <1>3, <2>2 DEF ReturnTo, Goto
  <2>3. CASE /\ CompleteReply(entry[n]).err = "ErrNotFound"
             /\ Goto(w, "fallback") /\ wtok' = [wtok EXCEPT ![w] = NoPayload]
             /\ UNCHANGED wret
    BY <1>3, <2>1, <2>3 DEF Goto
  <2>4. CASE ReturnTo(w, "err")
    BY <2>4 DEF ReturnTo, Goto
  <2>5. QED
    BY <2>2, <2>3, <2>4 DEF Complete
<1>5. TypeOK'
  BY <1>2, <1>3, <1>4 DEF PairingInv, TypeOK, StoreTypeOK, ServerTypeOK, ManagerTypeOK
<1>6. DrawnInv'
  BY <1>2, <1>3, EntryFacts DEF PairingInv, DrawnInv, EntryStep
<1>7. OneBotPerNonce' /\ UnbornInv'
  BY <1>2 DEF PairingInv, OneBotPerNonce, UnbornInv
<1>8. StoreInv'
  <2> SUFFICES ASSUME NEW m \in Nonces, entry'[m].status = "ready"
               PROVE  /\ botNonce[entry'[m].payload.bot] = m
                      /\ entry'[m].payload.bot \in handed'
    BY <1>2 DEF StoreInv
  <2>1. entry'[m] = entry[m] \/ \E q \in Payloads :
          entry'[m] = Ready(q) /\ botNonce[q.bot] = m /\ q.bot \in handed'
    BY <1>3, EntryFacts DEF EntryStep
  <2>2. QED
    BY <1>3, <2>1, EntryFacts DEF PairingInv, StoreInv
<1>9. SessionInv' /\ HeldInv' /\ OneHolder'
  BY <1>2, <1>3, CompleteSessions
<1>10. WorkerInv'
  <2>1. \A a : Outcome(a) => Outcome(a)'
    BY <1>2, <1>3 DEF Outcome
  <2>2. \A a \in Bots : botNonce[a] # NoNonce /\ entry[botNonce[a]] = Absent
                          => entry'[botNonce[a]] = Absent
    BY <1>3 DEF PairingInv, DrawnInv, TypeOK, ManagerTypeOK
  <2>3. ASSUME NEW v \in Workers, v # w
        PROVE  wpc'[v] = wpc[v] /\ wbot'[v] = wbot[v] /\ wtok'[v] = wtok[v] /\ wret'[v] = wret[v]
    BY <1>2, <1>4, <2>3 DEF PairingInv, TypeOK, ManagerTypeOK
  <2>4. /\ wpc'[w] = l /\ wbot'[w] = b /\ b # NoBot /\ wret'[w] = r
        /\ l = "respond" /\ r = "nil" => Outcome(b)'
    BY <1>1, <1>2, <1>4, SharedStoreAssumption DEF PairingInv, TypeOK, ManagerTypeOK, Outcome
  <2>5. \A v \in Workers : wpc[v] = "fallback" => wbot[v] \in Bots
    BY BusyWorker
  <2>6. QED
    BY <1>2, <1>4, <2>1, <2>2, <2>3, <2>4, <2>5 DEF PairingInv, WorkerInv
<1>11. FallbackIsFinal'
  BY <1>2, <1>3 DEF PairingInv, FallbackIsFinal, DrawnInv, TypeOK, ManagerTypeOK
<1>12. AckImpliesOutcome'
  BY <1>2, <1>3 DEF PairingInv, AckImpliesOutcome, Outcome
<1>13. QED
  BY <1>5, <1>6, <1>7, <1>8, <1>9, <1>10, <1>11, <1>12 DEF PairingInv

(***************************************************************************)
(* The answer to a delivery, and the death of a worker.                    *)
(***************************************************************************)
LEMMA IdleStep ==
  ASSUME PairingInv, NEW w \in Workers, WebhookResponse(w) \/ Crash(w), UNCHANGED serverVars
  PROVE  PairingInv'
<1>1. wbot[w] \in Bots /\ botState[wbot[w]] # "none"
  BY BusyWorker DEF WebhookResponse, Crash
<1>2. /\ wpc' = [wpc EXCEPT ![w] = "idle"] /\ wbot' = [wbot EXCEPT ![w] = NoBot]
      /\ wtok' = [wtok EXCEPT ![w] = NoPayload] /\ wret' = [wret EXCEPT ![w] = "nil"]
      /\ StoreUntouched /\ UNCHANGED <<dm, botState, botNonce, ver, from>>
      /\ faults' \in Nat
  BY FaultType
  DEF WebhookResponse, Crash, Idle, Goto, botVars, PairingInv, TypeOK, StoreTypeOK
<1>3. \/ update' = update
      \/ update' = [update EXCEPT ![wbot[w]] = "acked"] /\ Outcome(wbot[w])
  BY DEF WebhookResponse, Crash, PairingInv, WorkerInv
<1>4. ManagerTypeOK'
  BY <1>2, <1>3 DEF PairingInv, TypeOK, ManagerTypeOK
<1>5. /\ StoreTypeOK' /\ ServerTypeOK'
      /\ DrawnInv' /\ OneBotPerNonce' /\ SessionInv' /\ StoreInv' /\ HeldInv' /\ OneHolder'
      /\ \A a \in Bots : putStatus'[a] \in {200, 409} => a \in handed'
  BY <1>2, ManagerSideStep
<1>6. UnbornInv'
  BY <1>1, <1>2, <1>3, SharedStoreAssumption
  DEF PairingInv, UnbornInv, TypeOK, ManagerTypeOK
<1>7. WorkerInv'
  <2>1. ASSUME NEW v \in Workers, v # w
        PROVE  wpc'[v] = wpc[v] /\ wbot'[v] = wbot[v] /\ wtok'[v] = wtok[v] /\ wret'[v] = wret[v]
    BY <1>2, <2>1 DEF PairingInv, TypeOK, ManagerTypeOK
  <2>2. wpc'[w] = "idle" /\ wbot'[w] = NoBot
    BY <1>2 DEF PairingInv, TypeOK, ManagerTypeOK
  <2>3. QED
    BY <1>2, <2>1, <2>2 DEF StoreUntouched, PairingInv, WorkerInv, Outcome
<1>8. FallbackIsFinal'
  BY <1>2 DEF StoreUntouched, PairingInv, FallbackIsFinal
<1>9. AckImpliesOutcome'
  BY <1>2, <1>3, <1>5
  DEF StoreUntouched, PairingInv, AckImpliesOutcome, Outcome, TypeOK, ManagerTypeOK
<1>10. QED
  BY <1>4, <1>5, <1>6, <1>7, <1>8, <1>9 DEF PairingInv, TypeOK

-----------------------------------------------------------------------------

\* The invariant holds at first.
LEMMA InitInv == Init => PairingInv
<1> SUFFICES ASSUME Init PROVE PairingInv
  OBVIOUS
<1> USE DEF Init, StoreInit, ServerInit, ManagerInit
<1>1. StoreTypeOK /\ ServerTypeOK
  BY EntryFacts, ResponseFacts DEF StoreTypeOK, ServerTypeOK
<1>2. ManagerTypeOK
  BY SharedStoreAssumption DEF ManagerTypeOK
<1>3. DrawnInv /\ OneBotPerNonce /\ StoreInv
  BY EntryFacts DEF DrawnInv, OneBotPerNonce, StoreInv
<1>4. UnbornInv /\ WorkerInv
  BY SharedStoreAssumption DEF UnbornInv, WorkerInv
<1>5. SessionInv /\ HeldInv /\ OneHolder
  BY ResponseFacts DEF SessionInv, HeldInv, OneHolder, Holds, OfBot
<1>6. FallbackIsFinal /\ AckImpliesOutcome
  BY DEF FallbackIsFinal, AckImpliesOutcome
<1>7. QED
  BY <1>1, <1>2, <1>3, <1>4, <1>5, <1>6 DEF PairingInv, TypeOK

(***************************************************************************)
(* Every step keeps the invariant.                                         *)
(***************************************************************************)
LEMMA PairingStep ==
  ASSUME FreshNonces, PairingInv, [Next]_vars
  PROVE  PairingInv'
<1>1. ASSUME NEW c \in Clients, SessionStep(c), UNCHANGED managerVars
      PROVE  PairingInv'
  BY <1>1, PostPairStep, DeletePairStep, ReceiveStep, LoseResponseStep DEF SessionStep
<1>2. ASSUME NEW n \in Nonces, Expire(n), UNCHANGED managerVars
      PROVE  PairingInv'
  BY <1>2, ExpireStep
<1>3. ASSUME NEW b \in Bots, NEW n \in Nonces \cup {NoNonce}, NEW named \in BOOLEAN,
             CreateBot(b, n, named)
      PROVE  PairingInv'
  BY <1>3, CreateBotStep
<1>4. ASSUME NEW b \in Bots, RemotePut(b)
      PROVE  PairingInv'
  BY <1>4, RemotePutStep
<1>5. ASSUME ManagerStep, UNCHANGED serverVars
      PROVE  PairingInv'
  BY <1>5, OwnerStep, HandleUpdateStep, GetManagedBotTokenStep, CompleteStep, FallbackStep,
     IdleStep DEF ManagerStep, WorkerStep
<1>6. CASE UNCHANGED vars
  <2>1. UNCHANGED managerVars /\ UNCHANGED serverVars /\ UNCHANGED <<entry, handed, faults>>
    BY <1>6 DEF vars, managerVars, serverVars
  <2>2. EntryStep
    BY <2>1 DEF EntryStep
  <2>3. QED
    BY <2>1, <2>2, StoreSideStep, ManagerSideStep
    DEF managerVars, serverVars, StoreUntouched, PairingInv, TypeOK, StoreTypeOK,
        AckImpliesOutcome
<1>7. QED
  BY <1>1, <1>2, <1>3, <1>4, <1>5, <1>6 DEF Next

(***************************************************************************)
(* With fresh nonces, PairingInv is an invariant of the whole handoff.     *)
(***************************************************************************)
THEOREM Invariance ==
  ASSUME FreshNonces
  PROVE  Spec => []PairingInv
<1>1. PairingInv /\ [Next]_vars => PairingInv'
  BY PairingStep
<1>2. QED
  BY <1>1, InitInv, PTL DEF Spec

(***************************************************************************)
(* The variables keep their types.                                         *)
(***************************************************************************)
THEOREM TypeCorrect ==
  ASSUME FreshNonces
  PROVE  Spec => []TypeOK
<1>1. PairingInv => TypeOK
  BY DEF PairingInv
<1>2. QED
  BY <1>1, Invariance, PTL

(***************************************************************************)
(* One-time handoff, end to end.                                           *)
(***************************************************************************)
THEOREM OneTimeHandoff ==
  ASSUME FreshNonces
  PROVE  Spec => []TokenInOnePlace
<1>1. PairingInv => TokenInOnePlace
  <2> SUFFICES ASSUME PairingInv, NEW b \in Bots, NEW x \in Places(b), NEW y \in Places(b)
               PROVE  x = y
    BY DEF TokenInOnePlace
  <2> DEFINE InEntry(n)  == n \in Nonces /\ OfBot(entry[n].payload, b)
             InReply(c)  == c \in Clients /\ OfBot(response[c].payload, b)
             InClient(c) == c \in Clients /\ OfBot(token[c], b)
  <2>1. \A n : InEntry(n) => botNonce[b] = n /\ entry[n] # Absent
    BY EntryFacts DEF OfBot, PairingInv, StoreInv, TypeOK, StoreTypeOK
  <2>2. \A c : InReply(c) \/ InClient(c) => entry[botNonce[b]] = Absent
    BY DEF OfBot, PairingInv, HeldInv
  <2>3. \A c, d : (InReply(c) \/ InClient(c)) /\ (InReply(d) \/ InClient(d)) => c = d
    BY DEF PairingInv, OneHolder, Holds
  <2>4. \A c : ~ (InReply(c) /\ InClient(c))
    BY DEF OfBot, PairingInv, SessionInv
  <2>5. \A z \in Places(b) : \/ \E n : InEntry(n) /\ z = <<"store", n>>
                             \/ \E c : InReply(c) /\ z = <<"response", c>>
                             \/ \E c : InClient(c) /\ z = <<"session", c>>
    BY DEF Places
  <2>6. QED
    <3> HIDE DEF InEntry, InReply, InClient
    <3>1. QED
      BY <2>1, <2>2, <2>3, <2>4, <2>5
<1>2. QED
  BY <1>1, Invariance, PTL

(***************************************************************************)
(* A session is only served the token of the bot made from its own link.   *)
(***************************************************************************)
THEOREM RightBotTheorem ==
  ASSUME FreshNonces
  PROVE  Spec => []RightBot
<1>1. PairingInv => RightBot
  BY DEF PairingInv, HeldInv, RightBot
<1>2. QED
  BY <1>1, Invariance, PTL

(***************************************************************************)
(* After the fallback message the store has nothing for that link.         *)
(***************************************************************************)
THEOREM FallbackTheorem ==
  ASSUME FreshNonces
  PROVE  Spec => []FallbackIsFinal
<1>1. PairingInv => FallbackIsFinal
  BY DEF PairingInv
<1>2. QED
  BY <1>1, Invariance, PTL

(***************************************************************************)
(* No update is given up without an outcome.                               *)
(***************************************************************************)
THEOREM OutcomeTheorem ==
  ASSUME FreshNonces
  PROVE  Spec => []AckImpliesOutcome
<1>1. PairingInv => AckImpliesOutcome
  BY DEF PairingInv
<1>2. QED
  BY <1>1, Invariance, PTL
=============================================================================
