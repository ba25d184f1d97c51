-------------------------- MODULE AtLeastOnceStore --------------------------
(***************************************************************************)
(* The contract of pairing.Store for a store behind a network.  Its        *)
(* operations are those of PairingStore, but the connection may fail while *)
(* a call is under way: the call is then sent again or answers an error,   *)
(* whether or not it took effect, and a request that was given up may      *)
(* still take effect later.                                                *)
(***************************************************************************)
EXTENDS PairingStore

CONSTANT MaxFaults   \* bound: connections that fail

ASSUME FaultAssumption == MaxFaults \in Nat

VARIABLES
  lost,        \* requests given up before they took effect
  faults       \* connections that failed so far

allVars == <<vars, lost, faults>>

AtLeastOnceTypeOK == TypeOK /\ lost \subseteq Requests /\ faults \in Nat

AtLeastOnceInit == Init /\ lost = {} /\ faults = 0

(***************************************************************************)
(* The connection fails before the request took effect, and the request    *)
(* may still be on its way, or before the answer came back.                *)
(***************************************************************************)
Disconnected(c) ==
  /\ pc[c] \in {"called", "returned"}
  /\ faults < MaxFaults
  /\ faults' = faults + 1
  /\ lost' \in IF pc[c] = "called" THEN {lost, lost \cup {req[c]}} ELSE {lost}
  /\ UNCHANGED <<now, entry, expiresAt, req, started, invoked, tally>>

Resend(c) ==
  /\ Disconnected(c)
  /\ pc' = [pc EXCEPT ![c] = "called"]
  /\ reply' = [reply EXCEPT ![c] = NoReply]

GiveUp(c) ==
  /\ Disconnected(c)
  /\ pc' = [pc EXCEPT ![c] = "returned"]
  /\ reply' = [reply EXCEPT ![c] = Answer("error")]

(***************************************************************************)
(* A request that was given up takes effect after all, or never will.      *)
(***************************************************************************)
Late(r) ==
  LET n == r.nonce IN
  /\ r \in lost
  /\ lost' = lost \ {r}
  /\ \/ /\ r.op = "Put" /\ entry[n] = Absent
        /\ entry' = [entry EXCEPT ![n] = Waiting]
        /\ expiresAt' = [expiresAt EXCEPT ![n] = now + r.ttl]
        /\ puts' = [puts EXCEPT ![n] = @ + 1]
        /\ UNCHANGED <<completes, fetches>>
     \/ /\ r.op = "Complete" /\ entry[n] = Waiting
        /\ entry' = [entry EXCEPT ![n] = Ready(r.payload)]
        /\ completes' = [completes EXCEPT ![n] = @ + 1]
        /\ UNCHANGED <<expiresAt, puts, fetches>>
     \/ /\ r.op = "FetchAndDelete" /\ entry[n].status = "ready"
        /\ entry' = [entry EXCEPT ![n] = Absent]
        /\ fetches' = [fetches EXCEPT ![n] = @ + 1]
        /\ UNCHANGED <<expiresAt, puts, completes>>
  /\ UNCHANGED <<now, pc, req, started, reply, invoked, faults>>

Forget(r) ==
  /\ r \in lost
  /\ lost' = lost \ {r}
  /\ UNCHANGED <<vars, faults>>

AtLeastOnceNext ==
  \/ Next /\ UNCHANGED <<lost, faults>>
  \/ \E c \in Callers : Resend(c) \/ GiveUp(c)
  \/ \E r \in lost : Late(r) \/ Forget(r)

AtLeastOnceSpec == AtLeastOnceInit /\ [][AtLeastOnceNext]_allVars
=============================================================================
