---------------------------- MODULE SharedStore ----------------------------
(***************************************************************************)
(* The pairing.Store that the HTTP handlers and the manager's webhook      *)
(* share, as both see it: PairingStore with each call shrunk to its atomic *)
(* step, and no clock, so that an entry may expire at any moment.  What    *)
(* travels through the store is the token of a managed bot, named by the   *)
(* bot and the version of its token.                                       *)
(***************************************************************************)
EXTENDS PairingEntries, Naturals

CONSTANTS
  Bots,        \* managed bots that users create
  NoBot,
  NoNonce,
  MaxVer,      \* bound: times the token of a bot is replaced
  MaxFaults    \* bound: failed or lost calls, responses and workers

ASSUME SharedStoreAssumption ==
  /\ MaxVer \in Nat /\ MaxFaults \in Nat
  /\ Payloads = [bot : Bots, ver : 0 .. MaxVer]
  /\ NoBot \notin Bots /\ NoNonce \notin Nonces

VARIABLES
  entry,       \* [Nonces -> Entry]
  handed,      \* history: the bots whose token a Complete has put in the store
  faults       \* failures so far

StoreTypeOK ==
  /\ entry \in [Nonces -> Entry]
  /\ handed \in SUBSET Bots
  /\ faults \in Nat

StoreInit ==
  /\ entry = [n \in Nonces |-> Absent]
  /\ handed = {}
  /\ faults = 0

Fault == faults < MaxFaults /\ faults' = faults + 1

(***************************************************************************)
(* The effect of Put, Complete and FetchAndDelete on the entry of n.       *)
(***************************************************************************)
StorePut(n) == entry' = [entry EXCEPT ![n] = PutEntry(entry[n])] /\ UNCHANGED handed

\* Slip: the key of an entry leaves out the nonce.
StoreCompleteEveryNonce(n, p) ==
  /\ entry' = [m \in Nonces |-> CompleteEntry(entry[m], p)]
  /\ handed' = IF entry[n].status = "waiting" THEN handed \cup {p.bot} ELSE handed

StoreComplete(n, p) ==
  /\ entry' = [entry EXCEPT ![n] = CompleteEntry(entry[n], p)]
  /\ handed' = IF entry[n].status = "waiting" THEN handed \cup {p.bot} ELSE handed

\* Slip: fetching does not delete.
StoreFetchKept(n) == UNCHANGED <<entry, handed>>

StoreFetch(n) == entry' = [entry EXCEPT ![n] = FetchEntry(entry[n])] /\ UNCHANGED handed

StoreUntouched == UNCHANGED <<entry, handed>>
=============================================================================
