------------------------------ MODULE Handoff ------------------------------
(***************************************************************************)
(* What the pairing protocol promises of the token of a bot: it goes into  *)
(* the store once, out of it once, to the session whose link the bot was   *)
(* made of and to no other, and may get lost on the way but never comes    *)
(* back.  The creator may be told that linking failed, but not while the   *)
(* token of a live bot can still be fetched; and once told, it is so.      *)
(***************************************************************************)
CONSTANTS
  Bots,
  Clients,     \* sessions
  NoClient

VARIABLES
  stage,       \* "unborn", "open", "stored", "sent", "served" or "lost", per bot
  home,        \* the session whose link the bot was made of, if any
  holder,      \* the session its token was sent to
  deleted,     \* the bots deleted
  told         \* the bots whose creator was told that linking failed

handoffVars == <<stage, home, holder, deleted, told>>

HandoffInit ==
  /\ stage = [b \in Bots |-> "unborn"]
  /\ home = [b \in Bots |-> NoClient]
  /\ holder = [b \in Bots |-> NoClient]
  /\ deleted = {}
  /\ told = {}

Move(b, from, to) ==
  /\ stage[b] \in from
  /\ stage' = [stage EXCEPT ![b] = to]

BotCreated(b) ==
  /\ Move(b, {"unborn"}, "open")
  /\ \E c \in Clients \cup {NoClient} : home' = [home EXCEPT ![b] = c]
  /\ UNCHANGED <<holder, deleted, told>>

Stored(b) ==
  /\ Move(b, {"open"}, "stored")
  /\ home[b] # NoClient
  /\ b \in told => b \in deleted
  /\ UNCHANGED <<home, holder, deleted, told>>

Sent(b) ==
  /\ Move(b, {"stored"}, "sent")
  /\ holder' = [holder EXCEPT ![b] = home[b]]
  /\ UNCHANGED <<home, deleted, told>>

Served(b) == Move(b, {"sent"}, "served") /\ UNCHANGED <<home, holder, deleted, told>>

GotLost(b) ==
  /\ Move(b, {"stored", "sent"}, "lost")
  /\ holder' = [holder EXCEPT ![b] = NoClient]
  /\ UNCHANGED <<home, deleted, told>>

BotDeleted(b) ==
  /\ stage[b] # "unborn"
  /\ deleted' = deleted \cup {b}
  /\ UNCHANGED <<stage, home, holder, told>>

CreatorTold(b) ==
  /\ stage[b] # "unborn"
  /\ stage[b] = "stored" => b \in deleted
  /\ told' = told \cup {b}
  /\ UNCHANGED <<stage, home, holder, deleted>>

HandoffNext ==
  \E b \in Bots :
    \/ BotCreated(b) \/ Stored(b) \/ Sent(b) \/ Served(b) \/ GotLost(b)
    \/ BotDeleted(b) \/ CreatorTold(b)

HandoffSpec == HandoffInit /\ [][HandoffNext]_handoffVars
=============================================================================
