----------------------------- MODULE LinkNames -----------------------------
(***************************************************************************)
(* link: which usernames a bot may have, how SanitizeUsername makes one    *)
(* out of any string, and the deep link BuildNewBot makes of two of them.  *)
(***************************************************************************)
EXTENDS NonceNames, FiniteSetsExt, SequencesExt

CONSTANT NameMaxLen    \* of the display name

ASSUME NameAssumption == NameMaxLen \in Nat

Bot == <<"b", "o", "t">>

EndsWith(s, suffix) == IsSuffix(suffix, s)

ValidateUsername(u) ==
  /\ Len(u) \in UsernameMinLen .. UsernameMaxLen
  /\ u[1] \in Letters \cup Capitals
  /\ Chars(u) \subseteq WordChars \cup Capitals
  /\ EndsWith(ToLower(u), Bot)

-----------------------------------------------------------------------------
(***************************************************************************)
(* SanitizeUsername: trim, lower-case, replace, then see to the beginning, *)
(* the end and the length.                                                 *)
(***************************************************************************)
TrimSpace(s) ==
  LET kept == {i \in DOMAIN s : s[i] # " "} IN
  IF kept = {} THEN Empty ELSE SubSeq(s, Min(kept), Max(kept))

Cleaned(s) == [i \in DOMAIN s |-> IF s[i] \in WordChars THEN s[i] ELSE "_"]

LetterFirst(s) == IF s = Empty \/ s[1] \notin Letters THEN <<"a">> \o s ELSE s

\* Slip: a name must end with "_bot".
BotLastUnderscored(s) == IF EndsWith(s, <<"_">> \o Bot) THEN s ELSE s \o <<"_">> \o Bot

BotLast(s) ==
  IF EndsWith(s, Bot) THEN s
  ELSE IF EndsWith(s, <<"_">>) THEN s \o Bot ELSE s \o <<"_">> \o Bot

\* Slip: cut at the end, "bot" included.
TruncatedBlindly(s) == SubSeq(s, 1, Min({Len(s), UsernameMaxLen}))

Truncated(s) ==
  LET suffix == IF EndsWith(s, <<"_">> \o Bot) THEN <<"_">> \o Bot ELSE Bot IN
  IF Len(s) <= UsernameMaxLen THEN s
  ELSE SubSeq(s, 1, UsernameMaxLen - Len(suffix)) \o suffix

SanitizeUsername(raw) ==
  LET s == ToLower(TrimSpace(raw))
      u == Truncated(BotLast(LetterFirst(Cleaned(s))))
  IN IF s # Empty /\ ValidateUsername(u) THEN u ELSE Empty

-----------------------------------------------------------------------------
(***************************************************************************)
(* The deep link, as the usernames it is made of.                          *)
(***************************************************************************)
NoLink == [manager |-> Empty, suggested |-> Empty]

\* Slip: the manager's username is taken as it is.
BuildUnvalidated(manager, suggested, name) ==
  IF ValidateUsername(suggested) /\ Len(TrimSpace(name)) <= NameMaxLen
  THEN [manager |-> manager, suggested |-> suggested]
  ELSE NoLink

BuildNewBot(manager, suggested, name) ==
  IF /\ ValidateUsername(manager)
     /\ ValidateUsername(suggested)
     /\ Len(TrimSpace(name)) <= NameMaxLen
  THEN [manager |-> manager, suggested |-> suggested]
  ELSE NoLink
=============================================================================
