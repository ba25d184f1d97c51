----------------------------- MODULE NonceNames -----------------------------
(***************************************************************************)
(* nonce: pairing nonces, and the bot usernames <prefix>_<nonce>_bot they  *)
(* travel in.  A string is a sequence of characters.  The characters of a  *)
(* username are letters of both cases, digits and "_"; Others stands for   *)
(* those a username must not contain, the space among them.                *)
(***************************************************************************)
EXTENDS Naturals, Sequences

CONSTANTS
  Letters,         \* lower-case letters
  Capitals,        \* upper-case letters
  Lower,           \* the lower-case letter of each upper-case one
  Digits,
  Others,
  Alphabet,        \* the characters of a nonce
  MinLength,       \* of a nonce
  DefaultLength,   \* of the nonces New draws
  UsernameMinLen, UsernameMaxLen    \* of a bot username

ASSUME CharacterAssumption ==
  /\ {"a", "b", "o", "t"} \subseteq Letters
  /\ Letters \cap (Capitals \cup Digits \cup {"_"} \cup Others) = {}
  /\ Digits \cap (Capitals \cup {"_"} \cup Others) = {}
  /\ Capitals \cap ({"_"} \cup Others) = {}
  /\ " " \in Others /\ "_" \notin Others
  /\ Lower \in [Capitals -> Letters]

ASSUME AlphabetAssumption == Alphabet \subseteq Letters \cup Digits

ASSUME LengthAssumption ==
  /\ MinLength \in Nat \ {0}
  /\ DefaultLength \in Nat /\ DefaultLength >= MinLength
  /\ UsernameMinLen = 5
  /\ UsernameMaxLen \in Nat /\ UsernameMaxLen >= UsernameMinLen

(***************************************************************************)
(* The zero value of a string, which is returned with every error.         *)
(***************************************************************************)
Empty == <<>>

Chars(s) == {s[i] : i \in DOMAIN s}

WordChars == Letters \cup Digits \cup {"_"}    \* [a-z0-9_]

AnyChar == WordChars \cup Capitals \cup Others

ToLower(s) == [i \in DOMAIN s |-> IF s[i] \in Capitals THEN Lower[s[i]] ELSE s[i]]

-----------------------------------------------------------------------------
(***************************************************************************)
(* A nonce NewN may draw, if n is not too small.                           *)
(***************************************************************************)
NewN(n) == IF n < MinLength THEN {} ELSE [1 .. n -> Alphabet]

\* Slip: a nonce as short as it may be.
NewShortest == NewN(MinLength)

New == NewN(DefaultLength)

Validate(s) == Len(s) >= MinLength /\ Chars(s) \subseteq Alphabet

(***************************************************************************)
(* Extract compares lower-case names with the pattern of a prefix and a    *)
(* length; what it captures is the nonce.                                  *)
(***************************************************************************)
Named(prefix, n) == ToLower(prefix) \o <<"_">> \o n \o <<"_", "b", "o", "t">>

\* Slip: the pattern does not begin with "^".
PatternUnanchored(username, prefix, length) ==
  {n \in [1 .. length -> Alphabet] :
     \E i \in 0 .. Len(username) :
       SubSeq(ToLower(username), i + 1, Len(username)) = Named(prefix, n)}

Pattern(username, prefix, length) ==
  {n \in [1 .. length -> Alphabet] : ToLower(username) = Named(prefix, n)}

ExtractN(username, prefix, length) ==
  LET captured == Pattern(username, prefix, length) IN
  IF length < MinLength \/ captured = {} THEN Empty ELSE CHOOSE n \in captured : TRUE

Extract(username, prefix) == ExtractN(username, prefix, DefaultLength)

PackIntoUsername(prefix, n) ==
  LET p == ToLower(prefix)
      username == Named(p, n)
  IN IF /\ p # Empty /\ p[1] \in Letters /\ Chars(p) \subseteq WordChars
        /\ Validate(n)
        /\ Len(username) <= UsernameMaxLen
        /\ ExtractN(username, p, Len(n)) = n
     THEN username ELSE Empty
=============================================================================
