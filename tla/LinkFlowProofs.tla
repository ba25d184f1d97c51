--------------------------- MODULE LinkFlowProofs ---------------------------
(***************************************************************************)
(* Proofs about the names of LinkNames and about LinkFlow, for every       *)
(* alphabet, prefix, configuration and number of bots: the way from a      *)
(* nonce into a name and back, and what follows from it for the bots that  *)
(* users make of links.                                                    *)
(***************************************************************************)
EXTENDS LinkFlow, SequenceTheorems, WellFoundedInduction, TLAPS

(***************************************************************************)
(* The characters a lower-cased string has.                                *)
(***************************************************************************)
LowChar == WordChars \cup Others

(***************************************************************************)
(* ToLower keeps the length, leaves no capital, and leaves alone what has  *)
(* none: lower-casing twice is lower-casing once (nonce.go:121, 170).      *)
(***************************************************************************)
LEMMA LowerString ==
  ASSUME NEW s \in Seq(AnyChar)
  PROVE  /\ ToLower(s) \in Seq(LowChar)
         /\ Len(ToLower(s)) = Len(s)
         /\ \A i \in 1 .. Len(s) :
              ToLower(s)[i] = IF s[i] \in Capitals THEN Lower[s[i]] ELSE s[i]
<1>1. /\ Len(s) \in Nat /\ DOMAIN s = 1 .. Len(s)
      /\ \A i \in 1 .. Len(s) : s[i] \in AnyChar
  BY LenProperties, ElementOfSeq
<1>2. \A c \in Capitals : Lower[c] \in Letters
  BY CharacterAssumption
<1> DEFINE low(i) == IF s[i] \in Capitals THEN Lower[s[i]] ELSE s[i]
<1>3. ToLower(s) = [i \in 1 .. Len(s) |-> low(i)]
  BY <1>1 DEF ToLower
<1>4. \A i \in 1 .. Len(s) : low(i) \in LowChar
  BY <1>1, <1>2 DEF AnyChar, LowChar, WordChars
<1> HIDE DEF low
<1>5. [i \in 1 .. Len(s) |-> low(i)] \in Seq(LowChar)
  BY <1>1, <1>4, IsASeq
<1>6. Len(ToLower(s)) = Len(s)
  BY <1>1, <1>3
<1> QED  BY <1>3, <1>5, <1>6 DEF low

(***************************************************************************)
(* A string without capitals is its own lower-case form.                   *)
(***************************************************************************)
LEMMA LowerIsLower ==
  ASSUME NEW s \in Seq(LowChar)
  PROVE  ToLower(s) = s /\ s \in Seq(AnyChar)
<1>1. LowChar \subseteq AnyChar /\ LowChar \cap Capitals = {}
  BY CharacterAssumption DEF LowChar, AnyChar, WordChars
<1>2. s \in Seq(AnyChar)
  BY <1>1, SeqMonotonic
<1>3. Len(ToLower(s)) = Len(s) /\ ToLower(s) \in Seq(LowChar)
      /\ \A i \in 1 .. Len(s) : ToLower(s)[i] = s[i]
  <2>1. \A i \in 1 .. Len(s) : s[i] \notin Capitals
    BY <1>1, ElementOfSeq
  <2> QED  BY <1>2, <2>1, LowerString
<1>4. ToLower(s) = s
  BY <1>3, SeqEqual
<1> QED  BY <1>2, <1>4

LEMMA LowerTwice ==
  ASSUME NEW s \in Seq(AnyChar)
  PROVE  ToLower(ToLower(s)) = ToLower(s) /\ ToLower(s) \in Seq(AnyChar)
BY LowerString, LowerIsLower

-----------------------------------------------------------------------------
(***************************************************************************)
(* The nonces that are drawn are strings of the right length.              *)
(***************************************************************************)
LEMMA Nonce ==
  ASSUME NEW k \in Nat, NEW n \in [1 .. k -> Alphabet]
  PROVE  /\ n \in Seq(Alphabet) /\ n \in Seq(LowChar)
         /\ Len(n) = k /\ Chars(n) \subseteq Alphabet
<1>1. n \in Seq(Alphabet) /\ Len(n) = k
  BY SeqDef
<1>2. Alphabet \subseteq LowChar
  BY AlphabetAssumption DEF LowChar, WordChars
<1>3. n \in Seq(LowChar)
  BY <1>1, <1>2, SeqMonotonic
<1>4. Chars(n) \subseteq Alphabet
  BY DEF Chars
<1> QED  BY <1>1, <1>3, <1>4

(***************************************************************************)
(* The parts of a name.                                                    *)
(***************************************************************************)
Under  == <<"_">>
BotEnd == <<"_", "b", "o", "t">>

LEMMA Tuples ==
  ASSUME NEW S, NEW x \in S, NEW y \in S, NEW z \in S, NEW u \in S
  PROVE  <<x>> \in Seq(S) /\ <<x, y, z>> \in Seq(S) /\ <<x, y, z, u>> \in Seq(S)
OBVIOUS

LEMMA TupleChars ==
  ASSUME NEW S, NEW l \in Seq(S), NEW x, NEW y, NEW z, NEW u
  PROVE  /\ l = <<x, y, z>> <=> Len(l) = 3 /\ l[1] = x /\ l[2] = y /\ l[3] = z
         /\ l = <<x, y, z, u>> <=> Len(l) = 4 /\ l[1] = x /\ l[2] = y /\ l[3] = z /\ l[4] = u
OBVIOUS

LEMMA OneAndThree ==
  ASSUME NEW S, NEW x \in S, NEW y \in S, NEW z \in S, NEW u \in S
  PROVE  <<x>> \o <<y, z, u>> = <<x, y, z, u>>
<1> DEFINE v == <<x>> \o <<y, z, u>>
<1>1. <<x>> \in Seq(S) /\ <<y, z, u>> \in Seq(S)
  OBVIOUS
<1>2. /\ v \in Seq(S) /\ Len(v) = Len(<<x>>) + Len(<<y, z, u>>)
      /\ \A i \in 1 .. Len(<<x>>) + Len(<<y, z, u>>) :
           v[i] = IF i <= Len(<<x>>) THEN <<x>>[i] ELSE <<y, z, u>>[i - Len(<<x>>)]
  BY <1>1, ConcatProperties
<1> HIDE DEF v
<1>3. Len(v) = 4 /\ v[1] = x /\ v[2] = y /\ v[3] = z /\ v[4] = u
  BY <1>2
<1>4. v = <<x, y, z, u>>
  BY <1>2, <1>3
<1> QED  BY <1>4 DEF v

LEMMA NameParts ==
  /\ Under \in Seq(LowChar) /\ Len(Under) = 1 /\ Under[1] = "_"
  /\ BotEnd \in Seq(LowChar) /\ Len(BotEnd) = 4
  /\ BotEnd[1] = "_" /\ BotEnd[2] = "b" /\ BotEnd[3] = "o" /\ BotEnd[4] = "t"
  /\ \A p, n : Named(p, n) = ToLower(p) \o Under \o n \o BotEnd
<1>1. {"_", "b", "o", "t"} \subseteq LowChar
  BY CharacterAssumption DEF LowChar, WordChars
<1>2. Under \in Seq(LowChar) /\ BotEnd \in Seq(LowChar)
  BY <1>1, Tuples, Zenon DEF Under, BotEnd
<1>4. /\ Len(Under) = 1 /\ Under[1] = "_"
      /\ Len(BotEnd) = 4
      /\ BotEnd[1] = "_" /\ BotEnd[2] = "b" /\ BotEnd[3] = "o" /\ BotEnd[4] = "t"
  BY DEF Under, BotEnd
<1>5. \A p, n : Named(p, n) = ToLower(p) \o Under \o n \o BotEnd
  BY DEF Named, Under, BotEnd
<1> QED  BY <1>2, <1>4, <1>5

(***************************************************************************)
(* A name is as long as its parts, has no capitals, and neither its length *)
(* nor its characters leave open what nonce and what prefix it was made of *)
(* (nonce.go:98-100).                                                      *)
(***************************************************************************)
LEMMA NameShape ==
  ASSUME NEW p \in Seq(AnyChar), NEW n \in Seq(LowChar)
  PROVE  /\ Named(p, n) \in Seq(LowChar)
         /\ Len(Named(p, n)) = Len(p) + Len(n) + 5
         /\ ToLower(Named(p, n)) = Named(p, n)
         /\ Named(ToLower(p), n) = Named(p, n)
<1>1. ToLower(p) \in Seq(LowChar) /\ Len(ToLower(p)) = Len(p)
  BY LowerString
<1>2. Under \in Seq(LowChar) /\ BotEnd \in Seq(LowChar)
  BY NameParts
<1>3. /\ ToLower(p) \o Under \in Seq(LowChar)
      /\ Len(ToLower(p) \o Under) = Len(ToLower(p)) + Len(Under)
  BY <1>1, <1>2, ConcatProperties
<1>4. /\ ToLower(p) \o Under \o n \in Seq(LowChar)
      /\ Len(ToLower(p) \o Under \o n) = Len(ToLower(p) \o Under) + Len(n)
  BY <1>3, ConcatProperties
<1>5. /\ ToLower(p) \o Under \o n \o BotEnd \in Seq(LowChar)
      /\ Len(ToLower(p) \o Under \o n \o BotEnd) = Len(ToLower(p) \o Under \o n) + Len(BotEnd)
  BY <1>2, <1>4, ConcatProperties
<1>6. Len(p) \in Nat /\ Len(n) \in Nat
  BY LenProperties
<1>7. Named(p, n) \in Seq(LowChar)
  BY <1>5, NameParts
<1>8. Len(Named(p, n)) = Len(p) + Len(n) + 5
  <2> DEFINE u == Len(Under)   e == Len(BotEnd)
             a == Len(ToLower(p) \o Under)   b == Len(ToLower(p) \o Under \o n)
  <2>1. a = Len(p) + u /\ b = a + Len(n) /\ Len(Named(p, n)) = b + e
    BY <1>1, <1>3, <1>4, <1>5, NameParts, Zenon
  <2>2. u = 1 /\ e = 4
    BY NameParts
  <2> HIDE DEF u, e, a, b
  <2> QED  BY <1>6, <2>1, <2>2
<1>9. Named(ToLower(p), n) = Named(p, n)
  BY LowerTwice DEF Named
<1> QED  BY <1>7, <1>8, <1>9, LowerIsLower

LEMMA NameDeterminesNonce ==
  ASSUME NEW p \in Seq(AnyChar), NEW m \in Seq(LowChar), NEW n \in Seq(LowChar),
         Named(p, m) = Named(p, n)
  PROVE  m = n
<1> DEFINE P == ToLower(p) \o Under
<1>1. P \in Seq(LowChar)
  BY LowerString, NameParts, ConcatProperties
<1>2. P \o m \in Seq(LowChar) /\ P \o n \in Seq(LowChar)
  <2> HIDE DEF P
  <2> QED  BY <1>1, ConcatProperties
<1>3. (P \o m) \o BotEnd = (P \o n) \o BotEnd
  BY NameParts
<1> HIDE DEF P
<1>4. P \o m = P \o n
  BY <1>2, <1>3, NameParts, ConcatSimplifications
<1> QED  BY <1>1, <1>4, ConcatSimplifications

LEMMA NameDeterminesPrefix ==
  ASSUME NEW p \in Seq(AnyChar), NEW q \in Seq(AnyChar), NEW n \in Seq(LowChar),
         Named(p, n) = Named(q, n)
  PROVE  ToLower(p) = ToLower(q)
<1> DEFINE P == ToLower(p) \o Under
           Q == ToLower(q) \o Under
<1>1. ToLower(p) \in Seq(LowChar) /\ ToLower(q) \in Seq(LowChar)
  BY LowerString
<1>2. P \in Seq(LowChar) /\ Q \in Seq(LowChar)
  BY <1>1, NameParts, ConcatProperties
<1>3. (P \o n) \o BotEnd = (Q \o n) \o BotEnd
  BY NameParts
<1>4. P = Q
  <2> HIDE DEF P, Q
  <2>1. P \o n \in Seq(LowChar) /\ Q \o n \in Seq(LowChar)
    BY <1>2, ConcatProperties
  <2>2. P \o n = Q \o n
    BY <2>1, <1>3, NameParts, ConcatSimplifications
  <2> QED  BY <1>2, <2>2, ConcatSimplifications
<1> QED  BY <1>1, <1>4, NameParts, ConcatSimplifications

-----------------------------------------------------------------------------
(***************************************************************************)
(* What Extract finds is the nonce the name was made of, and it finds      *)
(* nothing in any other name (nonce.go:158-181).                           *)
(***************************************************************************)
LEMMA ExtractFound ==
  ASSUME NEW u, NEW p, NEW k \in Nat, ExtractN(u, p, k) # Empty
  PROVE  /\ k >= MinLength
         /\ ExtractN(u, p, k) \in [1 .. k -> Alphabet]
         /\ ToLower(u) = Named(p, ExtractN(u, p, k))
<1>1. k >= MinLength /\ Pattern(u, p, k) # {}
      /\ ExtractN(u, p, k) = CHOOSE n \in Pattern(u, p, k) : TRUE
  BY LengthAssumption DEF ExtractN
<1>2. ExtractN(u, p, k) \in Pattern(u, p, k)
  BY <1>1
<1> QED  BY <1>1, <1>2 DEF Pattern

LEMMA ExtractFinds ==
  ASSUME NEW u, NEW p \in Seq(AnyChar), NEW k \in Nat, k >= MinLength,
         NEW n \in [1 .. k -> Alphabet], ToLower(u) = Named(p, n)
  PROVE  ExtractN(u, p, k) = n
<1>1. \A m \in [1 .. k -> Alphabet] : Named(p, m) = Named(p, n) => m = n
  BY Nonce, NameDeterminesNonce
<1>2. Pattern(u, p, k) = {n}
  BY <1>1 DEF Pattern
<1> QED  BY <1>2, LengthAssumption DEF ExtractN

(***************************************************************************)
(* The nonces of New, which Extract looks for.                             *)
(***************************************************************************)
LEMMA NewNonces ==
  /\ New = [1 .. DefaultLength -> Alphabet]
  /\ DefaultLength \in Nat /\ DefaultLength >= MinLength
  /\ \A n \in New : n # Empty /\ n \in Seq(LowChar) /\ Len(n) = DefaultLength /\ Validate(n)
<1>1. DefaultLength \in Nat /\ DefaultLength >= MinLength /\ MinLength \in Nat \ {0}
  BY LengthAssumption
<1>2. New = [1 .. DefaultLength -> Alphabet]
  BY <1>1 DEF New, NewN
<1>3. ASSUME NEW n \in New
      PROVE  n # Empty /\ n \in Seq(LowChar) /\ Len(n) = DefaultLength /\ Validate(n)
  <2>1. n \in Seq(LowChar) /\ Len(n) = DefaultLength /\ Chars(n) \subseteq Alphabet
    BY <1>1, <1>2, <1>3, Nonce
  <2>2. Len(n) # 0
    BY <1>1, <2>1
  <2>3. n # Empty
    BY <2>2, EmptySeq DEF Empty
  <2> QED  BY <1>1, <2>1, <2>3 DEF Validate
<1> QED  BY <1>1, <1>2, <1>3

(***************************************************************************)
(* What PackIntoUsername returns, if anything, is the name of the nonce    *)
(* under the prefix, and Extract gets the nonce out of it again under any  *)
(* prefix that is the same up to case (nonce.go:95-97).                    *)
(***************************************************************************)
LEMMA Packed ==
  ASSUME NEW p \in Seq(AnyChar), NEW n \in Seq(LowChar), PackIntoUsername(p, n) # Empty
  PROVE  PackIntoUsername(p, n) = Named(p, n)
<1>1. PackIntoUsername(p, n) = Named(ToLower(p), n)
  BY DEF PackIntoUsername
<1> QED  BY <1>1, NameShape

LEMMA PackThenExtract ==
  ASSUME NEW p \in Seq(AnyChar), NEW q \in Seq(AnyChar), NEW n \in New,
         PackIntoUsername(p, n) # Empty, ToLower(p) = ToLower(q)
  PROVE  Extract(PackIntoUsername(p, n), q) = n
<1>1. n \in Seq(LowChar)
  BY NewNonces
<1>2. PackIntoUsername(p, n) = Named(p, n) /\ ToLower(Named(p, n)) = Named(p, n)
  BY <1>1, Packed, NameShape
<1>3. Named(p, n) = Named(q, n)
  BY DEF Named
<1> QED  BY <1>2, <1>3, NewNonces, ExtractFinds DEF Extract

-----------------------------------------------------------------------------
(***************************************************************************)
(* The link of a nonce, if there is one, names the manager bot of the site *)
(* and suggests the name of the nonce; both are valid usernames.           *)
(***************************************************************************)
LEMMA LinkOfNonce ==
  ASSUME site.prefix \in Seq(AnyChar), NEW n \in New, LinkFor(n) # NoLink
  PROVE  /\ LinkFor(n) = [manager |-> site.manager, suggested |-> Named(site.prefix, n)]
         /\ LinkOK(LinkFor(n))
<1> DEFINE u == PackIntoUsername(site.prefix, n)
<1>1. u # Empty /\ LinkFor(n) = BuildNewBot(site.manager, u, site.name)
  BY DEF LinkFor
<1>2. u = Named(site.prefix, n)
  BY <1>1, NewNonces, Packed
<1> HIDE DEF u
<1>3. ValidateUsername(site.manager) /\ ValidateUsername(u)
      /\ LinkFor(n) = [manager |-> site.manager, suggested |-> u]
  BY <1>1 DEF BuildNewBot
<1> QED  BY <1>2, <1>3 DEF LinkOK

-----------------------------------------------------------------------------
(***************************************************************************)
(* The inductive invariant.  A deployment that is not up has shown and     *)
(* stored nothing, and one that is up keeps its configuration; so the link *)
(* of a nonce is always the one that would be made of it now.  Bots have   *)
(* different names, whatever the case; and an entry that has a bot has one *)
(* whose name carries the nonce under the prefix of the manager.           *)
(***************************************************************************)
Site == [app : Apps \cup {"down"}, prefix : Seq(AnyChar), manager : Seq(AnyChar),
         name : Seq(AnyChar), mgrPrefix : Seq(AnyChar)]

MinimalSite ==
  [app |-> "minimal", prefix |-> Alva, manager |-> AlvaManager, name |-> Alva,
   mgrPrefix |-> Alva]

SiteInv ==
  /\ env \in Envs
  /\ site \in Site
  /\ site.app = "minimal" => site = MinimalSite
  /\ raw \in Seq(AnyChar)
  /\ raw # Empty => site.app = "direct"

LinksInv ==
  /\ DOMAIN links = New
  /\ \A n \in New : links[n] \in {NoLink, LinkFor(n)}
  /\ site = Down => \A n \in New : links[n] = NoLink

Names == {b.name : b \in bots}

BotsInv ==
  /\ bots \subseteq [name : Names, via : New, outcome : {"none", "linked", "told"}]
  /\ \A b \in bots : ValidateUsername(b.name) /\ links[b.via] # NoLink
  /\ \A a, b \in bots : ToLower(a.name) = ToLower(b.name) => a = b

EntryInv ==
  /\ DOMAIN entry = New
  /\ \A n \in New :
       /\ entry[n] \in {Absent, Waiting} \cup {Ready(u) : u \in Names}
       /\ entry[n] # Absent => site # Down /\ LinkFor(n) # NoLink
       /\ entry[n].status = "ready" => ToLower(entry[n].payload) = Named(site.mgrPrefix, n)

ServedInv ==
  /\ DOMAIN served = New
  /\ \A n \in New :
       /\ served[n] \in {Empty} \cup Names
       /\ served[n] # Empty =>
            links[n] # NoLink /\ ToLower(served[n]) = Named(site.mgrPrefix, n)

FlowInv == SiteInv /\ LinksInv /\ BotsInv /\ EntryInv /\ ServedInv

(***************************************************************************)
(* "alva" and the manager's name there are strings.                        *)
(***************************************************************************)
LEMMA AlvaStrings == Alva \in Seq(AnyChar) /\ AlvaManager \in Seq(AnyChar) /\ Empty \in Seq(AnyChar)
<1>1. Letters \subseteq AnyChar /\ WordChars \subseteq AnyChar
  BY DEF AnyChar, WordChars
<1> QED  BY <1>1, AlvaAssumption, SeqMonotonic, EmptySeq DEF Empty

LEMMA InitInv == Init => FlowInv
<1> SUFFICES ASSUME Init PROVE FlowInv
  OBVIOUS
<1> USE DEF Init
<1>1. SiteInv
  BY AlvaStrings DEF SiteInv, Site, Down
<1>2. LinksInv
  BY DEF LinksInv
<1>3. BotsInv
  BY DEF BotsInv
<1>4. EntryInv
  BY DEF EntryInv, Absent
<1>5. ServedInv
  BY DEF ServedInv
<1> QED  BY <1>1, <1>2, <1>3, <1>4, <1>5 DEF FlowInv

(***************************************************************************)
(* Before a deployment is up there is nothing; afterwards there is what a  *)
(* deployment needs.                                                       *)
(***************************************************************************)
LEMMA NothingYet ==
  ASSUME FlowInv, site = Down
  PROVE  /\ \A n \in New : links[n] = NoLink /\ entry[n] = Absent /\ served[n] = Empty
         /\ bots = {} /\ raw = Empty
BY DEF FlowInv, SiteInv, LinksInv, BotsInv, EntryInv, ServedInv, Down

LEMMA GoodSite ==
  ASSUME FlowInv, Mount \/ StartAlva \/ StartMinimal \/ StartDirect
  PROVE  /\ site = Down /\ UNCHANGED <<env, links, entry, bots, served, raw>>
         /\ site' \in Site /\ site' # Down
         /\ site'.app = "minimal" => site' = MinimalSite
<1>1. env \in [app : Apps, secret : BOOLEAN, route : {"", "/slash", "bare"},
               hook : {"", "http", "https"}, prefix : Seq(AnyChar), manager : Seq(AnyChar),
               name : Seq(AnyChar), mgrPrefix : Seq(AnyChar)]
  BY FlowAssumption DEF FlowInv, SiteInv
<1> USE AlvaStrings DEF Up, Site, MinimalSite, Down, Apps
<1>2. CASE Mount
  BY <1>1, <1>2 DEF Mount
<1>3. CASE StartAlva
  <2>1. Getenv(env.prefix, Alva) \in Seq(AnyChar)
    BY <1>1 DEF Getenv
  <2> QED  BY <1>1, <1>3, <2>1 DEF StartAlva
<1>4. CASE StartMinimal
  BY <1>1, <1>4 DEF StartMinimal
<1>5. CASE StartDirect
  BY <1>1, <1>5 DEF StartDirect
<1> QED  BY <1>2, <1>3, <1>4, <1>5

LEMMA StartStep ==
  ASSUME FlowInv, Mount \/ StartAlva \/ StartMinimal \/ StartDirect
  PROVE  FlowInv'
<1>1. /\ \A n \in New : links[n] = NoLink /\ entry[n] = Absent /\ served[n] = Empty
      /\ bots = {} /\ raw = Empty
  BY GoodSite, NothingYet
<1>2. SiteInv'
  BY <1>1, GoodSite DEF FlowInv, SiteInv
<1>3. LinksInv'
  BY <1>1, GoodSite DEF FlowInv, LinksInv
<1>4. BotsInv'
  BY <1>1, GoodSite DEF FlowInv, BotsInv
<1>5. EntryInv'
  BY <1>1, GoodSite DEF FlowInv, EntryInv, Absent
<1>6. ServedInv'
  BY <1>1, GoodSite DEF FlowInv, ServedInv
<1> QED  BY <1>2, <1>3, <1>4, <1>5, <1>6 DEF FlowInv

(***************************************************************************)
(* The link of a nonce depends on nothing but the deployment.              *)
(***************************************************************************)
LEMMA SameSite ==
  ASSUME FlowInv, site' = site, env' = env, raw' = raw
  PROVE  /\ SiteInv'
         /\ \A n \in New : LinkFor(n)' = LinkFor(n)
<1>1. SiteInv'
  BY DEF FlowInv, SiteInv
<1>2. ASSUME NEW n \in New PROVE LinkFor(n)' = LinkFor(n)
  BY DEF LinkFor
<1> QED  BY <1>1, <1>2

(***************************************************************************)
(* Registration.                                                           *)
(***************************************************************************)
LEMMA PutStep ==
  ASSUME FlowInv, NEW n \in New, Put(n), LinkFor(n) # NoLink, site # Down
  PROVE  FlowInv'
<1>1. /\ site' = site /\ env' = env /\ raw' = raw /\ bots' = bots /\ served' = served
      /\ entry' = [entry EXCEPT ![n] = PutEntry(entry[n])]
      /\ links' \in {links, [links EXCEPT ![n] = LinkFor(n)]}
      /\ entry[n] = Absent
  BY DEF Put, PutReply, Answer
<1>2. PutEntry(entry[n]) = Waiting
  BY <1>1 DEF PutEntry
<1>3. SiteInv' /\ \A m \in New : LinkFor(m)' = LinkFor(m)
  BY <1>1, SameSite
<1>4. \A m \in New : links'[m] # NoLink <=> links[m] # NoLink \/ (m = n /\ links' # links)
  BY <1>1 DEF FlowInv, LinksInv
<1>5. LinksInv'
  BY <1>1, <1>3 DEF FlowInv, LinksInv
<1>6. BotsInv'
  <2>1. Names' = Names
    BY <1>1 DEF Names
  <2> QED  BY <1>1, <1>4, <2>1 DEF FlowInv, BotsInv
<1>7. EntryInv'
  <2>1. Names' = Names
    BY <1>1 DEF Names
  <2> QED  BY <1>1, <1>2, <1>3, <2>1 DEF FlowInv, EntryInv, Waiting, Absent
<1>8. ServedInv'
  <2>1. Names' = Names
    BY <1>1 DEF Names
  <2> QED  BY <1>1, <1>4, <2>1 DEF FlowInv, ServedInv
<1> QED  BY <1>3, <1>5, <1>6, <1>7, <1>8 DEF FlowInv

(***************************************************************************)
(* Expiry and the hand-over both take an entry away.                       *)
(***************************************************************************)
LEMMA ExpireStep ==
  ASSUME FlowInv, NEW n \in New, Expire(n)
  PROVE  FlowInv'
<1>1. /\ site' = site /\ env' = env /\ raw' = raw /\ bots' = bots /\ served' = served
      /\ links' = links /\ entry' = [entry EXCEPT ![n] = Absent]
  BY DEF Expire
<1>2. SiteInv' /\ \A m \in New : LinkFor(m)' = LinkFor(m)
  BY <1>1, SameSite
<1>3. Names' = Names
  BY <1>1 DEF Names
<1>4. LinksInv'
  BY <1>1, <1>2 DEF FlowInv, LinksInv
<1>5. BotsInv'
  BY <1>1, <1>3 DEF FlowInv, BotsInv
<1>6. EntryInv'
  BY <1>1, <1>2, <1>3 DEF FlowInv, EntryInv, Absent
<1>7. ServedInv'
  BY <1>1, <1>3 DEF FlowInv, ServedInv
<1> QED  BY <1>2, <1>4, <1>5, <1>6, <1>7 DEF FlowInv

LEMMA FetchStep ==
  ASSUME FlowInv, NEW n \in New, fetchHandler(n)
  PROVE  FlowInv'
<1>1. entry[n].status = "ready" /\ FetchReply(entry[n]) = [err |-> "ok", payload |-> entry[n].payload]
  <2>1. FetchReply(entry[n]).err = "ok"
    BY DEF fetchHandler
  <2>2. entry[n] \in {Absent, Waiting} \cup {Ready(u) : u \in Names}
    BY DEF FlowInv, EntryInv
  <2>3. CASE entry[n] = Absent
    BY <2>1, <2>3 DEF FetchReply, Absent, Answer
  <2>4. CASE entry[n] = Waiting
    BY <2>1, <2>4 DEF FetchReply, Waiting, Answer
  <2>5. CASE entry[n] \in {Ready(u) : u \in Names}
    BY <2>5 DEF FetchReply, Ready
  <2> QED  BY <2>2, <2>3, <2>4, <2>5
<1>2. /\ site' = site /\ env' = env /\ raw' = raw /\ bots' = bots /\ links' = links
      /\ entry' = [entry EXCEPT ![n] = Absent]
      /\ served' = [served EXCEPT ![n] = entry[n].payload]
      /\ links[n] # NoLink
  BY <1>1 DEF fetchHandler, FetchEntry
<1>3. SiteInv' /\ \A m \in New : LinkFor(m)' = LinkFor(m)
  BY <1>2, SameSite
<1>4. Names' = Names
  BY <1>2 DEF Names
<1>5. LinksInv'
  BY <1>2, <1>3 DEF FlowInv, LinksInv
<1>6. BotsInv'
  BY <1>2, <1>4 DEF FlowInv, BotsInv
<1>7. EntryInv'
  BY <1>2, <1>3, <1>4 DEF FlowInv, EntryInv, Absent
<1>8. entry[n].payload \in Names /\ ToLower(entry[n].payload) = Named(site.mgrPrefix, n)
  BY <1>1 DEF FlowInv, EntryInv, Absent, Waiting, Ready
<1>9. ServedInv'
  BY <1>2, <1>4, <1>8 DEF FlowInv, ServedInv
<1> QED  BY <1>3, <1>5, <1>6, <1>7, <1>9 DEF FlowInv

-----------------------------------------------------------------------------
(***************************************************************************)
(* A new bot has a name no other bot has, whatever the case.               *)
(***************************************************************************)
LEMMA CreateStep ==
  ASSUME FlowInv, NEW n \in New, NEW name, CreateBot(n, name)
  PROVE  FlowInv'
<1> DEFINE new == [name |-> name, via |-> n, outcome |-> "none"]
<1>1. /\ site' = site /\ env' = env /\ raw' = raw /\ links' = links
      /\ entry' = entry /\ served' = served
      /\ bots' = bots \cup {new}
      /\ links[n] # NoLink /\ ValidateUsername(name)
      /\ \A b \in bots : ToLower(b.name) # ToLower(name)
  BY DEF CreateBot
<1>2. SiteInv' /\ \A m \in New : LinkFor(m)' = LinkFor(m)
  BY <1>1, SameSite
<1>3. Names' = Names \cup {name}
  <2>1. new.name = name
    OBVIOUS
  <2> HIDE DEF new
  <2>2. \A u : u \in Names' <=> u \in Names \/ u = name
    BY <1>1, <2>1 DEF Names
  <2> QED  BY <2>2
<1>4. LinksInv'
  BY <1>1, <1>2 DEF FlowInv, LinksInv
<1>5. BotsInv'
  <2>1. bots' \subseteq [name : Names', via : New, outcome : {"none", "linked", "told"}]
    BY <1>1, <1>3 DEF FlowInv, BotsInv
  <2>2. \A b \in bots' : ValidateUsername(b.name) /\ links'[b.via] # NoLink
    BY <1>1 DEF FlowInv, BotsInv
  <2>3. \A a, b \in bots' : ToLower(a.name) = ToLower(b.name) => a = b
    BY <1>1 DEF FlowInv, BotsInv
  <2> QED  BY <2>1, <2>2, <2>3 DEF BotsInv
<1>6. EntryInv'
  BY <1>1, <1>2, <1>3 DEF FlowInv, EntryInv
<1>7. ServedInv'
  BY <1>1, <1>3 DEF FlowInv, ServedInv
<1> QED  BY <1>2, <1>4, <1>5, <1>6, <1>7 DEF FlowInv

(***************************************************************************)
(* How linking ends changes nothing in the name of a bot.                  *)
(***************************************************************************)
LEMMA FinishStep ==
  ASSUME FlowInv, NEW b \in bots, NEW o \in {"linked", "told"}, Finish(b, o), links' = links
  PROVE  BotsInv' /\ Names' = Names
<1> DEFINE c == [b EXCEPT !.outcome = o]
<1>1. /\ bots' = (bots \ {b}) \cup {c}
      /\ bots \subseteq [name : Names, via : New, outcome : {"none", "linked", "told"}]
  BY DEF Finish, FlowInv, BotsInv
<1>2. c \in [name : Names, via : New, outcome : {"none", "linked", "told"}]
      /\ c.name = b.name /\ c.via = b.via
  BY <1>1
<1> HIDE DEF c
<1>3. Names' = Names
  BY <1>1, <1>2 DEF Names
<1>4. \A a \in bots' : \E d \in bots : a.name = d.name /\ a.via = d.via /\ (a = d \/ (a = c /\ d = b))
  BY <1>1, <1>2
<1>5. \A a \in bots' : ValidateUsername(a.name) /\ links'[a.via] # NoLink
  BY <1>4 DEF FlowInv, BotsInv
<1>6. \A a, d \in bots' : ToLower(a.name) = ToLower(d.name) => a = d
  BY <1>1, <1>2 DEF FlowInv, BotsInv
<1>7. bots' \subseteq [name : Names', via : New, outcome : {"none", "linked", "told"}]
  BY <1>1, <1>2, <1>3
<1> QED  BY <1>3, <1>5, <1>6, <1>7 DEF BotsInv

LEMMA LinkStep ==
  ASSUME FlowInv, NEW b \in bots, Link(b)
  PROVE  FlowInv'
<1> DEFINE n == Extract(b.name, site.mgrPrefix)
<1>1. /\ site' = site /\ env' = env /\ raw' = raw /\ links' = links /\ served' = served
      /\ n # Empty /\ entry' = [entry EXCEPT ![n] = CompleteEntry(entry[n], b.name)]
      /\ Finish(b, "linked")
      /\ CompleteReply(entry[n]).err \in {"ok", "ErrInvalidState"}
  BY DEF Link
<1>2. n \in New /\ ToLower(b.name) = Named(site.mgrPrefix, n)
  BY <1>1, ExtractFound, NewNonces DEF Extract
<1> HIDE DEF n
<1>3. entry[n] # Absent
  BY <1>1 DEF CompleteReply, Answer, Absent
<1>4. SiteInv' /\ \A m \in New : LinkFor(m)' = LinkFor(m)
  BY <1>1, SameSite
<1>5. BotsInv' /\ Names' = Names
  BY <1>1, FinishStep
<1>6. LinksInv'
  BY <1>1, <1>4 DEF FlowInv, LinksInv
<1>7. b.name \in Names
  BY DEF Names
<1>8. /\ CompleteEntry(entry[n], b.name) \in {entry[n], Ready(b.name)}
  BY DEF CompleteEntry
<1>9. EntryInv'
  BY <1>1, <1>2, <1>3, <1>4, <1>5, <1>7, <1>8 DEF FlowInv, EntryInv, Ready, Absent
<1>10. ServedInv'
  BY <1>1, <1>5 DEF FlowInv, ServedInv
<1> QED  BY <1>4, <1>5, <1>6, <1>9, <1>10 DEF FlowInv

LEMMA DoNotLinkStep ==
  ASSUME FlowInv, NEW b \in bots, DoNotLink(b)
  PROVE  FlowInv'
<1>1. /\ site' = site /\ env' = env /\ raw' = raw /\ links' = links /\ served' = served
      /\ entry' = entry /\ Finish(b, "told")
  BY DEF DoNotLink
<1>2. SiteInv' /\ \A m \in New : LinkFor(m)' = LinkFor(m)
  BY <1>1, SameSite
<1>3. BotsInv' /\ Names' = Names
  BY <1>1, FinishStep
<1>4. LinksInv'
  BY <1>1, <1>2 DEF FlowInv, LinksInv
<1>5. EntryInv'
  BY <1>1, <1>2, <1>3 DEF FlowInv, EntryInv
<1>6. ServedInv'
  BY <1>1, <1>3 DEF FlowInv, ServedInv
<1> QED  BY <1>2, <1>3, <1>4, <1>5, <1>6 DEF FlowInv

LEMMA SuggestStep ==
  ASSUME FlowInv, Suggest
  PROVE  FlowInv'
<1>1. /\ site' = site /\ env' = env /\ links' = links /\ served' = served
      /\ entry' = entry /\ bots' = bots /\ raw' \in Seq(AnyChar) /\ site.app = "direct"
  BY FlowAssumption DEF Suggest
<1>2. SiteInv'
  BY <1>1 DEF FlowInv, SiteInv
<1>3. Names' = Names /\ \A n \in New : LinkFor(n)' = LinkFor(n)
  BY <1>1 DEF Names, LinkFor
<1> QED  BY <1>1, <1>2, <1>3 DEF FlowInv, LinksInv, BotsInv, EntryInv, ServedInv

-----------------------------------------------------------------------------
(***************************************************************************)
(* Suffixes, character by character; and TrimSpace of what has no space.   *)
(***************************************************************************)
LEMMA SuffixChars ==
  ASSUME NEW S, NEW u \in Seq(S), NEW v \in Seq(S)
  PROVE  IsSuffix(v, u) <=>
           /\ Len(v) <= Len(u)
           /\ \A i \in 1 .. Len(v) : u[Len(u) - Len(v) + i] = v[i]
<1>1. Len(u) \in Nat /\ Len(v) \in Nat
  BY LenProperties
<1> DEFINE m == Len(v)   n == Len(u)
           ru == Reverse(u)   rv == Reverse(v)
<1>2. /\ Len(ru) = n /\ Len(rv) = m
      /\ \A i \in 1 .. n : ru[i] = u[n - i + 1]
      /\ \A j \in 1 .. m : rv[j] = v[m - j + 1]
  BY <1>1 DEF Reverse
<1>3. ru \in Seq(S) /\ rv \in Seq(S)
  BY <1>1 DEF Reverse
<1> HIDE DEF ru, rv
<1>4. IsSuffix(v, u) <=> m <= n /\ SubSeq(rv, 1, m) = SubSeq(ru, 1, m)
  BY <1>2 DEF IsSuffix, IsPrefix, ru, rv
<1>5. ASSUME m <= n
      PROVE  SubSeq(rv, 1, m) = SubSeq(ru, 1, m) <=> \A i \in 1 .. m : rv[i] = ru[i]
  <2>1. \A i \in 1 .. m : rv[i] \in S /\ ru[i] \in S
    BY <1>1, <1>2, <1>3, <1>5, ElementOfSeq
  <2>2. /\ SubSeq(rv, 1, m) \in Seq(S) /\ SubSeq(ru, 1, m) \in Seq(S)
        /\ Len(SubSeq(rv, 1, m)) = m /\ Len(SubSeq(ru, 1, m)) = m
        /\ \A i \in 1 .. m : SubSeq(rv, 1, m)[i] = rv[i] /\ SubSeq(ru, 1, m)[i] = ru[i]
    BY <1>1, <2>1, SubSeqProperties
  <2>3. ASSUME \A i \in 1 .. m : rv[i] = ru[i]
        PROVE  SubSeq(rv, 1, m) = SubSeq(ru, 1, m)
    BY <2>2, <2>3, SeqEqual
  <2> QED  BY <2>2, <2>3
<1>6. ASSUME m <= n
      PROVE  (\A i \in 1 .. m : rv[i] = ru[i]) <=> \A i \in 1 .. m : u[n - m + i] = v[i]
  <2>1. ASSUME \A i \in 1 .. m : rv[i] = ru[i], NEW i \in 1 .. m
        PROVE  u[n - m + i] = v[i]
    <3>1. m - i + 1 \in 1 .. m /\ m - i + 1 \in 1 .. n
      BY <1>1, <1>6
    <3>2. rv[m - i + 1] = v[m - (m - i + 1) + 1] /\ ru[m - i + 1] = u[n - (m - i + 1) + 1]
      BY <1>2, <3>1
    <3>3. m - (m - i + 1) + 1 = i /\ n - (m - i + 1) + 1 = n - m + i
      BY <1>1
    <3> QED  BY <2>1, <3>1, <3>2, <3>3
  <2>2. ASSUME \A i \in 1 .. m : u[n - m + i] = v[i], NEW i \in 1 .. m
        PROVE  rv[i] = ru[i]
    <3>1. m - i + 1 \in 1 .. m /\ i \in 1 .. n /\ n - m + (m - i + 1) = n - i + 1
      BY <1>1, <1>6
    <3> QED  BY <1>2, <2>2, <3>1
  <2> QED  BY <2>1, <2>2
<1> QED  BY <1>4, <1>5, <1>6

LEMMA Ends ==
  ASSUME NEW n \in Nat \ {0}
  PROVE  Min(1 .. n) = 1 /\ Max(1 .. n) = n /\ 1 \in 1 .. n
<1>1. 1 \in 1 .. n /\ n \in 1 .. n /\ \A y \in 1 .. n : 1 <= y /\ n >= y
  OBVIOUS
<1>2. Min(1 .. n) \in 1 .. n /\ \A y \in 1 .. n : Min(1 .. n) <= y
  BY <1>1, Zenon DEF Min
<1>3. Max(1 .. n) \in 1 .. n /\ \A y \in 1 .. n : Max(1 .. n) >= y
  BY <1>1, Zenon DEF Max
<1> QED  BY <1>1, <1>2, <1>3

LEMMA TrimNothing ==
  ASSUME NEW s \in Seq(AnyChar), \A i \in 1 .. Len(s) : s[i] # " "
  PROVE  TrimSpace(s) = s
<1>1. Len(s) \in Nat /\ DOMAIN s = 1 .. Len(s)
  BY LenProperties
<1> DEFINE kept == {i \in DOMAIN s : s[i] # " "}
<1>2. kept = 1 .. Len(s)
  BY <1>1
<1>3. CASE s = Empty
  BY <1>3 DEF TrimSpace, Empty
<1>4. CASE s # Empty
  <2>1. Len(s) \in Nat \ {0}
    BY <1>4, EmptySeq, Zenon DEF Empty
  <2> HIDE DEF kept
  <2>2. kept # {} /\ Min(kept) = 1 /\ Max(kept) = Len(s)
    <3>1. PICK k \in Nat \ {0} : k = Len(s)
      BY <2>1
    <3>2. Min(1 .. k) = 1 /\ Max(1 .. k) = k /\ 1 \in 1 .. k
      BY Ends, Zenon
    <3> QED  BY <1>2, <3>1, <3>2, Zenon
  <2>3. TrimSpace(s) = SubSeq(s, 1, Len(s))
    BY <2>2 DEF TrimSpace, kept
  <2> QED  BY <2>3, SubSeqFull
<1> QED  BY <1>3, <1>4

-----------------------------------------------------------------------------
(***************************************************************************)
(* Strings put together begin like the first and end like the last.        *)
(***************************************************************************)
BeginsLike(u, v) == u # Empty /\ u[1] = v[1]

LEMMA Joined ==
  ASSUME NEW S, NEW a \in Seq(S), NEW b \in Seq(S), a # Empty
  PROVE  /\ a \o b \in Seq(S) /\ a \o b # Empty
         /\ BeginsLike(a \o b, a) /\ EndsWith(a \o b, b)
<1>1. Len(a) \in Nat /\ Len(b) \in Nat
  BY LenProperties
<1>2. /\ Len(a \o b) = Len(a) + Len(b) /\ a \o b \in Seq(S)
      /\ \A i \in 1 .. Len(a) + Len(b) :
           (a \o b)[i] = IF i <= Len(a) THEN a[i] ELSE b[i - Len(a)]
  BY ConcatProperties
<1>3. BeginsLike(a \o b, a)
  <2>1. Len(a) # 0
    BY EmptySeq DEF Empty
  <2>2. a \o b # Empty
    BY ConcatEqualIffEmpty DEF Empty
  <2>3. (a \o b)[1] = a[1]
    BY <1>1, <1>2, <2>1
  <2> QED  BY <2>2, <2>3 DEF BeginsLike
<1>4. ASSUME NEW i \in 1 .. Len(b)
      PROVE  (a \o b)[Len(a \o b) - Len(b) + i] = b[i]
  <2>1. Len(a) + i \in 1 .. Len(a) + Len(b) /\ ~(Len(a) + i <= Len(a))
        /\ (Len(a) + i) - Len(a) = i /\ (Len(a) + Len(b)) - Len(b) + i = Len(a) + i
    BY <1>1
  <2> QED  BY <1>2, <2>1
<1>5. Len(b) <= Len(a \o b)
  BY <1>1, <1>2
<1>6. EndsWith(a \o b, b)
  BY <1>2, <1>4, <1>5, SuffixChars, Zenon DEF EndsWith
<1>7. a \o b # Empty
  BY <1>3 DEF BeginsLike
<1> QED  BY <1>2, <1>3, <1>6, <1>7

LEMMA FourJoined ==
  ASSUME NEW S, NEW a \in Seq(S), NEW b \in Seq(S), NEW c \in Seq(S), NEW d \in Seq(S),
         a # Empty
  PROVE  /\ a \o b \o c \o d \in Seq(S)
         /\ BeginsLike(a \o b \o c \o d, a) /\ EndsWith(a \o b \o c \o d, d)
<1> DEFINE x == a \o b
           y == x \o c
<1>1. x \in Seq(S) /\ BeginsLike(x, a) /\ x # Empty
  BY Joined, Zenon
<1> HIDE DEF x
<1>2. y \in Seq(S) /\ BeginsLike(y, x) /\ y # Empty
  BY <1>1, Joined, Zenon
<1> HIDE DEF y
<1>3. y \o d \in Seq(S) /\ BeginsLike(y \o d, y) /\ EndsWith(y \o d, d)
  BY <1>2, Joined, Zenon
<1>4. BeginsLike(y \o d, a)
  BY <1>1, <1>2, <1>3, Zenon DEF BeginsLike
<1> QED  BY <1>3, <1>4, Zenon DEF x, y

(***************************************************************************)
(* What it takes to end with "bot", which "_bot" does.                     *)
(***************************************************************************)
LEMMA LastThree ==
  ASSUME NEW k \in Nat, 4 <= k
  PROVE  /\ 3 <= k
         /\ \A i \in 1 .. 3 : /\ i + 1 \in 1 .. 4 /\ k - 4 + (i + 1) = k - 3 + i
                              /\ (i = 1 /\ i + 1 = 2) \/ (i = 2 /\ i + 1 = 3) \/ (i = 3 /\ i + 1 = 4)
OBVIOUS

LEMMA EndsInBot ==
  ASSUME NEW S, NEW u \in Seq(S), {"_", "b", "o", "t"} \subseteq S, EndsWith(u, BotEnd)
  PROVE  EndsWith(u, Bot)
<1>1. Bot \in Seq(S) /\ BotEnd \in Seq(S)
  BY Tuples, Zenon DEF Bot, BotEnd
<1>2. /\ Len(Bot) = 3 /\ Len(BotEnd) = 4
      /\ BotEnd[2] = Bot[1] /\ BotEnd[3] = Bot[2] /\ BotEnd[4] = Bot[3]
  BY DEF Bot, BotEnd
<1>3. PICK k \in Nat : k = Len(u)
  BY LenProperties
<1>4. 4 <= k /\ \A i \in 1 .. 4 : u[k - 4 + i] = BotEnd[i]
  <2>1. Len(BotEnd) <= Len(u)
        /\ \A i \in 1 .. Len(BotEnd) : u[Len(u) - Len(BotEnd) + i] = BotEnd[i]
    BY <1>1, SuffixChars, Zenon DEF EndsWith
  <2> QED  BY <1>2, <1>3, <2>1, Zenon
<1>5. \A i \in 1 .. 3 : BotEnd[i + 1] = Bot[i]
  BY <1>2, <1>4, LastThree, Zenon
<1>6. 3 <= k /\ \A i \in 1 .. 3 : u[k - 3 + i] = Bot[i]
  BY <1>4, <1>5, LastThree, Zenon
<1>7. Len(Bot) <= Len(u) /\ \A i \in 1 .. Len(Bot) : u[Len(u) - Len(Bot) + i] = Bot[i]
  BY <1>2, <1>3, <1>6, Zenon
<1> QED  BY <1>1, <1>7, SuffixChars, Zenon DEF EndsWith

(***************************************************************************)
(* PackIntoUsername makes a name of every new nonce that fits, and Telegram *)
(* would accept it: what a deployment with a good prefix registers is never *)
(* refused (nonce.go:110-113).                                             *)
(***************************************************************************)
LEMMA GoodPrefixPacks ==
  ASSUME NEW p \in Seq(WordChars), p # Empty, p[1] \in Letters, NEW n \in New,
         Len(p) + 5 + DefaultLength <= UsernameMaxLen
  PROVE  PackIntoUsername(p, n) = Named(p, n) /\ ValidateUsername(Named(p, n))
<1> DEFINE u == Named(p, n)
<1>1. p \in Seq(LowChar) /\ p \in Seq(AnyChar) /\ ToLower(p) = p
  <2>1. WordChars \subseteq LowChar
    BY DEF LowChar
  <2>2. p \in Seq(LowChar)
    BY <2>1, SeqMonotonic
  <2> QED  BY <2>2, LowerIsLower
<1>2. n \in Seq(LowChar) /\ Len(n) = DefaultLength /\ Validate(n) /\ DefaultLength \in Nat
      /\ DefaultLength >= MinLength /\ New = [1 .. DefaultLength -> Alphabet]
  BY NewNonces
<1>3. u = p \o Under \o n \o BotEnd /\ Len(u) = Len(p) + Len(n) + 5 /\ ToLower(u) = u
  BY <1>1, <1>2, NameParts, NameShape
<1>4. Under \in Seq(WordChars) /\ BotEnd \in Seq(WordChars)
  BY CharacterAssumption, Tuples, Zenon DEF Under, BotEnd, WordChars
<1>5. n \in Seq(WordChars)
  <2>1. n \in Seq(Alphabet)
    BY <1>2, Nonce
  <2>2. Alphabet \subseteq WordChars
    BY AlphabetAssumption DEF WordChars
  <2> QED  BY <2>1, <2>2, SeqMonotonic
<1>6. u \in Seq(WordChars) /\ BeginsLike(u, p) /\ EndsWith(u, BotEnd)
  <2> DEFINE v == p \o Under \o n \o BotEnd
  <2>1. v \in Seq(WordChars) /\ BeginsLike(v, p) /\ EndsWith(v, BotEnd)
    BY <1>4, <1>5, FourJoined, Zenon
  <2> HIDE DEF v
  <2>2. u = v
    BY <1>3 DEF v
  <2> QED  BY <2>1, <2>2, Zenon
<1> HIDE DEF u
<1>7. Len(u) \in UsernameMinLen .. UsernameMaxLen
  <2>1. Len(p) \in Nat \ {0}
    BY EmptySeq, Zenon DEF Empty
  <2>2. Len(u) = Len(p) + DefaultLength + 5
    BY <1>2, <1>3
  <2> QED  BY <1>2, <2>1, <2>2, LengthAssumption
<1>8. EndsWith(ToLower(u), Bot)
  <2>1. {"_", "b", "o", "t"} \subseteq WordChars
    BY CharacterAssumption DEF WordChars
  <2> QED  BY <1>3, <1>6, <2>1, EndsInBot
<1>9. ValidateUsername(u)
  <2>1. Chars(u) \subseteq WordChars
    BY <1>6, LenProperties, ElementOfSeq DEF Chars
  <2>2. u[1] \in Letters
    BY <1>6 DEF BeginsLike
  <2> QED  BY <1>7, <1>8, <2>1, <2>2 DEF ValidateUsername
<1>10. PackIntoUsername(p, n) = u
  <2>1. Chars(p) \subseteq WordChars
    BY LenProperties, ElementOfSeq DEF Chars
  <2>2. ExtractN(u, p, Len(n)) = n
    BY <1>1, <1>2, <1>3, ExtractFinds DEF u
  <2>3. Len(u) <= UsernameMaxLen
    BY <1>7, LengthAssumption
  <2> QED  BY <1>1, <1>2, <2>1, <2>2, <2>3 DEF PackIntoUsername, u
<1> QED  BY <1>9, <1>10 DEF u

(***************************************************************************)
(* The links of examples/minimal can be built, whatever the nonce.         *)
(***************************************************************************)
LEMMA AlvaLinks ==
  ASSUME site = MinimalSite, NEW n \in New
  PROVE  LinkFor(n) # NoLink
<1>1. Letters \subseteq WordChars /\ Letters \subseteq AnyChar /\ Letters \cap Others = {}
      /\ " " \in Others
  BY CharacterAssumption DEF AnyChar, WordChars
<1>2. Alva \in Seq(Letters) /\ Alva # Empty /\ Len(Alva) <= NameMaxLen
      /\ Len(Alva) + 5 + DefaultLength <= UsernameMaxLen /\ ValidateUsername(AlvaManager)
  BY AlvaAssumption
<1>3. Alva \in Seq(WordChars) /\ Alva \in Seq(AnyChar)
  BY <1>1, <1>2, SeqMonotonic
<1>4. Alva[1] \in Letters
  <2>1. Len(Alva) \in Nat \ {0}
    BY <1>2, EmptySeq, Zenon DEF Empty
  <2>2. 1 \in 1 .. Len(Alva)
    BY <2>1
  <2> QED  BY <1>2, <2>2, ElementOfSeq
<1>5. TrimSpace(Alva) = Alva
  <2>1. \A i \in 1 .. Len(Alva) : Alva[i] # " "
    BY <1>1, <1>2, ElementOfSeq
  <2> QED  BY <1>3, <2>1, TrimNothing
<1> DEFINE u == Named(Alva, n)
<1>6. PackIntoUsername(Alva, n) = u /\ ValidateUsername(u)
  BY <1>2, <1>3, <1>4, GoodPrefixPacks
<1> HIDE DEF u
<1>7. u # Empty
  BY <1>6, LengthAssumption DEF ValidateUsername, Empty
<1>8. LinkFor(n) = [manager |-> AlvaManager, suggested |-> u]
  BY <1>2, <1>5, <1>6, <1>7 DEF LinkFor, BuildNewBot, MinimalSite
<1> QED  BY <1>7, <1>8 DEF NoLink

-----------------------------------------------------------------------------
LEMMA StepInv ==
  ASSUME FlowInv, [Next]_vars
  PROVE  FlowInv'
<1>1. CASE Mount \/ StartAlva \/ StartMinimal \/ StartDirect
  BY <1>1, StartStep
<1>2. ASSUME NEW n \in New, PostPair(n) PROVE FlowInv'
  <2>1. site # Down
    BY <1>2 DEF PostPair, Down
  <2> QED  BY <1>2, <2>1, PutStep DEF PostPair
<1>3. ASSUME NEW n \in New, registerHandler(n) PROVE FlowInv'
  <2>1. site # Down
    BY <1>3 DEF registerHandler, Down
  <2>2. LinkFor(n) # NoLink
    BY <1>3, AlvaLinks DEF registerHandler, FlowInv, SiteInv
  <2> QED  BY <1>3, <2>1, <2>2, PutStep DEF registerHandler
<1>4. ASSUME NEW n \in New, Expire(n) PROVE FlowInv'
  BY <1>4, ExpireStep
<1>5. ASSUME NEW n \in New, fetchHandler(n) PROVE FlowInv'
  BY <1>5, FetchStep
<1>6. ASSUME NEW n \in New, NEW name, CreateBot(n, name) PROVE FlowInv'
  BY <1>6, CreateStep
<1>7. ASSUME NEW b \in bots, HandleUpdate(b) \/ completeHandler(b) PROVE FlowInv'
  BY <1>7, LinkStep, DoNotLinkStep DEF HandleUpdate, completeHandler
<1>8. CASE Suggest
  BY <1>8, SuggestStep
<1>9. CASE UNCHANGED vars
  <2> USE <1>9 DEF vars
  <2>1. Names' = Names /\ \A n \in New : LinkFor(n)' = LinkFor(n)
    BY DEF Names, LinkFor
  <2> QED  BY <2>1 DEF FlowInv, SiteInv, LinksInv, BotsInv, EntryInv, ServedInv
<1> QED  BY <1>1, <1>2, <1>3, <1>4, <1>5, <1>6, <1>7, <1>8, <1>9 DEF Next

(***************************************************************************)
(* FlowInv holds in every state of every deployment.                       *)
(***************************************************************************)
THEOREM FlowInvariant == Spec => []FlowInv
<1>1. Init => FlowInv
  BY InitInv
<1>2. FlowInv /\ [Next]_vars => FlowInv'
  BY StepInv
<1> QED  BY <1>1, <1>2, PTL DEF Spec

(***************************************************************************)
(* The types, among them: a link that is shown is of two usernames that    *)
(* Telegram accepts, and an entry with a bot has one that exists.          *)
(***************************************************************************)
THEOREM TypeCorrect == Spec => []TypeOK
<1>1. FlowInv => TypeOK
  <2> SUFFICES ASSUME FlowInv PROVE TypeOK
    OBVIOUS
  <2>1. env \in Envs /\ site.app \in Apps \cup {"down"} /\ (raw # Empty => site.app = "direct")
    BY DEF FlowInv, SiteInv, Site
  <2>2. ASSUME NEW n \in New PROVE links[n] = NoLink \/ LinkOK(links[n])
    <3>1. site.prefix \in Seq(AnyChar) /\ links[n] \in {NoLink, LinkFor(n)}
      BY DEF FlowInv, SiteInv, LinksInv, Site
    <3> QED  BY <3>1, LinkOfNonce
  <2>3. \A n \in New : /\ entry[n] \in {Absent, Waiting} \cup {Ready(b.name) : b \in bots}
                       /\ served[n] \in {Empty} \cup {b.name : b \in bots}
    BY DEF FlowInv, EntryInv, ServedInv, Names
  <2>4. \A b \in bots :
          ValidateUsername(b.name) /\ b.via \in New /\ b.outcome \in {"none", "linked", "told"}
    BY DEF FlowInv, BotsInv
  <2> QED  BY <2>1, <2>2, <2>3, <2>4 DEF TypeOK
<1> QED  BY <1>1, FlowInvariant, PTL

(***************************************************************************)
(* No deployment registers a nonce whose link it cannot build, neither the *)
(* one that looks first nor the example, which stores first and has no     *)
(* configuration that could be wrong (handlers.go:94-97).                  *)
(***************************************************************************)
THEOREM NoOrphans == Spec => []NoOrphanEntry
<1>1. FlowInv => NoOrphanEntry
  BY DEF FlowInv, EntryInv, NoOrphanEntry
<1> QED  BY <1>1, FlowInvariant, PTL

(***************************************************************************)
(* What a bot made of a link leads to, for every two prefixes.             *)
(***************************************************************************)
LEMMA LinkOfBot ==
  ASSUME FlowInv, NEW n \in New, links[n] # NoLink
  PROVE  /\ links[n].suggested = Named(site.prefix, n)
         /\ site.prefix \in Seq(AnyChar) /\ site.mgrPrefix \in Seq(AnyChar)
<1>1. /\ site.prefix \in Seq(AnyChar) /\ site.mgrPrefix \in Seq(AnyChar)
      /\ links[n] = LinkFor(n)
  BY DEF FlowInv, SiteInv, LinksInv, Site
<1>2. LinkFor(n) = [manager |-> site.manager, suggested |-> Named(site.prefix, n)]
  BY <1>1, LinkOfNonce
<1> QED  BY <1>1, <1>2

(***************************************************************************)
(* The name a link suggests leads back to its nonce if and only if the two *)
(* sides have the same prefix up to case (server.go:35-40): Named leaves   *)
(* open neither the nonce nor the prefix.                                  *)
(***************************************************************************)
THEOREM LeadsBack == Spec => []LinkLeadsBack
<1>1. FlowInv => LinkLeadsBack
  <2> SUFFICES ASSUME FlowInv, NEW b \in bots, ToLower(b.name) = links[b.via].suggested
               PROVE  Extract(b.name, site.mgrPrefix) = b.via
                        <=> ToLower(site.prefix) = ToLower(site.mgrPrefix)
    BY DEF LinkLeadsBack
  <2>1. b.via \in New /\ links[b.via] # NoLink
    BY DEF FlowInv, BotsInv
  <2>2. ToLower(b.name) = Named(site.prefix, b.via)
        /\ site.prefix \in Seq(AnyChar) /\ site.mgrPrefix \in Seq(AnyChar)
    BY <2>1, LinkOfBot
  <2>3. b.via # Empty /\ b.via \in Seq(LowChar)
    BY <2>1, NewNonces
  <2>4. ASSUME Extract(b.name, site.mgrPrefix) = b.via
        PROVE  ToLower(site.prefix) = ToLower(site.mgrPrefix)
    <3>1. ToLower(b.name) = Named(site.mgrPrefix, b.via)
      BY <2>3, <2>4, NewNonces, ExtractFound DEF Extract
    <3> QED  BY <2>2, <2>3, <3>1, NameDeterminesPrefix
  <2>5. ASSUME ToLower(site.prefix) = ToLower(site.mgrPrefix)
        PROVE  Extract(b.name, site.mgrPrefix) = b.via
    <3>1. ToLower(b.name) = Named(site.mgrPrefix, b.via)
      BY <2>2, <2>5 DEF Named
    <3> QED  BY <2>1, <2>2, <3>1, NewNonces, ExtractFinds DEF Extract
  <2> QED  BY <2>4, <2>5
<1> QED  BY <1>1, FlowInvariant, PTL

(***************************************************************************)
(* No two bots lead to one nonce, whatever users type: two names that      *)
(* Extract reads the same nonce from are the same up to case, and Telegram *)
(* gives such a name once.                                                 *)
(***************************************************************************)
THEOREM OneBot == Spec => []OneBotPerNonce
<1>1. FlowInv => OneBotPerNonce
  <2> SUFFICES ASSUME FlowInv, NEW a \in bots, NEW b \in bots,
                      Extract(a.name, site.mgrPrefix) # Empty,
                      Extract(a.name, site.mgrPrefix) = Extract(b.name, site.mgrPrefix)
               PROVE  a = b
    BY DEF OneBotPerNonce
  <2>1. ToLower(a.name) = ToLower(b.name)
    BY NewNonces, ExtractFound DEF Extract
  <2> QED  BY <2>1 DEF FlowInv, BotsInv
<1> QED  BY <1>1, FlowInvariant, PTL

(***************************************************************************)
(* The bot a session is handed carries the session's nonce in its name,    *)
(* and with one prefix on both sides has the name the session's own link   *)
(* suggested.                                                              *)
(***************************************************************************)
THEOREM RightBotName == Spec => []RightName
<1>1. FlowInv => RightName
  <2> SUFFICES ASSUME FlowInv, NEW n \in New, served[n] # Empty
               PROVE  /\ ToLower(served[n]) = Named(site.mgrPrefix, n)
                      /\ ToLower(site.prefix) = ToLower(site.mgrPrefix) =>
                           ToLower(served[n]) = links[n].suggested
    BY DEF RightName
  <2>1. links[n] # NoLink /\ ToLower(served[n]) = Named(site.mgrPrefix, n)
    BY DEF FlowInv, ServedInv
  <2>2. links[n].suggested = Named(site.prefix, n)
    BY <2>1, LinkOfBot
  <2>3. ToLower(site.prefix) = ToLower(site.mgrPrefix) =>
          Named(site.prefix, n) = Named(site.mgrPrefix, n)
    BY DEF Named
  <2> QED  BY <2>1, <2>2, <2>3
<1> QED  BY <1>1, FlowInvariant, PTL

-----------------------------------------------------------------------------
(***************************************************************************)
(* SanitizeUsername, stage by stage.  What is trimmed is a string still:   *)
(* there is a first and a last character that is no space.                 *)
(***************************************************************************)
LEMMA LeastThere ==
  ASSUME NEW T, T \subseteq Nat, T # {}
  PROVE  \E x \in T : \A y \in T : x <= y
<1>1. PICK x \in T : \A y \in T : ~(<<y, x>> \in OpToRel(<, Nat))
  BY NatLessThanWellFounded, WFMin, Zenon
<1>2. \A y \in T : ~(y < x)
  BY <1>1 DEF OpToRel
<1> QED  BY <1>2

LEMMA LeastOf ==
  ASSUME NEW T, T \subseteq Nat, T # {}
  PROVE  Min(T) \in T
BY LeastThere, Zenon DEF Min

LEMMA GreatestOf ==
  ASSUME NEW n \in Nat, NEW T, T \subseteq 1 .. n, T # {}
  PROVE  Max(T) \in T
<1> DEFINE U == {n - i : i \in T}
<1>1. U \subseteq Nat /\ U # {}
  <2>1. ASSUME NEW i \in T PROVE n - i \in Nat
    OBVIOUS
  <2>2. U \subseteq Nat
    BY <2>1, Zenon
  <2>3. U # {}
    BY Zenon
  <2> QED  BY <2>2, <2>3, Zenon
<1>2. PICK x \in U : \A y \in U : x <= y
  <2> HIDE DEF U
  <2> QED  BY <1>1, LeastThere
<1>3. PICK m \in T : x = n - m
  OBVIOUS
<1>4. ASSUME NEW i \in T PROVE m >= i
  <2>1. n - i \in U /\ n - m \in U
    OBVIOUS
  <2>2. n - m <= n - i
    BY <1>2, <1>3, <2>1
  <2>3. i \in Nat /\ m \in Nat
    OBVIOUS
  <2> HIDE DEF U
  <2> QED  BY <2>2, <2>3
<1> QED  BY <1>4, Zenon DEF Max

LEMMA TrimmedString ==
  ASSUME NEW s \in Seq(AnyChar)
  PROVE  TrimSpace(s) \in Seq(AnyChar)
<1>1. PICK k \in Nat : k = Len(s) /\ DOMAIN s = 1 .. k
  BY LenProperties
<1> DEFINE kept == {i \in DOMAIN s : s[i] # " "}
<1>2. CASE kept = {}
  BY <1>2, EmptySeq DEF TrimSpace, Empty
<1>3. CASE kept # {}
  <2>1. kept \subseteq 1 .. k
    BY <1>1, Zenon
  <2> HIDE DEF kept
  <2>2. Min(kept) \in 1 .. k /\ Max(kept) \in 1 .. k
    <3>1. kept \subseteq Nat
      BY <2>1
    <3> QED  BY <1>3, <2>1, <3>1, LeastOf, GreatestOf, Zenon
  <2>3. \A i \in Min(kept) .. Max(kept) : i \in 1 .. Len(s)
    BY <1>1, <2>2
  <2>4. \A i \in Min(kept) .. Max(kept) : s[i] \in AnyChar
    BY <2>3, ElementOfSeq
  <2>5. SubSeq(s, Min(kept), Max(kept)) \in Seq(AnyChar)
    BY <2>2, <2>4, SubSeqProperties
  <2> QED  BY <1>3, <2>5 DEF TrimSpace, kept
<1> QED  BY <1>2, <1>3

LEMMA CleanedString ==
  ASSUME NEW s \in Seq(LowChar)
  PROVE  /\ Cleaned(s) \in Seq(WordChars) /\ Len(Cleaned(s)) = Len(s)
         /\ \A i \in 1 .. Len(s) : Cleaned(s)[i] = IF s[i] \in WordChars THEN s[i] ELSE "_"
<1>1. Len(s) \in Nat /\ DOMAIN s = 1 .. Len(s)
  BY LenProperties
<1> DEFINE clean(i) == IF s[i] \in WordChars THEN s[i] ELSE "_"
<1>2. Cleaned(s) = [i \in 1 .. Len(s) |-> clean(i)]
  BY <1>1 DEF Cleaned
<1>3. \A i \in 1 .. Len(s) : clean(i) \in WordChars
  BY DEF WordChars
<1> HIDE DEF clean
<1>4. [i \in 1 .. Len(s) |-> clean(i)] \in Seq(WordChars)
  BY <1>1, <1>3, IsASeq
<1>5. Len(Cleaned(s)) = Len(s)
  BY <1>1, <1>2
<1> QED  BY <1>2, <1>4, <1>5 DEF clean

LEMMA CleanedWord ==
  ASSUME NEW s \in Seq(WordChars)
  PROVE  Cleaned(s) = s /\ s \in Seq(LowChar)
<1>1. s \in Seq(LowChar)
  <2>1. WordChars \subseteq LowChar
    BY DEF LowChar
  <2> QED  BY <2>1, SeqMonotonic
<1>2. \A i \in 1 .. Len(s) : Cleaned(s)[i] = s[i]
  BY <1>1, CleanedString, ElementOfSeq
<1>3. Cleaned(s) \in Seq(WordChars) /\ Len(Cleaned(s)) = Len(s)
  BY <1>1, CleanedString
<1> QED  BY <1>1, <1>2, <1>3, SeqEqual

(***************************************************************************)
(* The three strings the stages add, and what they are put together of.    *)
(***************************************************************************)
FirstA == <<"a">>

LEMMA AddedParts ==
  /\ FirstA \in Seq(WordChars) /\ FirstA # Empty /\ FirstA[1] = "a" /\ "a" \in Letters
  /\ Bot \in Seq(WordChars) /\ Len(Bot) = 3
  /\ Bot[1] = "b" /\ Bot[2] = "o" /\ Bot[3] = "t" /\ "b" \in Letters
  /\ BotEnd \in Seq(WordChars) /\ Len(BotEnd) = 4
  /\ Under \in Seq(WordChars) /\ Under \o Bot = BotEnd
<1>1. {"_", "a", "b", "o", "t"} \subseteq WordChars /\ {"a", "b", "o", "t"} \subseteq Letters
  BY CharacterAssumption DEF WordChars
<1>2. FirstA \in Seq(WordChars) /\ Bot \in Seq(WordChars) /\ BotEnd \in Seq(WordChars)
  BY <1>1, Tuples, Zenon DEF FirstA, Bot, BotEnd
<1>3. Len(Bot) = 3 /\ Bot[1] = "b" /\ Bot[2] = "o" /\ Bot[3] = "t" /\ Len(BotEnd) = 4
  BY DEF Bot, BotEnd
<1>4. FirstA # Empty /\ FirstA[1] = "a"
  BY DEF FirstA, Empty
<1>5. Under \o Bot = BotEnd
  <2>1. \A x, y, z, u \in WordChars : <<x>> \o <<y, z, u>> = <<x, y, z, u>>
    BY OneAndThree, Zenon
  <2>2. "_" \in WordChars /\ "b" \in WordChars /\ "o" \in WordChars /\ "t" \in WordChars
    BY <1>1
  <2> QED  BY <2>1, <2>2, Zenon DEF Under, Bot, BotEnd
<1>6. Under \in Seq(WordChars)
  BY <1>1, Tuples, Zenon DEF Under
<1> QED  BY <1>1, <1>2, <1>3, <1>4, <1>5, <1>6

LEMMA FirstIsLetter ==
  ASSUME NEW c \in Seq(WordChars)
  PROVE  /\ LetterFirst(c) \in Seq(WordChars) /\ LetterFirst(c) # Empty
         /\ LetterFirst(c)[1] \in Letters
         /\ LetterFirst(c) = c \/ (LetterFirst(c) = FirstA \o c /\ (c = Empty \/ c[1] \notin Letters))
<1>1. CASE c = Empty \/ c[1] \notin Letters
  <2>1. LetterFirst(c) = FirstA \o c
    BY <1>1 DEF LetterFirst, FirstA
  <2>2. FirstA \o c \in Seq(WordChars) /\ FirstA \o c # Empty /\ BeginsLike(FirstA \o c, FirstA)
    BY AddedParts, Joined, Zenon
  <2>3. LetterFirst(c)[1] = FirstA[1]
    BY <2>1, <2>2 DEF BeginsLike
  <2> QED  BY <1>1, <2>1, <2>2, <2>3, AddedParts
<1>2. CASE ~(c = Empty \/ c[1] \notin Letters)
  <2>1. LetterFirst(c) = c
    BY <1>2 DEF LetterFirst
  <2> QED  BY <1>2, <2>1
<1> QED  BY <1>1, <1>2

(***************************************************************************)
(* A name that BotLast adds to is not too short any more: "_" alone is no  *)
(* letter.                                                                 *)
(***************************************************************************)
LEMMA LastIsBot ==
  ASSUME NEW l \in Seq(WordChars), l # Empty, l[1] \in Letters
  PROVE  /\ BotLast(l) \in Seq(WordChars) /\ BotLast(l) # Empty
         /\ BeginsLike(BotLast(l), l) /\ EndsWith(BotLast(l), Bot)
         /\ EndsWith(l, Bot) => BotLast(l) = l
         /\ ~EndsWith(l, Bot) => Len(BotLast(l)) >= 5
<1>1. CASE EndsWith(l, Bot)
  BY <1>1 DEF BotLast, BeginsLike
<1>2. CASE ~EndsWith(l, Bot) /\ EndsWith(l, <<"_">>)
  <2>1. BotLast(l) = l \o Bot
    BY <1>2 DEF BotLast
  <2>2. /\ l \o Bot \in Seq(WordChars) /\ l \o Bot # Empty
        /\ BeginsLike(l \o Bot, l) /\ EndsWith(l \o Bot, Bot)
    BY AddedParts, Joined, Zenon
  <2>3. Len(l \o Bot) = Len(l) + Len(Bot)
    BY AddedParts, ConcatProperties, Zenon
  <2>4. l[Len(l)] = "_"
    <3>1. /\ Under = <<"_">> /\ Under \in Seq(WordChars) /\ Len(Under) = 1 /\ Under[1] = "_"
      BY Tuples, Zenon DEF Under, WordChars
    <3>2. PICK k \in Nat : k = Len(l)
      BY LenProperties
    <3>3. \A i \in 1 .. Len(Under) : l[Len(l) - Len(Under) + i] = Under[i]
      BY <1>2, <3>1, SuffixChars, Zenon DEF EndsWith
    <3>4. k - 1 + 1 = k /\ 1 \in 1 .. 1
      OBVIOUS
    <3> QED  BY <3>1, <3>2, <3>3, <3>4, Zenon
  <2>5. "_" \notin Letters
    BY CharacterAssumption
  <2>6. Len(l) \in Nat \ {0}
    BY EmptySeq, Zenon DEF Empty
  <2>7. Len(l) # 1
    BY <2>4, <2>5
  <2>8. Len(l \o Bot) >= 5
    <3>1. PICK k \in Nat \ {0} : k = Len(l)
      BY <2>6
    <3>2. Len(l \o Bot) = k + 3 /\ k # 1
      BY <2>3, <2>7, <3>1, AddedParts, Zenon
    <3> DEFINE n == Len(l \o Bot)
    <3> HIDE DEF n
    <3>3. n = k + 3 /\ k # 1
      BY <3>2 DEF n
    <3>4. n >= 5
      BY <3>3
    <3> QED  BY <3>4 DEF n
  <2> QED  BY <1>2, <2>1, <2>2, <2>8
<1>3. CASE ~EndsWith(l, Bot) /\ ~EndsWith(l, <<"_">>)
  <2>1. BotLast(l) = l \o BotEnd
    <3>1. BotLast(l) = (l \o Under) \o Bot
      BY <1>3 DEF BotLast, Under
    <3>2. (l \o Under) \o Bot = l \o (Under \o Bot)
      <4>1. Under \in Seq(WordChars) /\ Bot \in Seq(WordChars)
        BY AddedParts
      <4> QED  BY <4>1, ConcatAssociative
    <3> QED  BY <3>1, <3>2, AddedParts, Zenon
  <2>2. /\ l \o BotEnd \in Seq(WordChars) /\ l \o BotEnd # Empty
        /\ BeginsLike(l \o BotEnd, l) /\ EndsWith(l \o BotEnd, BotEnd)
    BY AddedParts, Joined, Zenon
  <2>3. EndsWith(l \o BotEnd, Bot)
    <3>1. {"_", "b", "o", "t"} \subseteq WordChars
      BY CharacterAssumption DEF WordChars
    <3> QED  BY <2>2, <3>1, EndsInBot, Zenon
  <2>4. Len(l \o BotEnd) >= 5
    <3>1. Len(l) \in Nat \ {0}
      BY EmptySeq, Zenon DEF Empty
    <3>2. PICK k \in Nat \ {0} : k = Len(l)
      BY <3>1
    <3>3. Len(l \o BotEnd) = Len(l) + Len(BotEnd)
      BY AddedParts, ConcatProperties, Zenon
    <3>4. Len(l \o BotEnd) = k + 4
      BY <3>2, <3>3, AddedParts, Zenon
    <3> DEFINE n == Len(l \o BotEnd)
    <3> HIDE DEF n
    <3>5. n = k + 4
      BY <3>4 DEF n
    <3>6. n >= 5
      BY <3>5
    <3> QED  BY <3>6 DEF n
  <2> QED  BY <1>3, <2>1, <2>2, <2>3, <2>4
<1> QED  BY <1>1, <1>2, <1>3

(***************************************************************************)
(* Cutting a name keeps its beginning and its "bot", and leaves as many    *)
(* characters as are allowed (username.go:85-103).                         *)
(***************************************************************************)
LEMMA CutName ==
  ASSUME NEW b \in Seq(WordChars), NEW x \in Seq(WordChars), NEW k \in 1 .. Len(b)
  PROVE  /\ SubSeq(b, 1, k) \o x \in Seq(WordChars)
         /\ BeginsLike(SubSeq(b, 1, k) \o x, b) /\ EndsWith(SubSeq(b, 1, k) \o x, x)
         /\ Len(SubSeq(b, 1, k) \o x) = k + Len(x)
<1> DEFINE h == SubSeq(b, 1, k)
<1>1. Len(b) \in Nat /\ \A i \in 1 .. k : i \in 1 .. Len(b)
  BY LenProperties
<1>2. \A i \in 1 .. k : b[i] \in WordChars
  BY <1>1, ElementOfSeq
<1>3. k \in Nat \ {0}
  BY <1>1
<1>4. h \in Seq(WordChars) /\ Len(h) = k /\ h[1] = b[1]
  BY <1>2, <1>3, SubSeqProperties
<1>5. h # Empty
  BY <1>3, <1>4, EmptySeq DEF Empty
<1> HIDE DEF h
<1>6. h \o x \in Seq(WordChars) /\ h \o x # Empty /\ BeginsLike(h \o x, h) /\ EndsWith(h \o x, x)
  BY <1>4, <1>5, Joined, Zenon
<1>7. Len(h \o x) = k + Len(x)
  BY <1>4, ConcatProperties, Zenon
<1>8. BeginsLike(h \o x, b)
  BY <1>4, <1>6 DEF BeginsLike
<1> QED  BY <1>6, <1>7, <1>8 DEF h

LEMMA Cuts ==
  ASSUME NEW most \in Nat, most >= 5, NEW m \in Nat, NEW n \in Nat,
         m = 3 \/ m = 4, ~(n <= most)
  PROVE  most - m \in 1 .. n /\ (most - m) + m = most /\ n >= 5
OBVIOUS

LEMMA CutKeepsBot ==
  ASSUME NEW b \in Seq(WordChars), b # Empty, EndsWith(b, Bot)
  PROVE  /\ Truncated(b) \in Seq(WordChars)
         /\ BeginsLike(Truncated(b), b) /\ EndsWith(Truncated(b), Bot)
         /\ Len(Truncated(b)) <= UsernameMaxLen
         /\ Len(Truncated(b)) >= 5 <=> Len(b) >= 5
<1>1. UsernameMaxLen \in Nat /\ UsernameMaxLen >= 5
  BY LengthAssumption
<1>2. CASE Len(b) <= UsernameMaxLen
  BY <1>2 DEF Truncated, BeginsLike
<1>3. CASE ~(Len(b) <= UsernameMaxLen)
  <2> DEFINE x == IF EndsWith(b, Under \o Bot) THEN Under \o Bot ELSE Bot
  <2>1. PICK m \in Nat : m = Len(x) /\ (m = 3 \/ m = 4)
    BY AddedParts
  <2>2. x \in Seq(WordChars) /\ (x = Bot \/ x = BotEnd)
    BY AddedParts
  <2>3. Truncated(b) = SubSeq(b, 1, UsernameMaxLen - Len(x)) \o x
    BY <1>3 DEF Truncated, Under
  <2> HIDE DEF x
  <2>4. Len(b) \in Nat
    BY LenProperties
  <2>5. PICK n \in Nat : n = Len(b) /\ ~(n <= UsernameMaxLen)
    BY <1>3, <2>4
  <2>6. UsernameMaxLen - m \in 1 .. n /\ (UsernameMaxLen - m) + m = UsernameMaxLen /\ n >= 5
    <3>1. (m = 3 \/ m = 4) /\ ~(n <= UsernameMaxLen)
      BY <2>1, <2>5, Zenon
    <3> QED  BY <1>1, <3>1, Cuts
  <2> DEFINE t == SubSeq(b, 1, UsernameMaxLen - m) \o x
  <2>7. t \in Seq(WordChars) /\ BeginsLike(t, b) /\ EndsWith(t, x) /\ Len(t) = UsernameMaxLen
    BY <2>1, <2>2, <2>5, <2>6, CutName, Zenon
  <2>8. Truncated(b) = t
    BY <2>1, <2>3, Zenon
  <2> HIDE DEF t
  <2>9. EndsWith(t, Bot)
    <3>1. {"_", "b", "o", "t"} \subseteq WordChars
      BY CharacterAssumption DEF WordChars
    <3> QED  BY <2>2, <2>7, <3>1, EndsInBot, Zenon
  <2>10. Len(t) <= UsernameMaxLen /\ Len(t) >= 5 /\ Len(b) >= 5
    BY <1>1, <2>5, <2>6, <2>7
  <2> QED  BY <2>7, <2>8, <2>9, <2>10, Zenon
<1> QED  BY <1>2, <1>3

(***************************************************************************)
(* A name of the right characters, beginning and end is valid if it is of  *)
(* a valid length.                                                         *)
(***************************************************************************)
LEMMA ValidName ==
  ASSUME NEW u \in Seq(WordChars), u[1] \in Letters, EndsWith(u, Bot)
  PROVE  ValidateUsername(u) <=> Len(u) \in UsernameMinLen .. UsernameMaxLen
<1>1. ToLower(u) = u
  BY CleanedWord, LowerIsLower
<1>2. Chars(u) \subseteq WordChars
  BY LenProperties, ElementOfSeq DEF Chars
<1> QED  BY <1>1, <1>2 DEF ValidateUsername

(***************************************************************************)
(* A string that is not blank becomes a username if and only if what       *)
(* LetterFirst makes of it is five characters long or does not end with    *)
(* "bot" yet.                                                              *)
(***************************************************************************)
LEMMA SanitizedName ==
  ASSUME NEW r \in Seq(AnyChar), NEW s, s = ToLower(TrimSpace(r)), s # Empty,
         NEW l, l = LetterFirst(Cleaned(s))
  PROVE  /\ SanitizeUsername(r) \in Seq(WordChars)
         /\ SanitizeUsername(r) = Empty <=> EndsWith(l, Bot) /\ ~(Len(l) >= 5)
<1>1. s \in Seq(LowChar)
  BY TrimmedString, LowerString
<1>2. Cleaned(s) \in Seq(WordChars)
  BY <1>1, CleanedString
<1>3. l \in Seq(WordChars) /\ l # Empty /\ l[1] \in Letters
  BY <1>2, FirstIsLetter
<1> DEFINE b == BotLast(l)
           u == Truncated(b)
<1>4. /\ b \in Seq(WordChars) /\ b # Empty /\ BeginsLike(b, l) /\ EndsWith(b, Bot)
      /\ EndsWith(l, Bot) => b = l
      /\ ~EndsWith(l, Bot) => Len(b) >= 5
  BY <1>3, LastIsBot
<1> HIDE DEF b
<1>5. /\ u \in Seq(WordChars) /\ BeginsLike(u, b) /\ EndsWith(u, Bot)
      /\ Len(u) <= UsernameMaxLen
      /\ Len(u) >= 5 <=> Len(b) >= 5
  BY <1>4, CutKeepsBot
<1> HIDE DEF u
<1>6. u[1] \in Letters /\ u # Empty
  BY <1>3, <1>4, <1>5 DEF BeginsLike
<1>7. ValidateUsername(u) <=> Len(b) >= 5
  <2>1. Len(u) \in Nat
    BY <1>5, LenProperties
  <2>2. ValidateUsername(u) <=> Len(u) \in UsernameMinLen .. UsernameMaxLen
    BY <1>5, <1>6, ValidName
  <2> QED  BY <1>5, <2>1, <2>2, LengthAssumption
<1>8. SanitizeUsername(r) = IF ValidateUsername(u) THEN u ELSE Empty
  BY DEF SanitizeUsername, u, b
<1>9. Empty \in Seq(WordChars)
  BY EmptySeq DEF Empty
<1>10. SanitizeUsername(r) = Empty <=> ~(Len(b) >= 5)
  BY <1>6, <1>7, <1>8
<1>11. SanitizeUsername(r) \in Seq(WordChars)
  BY <1>5, <1>8, <1>9
<1> QED  BY <1>4, <1>10, <1>11, Zenon

LEMMA AtThree ==
  /\ \A i \in 1 .. 3 : 3 - 3 + i = i /\ 4 - 3 + i = 1 + i /\ 1 + i \in 1 .. 4
  /\ \A j \in 1 .. 4 : j = 1 \/ \E i \in 1 .. 3 : j = 1 + i
  /\ 3 <= 3 /\ 3 <= 4 /\ ~(3 >= 5) /\ ~(4 >= 5) /\ 3 # 4 /\ 1 \in 1 .. 4
<1>1. \A j \in 1 .. 4 : j = 1 \/ (j - 1 \in 1 .. 3 /\ j = 1 + (j - 1))
  OBVIOUS
<1>2. \A i \in 1 .. 3 : 3 - 3 + i = i /\ 4 - 3 + i = 1 + i /\ 1 + i \in 1 .. 4
  OBVIOUS
<1>3. 3 <= 3 /\ 3 <= 4 /\ ~(3 >= 5) /\ ~(4 >= 5) /\ 3 # 4 /\ 1 \in 1 .. 4
  OBVIOUS
<1> QED  BY <1>1, <1>2, <1>3, Zenon

LEMMA ThreeLong ==
  ASSUME NEW l \in Seq(WordChars)
  PROVE  l = Bot <=> Len(l) = 3 /\ \A i \in 1 .. 3 : l[i] = Bot[i]
<1>1. Bot \in Seq(WordChars) /\ Len(Bot) = 3
  BY AddedParts
<1> QED  BY <1>1, SeqEqual

CharThenBot(v, c) ==
  v \in Seq(WordChars) /\ Len(v) = 4 /\ v[1] = c /\ \A i \in 1 .. 3 : v[1 + i] = Bot[i]

LEMMA CharBeforeBot ==
  ASSUME NEW c \in Letters
  PROVE  CharThenBot(<<c>> \o Bot, c)
<1>1. Bot \in Seq(WordChars) /\ Len(Bot) = 3
  BY AddedParts
<1>2. c \in WordChars
  BY DEF WordChars
<1> DEFINE e == <<c>>
           v == e \o Bot
<1>3. e \in Seq(WordChars)
  BY <1>2, Tuples, Zenon
<1>4. Len(e) = 1 /\ e[1] = c
  OBVIOUS
<1> HIDE DEF e
<1>5. /\ v \in Seq(WordChars) /\ Len(v) = Len(e) + Len(Bot)
      /\ \A i \in 1 .. Len(e) + Len(Bot) : v[i] = IF i <= Len(e) THEN e[i] ELSE Bot[i - Len(e)]
  BY <1>1, <1>3, ConcatProperties
<1> HIDE DEF v
<1>6. Len(v) = 4 /\ v[1] = c
  BY <1>1, <1>4, <1>5
<1>7. \A i \in 1 .. 3 : v[1 + i] = Bot[i]
  BY <1>1, <1>4, <1>5
<1> QED  BY <1>5, <1>6, <1>7 DEF CharThenBot, v, e

LEMMA SameFour ==
  ASSUME NEW l, NEW v, NEW c, CharThenBot(l, c), CharThenBot(v, c)
  PROVE  l = v
<1>1. \A j \in 1 .. 4 : l[j] = v[j]
  <2> SUFFICES ASSUME NEW j \in 1 .. 4 PROVE l[j] = v[j]
    OBVIOUS
  <2>1. CASE j = 1
    BY <2>1 DEF CharThenBot
  <2>2. CASE j # 1
    <3>1. PICK i \in 1 .. 3 : j = 1 + i
      BY <2>2, AtThree, Zenon
    <3> QED  BY <3>1 DEF CharThenBot
  <2> QED  BY <2>1, <2>2
<1> QED  BY <1>1, SeqEqual DEF CharThenBot

LEMMA FourLong ==
  ASSUME NEW l \in Seq(WordChars)
  PROVE  l \in {<<c>> \o Bot : c \in Letters} <=> \E c \in Letters : CharThenBot(l, c)
BY CharBeforeBot, SameFour, Zenon

LEMMA BotAtEnd ==
  ASSUME NEW S, NEW l \in Seq(S), Bot \in Seq(S)
  PROVE  EndsWith(l, Bot) <=> 3 <= Len(l) /\ \A i \in 1 .. 3 : l[Len(l) - 3 + i] = Bot[i]
<1>1. EndsWith(l, Bot) <=>
        Len(Bot) <= Len(l) /\ \A i \in 1 .. Len(Bot) : l[Len(l) - Len(Bot) + i] = Bot[i]
  BY SuffixChars, Zenon DEF EndsWith
<1>2. Len(Bot) = 3
  BY DEF Bot
<1> QED  BY <1>1, <1>2, Zenon

LEMMA ShortString ==
  ASSUME NEW l \in Seq(WordChars)
  PROVE  l[1] \in Letters =>
           (EndsWith(l, Bot) /\ ~(Len(l) >= 5) <=> l = Bot \/ l \in {<<c>> \o Bot : c \in Letters})
<1>1. /\ EndsWith(l, Bot) <=> 3 <= Len(l) /\ \A i \in 1 .. 3 : l[Len(l) - 3 + i] = Bot[i]
      /\ l = Bot <=> Len(l) = 3 /\ \A i \in 1 .. 3 : l[i] = Bot[i]
  BY BotAtEnd, ThreeLong, AddedParts
<1> DEFINE four == l \in {<<c>> \o Bot : c \in Letters}
<1>2. l[1] \in Letters => (four <=> Len(l) = 4 /\ \A i \in 1 .. 3 : l[1 + i] = Bot[i])
  BY FourLong DEF CharThenBot
<1> HIDE DEF four
<1>3. PICK k \in Nat : k = Len(l)
  BY LenProperties
<1>4. CASE k = 3
  <2>1. EndsWith(l, Bot) <=> l = Bot
    <3>1. 3 <= Len(l) /\ Len(l) = 3 /\ \A i \in 1 .. 3 : Len(l) - 3 + i = i
      BY <1>3, <1>4, AtThree, Zenon
    <3> QED  BY <1>1, <3>1, Zenon
  <2>2. l[1] \in Letters => ~four
    BY <1>2, <1>3, <1>4, AtThree, Zenon
  <2>3. ~(Len(l) >= 5)
    BY <1>3, <1>4, AtThree, Zenon
  <2> QED  BY <2>1, <2>2, <2>3, Zenon DEF four
<1>5. CASE k = 4
  <2>1. l[1] \in Letters => (EndsWith(l, Bot) <=> four)
    <3>1. 3 <= Len(l) /\ Len(l) = 4 /\ \A i \in 1 .. 3 : Len(l) - 3 + i = 1 + i
      BY <1>3, <1>5, AtThree, Zenon
    <3> QED  BY <1>1, <1>2, <3>1, Zenon
  <2>2. l # Bot
    BY <1>1, <1>3, <1>5, AtThree, Zenon
  <2>3. ~(Len(l) >= 5)
    BY <1>3, <1>5, AtThree, Zenon
  <2> QED  BY <2>1, <2>2, <2>3, Zenon DEF four
<1>6. CASE k # 3 /\ k # 4
  <2>1. 3 <= k => k >= 5
    BY <1>6
  <2>2. ~(EndsWith(l, Bot) /\ ~(Len(l) >= 5)) /\ l # Bot
    BY <1>1, <1>3, <1>6, <2>1, Zenon
  <2>3. l[1] \in Letters => ~four
    BY <1>2, <1>3, <1>6, Zenon
  <2> QED  BY <2>2, <2>3, Zenon DEF four
<1> QED  BY <1>4, <1>5, <1>6, Zenon

(***************************************************************************)
(* Neither Cleaned nor LetterFirst makes such a string of another one, nor *)
(* another one of it: what Cleaned replaces becomes "_", and what          *)
(* LetterFirst puts an "a" before does not begin with the "b" of "bot".    *)
(***************************************************************************)
Short(s) == s = Bot \/ s \in {<<c>> \o Bot : c \in Letters}

LEMMA ShortLetters ==
  ASSUME NEW s, Short(s)
  PROVE  s \in Seq(WordChars) /\ s # Empty /\ s[1] \in Letters
         /\ \A i \in 1 .. Len(s) : s[i] # "_"
<1>1. /\ Bot \in Seq(WordChars) /\ Len(Bot) = 3
      /\ Bot[1] = "b" /\ Bot[2] = "o" /\ Bot[3] = "t"
  BY AddedParts
<1>2. "b" \in Letters /\ "o" \in Letters /\ "t" \in Letters /\ "_" \notin Letters
  BY CharacterAssumption
<1>3. \A i \in 1 .. 3 : Bot[i] \in Letters
  <2>1. \A i \in 1 .. 3 : i = 1 \/ i = 2 \/ i = 3
    OBVIOUS
  <2> QED  BY <1>1, <1>2, <2>1, Zenon
<1>4. CASE s = Bot
  <2>1. Bot # Empty
    BY DEF Bot, Empty
  <2>2. Bot[1] \in Letters
    BY <1>1, <1>2, Zenon
  <2>3. \A i \in 1 .. Len(Bot) : Bot[i] # "_"
    BY <1>1, <1>2, <1>3, Zenon
  <2> QED  BY <1>1, <1>4, <2>1, <2>2, <2>3, Zenon
<1>5. CASE s # Bot
  <2>1. PICK c \in Letters : CharThenBot(s, c)
    BY <1>5, CharBeforeBot DEF Short
  <2>2. s \in Seq(WordChars) /\ Len(s) = 4 /\ s[1] \in Letters
    BY <2>1 DEF CharThenBot
  <2>3. ASSUME NEW i \in 1 .. 4 PROVE s[i] # "_"
    <3>1. CASE i = 1
      BY <1>2, <2>2, <3>1
    <3>2. CASE i # 1
      <4>1. PICK j \in 1 .. 3 : i = 1 + j
        BY <3>2, AtThree, Zenon
      <4> QED  BY <1>2, <1>3, <2>1, <4>1 DEF CharThenBot
    <3> QED  BY <3>1, <3>2
  <2>4. s # Empty
    BY <2>2 DEF Empty
  <2> QED  BY <2>2, <2>3, <2>4
<1> QED  BY <1>4, <1>5

LEMMA ShortStays ==
  ASSUME NEW s, Short(s)
  PROVE  LetterFirst(Cleaned(s)) = s
<1>1. s \in Seq(WordChars) /\ s # Empty /\ s[1] \in Letters
  BY ShortLetters
<1>2. Cleaned(s) = s
  BY <1>1, CleanedWord
<1> QED  BY <1>1, <1>2 DEF LetterFirst

LEMMA ShortComes ==
  ASSUME NEW s \in Seq(LowChar), NEW l, l = LetterFirst(Cleaned(s)), Short(l)
  PROVE  s = l
<1> DEFINE c == Cleaned(s)
<1>1. c \in Seq(WordChars) /\ Len(c) = Len(s)
      /\ \A i \in 1 .. Len(s) : c[i] = IF s[i] \in WordChars THEN s[i] ELSE "_"
  BY CleanedString
<1>2. l \in Seq(WordChars) /\ \A i \in 1 .. Len(l) : l[i] # "_"
  BY ShortLetters
<1>3. CASE l = c
  <2>1. \A i \in 1 .. Len(s) : s[i] = l[i]
    BY <1>1, <1>2, <1>3
  <2>2. l \in Seq(LowChar)
    BY <1>2, CleanedWord
  <2> QED  BY <1>1, <1>3, <2>1, <2>2, SeqEqual
<1>4. CASE l # c
  <2> HIDE DEF c
  <2>1. l = FirstA \o c /\ (c = Empty \/ c[1] \notin Letters)
    <3>1. l = LetterFirst(c)
      BY DEF c
    <3> QED  BY <1>1, <1>4, <3>1, FirstIsLetter
  <2>2. /\ FirstA \in Seq(WordChars) /\ FirstA # Empty /\ FirstA[1] = "a"
        /\ Bot[1] = "b" /\ "b" \in Letters
    BY AddedParts
  <2>3. BeginsLike(l, FirstA)
    BY <1>1, <2>1, <2>2, Joined, Zenon
  <2>4. l # Bot
    BY <2>2, <2>3 DEF BeginsLike
  <2>5. PICK x \in Letters : CharThenBot(l, x)
    BY <2>4, CharBeforeBot DEF Short
  <2>6. Len(FirstA) = 1
    BY DEF FirstA
  <2>7. /\ Len(FirstA \o c) = Len(FirstA) + Len(c)
        /\ \A i \in 1 .. Len(FirstA) + Len(c) :
             (FirstA \o c)[i] = IF i <= Len(FirstA) THEN FirstA[i] ELSE c[i - Len(FirstA)]
    BY <1>1, <2>2, ConcatProperties
  <2>8. l[1 + 1] = "b" /\ Len(l) = 4
    BY <2>2, <2>5 DEF CharThenBot
  <2>9. Len(c) \in Nat
    BY <1>1, LenProperties
  <2>10. PICK k \in Nat : k = Len(c)
    BY <2>9
  <2>11. k = 3
    <3>1. 1 + k = 4
      BY <2>1, <2>6, <2>7, <2>8, <2>10, Zenon
    <3> QED  BY <3>1
  <2>12. l[1 + 1] = c[1]
    <3>1. \A i \in 1 .. (1 + 3) : l[i] = IF i <= 1 THEN FirstA[i] ELSE c[i - 1]
      BY <2>1, <2>6, <2>7, <2>10, <2>11, Zenon
    <3>2. PICK j : j = 1 + 1 /\ j \in 1 .. (1 + 3) /\ ~(j <= 1) /\ j - 1 = 1
      OBVIOUS
    <3>3. l[j] = c[j - 1]
      BY <3>1, <3>2, Zenon
    <3> QED  BY <3>2, <3>3, Zenon
  <2>13. c # Empty
    <3>1. Len(Empty) # 3
      BY DEF Empty
    <3> QED  BY <2>10, <2>11, <3>1, Zenon
  <2> QED  BY <2>1, <2>2, <2>8, <2>12, <2>13, Zenon
<1> QED  BY <1>3, <1>4

-----------------------------------------------------------------------------
(***************************************************************************)
(* SanitizeUsername refuses blank strings and, strings apart that read     *)
(* "bot" or "bot" behind one letter, no other (username.go:43-109).        *)
(***************************************************************************)
THEOREM SanitizeTotal == Spec => []SanitizeIsTotal
<1>1. ASSUME raw \in Seq(AnyChar) PROVE SanitizeIsTotal
  <2> DEFINE s == ToLower(TrimSpace(raw))
             l == LetterFirst(Cleaned(s))
  <2>1. s \in Seq(LowChar)
    BY <1>1, TrimmedString, LowerString
  <2>2. /\ TooShort <=> Short(s)
        /\ Blank <=> s = Empty
    <3> DEFINE t == TrimSpace(raw)
    <3>1. t \in Seq(AnyChar) /\ s \in Seq(LowChar) /\ Len(s) = Len(t)
      BY <1>1, TrimmedString, LowerString
    <3> HIDE DEF t, s
    <3>2. t = Empty <=> s = Empty
      BY <3>1 DEF Empty
    <3> QED  BY <3>2 DEF TooShort, Short, Blank, s, t
  <2>3. CASE s = Empty
    <3>1. SanitizeUsername(raw) = Empty
      BY <2>3 DEF SanitizeUsername
    <3> QED  BY <2>2, <2>3, <3>1 DEF SanitizeIsTotal
  <2>4. CASE s # Empty
    <3>1. l \in Seq(WordChars) /\ l[1] \in Letters
      BY <2>1, CleanedString, FirstIsLetter
    <3>2. SanitizeUsername(raw) = Empty <=> EndsWith(l, Bot) /\ ~(Len(l) >= 5)
      BY <1>1, <2>4, SanitizedName
    <3> HIDE DEF l, s
    <3>3. EndsWith(l, Bot) /\ ~(Len(l) >= 5) <=> Short(l)
      BY <3>1, ShortString DEF Short
    <3>4. Short(l) <=> Short(s)
      BY <2>1, ShortStays, ShortComes, Zenon DEF l
    <3> QED  BY <2>2, <2>4, <3>2, <3>3, <3>4, Zenon DEF SanitizeIsTotal
  <2> QED  BY <2>3, <2>4
<1>2. FlowInv => SanitizeIsTotal
  BY <1>1 DEF FlowInv, SiteInv
<1> QED  BY <1>2, FlowInvariant, PTL

(***************************************************************************)
(* Of a username that is valid already it changes nothing but the case, so *)
(* sanitizing twice is sanitizing once.                                    *)
(***************************************************************************)
LEMMA ValidStays ==
  ASSUME NEW u \in Seq(AnyChar), ValidateUsername(u)
  PROVE  SanitizeUsername(u) = ToLower(u)
<1> DEFINE s == ToLower(u)
<1>1. /\ Len(u) \in UsernameMinLen .. UsernameMaxLen
      /\ u[1] \in Letters \cup Capitals
      /\ Chars(u) \subseteq WordChars \cup Capitals
      /\ EndsWith(s, Bot)
  BY DEF ValidateUsername
<1>2. \A i \in 1 .. Len(u) : u[i] \in WordChars \cup Capitals
  BY <1>1, LenProperties DEF Chars
<1>3. TrimSpace(u) = u
  <2>1. " " \notin WordChars \cup Capitals
    BY CharacterAssumption DEF WordChars
  <2> QED  BY <1>2, <2>1, TrimNothing
<1>4. /\ s \in Seq(LowChar) /\ Len(s) = Len(u)
      /\ \A i \in 1 .. Len(u) : s[i] = IF u[i] \in Capitals THEN Lower[u[i]] ELSE u[i]
  BY LowerString
<1> HIDE DEF s
<1>5. \A c \in Capitals : Lower[c] \in Letters /\ Lower[c] \in WordChars
  BY CharacterAssumption DEF WordChars
<1>6. \A i \in 1 .. Len(s) : s[i] \in WordChars
  BY <1>2, <1>4, <1>5
<1>7. s \in Seq(WordChars)
  <2>1. Len(s) \in Nat /\ s \in [1 .. Len(s) -> LowChar]
    BY <1>4, LenProperties
  <2>2. s \in [1 .. Len(s) -> WordChars]
    BY <1>6, <2>1
  <2> QED  BY <2>1, <2>2, SeqDef
<1>8. 1 \in 1 .. Len(u) /\ Len(u) # 0 /\ Len(u) <= UsernameMaxLen
  BY <1>1, LengthAssumption
<1>9. s[1] \in Letters
  BY <1>1, <1>4, <1>5, <1>8
<1>10. s # Empty
  <2>1. Len(Empty) = 0
    BY DEF Empty
  <2> QED  BY <1>4, <1>8, <2>1, Zenon
<1>11. Cleaned(s) = s
  BY <1>7, CleanedWord
<1>12. LetterFirst(s) = s
  BY <1>9, <1>10 DEF LetterFirst
<1>13. BotLast(s) = s
  BY <1>1 DEF BotLast
<1>14. Truncated(s) = s
  BY <1>4, <1>8 DEF Truncated
<1>15. ValidateUsername(s)
  BY <1>1, <1>4, <1>7, <1>9, ValidName
<1>16. SanitizeUsername(u) = s
  BY <1>3, <1>10, <1>11, <1>12, <1>13, <1>14, <1>15 DEF SanitizeUsername, s
<1> QED  BY <1>16 DEF s

THEOREM SanitizeKeeps == Spec => []SanitizeKeepsValid
<1>1. ASSUME raw \in Seq(AnyChar) PROVE SanitizeKeepsValid
  <2>1. SanitizeUsername(raw) \in Seq(AnyChar)
    <3>1. SanitizeUsername(raw) \in Seq(WordChars)
      <4> DEFINE s == ToLower(TrimSpace(raw))
      <4>1. CASE s = Empty
        <5>1. SanitizeUsername(raw) = Empty
          BY <4>1 DEF SanitizeUsername
        <5> QED  BY <5>1, EmptySeq DEF Empty
      <4>2. CASE s # Empty
        BY <1>1, <4>2, SanitizedName
      <4> QED  BY <4>1, <4>2
    <3>2. WordChars \subseteq AnyChar
      BY DEF AnyChar
    <3> QED  BY <3>1, <3>2, SeqMonotonic
  <2> QED  BY <1>1, <2>1, ValidStays DEF SanitizeKeepsValid
<1>2. FlowInv => SanitizeKeepsValid
  BY <1>1 DEF FlowInv, SiteInv
<1> QED  BY <1>2, FlowInvariant, PTL
=============================================================================
