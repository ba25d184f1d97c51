----------------------------- MODULE MCLinkFlow -----------------------------
(***************************************************************************)
(* LinkFlow with a small alphabet and all lengths scaled down: nonces of   *)
(* two characters, names of at most ten.  The configurations differ from a *)
(* good one in one or two respects.                                        *)
(***************************************************************************)
EXTENDS LinkFlow

MCAlva        == <<"a">>
MCAlvaManager == <<"a", "_", "b", "o", "t">>
MCLower       == [C \in Capitals |-> "b"]

Good ==
  [app |-> "server", secret |-> TRUE, prefix |-> MCAlva, manager |-> MCAlvaManager,
   name |-> Empty, mgrPrefix |-> MCAlva, route |-> "", hook |-> ""]

BadPrefixes ==
  {Empty, <<"0">>, <<"b", "-">>, <<" ", "b">>, <<"a", "b", "o", "t">>}

BadManagers ==
  {Empty, <<"B", "o", "t">>, <<"-", "_", "b", "o", "t">>, <<"t", "_", "b", "o", "t">>}

MCEnvs ==
  {Good, [Good EXCEPT !.secret = FALSE], [Good EXCEPT !.route = "bare"],
   [Good EXCEPT !.name = <<"a", "a", "a">>], [Good EXCEPT !.mgrPrefix = <<"b">>],
   [Good EXCEPT !.prefix = <<"B", "_">>, !.mgrPrefix = <<"b", "_">>,
                !.manager = <<"a", "_", "B", "o", "t">>],
   [Good EXCEPT !.app = "alva", !.prefix = Empty], [Good EXCEPT !.app = "alva", !.hook = "http"],
   [Good EXCEPT !.app = "minimal"], [Good EXCEPT !.app = "direct"]}
    \cup {[Good EXCEPT !.prefix = p, !.mgrPrefix = p] : p \in BadPrefixes}
    \cup {[Good EXCEPT !.manager = m] : m \in BadManagers}

(***************************************************************************)
(* All strings of up to four characters, and long ones of any beginning    *)
(* and end.                                                                *)
(***************************************************************************)
MCRaws ==
  BoundedSeq(AnyChar, 4)
    \cup {x \o <<"a", "a", "a", "a", "a", "a">> \o y :
            x \in BoundedSeq({"_", "0", " ", "B"}, 1), y \in BoundedSeq(AnyChar \ {"-"}, 4)}
=============================================================================
