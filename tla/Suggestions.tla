----------------------------- MODULE Suggestions -----------------------------
(***************************************************************************)
(* SuggestionsService: which ENS names a typed text may stand for, and     *)
(* which of them exist.  A name is <<label, domain>>.  A text is what the  *)
(* service tells apart in it:                                              *)
(*   parts         how many dots it has, plus one                          *)
(*   wellFormed    its first two parts are of the characters of a name,    *)
(*                 the first one not empty, nor the second before a third  *)
(*   label         its first part                                          *)
(*   startingWith  the domains that start with its second part             *)
(*   wholeSld      the second part is all of such a domain up to its dot   *)
(*   tld           the third part: "wrong", a "prefix" of a top level      *)
(*                 domain of one or two letters, or longer, a "whole" one  *)
(*   domain        with a whole third part: the second and the third       *)
(***************************************************************************)
EXTENDS Naturals

CONSTANT Domains    \* the domains the application offers names in

Nothing == [connections |-> {}, creations |-> {}]

IsCorrectPrefix(text) ==
  text.parts \in 1..3 /\ text.wellFormed /\ (text.parts = 3 => text.tld # "wrong")

InDomains(text, domains) == {<<text.label, d>> : d \in domains}

\* Variant: the two lists are swapped.
SplitByExistenceSwapped(names, exist, actions) ==
  [connections |-> IF "create" \in actions THEN names \ exist ELSE {},
   creations |-> IF actions \cap {"connect", "recover"} # {} THEN names \cap exist ELSE {}]

SplitByExistence(names, exist, actions) ==
  [connections |-> IF actions \cap {"connect", "recover"} # {} THEN names \cap exist ELSE {},
   creations |-> IF "create" \in actions THEN names \ exist ELSE {}]

AllActions == {"create", "connect", "recover"}

\* getSuggestions for a text, when the names in `exist` have a wallet.  A whole
\* third part makes the text a name, in whatever domain and for every action;
\* a mere prefix of one is ignored.
GetSuggestions(text, exist, actions) ==
  CASE ~IsCorrectPrefix(text) -> Nothing
    [] text.parts = 1 -> SplitByExistence(InDomains(text, Domains), exist, actions)
    [] text.parts = 2 \/ (text.wholeSld /\ text.tld = "prefix") ->
         SplitByExistence(InDomains(text, text.startingWith), exist, actions)
    [] text.parts = 3 /\ text.wholeSld /\ text.tld = "whole" ->
         SplitByExistence({<<text.label, text.domain>>}, exist, AllActions)
    [] OTHER -> Nothing
=============================================================================
