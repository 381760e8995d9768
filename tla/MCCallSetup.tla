------------------------------ MODULE MCCallSetup ------------------------------
(* CallSetup with three regions, of which one serves a part of the other's      *)
(* prefix and one is the default only, two groups of contacts, and overlays     *)
(* that add, replace and remove.                                                *)
EXTENDS CallSetup

CONSTANTS c1, c2, k1, k2

Plain == <<1, 5>>
Island == <<1, 3>>
Abroad == <<7>>
MCNumber == {Plain, Island, Abroad}

MCDialPrefixes ==
  << [prefix |-> <<1>>, region |-> "na"], [prefix |-> <<1, 3>>, region |-> "island"] >>

Person(phone, priority, stores, always) ==
  [phone |-> phone, priority |-> priority, stores |-> stores, always |-> always,
   from |-> 6, to |-> 22]

\* By day the second of the customer's contacts comes first, by night only the
\* last one answers; the third covers another store.
Technicians ==
  <<Person(Plain, 3, {}, TRUE), Person(Island, 1, {"s1"}, FALSE), Person(Abroad, 0, {"s2"}, TRUE)>>

MCGroups == (<<c1, "customer">> :> Technicians) @@ (<<None, "sop">> :> <<Person(Abroad, 1, {}, TRUE)>>)

MCContact == UNION {ToSet(MCGroups[k]) : k \in DOMAIN MCGroups}

MCSymmetry == Permutations({k1, k2})

MCBase == [constraints |-> [max_unclear |-> 2], steps |-> <<"greeting", "ask">>, raised |-> FALSE]

Patch(op, at, key, value) == [op |-> op, at |-> at, key |-> key, value |-> value]

MCOverlays ==
  (c1 :> {<<Patch("replace", "constraints", "max_unclear", 1), Patch("add", "steps", End, "bye")>>,
          <<Patch("remove", "steps", 0, 0), Patch("remove", "steps", 1, 0)>>})
  @@ (c2 :> {<<Patch("replace", "steps", 0, "hello")>>})
================================================================================
