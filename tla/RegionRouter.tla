----------------------------- MODULE RegionRouter -----------------------------
(***************************************************************************)
(* The choice of the region that places a call                             *)
(* (src/src/orchestrator/region_router.py).  A number and a dial prefix    *)
(* are sequences of digits.                                                *)
(***************************************************************************)
EXTENDS Sequences, SequencesExt, StableSort

CONSTANTS
  Region,          \* the configured regions
  DefaultRegion,   \* the default one
  DialPrefixes     \* [prefix, region] for every prefix of every region, in file order

ASSUME RegionAssumption ==
  /\ DefaultRegion \in Region
  /\ DialPrefixes \in Seq([prefix : Seq(Nat), region : Region])

\* Mutant: the prefixes stay in file order.
FileOrder == DialPrefixes

\* RegionRouter._prefixes: the longest first.
SortedPrefixes ==
  SortedBy(DialPrefixes, DOMAIN DialPrefixes,
           [i \in DOMAIN DialPrefixes |-> -Len(DialPrefixes[i].prefix)])

\* Mutant: a number that no prefix fits has no region.
RegionByPrefix(number) ==
  LET i == SelectInSeq(SortedPrefixes, LAMBDA p : IsPrefix(p.prefix, number)) IN
  IF i = 0 THEN "None" ELSE SortedPrefixes[i].region

\* RegionRouter.resolve
RegionOf(number) ==
  LET i == SelectInSeq(SortedPrefixes, LAMBDA p : IsPrefix(p.prefix, number)) IN
  IF i = 0 THEN DefaultRegion ELSE SortedPrefixes[i].region

\* What it promises: no other region serves a longer prefix of the number, and
\* the default serves the numbers that no prefix fits.
Serving(number) == {i \in DOMAIN DialPrefixes : IsPrefix(DialPrefixes[i].prefix, number)}

IsNearest(region, number) ==
  IF Serving(number) = {} THEN region = DefaultRegion
  ELSE \E i \in Serving(number) :
         /\ DialPrefixes[i].region = region
         /\ \A j \in Serving(number) :
              Len(DialPrefixes[j].prefix) <= Len(DialPrefixes[i].prefix)

=============================================================================
