------------------------- MODULE MCProviderRefresh -------------------------
(***************************************************************************)
(* Instances of ProviderRefresh for TLC: what is selected and registered.  *)
(***************************************************************************)
EXTENDS ProviderRefresh, TLC

CONSTANTS s, x, y, f    \* a sentinel, two key-values, a feature flag

\* The sentinel's page is loaded before the other pages.
SentinelFirst == << {s}, {x}, {f} >>
\* Two overlapping key-value selectors.
Overlapping   == << {x, y}, {y}, {f} >>
\* One key-value selector and one of flags.
Plain         == << {x}, {f} >>

ListedAsSelected == Selectors
\* The first selector has a tag filter that y does not pass.
ListedWithTag    == [Selectors EXCEPT ![1] = @ \cup {y}]

\* The callers are alike (used where no liveness is checked).
Symmetry == Permutations(Callers)
=============================================================================
