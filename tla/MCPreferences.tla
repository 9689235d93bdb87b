---------------------------- MODULE MCPreferences ----------------------------
(* An instance of PreferencesStore: two keys that are valid and one that is  *)
(* too long, a small and a large value.                                      *)
EXTENDS PreferencesStore, TLC

CONSTANTS h1, h2, k1, k2, kLong, small, large

MCKeyLength == (k1 :> 1) @@ (k2 :> 2) @@ (kLong :> 3)
MCLength    == (small :> 1) @@ (large :> 6)

\* Two objects that can be told apart by nothing but their state.
Interchangeable == Permutations({h1, h2})

=============================================================================
