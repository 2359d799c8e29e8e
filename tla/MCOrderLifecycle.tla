-------------------------- MODULE MCOrderLifecycle --------------------------
(* Small instances of OrderLifecycle for TLC. *)
EXTENDS OrderLifecycle, TLC

CONSTANTS w1, w2

\* The combinations under which an invariant claims something.
MCEnvironment ==
  {{"panel", "chat"}, {"panel", "audit"}, {"crash", "panel"}}
MCPanel == {{"panel"}}
MCCrash == {{"crash"}}
MCSymmetry == Permutations({w1, w2})
=============================================================================
