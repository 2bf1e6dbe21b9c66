---------------------------- MODULE MCCollector ----------------------------
(* Small instances of CcCollector for TLC. *)
EXTENDS CcRefinement, TLC

CONSTANTS o1, o2, o3, c1, c2, c3, c4

TwoObjects == {o1, o2}
ThreeObjects == {o1, o2, o3}
ThreeCcs == {c1, c2, c3}
FourCcs == {c1, c2, c3, c4}
OneUntraced == {c1}

Everything ==
    {"Clone", "Upgrade", "Take", "MarkAlive", "TryUnwrap", "FinalizeAgain", "Borrow",
     "Destructor", "Panic", "TracePanic"}

(* The search goes no further where a panic of a Trace implementation left a *)
(* stale tracing counter in possible_cycles: what follows is trace_panic_reuse. *)
NothingStale == BufferedIsReset

(* Objects are interchangeable, and so are the Ccs that Trace treats alike. *)
Symmetry == Permutations(Objects) \cup Permutations(Ccs \ Untraced)
=============================================================================
