------------------------------- MODULE MCTrace -------------------------------
(* An instance of CcTrace for TLC. *)
EXTENDS CcTrace

(* (RefCell<(inner, Vec)>, outer): inner and outer are structs, outer has an    *)
(* ignored field, inner a RefCell of its own.                                   *)
MCKind == [n \in Nodes |->
    CASE n \in {"a", "b", "x"} -> "cc"
      [] n = "w" -> "leaf"
      [] n \in {"cell", "innerCell"} -> "cell"
      [] n \in {"root", "vec", "option"} -> "group"
      [] OTHER -> "struct"]

Shape(more) == [n \in Nodes |-> IF n \in DOMAIN more THEN more[n] ELSE <<>>]

MCValues ==
    { Shape([root |-> <<"cell", "outer">>, outer |-> <<"x", "b">>,
             cell |-> <<"vec">>, vec |-> <<"inner", "w">>,
             inner |-> <<"innerCell">>, innerCell |-> <<"option">>, option |-> <<"a">>]),
      Shape([root |-> <<"outer", "cell">>, outer |-> <<"innerCell", "x">>,
             innerCell |-> <<"option">>, option |-> <<"b">>,
             cell |-> <<"vec">>, vec |-> <<"w", "inner">>, inner |-> <<"a">>]) }
==============================================================================
