---------------------------- MODULE MCTypeManager ----------------------------
(* Small instances of TypeManager for TLC.                                 *)
EXTENDS TypeManager, FiniteSetsExt, TLC

AllFaults == FaultKinds
Symmetry == Permutations(Managers)

KindMain ==
  [long |-> "primitive", string |-> "string", color |-> "enum",
   base |-> "struct", circle |-> "derived",
   strings |-> "sequence", longs |-> "array", span |-> "range",
   opt |-> "optional", ptr |-> "smart_ptr", ptr_string |-> "smart_ptr",
   inner_union |-> "union", outer_union |-> "union", bad_union |-> "union",
   unions |-> "sparse", optional_key |-> "struct"]

PartsMain ==
  [long |-> <<>>, string |-> <<>>, color |-> <<>>,
   base |-> <<"color">>,
   circle |-> <<"base", "strings", "longs", "span", "opt", "ptr_string">>,
   strings |-> <<"string">>, longs |-> <<"long">>, span |-> <<"color">>,
   opt |-> <<"long">>, ptr |-> <<"long">>, ptr_string |-> <<"string">>,
   inner_union |-> <<"long", "string">>,
   outer_union |-> <<"long", "string", "inner_union", "long">>,
   bad_union |-> <<"color", "string", "ptr">>,
   unions |-> <<"outer_union", "bad_union">>,
   optional_key |-> <<"inner_union", "opt">>]

KeysMain ==
  [t \in DOMAIN KindMain |->
     CASE t = "optional_key" -> {1, 2}
       [] t = "circle" -> {2}
       [] OTHER -> {}]

TypesMain == DOMAIN KindMain
RootsMain == {"circle", "unions", "optional_key"}
TypecodesMain == 1..5

DepthMain ==
  LET Nested[t \in TypesMain] ==
        Max({0} \cup {Nested[PartsMain[t][k]] + 1 : k \in DOMAIN PartsMain[t]})
  IN Nested
=============================================================================
