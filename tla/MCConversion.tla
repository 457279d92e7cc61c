---------------------------- MODULE MCConversion ----------------------------
(* Small types for TLC.                                                    *)
EXTENDS Conversion

KindMain ==
  [long |-> "primitive", string |-> "string", color |-> "enum",
   unit |-> "string", octet |-> "primitive", octets |-> "vector",
   opt_long |-> "optional", ptr_string |-> "smart_ptr",
   longs |-> "vector", opt_longs |-> "optional",
   base |-> "struct", middle |-> "derived", circle |-> "derived",
   pointers |-> "struct", point |-> "struct", points |-> "sequence",
   drawing |-> "struct", strings |-> "sequence", text |-> "struct",
   colors |-> "range", spans |-> "struct", string_range |-> "range",
   string_spans |-> "struct",
   vectors |-> "struct", color_list |-> "sequence", lists |-> "struct",
   long_array |-> "array", string_array |-> "array", arrays |-> "struct",
   sparse |-> "sparse", sparse_holder |-> "struct",
   units |-> "sequence", nested |-> "sequence", nest |-> "struct",
   tag_union |-> "union", tagged |-> "struct",
   byte_union |-> "union", byte_tagged |-> "struct",
   word_union |-> "union", word_tagged |-> "struct",
   octets_ptr |-> "smart_ptr", opt_octets |-> "optional",
   handles |-> "struct"]

PartsMain ==
  [long |-> <<>>, string |-> <<>>, color |-> <<>>,
   unit |-> <<>>, octet |-> <<>>, octets |-> <<"octet">>,
   opt_long |-> <<"long">>, ptr_string |-> <<"string">>,
   longs |-> <<"long">>, opt_longs |-> <<"longs">>,
   base |-> <<"color">>, middle |-> <<"base", "long">>,
   circle |-> <<"middle", "string">>,
   pointers |-> <<"opt_long", "ptr_string">>,
   point |-> <<"opt_long">>, points |-> <<"point">>, drawing |-> <<"points">>,
   strings |-> <<"string">>, text |-> <<"strings">>,
   colors |-> <<"color">>, spans |-> <<"colors">>,
   string_range |-> <<"string">>, string_spans |-> <<"string_range">>,
   vectors |-> <<"opt_longs">>, color_list |-> <<"color">>,
   lists |-> <<"color_list">>,
   long_array |-> <<"long">>, string_array |-> <<"string">>,
   arrays |-> <<"long_array", "string_array">>,
   sparse |-> <<"opt_long", "opt_long">>, sparse_holder |-> <<"sparse">>,
   units |-> <<"unit">>, nested |-> <<"units">>, nest |-> <<"nested">>,
   tag_union |-> <<"color", "long", "base">>, tagged |-> <<"tag_union">>,
   byte_union |-> <<"octet", "octets", "unit">>,
   byte_tagged |-> <<"byte_union">>,
   word_union |-> <<"octet", "unit", "long">>,
   word_tagged |-> <<"word_union">>,
   octets_ptr |-> <<"octets">>, opt_octets |-> <<"octets_ptr">>,
   handles |-> <<"opt_octets">>]

LabelsMain ==
  [t \in DOMAIN KindMain |->
     CASE t = "tag_union" -> <<<<-2, 2>>, <<>>>>
       [] t = "byte_union" -> <<<<3>>, <<>>>>
       [] t = "word_union" -> <<<<3>>, <<>>>>
       [] OTHER -> <<>>]

(* An int has four bits; one tag is as wide, the others are narrower.      *)
TagSizeMain ==
  [t \in DOMAIN KindMain |-> IF t = "word_union" THEN 16 ELSE 8]

ValuesMain ==
  [t \in DOMAIN KindMain |->
     CASE t \in {"long", "color"} -> {1}
       [] t = "string" -> {2}
       [] OTHER -> {}]

TypesMain == DOMAIN KindMain
NoKeys == [t \in TypesMain |-> {}]
RootsMain ==
  {"circle", "pointers", "drawing", "text", "spans", "string_spans", "vectors",
   "lists", "arrays", "sparse_holder", "nest", "tagged", "byte_tagged",
   "word_tagged", "handles"}

DepthMain ==
  LET Nested[t \in TypesMain] ==
        Max({0} \cup {Nested[PartsMain[t][k]] + 1 : k \in DOMAIN PartsMain[t]})
  IN Nested
=============================================================================
