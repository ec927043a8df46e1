----------------------------- MODULE SymbolTypes -----------------------------
(***************************************************************************)
(* Shader symbols and the order in which a table of them is packed         *)
(* (symbols/symbols.h, symbols/pack.c).  The integer and boolean vectors   *)
(* are packed like the float vectors of the same size and are not told     *)
(* apart.                                                                  *)
(*                                                                         *)
(* A symbol is a record: type, array_elems (0: no array), name (a number,  *)
(* compared as strcmp does), used, and the children of a structure.        *)
(***************************************************************************)
EXTENDS Integers, Sequences, SequencesExt

LeafTypes == {"float", "vec2", "vec3", "vec4", "mat2", "mat3", "mat4"}

type_pack_order ==
  [struct |-> 2, mat4 |-> 3, mat2 |-> 4, vec4 |-> 5, mat3 |-> 8, vec3 |-> 9,
   vec2 |-> 12, float |-> 15]

num_components ==
  [float |-> 1, vec2 |-> 2, mat2 |-> 2, vec3 |-> 3, mat3 |-> 3, vec4 |-> 4, mat4 |-> 4]

num_rows ==
  [float |-> 1, vec2 |-> 1, mat2 |-> 2, vec3 |-> 1, mat3 |-> 3, vec4 |-> 1, mat4 |-> 4]

ArrayElems(symbol) == IF symbol.array_elems = 0 THEN 1 ELSE symbol.array_elems

pack_compare(a, b) ==
  IF a.type # b.type THEN type_pack_order[a.type] < type_pack_order[b.type]
  ELSE IF a.array_elems # b.array_elems THEN a.array_elems > b.array_elems
  ELSE a.name < b.name

\* pack_table: the symbols that are used, in the order of packing.
pack_table(table) == SelectSeq(SortSeq(table, pack_compare), LAMBDA s : s.used)
=============================================================================
