------------------------------ MODULE MCShared ------------------------------
(***************************************************************************)
(* What the passes of both processors share, one part at a time.           *)
(*                                                                         *)
(* The containers: a ring of three elements over three values, so that     *)
(* both indices wrap; a heap of six elements with four priorities, three   *)
(* levels deep; a hash set with four pointers, three of which share a      *)
(* chain.                                                                  *)
(*                                                                         *)
(* The symbol tables, packed in both ways: the uniforms and temporaries of *)
(* a vertex shader in a uniform memory of eight rows, and the tables that  *)
(* are packed by alignment, with structures in structures.                 *)
(***************************************************************************)
EXTENDS Containers, SymbolTypes, FiniteSets, FiniteSetsExt, TLC

CONSTANTS PackShaders, AlignShaders, MaxConsts

VARIABLES in_use,       \* the part in use
          shader, pc, pos, total_size,                                 \* both ways of packing
          tasks, free_low, free_high, cur_uniform_index, consts,       \* pack_std
          todo, placed                                                 \* pack_align

table_vars == <<shader, pc, pos, total_size>>
std_vars == <<tasks, free_low, free_high, cur_uniform_index, consts>>
align_vars == <<todo, placed>>
shared_vars == <<in_use, queue, heap_vars, set_vars, table_vars, std_vars, align_vars>>

Std == INSTANCE SymbolsPack WITH NumVec4s <- 8, Word <- 1024, Shaders <- PackShaders
Aligned == INSTANCE SymbolsAlign
    WITH Limit <- [attribute |-> 4, varying |-> 24, uniform |-> 56, temporary |-> 24],
         Shaders <- AlignShaders

ASSUME HeapAssumption == Heap!QueueAssumption
ASSUME TableAssumption == Table!PtrSetAssumption
ASSUME StdAssumption == Std!PackAssumption
ASSUME AlignedAssumption == Aligned!AlignAssumption

NoStd == tasks = <<>> /\ free_low = <<>> /\ free_high = <<>> /\ cur_uniform_index = 0 /\ consts = <<>>
NoTable == shader = <<>> /\ pc = "none" /\ pos = 0 /\ total_size = 0

SharedInit ==
    /\ Init /\ Heap!Init /\ Table!Init
    /\ \/ in_use \in {"fixed_queue", "heap", "ptrset"} /\ NoTable /\ NoStd /\ todo = <<>> /\ placed = <<>>
       \/ in_use = "pack_std" /\ Std!Init /\ todo = <<>> /\ placed = <<>>
       \/ in_use = "pack_align" /\ Aligned!Init /\ NoStd

UseQueue == in_use = "fixed_queue" /\ Next /\ UNCHANGED <<in_use, heap_vars, set_vars, table_vars, std_vars, align_vars>>
UseHeap == in_use = "heap" /\ Heap!Next /\ UNCHANGED <<in_use, queue, set_vars, table_vars, std_vars, align_vars>>
UseTable == in_use = "ptrset" /\ Table!Next /\ UNCHANGED <<in_use, queue, heap_vars, table_vars, std_vars, align_vars>>
PackStd == in_use = "pack_std" /\ Std!Next /\ UNCHANGED <<in_use, queue, heap_vars, set_vars, align_vars>>
PackAlign == in_use = "pack_align" /\ Aligned!Next /\ UNCHANGED <<in_use, queue, heap_vars, set_vars, std_vars>>

SharedNext == UseQueue \/ UseHeap \/ UseTable \/ PackStd \/ PackAlign

SharedSpec == SharedInit /\ [][SharedNext]_shared_vars
-----------------------------------------------------------------------------
(* A table that lima_shader_symbols_pack accepts gives every element of    *)
(* every member of every symbol floats of its own: "align all the free     *)
(* space before to a vec4 so we have a consistent offset for the           *)
(* structure" (pack.c:178-179) has to fit what calc_deref_offset computes. *)
ElementsDisjoint == in_use = "pack_std" => Std!ElementsDisjoint

(* ... in the rows the table was packed into.                              *)
WithinRows == in_use = "pack_std" => Std!WithinRows

(* No uniform and no temporary of the finished program shares a float with *)
(* the other table, and no constant inserted later with either of them.    *)
ConstsDisjoint == in_use = "pack_std" => Std!ConstsDisjoint

(* No two elements of a table of the fragment shader share a float, and    *)
(* all lie within the size the packing reports, although a member's offset *)
(* counts from its structure and every term of the sum is rounded down.    *)
MembersDisjoint == in_use = "pack_align" => Aligned!MembersDisjoint

(* The vertex shader writes every varying, or column of one, where the     *)
(* fragment shader that has the same varyings reads it.                    *)
VaryingsAgree == in_use = "pack_align" => Aligned!VaryingsAgree
-----------------------------------------------------------------------------
(* The containers and the tables.                                          *)

MCKey == <<1, 4, 2, 4, 2, 0>>
MCHash == <<3, 3, 7, 0>>

Symbol(type, elems, name) ==
  [type |-> type, array_elems |-> elems, name |-> name, used |-> TRUE, children |-> <<>>]
Struct(elems, name, children) ==
  [type |-> "struct", array_elems |-> elems, name |-> name, used |-> TRUE, children |-> children]

SmallSets(S, n) == UNION {kSubset(k, S) : k \in 0..n}

Inner == Struct(2, 1, <<Symbol("vec2", 0, 1), Symbol("float", 0, 2)>>)
Mixed == Struct(2, 2, <<Symbol("float", 0, 1), Symbol("vec3", 0, 2), Symbol("vec2", 0, 3)>>)
Outer == Struct(0, 3, <<Symbol("float", 2, 1), Inner>>)
Pair  == Struct(0, 4, <<Symbol("vec2", 0, 1), Symbol("float", 0, 2)>>)

Structs == {Inner, Mixed}
Wide    == {Symbol("mat4", 0, 5), Symbol("vec4", 3, 6), Symbol("mat3", 0, 7), Symbol("vec3", 5, 8)}
Double  == {Symbol("mat2", 0, 9), Symbol("vec2", 4, 10), Symbol("vec2", 2, 11)}
Narrow  == {Symbol("float", 0, 12), Symbol("float", 6, 13), Symbol("float", 2, 14)}
Unused  == [Symbol("mat4", 0, 15) EXCEPT !.used = FALSE]

(* At most one structure, and two-component symbols of no more rows than    *)
(* there are: the offsets of the others are known to be wrong.              *)
Legal(S) == Cardinality(S \cap Structs) <= 1

\* The temporaries keep a shader from being accepted whose uniforms use high
\* rows: its constants would be placed by a size in rows instead of floats.
HighShaders ==
  {[uniform |-> SetToSeq(S), temporary |-> SetToSeq(T)] :
     S \in {S \in SmallSets(Structs \cup Wide \cup Double \cup Narrow, 4) : Legal(S)},
     T \in {{Symbol("float", 0, 1)}, {Symbol("vec3", 2, 1), Unused}}}

\* Tables small enough for the last test, none of which uses high rows.
ConstShaders ==
  {[uniform |-> SetToSeq(S), temporary |-> SetToSeq(T)] :
     S, T \in SmallSets({Pair, Symbol("vec3", 0, 1), Symbol("vec2", 0, 2),
                         Symbol("float", 0, 3), Symbol("float", 2, 4)}, 2)}

MCPackShaders == HighShaders \cup ConstShaders

\* A structure that does not start on row 0: behind another, or inside one.
BehindStructs ==
  {[uniform |-> <<Symbol("vec4", 0, 6)>> \o S, temporary |-> <<>>] :
     S \in {<<Pair, Struct(0, 5, Pair.children)>>, <<Outer>>}}

NoShaders == {}
-----------------------------------------------------------------------------
Nest == Struct(2, 1, <<Symbol("float", 0, 1), Symbol("vec2", 0, 2)>>)
Deep == Struct(2, 2, <<Symbol("float", 3, 1), Nest, Symbol("vec3", 0, 3)>>)
Odd   == Struct(3, 3, <<Symbol("vec2", 2, 1), Symbol("float", 0, 2)>>)
Absent == [Symbol("vec4", 0, 20) EXCEPT !.used = FALSE]

Vectors  == {Symbol("vec3", 0, 4), Symbol("vec3", 2, 5), Symbol("vec2", 3, 6),
             Symbol("float", 0, 7), Symbol("float", 3, 8), Absent}
Matrices == {Symbol("mat2", 0, 9), Symbol("mat3", 0, 10), Symbol("mat2", 2, 11)}
Inputs   == {Symbol("float", 0, 1), Symbol("vec2", 0, 2), Symbol("vec3", 0, 3), Symbol("vec4", 0, 4), Absent}

Fragment(V, U, T) ==
  [stage |-> "fragment", attribute |-> <<>>, varying |-> SetToSeq(V),
   uniform |-> SetToSeq(U), temporary |-> SetToSeq(T)]
Vertex(A, V) ==
  [stage |-> "vertex", attribute |-> SetToSeq(A), varying |-> SetToSeq(V),
   uniform |-> <<>>, temporary |-> <<>>]

MCAlignShaders ==
  {Fragment(V, U, T) : V \in SmallSets(Vectors, 2),
                       U \in SmallSets({Nest, Deep, Odd} \cup Vectors \cup Matrices, 3),
                       T \in {{}, {Odd, Symbol("float", 0, 7)}}}
  \cup {Vertex(A, V) : A \in SmallSets(Inputs, 5), V \in SmallSets(Vectors, 4)}
=============================================================================
