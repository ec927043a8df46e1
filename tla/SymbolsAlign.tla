----------------------------- MODULE SymbolsAlign -----------------------------
(***************************************************************************)
(* Packing by alignment (pack_align, pack_attr and their callers in        *)
(* symbols/pack.c): the attributes and varyings of both stages and the     *)
(* uniforms and temporaries of a fragment shader; and where the two back   *)
(* ends look for a packed symbol (calc_const_deref_offset in               *)
(* gp_ir/from_glsl.cpp, calc_deref_offset in pp_hir/from_glsl.cpp).        *)
(*                                                                         *)
(* The unit is one float.  An element of a table is named by the choices   *)
(* that lead to it: symbol, index, member, index, ..., column.             *)
(***************************************************************************)
EXTENDS SymbolTypes, FiniteSets, FiniteSetsExt

CONSTANTS Limit,     \* table -> the space there is (in rows for attributes)
          Shaders    \* records of a stage and four tables

AlignAssumption ==
  Limit \in [{"attribute", "varying", "uniform", "temporary"} -> Nat]

VARIABLES shader,
          pc,          \* the table being packed, or "packed" or "failed"
          todo,        \* its symbols that are left, in the order of packing
          pos,         \* of the pack state
          placed,      \* table -> its packed symbols
          total_size   \* table -> what the packing reports

vars == <<shader, pc, todo, pos, placed, total_size>>

Tables == {"attribute", "varying", "uniform", "temporary"}

alignments ==
  [float |-> 1, vec2 |-> 2, vec3 |-> 4, vec4 |-> 4, mat2 |-> 2, mat3 |-> 4, mat4 |-> 4]

\* Slip: a vec3 is not padded.
SizesTight ==
  [float |-> 1, vec2 |-> 2, vec3 |-> 3, vec4 |-> 4, mat2 |-> 4, mat3 |-> 9, mat4 |-> 16]

sizes ==
  [float |-> 1, vec2 |-> 2, vec3 |-> 4, vec4 |-> 4, mat2 |-> 4, mat3 |-> 12, mat4 |-> 16]

Align(n, align) == ((n + align - 1) \div align) * align

\* Slip: a structure is not aligned for its members.
StructUnaligned(symbol) == IF symbol.type = "struct" THEN 1 ELSE alignments[symbol.type]

RECURSIVE get_alignment(_)
get_alignment(symbol) ==
  IF symbol.type = "struct" THEN Max({1} \cup {get_alignment(c) : c \in ToSet(symbol.children)})
                            ELSE alignments[symbol.type]

At(symbol, offset, stride, children) ==
  [type |-> symbol.type, array_elems |-> symbol.array_elems,
   offset |-> offset, stride |-> stride, children |-> children]

\* A packed symbol, and the position behind it.  Members start again at 0.
RECURSIVE pack_align(_, _)
pack_align(symbol, from) ==
  LET offset  == Align(from, get_alignment(symbol))
      members == FoldLeft(LAMBDA done, child :
                            LET next == pack_align(child, done.pos)
                            IN  [pos |-> next.pos, placed |-> Append(done.placed, next.placed)],
                          [pos |-> 0, placed |-> <<>>], symbol.children)
      stride  == IF symbol.type = "struct" THEN Align(members.pos, get_alignment(symbol))
                                           ELSE sizes[symbol.type]
  IN  [pos    |-> offset + stride * ArrayElems(symbol),
       placed |-> At(symbol, offset, stride, members.placed)]

\* Attributes: whole rows, and no arrays or structures (asserted); the
\* position counts rows.
pack_attr(symbol, from) ==
  [pos    |-> from + num_rows[symbol.type],
   placed |-> At(symbol, 4 * from, 4 * num_rows[symbol.type], <<>>)]

----------------------------------------------------------------------------
StartTable(table) == pc' = table /\ todo' = pack_table(shader[table]) /\ pos' = 0

PackSymbol ==
  /\ pc \in Tables /\ todo # <<>>
  /\ LET packed == IF pc = "attribute" THEN pack_attr(Head(todo), pos)
                                       ELSE pack_align(Head(todo), pos)
     IN  /\ pos' = packed.pos
         /\ placed' = [placed EXCEPT ![pc] = Append(@, packed.placed)]
  /\ todo' = Tail(todo)
  /\ UNCHANGED <<shader, pc, total_size>>

Fits == pos <= Limit[pc]

\* lima_shader_symbols_pack goes on to the next table.  The uniforms and the
\* temporaries of a vertex shader are packed by pack_std (SymbolsPack).
TableDone ==
  /\ pc \in Tables /\ todo = <<>>
  /\ total_size' = [total_size EXCEPT ![pc] = IF pc = "attribute" THEN 4 * pos ELSE pos]
  /\ IF ~Fits THEN pc' = "failed" /\ UNCHANGED <<todo, pos>>
     ELSE CASE pc = "attribute" -> StartTable("varying")
            [] pc = "varying" /\ shader.stage = "fragment" -> StartTable("uniform")
            [] pc = "uniform" -> StartTable("temporary")
            [] OTHER -> pc' = "packed" /\ UNCHANGED <<todo, pos>>
  /\ UNCHANGED <<shader, placed>>

Init ==
  /\ shader \in Shaders
  /\ pc = "attribute" /\ todo = pack_table(shader["attribute"]) /\ pos = 0
  /\ placed = [table \in Tables |-> <<>>]
  /\ total_size = [table \in Tables |-> 0]

Done == pc \in {"packed", "failed"} /\ UNCHANGED vars

Next == PackSymbol \/ TableDone \/ Done

Spec == Init /\ [][Next]_vars

----------------------------------------------------------------------------
(* Where the program looks.  Matrices are read and written by columns.     *)

Columns(symbol) == num_rows[symbol.type]     \* matrix_columns; 1 for vectors

\* The alignment handle_deref uses for a vector of that many components.
RefAlignment(type) == LET n == num_components[type] IN IF n <= 2 THEN n ELSE 4

\* The fragment shader: every term is divided by the alignment of what is
\* read in the end, and a column of a matrix has its share of the stride.
PPTerms(symbol, align, i) == symbol.offset \div align + (i * symbol.stride) \div align
PPColumn(symbol, align, c) == (c * (symbol.stride \div Columns(symbol))) \div align

\* The vertex shader: the stride is the one of the symbol, also for columns.
GPTerms(symbol, i) == symbol.offset + i * symbol.stride
GPColumn(symbol, c) ==
  IF Columns(symbol) > 1 THEN c * symbol.stride ELSE 0

\* The places of the elements of a symbol that is reached with the terms pp
\* (a set of names and sums for every alignment) and gp.
RECURSIVE ElementsOf(_, _, _, _)
ElementsOf(symbol, name, pp, gp) ==
  LET Reach(i) == [a \in {1, 2, 4} |-> pp[a] + PPTerms(symbol, a, i)]
      Indices  == 0..(ArrayElems(symbol) - 1)
  IN  IF symbol.type = "struct"
        THEN UNION {ElementsOf(symbol.children[k], name \o <<i, k>>, Reach(i), gp + GPTerms(symbol, i)) :
                      i \in Indices, k \in DOMAIN symbol.children}
        ELSE LET align == RefAlignment(symbol.type)
             IN  {[name  |-> name \o <<i, c>>,
                   width |-> num_components[symbol.type],
                   align |-> align,
                   pp    |-> align * (Reach(i)[align] + PPColumn(symbol, align, c)),
                   gp    |-> gp + GPTerms(symbol, i) + GPColumn(symbol, c)] :
                     i \in Indices, c \in 0..(Columns(symbol) - 1)}

Elements(table) ==
  UNION {ElementsOf(placed[table][k], <<k>>, [a \in {1, 2, 4} |-> 0], 0) : k \in DOMAIN placed[table]}

\* What a load or store touches: a vec3 is stored as a vec4.
PPFloats(e) == e.pp..(e.pp + e.align - 1)

----------------------------------------------------------------------------
(* No two elements of a table of the fragment shader share a float, and    *)
(* all lie within the size the packing reports, although a member's offset *)
(* counts from its structure and every term of the sum is rounded down.    *)
MembersDisjoint ==
  pc = "packed" /\ shader.stage = "fragment" =>
    \A table \in {"varying", "uniform", "temporary"} :
      /\ \A e, f \in Elements(table) : e # f => PPFloats(e) \cap PPFloats(f) = {}
      /\ \A e \in Elements(table) : PPFloats(e) \subseteq 0..(total_size[table] - 1)

(* The vertex shader writes every varying, or column of one, where the     *)
(* fragment shader that has the same varyings reads it, and a store to a   *)
(* varying never reaches into the next row: its mask has four entries.     *)
VaryingsAgree ==
  pc = "packed" =>
    \A e \in Elements("varying") : e.gp = e.pp /\ (e.gp % 4) + e.width <= 4
=============================================================================
