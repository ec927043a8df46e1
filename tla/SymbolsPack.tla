------------------------------ MODULE SymbolsPack ------------------------------
(***************************************************************************)
(* Packing of the uniforms and temporaries of a vertex shader (pack_std    *)
(* and its callers in symbols/pack.c), and the constants inserted behind   *)
(* them while the GP program is lowered (symbols/symbols.c).               *)
(*                                                                         *)
(* The recursion of pack_std over structures is a list of tasks: "pack" a  *)
(* symbol, or "close" a structure whose members are packed.  A symbol is   *)
(* known by its path: the table, its place in the packing order, and the   *)
(* place of the member at every level below.                               *)
(***************************************************************************)
EXTENDS SymbolTypes, FiniteSets, FiniteSetsExt, TLC

CONSTANTS NumVec4s,   \* rows of the uniform memory (304)
          Word,       \* what unsigned arithmetic is modulo (2^32)
          Shaders,    \* the pairs of tables: [uniform, temporary]
          MaxConsts   \* bound on the constants inserted

PackAssumption ==
  /\ NumVec4s \in Nat \ {0}
  /\ Word \in Nat /\ Word > 8 * NumVec4s

VARIABLES shader,
          pc,            \* "uniform", "temporary", "check", "packed", "failed"
          tasks,         \* what pack_table has left to do
          free_low, free_high,   \* the free rows of each column
          pos,           \* path -> offset and stride, and what is there
          total_size,    \* of the tables packed so far
          cur_uniform_index,
          consts         \* the places of the inserted constants: sets of floats

vars == <<shader, pc, tasks, free_low, free_high, pos, total_size, cur_uniform_index, consts>>

Columns == 0..3
Tables  == {"uniform", "temporary"}

Sub(a, b) == (a - b) % Word     \* unsigned difference

MaxLow(cols)  == Max({free_low[i] : i \in cols})
MinHigh(cols) == Min({free_high[i] : i \in cols})

----------------------------------------------------------------------------
Task(kind, path, sym, offset) ==
  [kind |-> kind, path |-> path, sym |-> sym, offset |-> offset]

Members(task) ==
  [k \in DOMAIN task.sym.children |->
     Task("pack", Append(task.path, k), task.sym.children[k], 0)]

TableTasks(table) ==
  LET symbols == pack_table(shader[table])
  IN  [k \in DOMAIN symbols |-> Task("pack", <<table, k>>, symbols[k], 0)]

Place(task, offset, stride) ==
  pos' = pos @@ (task.path :> [sym |-> task.sym, offset |-> offset, stride |-> stride])

Fail ==
  /\ pc' = "failed" /\ tasks' = <<>>
  /\ UNCHANGED <<shader, free_low, free_high, pos, total_size, cur_uniform_index, consts>>

Packing == pc \in Tables /\ tasks # <<>>
Keep == UNCHANGED <<shader, pc, total_size, cur_uniform_index, consts>>

\* The rows a symbol takes, and the rows of one element.
Rows(sym) == num_rows[sym.type] * ArrayElems(sym)

\* Slip: the rows of all elements.
StrideOfAll(sym) == 4 * Rows(sym)
Stride(sym) == 4 * num_rows[sym.type]

\* A structure starts on a row that is free in all columns.
OpenStruct ==
  LET task == Head(tasks)  offset == MaxLow(Columns) IN
  /\ Packing /\ task.kind = "pack" /\ task.sym.type = "struct"
  /\ IF MinHigh(Columns) < offset THEN Fail
     ELSE /\ free_low' = [i \in Columns |-> offset]
          /\ tasks' = Members(task) \o <<Task("close", task.path, task.sym, offset)>> \o Tail(tasks)
          /\ Keep /\ UNCHANGED <<free_high, pos>>

\* ... and leaves room for the other elements of an array behind its first.
CloseStruct ==
  LET task == Head(tasks)
      end  == MaxLow(Columns)
      size == end - task.offset
      past == end + size * (ArrayElems(task.sym) - 1)
  IN
  /\ Packing /\ task.kind = "close"
  /\ IF MinHigh(Columns) < past THEN Fail
     ELSE /\ free_low' = [i \in Columns |-> past]
          /\ Place(task, task.offset * 4, size * 4)
          /\ tasks' = Tail(tasks)
          /\ Keep /\ UNCHANGED free_high

Leaf(task) == task.kind = "pack" /\ task.sym.type \in LeafTypes
Comps(task) == num_components[task.sym.type]

FitsLow(task) ==
  LET cols == 0..(Comps(task) - 1)
  IN  MaxLow(cols) + Rows(task.sym) <= MinHigh(cols)

\* Two or more components go to the first columns if they fit there.
PackLow ==
  LET task == Head(tasks)  cols == 0..(Comps(task) - 1)  low == MaxLow(cols) IN
  /\ Packing /\ Leaf(task) /\ Comps(task) # 1 /\ FitsLow(task)
  /\ free_low' = [i \in Columns |-> IF i \in cols THEN low + Rows(task.sym) ELSE free_low[i]]
  /\ Place(task, 4 * low, Stride(task.sym))
  /\ tasks' = Tail(tasks)
  /\ Keep /\ UNCHANGED free_high

\* Slip: only the second of the two columns is looked at.
HighColumnsSecond(rows) ==
  {col \in 0..2 : Sub(MinHigh({col, col + 1}), rows) >= free_low[col + 1]}

\* The columns in whose high rows a two-component symbol is found to fit.
HighColumns(rows) ==
  {col \in 0..2 : Sub(MinHigh({col, col + 1}), rows) >= MaxLow({col, col + 1})}

PackHigh ==
  LET task == Head(tasks)  rows == Rows(task.sym) IN
  /\ Packing /\ Leaf(task) /\ Comps(task) = 2 /\ ~FitsLow(task)
  /\ HighColumns(rows) # {}
  /\ LET col == Min(HighColumns(rows))
         row == Sub(MinHigh({col, col + 1}), rows)
     IN  /\ free_high' = [free_high EXCEPT ![col] = row, ![col + 1] = row]
         /\ Place(task, (4 * row + col) % Word, Stride(task.sym))
  /\ tasks' = Tail(tasks)
  /\ Keep /\ UNCHANGED free_low

TooWide ==
  LET task == Head(tasks) IN
  /\ Packing /\ Leaf(task) /\ Comps(task) # 1 /\ ~FitsLow(task)
  /\ Comps(task) = 2 => HighColumns(Rows(task.sym)) = {}
  /\ Fail

Space(i) == Sub(free_high[i], free_low[i])
WithRoom(rows) == {i \in Columns : Space(i) >= rows}

\* One component goes to the column with the least space that is enough.
PackScalar ==
  LET task == Head(tasks)  rows == Rows(task.sym) IN
  /\ Packing /\ Leaf(task) /\ Comps(task) = 1
  /\ IF WithRoom(rows) = {} THEN Fail
     ELSE LET least == Min({Space(i) : i \in WithRoom(rows)})
              col   == Min({i \in WithRoom(rows) : Space(i) = least})
          IN  /\ Place(task, 4 * free_low[col] + col, Stride(task.sym))
              /\ free_low' = [free_low EXCEPT ![col] = @ + rows]
              /\ tasks' = Tail(tasks)
              /\ Keep /\ UNCHANGED free_high

----------------------------------------------------------------------------
\* Slip: the rows are never converted to floats.
SizeInRows ==
  IF \E i \in Columns : free_high[i] # NumVec4s THEN NumVec4s ELSE MaxLow(Columns)

\* The size pack_table_std reports: as soon as high rows are used, all rows
\* are, and the number of them is not converted to floats.
TableSize ==
  IF \E i \in Columns : free_high[i] # NumVec4s THEN NumVec4s ELSE 4 * MaxLow(Columns)

\* A table is packed; the next starts with all rows free.
TableDone ==
  /\ pc \in Tables /\ tasks = <<>>
  /\ total_size' = [total_size EXCEPT ![pc] = TableSize]
  /\ free_low' = [i \in Columns |-> 0]
  /\ free_high' = [i \in Columns |-> NumVec4s]
  /\ IF pc = "uniform" THEN pc' = "temporary" /\ tasks' = TableTasks("temporary")
                       ELSE pc' = "check" /\ tasks' = <<>>
  /\ UNCHANGED <<shader, pos, cur_uniform_index, consts>>

\* The last test of lima_shader_symbols_pack.
CheckSizes ==
  /\ pc = "check"
  /\ IF total_size["uniform"] + total_size["temporary"] > NumVec4s
       THEN pc' = "failed" /\ UNCHANGED cur_uniform_index
       ELSE /\ pc' = "packed"
            /\ cur_uniform_index' = total_size["uniform"] + total_size["temporary"]
  /\ UNCHANGED <<shader, tasks, free_low, free_high, pos, total_size, consts>>

AddConst ==
  /\ pc = "packed" /\ Len(consts) < MaxConsts
  /\ consts' = Append(consts, {cur_uniform_index})
  /\ cur_uniform_index' = cur_uniform_index + 1
  /\ UNCHANGED <<shader, pc, tasks, free_low, free_high, pos, total_size>>

\* The two bounds of a clamp, read together, start a row.
AddClampConst ==
  /\ pc = "packed" /\ Len(consts) < MaxConsts
  /\ LET index == 4 * ((cur_uniform_index + 3) \div 4) IN
       /\ consts' = Append(consts, {index, index + 1})
       /\ cur_uniform_index' = index + 2
  /\ UNCHANGED <<shader, pc, tasks, free_low, free_high, pos, total_size>>

Init ==
  /\ shader \in Shaders
  /\ pc = "uniform" /\ tasks = TableTasks("uniform")
  /\ free_low = [i \in Columns |-> 0]
  /\ free_high = [i \in Columns |-> NumVec4s]
  /\ pos = <<>>
  /\ total_size = [table \in Tables |-> 0]
  /\ cur_uniform_index = 0 /\ consts = <<>>

Done == pc \in {"packed", "failed"} /\ UNCHANGED vars

Next ==
  \/ OpenStruct \/ CloseStruct \/ PackLow \/ PackHigh \/ PackScalar \/ TooWide
  \/ TableDone \/ CheckSizes \/ AddConst \/ AddClampConst \/ Done

Spec == Init /\ [][Next]_vars

----------------------------------------------------------------------------
(* Where the program finds a symbol (gp_ir/from_glsl.cpp).                 *)

Prefix(path, k) == SubSeq(path, 1, k)

Leaves(table) == {path \in DOMAIN pos : path[1] = table /\ pos[path].sym.type # "struct"}

\* The temporaries lie behind the uniforms.
Base(table) == IF table = "temporary" THEN 4 * (total_size["uniform"] \div 4) ELSE 0

\* calc_deref_offset: the offsets of the structures around a member, its own,
\* and a stride for every index.
DerefOffsets(path) ==
  FoldLeft(LAMBDA A, k : {a + pos[Prefix(path, k)].offset + i * pos[Prefix(path, k)].stride :
                            a \in A, i \in 0..(ArrayElems(pos[Prefix(path, k)].sym) - 1)},
           {Base(path[1])}, [k \in 1..(Len(path) - 1) |-> k + 1])

\* The floats that hold a symbol, all elements of it taken together.
Floats(path) ==
  LET type == pos[path].sym.type IN
  {a + 4 * row + c : a \in DerefOffsets(path),
                     row \in 0..(num_rows[type] - 1), c \in 0..(num_components[type] - 1)}

\* How many floats it should be.
Size(path) ==
  LET type == pos[path].sym.type IN
  FoldLeft(LAMBDA n, k : n * ArrayElems(pos[Prefix(path, k)].sym),
           num_rows[type] * num_components[type],
           [k \in 1..(Len(path) - 1) |-> k + 1])

Held(table) == UNION {Floats(path) : path \in Leaves(table)}

TablePacked(table) == pc \in {"check", "packed"} \/ (pc = "temporary" /\ table = "uniform")

(* A table that lima_shader_symbols_pack accepts gives every element of    *)
(* every member of every symbol floats of its own: "align all the free     *)
(* space before to a vec4 so we have a consistent offset for the           *)
(* structure" (pack.c:178-179) has to fit what calc_deref_offset computes. *)
ElementsDisjoint ==
  \A table \in Tables : TablePacked(table) =>
    Cardinality(Held(table)) = MapThenSumSet(Size, Leaves(table))

(* ... in the rows the table was packed into.                              *)
WithinRows ==
  \A table \in Tables : TablePacked(table) =>
    Held(table) \subseteq Base(table)..(Base(table) + 4 * NumVec4s - 1)

(* No uniform and no temporary of the finished program shares a float with *)
(* the other table, and no constant inserted later with either of them.    *)
ConstsDisjoint ==
  pc = "packed" =>
    /\ Held("uniform") \cap Held("temporary") = {}
    /\ \A k \in DOMAIN consts :
         /\ consts[k] \cap (Held("uniform") \cup Held("temporary")) = {}
         /\ \A j \in 1..(k - 1) : consts[j] \cap consts[k] = {}
=============================================================================
