----------------------------- MODULE MCPpSchedule -----------------------------
(* Blocks of four instructions over three channels. *)
EXTENDS PpSchedule

MCChans == {"a", "b", "c"}

Instr(slots, load, store, branch) ==
  [slots |-> slots, load |-> load, store |-> store, branch |-> branch]
Alu(writes, reads) ==
  Instr(<<[reads |-> reads, writes |-> writes]>>, FALSE, FALSE, "none")

\* Two slots that run in parallel: the second reads what the first overwrites.
Swap == Instr(<<[reads |-> {"b"}, writes |-> {"a"}], [reads |-> {"a"}, writes |-> {"b"}]>>,
              FALSE, FALSE, "none")
LoadC  == Instr(<<[reads |-> {}, writes |-> {"c"}]>>, TRUE, FALSE, "none")
StoreA == Instr(<<[reads |-> {"a"}, writes |-> {}]>>, FALSE, TRUE, "none")
Cond   == Instr(<<[reads |-> {"a", "b"}, writes |-> {}]>>, FALSE, FALSE, "cond")
Jump   == Instr(<<>>, FALSE, FALSE, "jump")

Body == {Alu({"a"}, {}), Alu({"b"}, {"a"}), Alu({"c"}, {"a", "b"}), Alu({"a", "b"}, {"c"}),
         Swap, LoadC, StoreA}

\* A block ends as convert_branch leaves it: with a conditional branch and a
\* jump, with one of them, or with neither.
MCBlocks ==
  UNION {{<<x, y, z, t>> : x, y \in Body, z \in Body \cup {Cond}, t \in Body \cup {Cond, Jump}}}
    \ {<<x, y, Cond, t>> : x, y \in Body, t \in Body \cup {Cond}}

\* Blocks in which a value only later blocks read is computed before a branch.
BranchBlocks == {<<Alu({"a"}, {}), Alu({"b"}, {}), Alu({"c"}, {}), Cond>>}
=============================================================================
