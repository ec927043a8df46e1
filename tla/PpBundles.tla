------------------------------ MODULE PpBundles ------------------------------
(***************************************************************************)
(* Scheduled instructions of the fragment processor, and how               *)
(* lima_pp_lir_instr_to_sched_instr (pp_lir/linear_to_scheduled.c) makes   *)
(* one of a linear instruction.                                            *)
(*                                                                         *)
(* The slots, in the order in which they run:                              *)
(*   1 varying   2 texld   3 uniform                                       *)
(*   4 vector_mul || 5 scalar_mul   6 vector_add || 7 scalar_add           *)
(*   8 combine   9 temp_store   10 branch                                  *)
(*                                                                         *)
(* A linear instruction has an op, its sources, each a set of channels or  *)
(* a sequence of constants, the channels dest it writes, whether it may    *)
(* use the combine unit to multiply (is_combine), and, for a branch, what  *)
(* PpDepInfo wants to know of it.                                          *)
(***************************************************************************)
EXTENDS Naturals, Sequences, FiniteSets, TLC, SequencesExt

Alu == 4..8

\* The pipeline register that has the result of a slot.
PipeOf == 1 :> "discard" @@ 2 :> "sampler" @@ 3 :> "uniform" @@ 4 :> "vmul" @@ 5 :> "fmul"
Pipes == {PipeOf[s] : s \in DOMAIN PipeOf}

MoveLike    == {"mov"}
AddOps      == {"add", "ddx", "ddy", "fract", "floor", "ceil"}
SumOps      == {"sum3", "sum4"}
CompareOps  == {"gt", "ge", "eq", "ne", "min", "max"}
CombineOps  == {"rcp", "sin_lut", "cos_lut", "exp2", "log2", "sqrt", "rsqrt",
                "atan_pt1", "atan2_pt1", "atan_pt2"}
VaryingOps  == {"loadv", "frag_coord_impl", "point_coord_impl", "front_facing", "normalize3"}
UniformOps  == {"loadu", "loadt"}
StoreOps    == {"storet", "fb_color", "fb_depth"}
BranchOps   == {"branch", "branch_gt"}

is_scalar(instr) == Cardinality(instr.dest) = 1

\* The ALU slot an instruction is put in, and those it may be moved to.
AluSlot(instr) ==
  CASE instr.op \in MoveLike \cup AddOps \cup CompareOps -> IF is_scalar(instr) THEN 7 ELSE 6
    [] instr.op \in SumOps -> 6
    [] instr.op = "mul" -> IF is_scalar(instr) THEN 5 ELSE IF instr.combine THEN 8 ELSE 4
    [] instr.op = "not" -> IF is_scalar(instr) THEN 5 ELSE 4
    [] instr.op \in CombineOps -> 8

possible_alu_instr_pos(instr) ==
  LET with(extra) == IF is_scalar(instr) THEN extra ELSE {}
  IN  CASE instr.op \in MoveLike   -> {4, 6} \cup with({5, 7, 8})
        [] instr.op \in AddOps     -> {6} \cup with({7})
        [] instr.op \in CompareOps -> {4, 6} \cup with({5, 7})
        [] instr.op = "mul"        -> {4} \cup with({5}) \cup (IF instr.combine THEN {8} ELSE {})
        [] instr.op = "not"        -> {4} \cup with({5})
        [] OTHER                   -> {AluSlot(instr)}

\* An operation of a slot, its constants still among its sources.
Operation(name, srcs, writes, possible) ==
  [name |-> name, srcs |-> srcs,
   args |-> FlattenSeq([i \in DOMAIN srcs |-> SetToSeq(srcs[i].chans)]),
   writes |-> writes, temp |-> "none", possible |-> possible]

\* The channels an operation reads; it may read pipeline registers besides.
ReadsOf(op) == ToSet(op.args) \ Pipes

\* Loads deliver to a pipeline register, from which a move takes the value.
MoveFrom(pipe, instr) ==
  LET mov == [instr EXCEPT !.op = "mov"]
  IN  AluSlot(mov) :> [Operation("mov", <<>>, instr.dest, possible_alu_instr_pos(mov))
                         EXCEPT !.args = <<pipe>>]

Slots(instr) ==
  LET plain(possible) == Operation(instr.op, instr.srcs, instr.dest, possible)
      silent == Operation(instr.op, instr.srcs, {}, {})
  IN  CASE instr.op = "select" ->
             5 :> Operation("mov", <<instr.srcs[3]>>, {}, {5})
             @@ 6 :> [Operation("select", SubSeq(instr.srcs, 1, 2), instr.dest, {6})
                        EXCEPT !.args = Append(@, "fmul")]
        [] instr.op \in VaryingOps -> 1 :> plain({})
        [] instr.op \in UniformOps ->
             3 :> [silent EXCEPT !.temp = IF instr.op = "loadt" THEN "load" ELSE "none"]
             @@ MoveFrom("uniform", instr)
        [] instr.op = "texld" ->
             1 :> Operation("mov", instr.srcs, {}, {})
             @@ 2 :> [Operation("texld", <<>>, {}, {}) EXCEPT !.args = <<"discard">>]
             @@ MoveFrom("sampler", instr)
        [] instr.op \in StoreOps ->
             9 :> [silent EXCEPT !.temp = IF instr.op = "storet" THEN "store" ELSE "none"]
        [] instr.op \in BranchOps -> 10 :> silent
        [] OTHER -> AluSlot(instr) :> plain(possible_alu_instr_pos(instr))

(* Constants: the first constant source, slots and sources in order, fills *)
(* const0, the second const1; equal values are then merged in each.        *)
ConstSources(slots) ==
  SelectSeq(FlattenSeq([k \in 1..10 |->
              IF k \in DOMAIN slots
              THEN [a \in DOMAIN slots[k].srcs |-> [slot |-> k, consts |-> slots[k].srcs[a].consts]]
              ELSE <<>>]),
            LAMBDA s : s.consts # <<>>)

compress_consts(values) ==
  FoldLeft(LAMBDA kept, v : IF v \in ToSet(kept) THEN kept ELSE Append(kept, v), <<>>, values)

\* Where the constants of the n-th constant source are.
Operands(consts, n) ==
  [j \in DOMAIN consts |->
     [reg |-> n - 1, at |-> SelectInSeq(compress_consts(consts), LAMBDA c : c = consts[j])]]

OperandsOf(k, sources) ==
  FlattenSeq([n \in DOMAIN sources |->
                IF sources[n].slot = k THEN Operands(sources[n].consts, n) ELSE <<>>])

Bundle(instr, slots, sources) ==
  LET const(n) == IF n <= Len(sources) THEN compress_consts(sources[n].consts) ELSE <<>>
  IN  [ops    |-> [k \in DOMAIN slots |->
                     [f \in DOMAIN slots[k] \ {"srcs"} |-> slots[k][f]]
                       @@ [consts |-> OperandsOf(k, sources)]],
       const0 |-> const(1), const1 |-> const(2),
       slots  |-> [k \in 1..10 |-> IF k \in DOMAIN slots
                                   THEN [reads |-> ReadsOf(slots[k]), writes |-> slots[k].writes]
                                   ELSE [reads |-> {}, writes |-> {}]],
       load   |-> instr.op = "loadt", store |-> instr.op = "storet",
       branch |-> CASE instr.op = "branch" -> "jump"
                    [] instr.op \in BranchOps \ {"branch"} -> "cond"
                    [] OTHER -> "none"]

sched_instr(instr) == Bundle(instr, Slots(instr), ConstSources(Slots(instr)))
=============================================================================
