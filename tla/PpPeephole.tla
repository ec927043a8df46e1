----------------------------- MODULE PpPeephole -----------------------------
(***************************************************************************)
(* The peephole optimizer of the fragment backend (pp_lir/peephole.c):     *)
(* values that one operation hands to the next are passed in pipeline      *)
(* registers instead of registers, and loads move to where they are used.  *)
(* It works on the graph of PpDepInfo and merges instructions with what    *)
(* PpCombine has, and combine_after; the scheduler then puts the           *)
(* instructions into some order that the graph allows.                     *)
(*                                                                         *)
(* A channel stands for a whole register here.  The varying a use gets is  *)
(* put in a register of its own, which keeps the name of the old one: the  *)
(* two never hold different values.                                        *)
(***************************************************************************)
EXTENDS PpCombine

CONSTANT Outs       \* the registers that other blocks read

VARIABLE job        \* what the loops inside peephole_varying, _texture have left

peepholeVars == <<vars, job>>

\* The program: instructions, the three graphs, and the list.
Graph == [bundle |-> bundle, deps |-> deps, true_deps |-> true_deps,
          min_deps |-> min_deps, order |-> order]

Becomes(g) ==
  /\ bundle' = g.bundle /\ order' = g.order
  /\ deps' = g.deps /\ true_deps' = g.true_deps /\ min_deps' = g.min_deps
  /\ UNCHANGED <<block, max_dist, queue, visited>>

UsesOf(g, r) ==
  {u \in (DOMAIN g.bundle) \X (1..10) :
     u[2] \in Used(g.bundle[u[1]]) /\ r \in ToSet(g.bundle[u[1]].ops[u[2]].args)}
DefsOf(g, r) ==
  {d \in (DOMAIN g.bundle) \X (1..10) :
     d[2] \in Used(g.bundle[d[1]]) /\ r \in g.bundle[d[1]].ops[d[2]].writes}
Unused(g, r) == UsesOf(g, r) = {} /\ r \notin Outs

RegOf(op) == CHOOSE r \in op.writes : TRUE
ReadInstead(op, r, pipe) == [op EXCEPT !.args = [k \in DOMAIN @ |-> IF @[k] = r THEN pipe ELSE @[k]]]
Without(b, slot) == [b EXCEPT !.ops = [s \in Used(b) \ {slot} |-> b.ops[s]]]
With(b, slot, op) == [b EXCEPT !.ops = (slot :> op) @@ @]

Before(E, i) == {e[1] : e \in {d \in E : d[2] = i}}
Behind(E, i) == {e[2] : e \in {d \in E : d[1] = i}}

\* instr_combine.c, combine_deps, on all three graphs; i leaves the list.
Merge(g, i, into, b) ==
  [g EXCEPT !.deps = combine_deps(@, i, into), !.true_deps = combine_deps(@, i, into),
            !.min_deps = combine_deps(@, i, into), !.order = Remove(@, i),
            !.bundle = [j \in DOMAIN @ \ {i} |-> IF j = into THEN b ELSE @[j]]]

\* remove_instr: what came before i comes before what came behind it.
remove_instr(g, i) ==
  LET Bridged(E) == {e \in E : i \notin {e[1], e[2]}} \cup (Before(E, i) \X Behind(E, i))
  IN  [g EXCEPT !.deps = Bridged(@), !.true_deps = Bridged(@), !.min_deps = Bridged(@),
                !.order = Remove(@, i), !.bundle = [j \in DOMAIN @ \ {i} |-> @[j]]]

RECURSIVE Reachable(_, _)
Reachable(E, S) ==
  LET more == UNION {Behind(E, i) : i \in S} \ S
  IN  IF more = {} THEN S ELSE Reachable(E, S \cup more)

\* lima_pp_lir_calc_min_dep_info: it only ever takes edges away.
calc_min_dep_info(g) ==
  [g EXCEPT !.min_deps =
     {e \in @ : e[2] \notin Reachable(g.deps, UNION {Behind(g.deps, s) : s \in Behind(g.deps, e[1])})}]
----------------------------------------------------------------------------
(* lima_pp_lir_instr_combine_after: `after' becomes part of `new', which   *)
(* comes first; slots are looked for from the first to the last.           *)

FirstPlace(new, op, start) ==
  LET Conflict1(s) == s \in Used(new) /\ ~can_swap(new.ops[s], op)
      last == Max({start} \cup {s \in Alu : s > start /\ Conflict1(s)})
  IN  IF last \in {4, 6} /\ Conflict1(last) THEN last + 2 ELSE last + 1

AfterMap(after, new) ==
  LET at[slot \in 3..8] ==
        IF slot = 3 THEN <<>>
        ELSE LET earlier == at[slot - 1]
                 first   == FirstPlace(new, after.ops[slot], Max({3} \cup {earlier[s] : s \in DOMAIN earlier}))
                 places  == {s \in Alu \ Used(new) : s >= first /\
                               IF Paired(after, slot) THEN s = slot ELSE s \in after.ops[slot].possible}
             IN  IF slot \notin Used(after) \/ places = {} THEN earlier
                 ELSE earlier @@ (slot :> Min(places))
  IN  at[8]

AfterFits(after, new) ==
  /\ const_maps(new, after) # {}
  /\ DOMAIN AfterMap(after, new) = Used(after) \cap Alu
  /\ \A s \in Used(after) : \A t \in Used(new) :
       (t > s /\ s \notin Alu) \/ (t > 8 /\ s \in Alu) => can_swap(new.ops[t], after.ops[s])
  /\ Used(after) \cap Used(new) \subseteq Alu

\* The results of combining, one for each value of a constant that is lost.
CombineAfter(after, new) ==
  {Merged(after, new, AfterMap(after, new), m, junk) : m \in const_maps(new, after), junk \in 1..ConstSize}

CombineIndependent(other, new) ==
  {Merged(other, new, AluMap(other, new, FALSE), m, junk) : m \in const_maps(new, other), junk \in 1..ConstSize}
----------------------------------------------------------------------------
(* The loops of peephole_block over the list.                              *)

At1(pass) == pc = pass /\ cur <= Len(order)
Instr == order[cur]

\* On to the next instruction, or the next pass; or from the start again.
Onward == cur' = cur + 1 /\ UNCHANGED <<pc, job>>
Again == cur' = 1 /\ UNCHANGED <<pc, job>>
Same == Becomes(Graph)
Fail == pc' = "failed" /\ Same /\ UNCHANGED <<cur, job>>

EndPass(pass, next) ==
  /\ pc = pass /\ cur > Len(order)
  /\ pc' = next /\ cur' = 1
  /\ Becomes(calc_min_dep_info(Graph))
  /\ UNCHANGED job

StartPeephole ==
  /\ pc = "schedule"
  /\ pc' = "discard" /\ cur' = 1
  /\ Becomes([Graph EXCEPT !.order = [i \in Instrs |-> i]])
  /\ UNCHANGED job
----------------------------------------------------------------------------
(* peephole_discard_move: the condition of a select is moved to the slot   *)
(* from which the select takes it.                                         *)

\* find_discard_move
DiscardMoves(b) ==
  {s \in Alu \cap Used(b) : /\ b.ops[s].name = "mov" /\ b.ops[s].writes = {}
                            /\ b.ops[s].args # <<>> /\ Head(b.ops[s].args) \notin Pipes}

CanMoveDef(i, s, d) ==
  LET def == bundle[d[1]].ops[d[2]]
  IN  /\ d[2] \in Alu /\ <<d[1], i>> \in min_deps /\ s \in def.possible
      /\ \A t \in Used(bundle[d[1]]) : t > d[2] => can_swap(def, bundle[d[1]].ops[t])
      /\ \A t \in Used(bundle[i]) : t < s => can_swap(def, bundle[i].ops[t])

\* The definitions that may be moved: the only one of the register, or none.
MovableDefs(i) ==
  IF DiscardMoves(bundle[i]) = {} THEN {}
  ELSE LET s == Min(DiscardMoves(bundle[i]))
           defs == DefsOf(Graph, Head(bundle[i].ops[s].args))
       IN  {d \in defs : Cardinality(defs) = 1 /\ CanMoveDef(i, s, d)}

\* The definition takes the slot of the move, with the places it could have
\* had.  Its constants stay where they were, although the words are merged.
MoveDef(i, s, d) ==
  LET r    == Head(bundle[i].ops[s].args)
      rest == Without(bundle[d[1]], d[2])
      def  == [bundle[d[1]].ops[d[2]] EXCEPT
                 !.writes = IF UsesOf(Graph, r) = {<<i, s>>} /\ r \notin Outs THEN {} ELSE @]
      b    == With(bundle[i], s, def)
  IN  IF Used(rest) = {}
      THEN {Merge(Graph, d[1], i, [b EXCEPT !.const0 = ConstsAfter(b, rest, m, 0),
                                            !.const1 = ConstsAfter(b, rest, m, 1)]) :
              m \in const_maps(b, rest)}
      ELSE {[Graph EXCEPT !.bundle[d[1]] = rest, !.bundle[i] = b]}

\* Without room for its constants the word is removed with its edges.
DiscardMove ==
  /\ At1("discard")
  /\ IF MovableDefs(Instr) = {} THEN Same /\ Onward
     ELSE \E d \in MovableDefs(Instr) :
            LET found == MoveDef(Instr, Min(DiscardMoves(bundle[Instr])), d)
            IN  IF found = {} THEN Fail
                ELSE \E g \in found : Becomes(calc_min_dep_info(g)) /\ Again
----------------------------------------------------------------------------
(* peephole_mul_add: an operation in one of the slots for multiplication,  *)
(* and one behind it that takes its result there.                          *)

\* get_single_alu_instr, which must not be a move.
SingleAlu(b) == {s \in Used(b) \cap Alu : Used(b) = {s} /\ b.ops[s].name # "mov"}

\* Slots for the two: the scalar ones if possible.
MulAddSlots(mul, add) ==
  IF 5 \in mul.possible /\ 7 \in add.possible THEN {<<5, 7>>}
  ELSE IF 4 \in mul.possible /\ 6 \in add.possible THEN {<<4, 6>>} ELSE {}

\* The instructions an operation of i may be joined with; the ptrset gives
\* them in any order, and the first decides.
MulAdds(i) ==
  {a \in Behind(min_deps, i) :
     \E s \in SingleAlu(bundle[i]), t \in SingleAlu(bundle[a]) :
       LET mul == bundle[i].ops[s]
           add == bundle[a].ops[t]
       IN  /\ RegOf(mul) \in ToSet(add.args) /\ MulAddSlots(mul, add) # {}
           /\ Head(add.args) = RegOf(mul) \/ add.name \in Commutative}

\* pin_alu_instr
Pinned(op, slot, b) == [b EXCEPT !.ops = slot :> [op EXCEPT !.possible = {slot}]]

JoinMulAdd(i, a) ==
  LET mul   == bundle[i].ops[CHOOSE s \in SingleAlu(bundle[i]) : TRUE]
      add   == bundle[a].ops[CHOOSE s \in SingleAlu(bundle[a]) : TRUE]
      r     == RegOf(mul)
      slots == CHOOSE x \in MulAddSlots(mul, add) : TRUE
      swapped == [add EXCEPT !.args = IF Head(@) = r THEN @ ELSE Reverse(@)]
      first == Pinned(mul, slots[1], bundle[i])
      then  == Pinned(swapped, slots[2], bundle[a])
      Takes(b) == [b EXCEPT !.ops[slots[2]].args[1] = PipeOf[slots[1]]]
      \* a register that nothing reads any more is deleted
      Finish1(g) == IF Unused(g, r) THEN [g EXCEPT !.bundle[i].ops[slots[1]].writes = {}] ELSE g
  IN  IF AfterFits(then, first)
      THEN {[progress |-> TRUE, g |-> Finish1(Merge(Graph, a, i, Takes(b)))] : b \in CombineAfter(then, first)}
      ELSE {[progress |-> FALSE, g |-> [Graph EXCEPT !.bundle[i] = first, !.bundle[a] = then]]}

MulAdd ==
  /\ At1("mul_add")
  /\ IF MulAdds(Instr) = {} THEN Same /\ Onward
     ELSE \E a \in MulAdds(Instr) : \E x \in JoinMulAdd(Instr, a) :
            Becomes(calc_min_dep_info(x.g)) /\ IF x.progress THEN Again ELSE Onward
----------------------------------------------------------------------------
(* peephole_uniform: the load of a uniform moves to the uses of it.        *)

\* find_single_pipeline_move
SingleMoves(b, pipe) ==
  {s \in Used(b) \cap Alu : /\ Used(b) \cap Alu = {s}
                            /\ b.ops[s].name = "mov" /\ b.ops[s].args = <<pipe>>}

LoadsUniform(i) ==
  LET b == bundle[i]
  IN  /\ 3 \in Used(b) /\ b.ops[3].name = "loadu" /\ {1, 2, 9, 10} \cap Used(b) = {}
      /\ \E s \in SingleMoves(b, "uniform") : Cardinality(DefsOf(Graph, RegOf(b.ops[s]))) = 1

\* The operations that can take the value in their own instruction.
UniformUses(i, r) ==
  LET offset == ToSet(bundle[i].ops[3].args)
  IN  {u \in UsesOf(Graph, r) :
         /\ u[2] > 3 /\ 3 \notin Used(bundle[u[1]])
         /\ offset # {} => <<i, u[1]>> \in min_deps
         /\ 1 \in Used(bundle[u[1]]) => bundle[u[1]].ops[1].writes \cap offset = {}}

\* One operation of each instruction gets the value from the copy of the load.
MoveUniform(i, r, uses) ==
  LET Use(g, u) == [g EXCEPT !.bundle[u[1]].ops =
                      (3 :> bundle[i].ops[3]) @@ [@ EXCEPT ![u[2]] = ReadInstead(@, r, "uniform")]]
      g == FoldSet(LAMBDA u, acc : Use(acc, u), Graph, uses)
  IN  IF Unused(g, r) THEN remove_instr(g, i) ELSE g

OnePerInstr(uses) ==
  {S \in SUBSET uses : /\ \A u, v \in S : u[1] = v[1] => u = v
                       /\ {u[1] : u \in S} = {u[1] : u \in uses}}

Uniform ==
  /\ At1("uniform")
  /\ IF ~LoadsUniform(Instr) THEN Same /\ Onward
     ELSE LET r == RegOf(bundle[Instr].ops[CHOOSE s \in Alu \cap Used(bundle[Instr]) : TRUE])
          IN  \E uses \in OnePerInstr(UniformUses(Instr, r)) :
                LET g == MoveUniform(Instr, r, uses)
                IN  /\ Becomes(g)
                    /\ IF Len(g.order) < Len(order) THEN UNCHANGED <<pc, cur, job>> ELSE Onward
----------------------------------------------------------------------------
(* peephole_varying: the load of a varying is copied to all its uses,      *)
(* which are merged before as far as they can be.                          *)

has_texload_use(b, r) ==
  /\ {1, 2} \subseteq Used(b)
  /\ b.ops[1].name = "mov" /\ b.ops[1].writes = {} /\ b.ops[1].args = <<r>>
has_non_texload_use(b, r) == \E s \in Used(b) \ {1} : r \in ToSet(b.ops[s].args)

\* The load takes the place of the move of the coordinates.
ReplacesCoords(b, r) == has_texload_use(b, r) /\ (b.ops[2].name = "texld" \/ ~has_non_texload_use(b, r))

LoadsVarying(i) ==
  LET b == bundle[i]
      r == RegOf(b.ops[1])
      succs == Behind(deps, i)
  IN  /\ Used(b) = {1} /\ b.ops[1].writes # {} /\ b.ops[1].args = <<>>
      /\ Cardinality(DefsOf(Graph, r)) = 1
      /\ succs # {} /\ (Cardinality(succs) = 1 => \A u \in succs : ReplacesCoords(bundle[u], r))

Varying ==
  /\ At1("varying")
  /\ Same
  /\ IF ~(1 \in Used(bundle[Instr]) /\ LoadsVarying(Instr)) THEN Onward
     ELSE /\ pc' = "merge" /\ UNCHANGED cur
          /\ job' = [left |-> Behind(min_deps, Instr), use |-> 0, others |-> {}]

\* The next use, and the instructions it is tried with, in any order.
NextUse ==
  /\ pc = "merge" /\ job.others = {}
  /\ LET left == job.left \ {job.use}
     IN  \E use \in left :
           job' = [left |-> left, use |-> use, others |-> Behind(deps, Instr) \ {use}]
  /\ Same /\ UNCHANGED <<pc, cur>>

\* As the minimal graph is not brought up to date here, other may depend on
\* what depends on use.
MergeUses ==
  /\ pc = "merge"
  /\ \E other \in job.others :
       LET b    == bundle[job.use]
           done == [job EXCEPT !.others = @ \ {other}]
           indep == <<Instr, other>> \in min_deps
           fits == IF indep THEN const_maps(b, bundle[other]) # {} /\ IndepFits(bundle[other], b)
                   ELSE <<job.use, other>> \in min_deps /\ AfterFits(bundle[other], b)
           merged == IF indep THEN CombineIndependent(bundle[other], b) ELSE CombineAfter(bundle[other], b)
       IN  IF fits THEN /\ \E c \in merged : Becomes(Merge(Graph, other, job.use, c))
                        /\ job' = [done EXCEPT !.left = @ \ {other}]
                   ELSE Same /\ job' = done
  /\ UNCHANGED <<pc, cur>>

\* A use whose varying slot is taken gets an instruction before it.
GiveVarying(g, u, r, load) ==
  LET b   == g.bundle[u]
      new == Max(DOMAIN g.bundle) + 1
      own == [load EXCEPT !.writes = IF has_non_texload_use(b, r) THEN {r} ELSE {}]
  IN  IF ReplacesCoords(b, r) THEN [g EXCEPT !.bundle[u] = With(b, 1, own)]
      ELSE IF 1 \notin Used(b) THEN [g EXCEPT !.bundle[u] = With(b, 1, load)]
      ELSE [g EXCEPT !.bundle = (new :> [g.bundle[Instr] EXCEPT !.ops = 1 :> load]) @@ @,
                     !.order = InsertAt(@, SelectInSeq(@, LAMBDA x : x = u), new),
                     !.deps = @ \cup {<<new, u>>}, !.true_deps = @ \cup {<<new, u>>},
                     !.min_deps = @ \cup {<<new, u>>}]

MoveVarying ==
  /\ pc = "merge" /\ job.others = {} /\ job.left \subseteq {job.use}
  /\ LET load == bundle[Instr].ops[1]
         g == FoldSet(LAMBDA u, acc : GiveVarying(acc, u, RegOf(load), load), Graph, Behind(deps, Instr))
     IN  Becomes(calc_min_dep_info(remove_instr(g, Instr)))
  /\ pc' = "varying" /\ cur' = 1 /\ UNCHANGED job
----------------------------------------------------------------------------
(* peephole_texture: uses of a texture sample move to where it is taken.   *)

SchedUses(i, r) == {u[1] : u \in UsesOf(Graph, r)} \ {i}

\* An instruction that samples but has not the one move is not expected.
Texture ==
  /\ At1("texture")
  /\ LET b == bundle[Instr]
     IN  IF 2 \notin Used(b) \/ {9, 10} \cap Used(b) # {} THEN Same /\ Onward
         ELSE IF SingleMoves(b, "sampler") = {} THEN Fail
         ELSE LET move == CHOOSE s \in SingleMoves(b, "sampler") : TRUE
                  uses == SchedUses(Instr, RegOf(b.ops[move]))
              IN  /\ pc' = "sample" /\ Same /\ UNCHANGED cur
                  /\ job' = [left |-> uses, uses |-> uses, move |-> move, reg |-> RegOf(b.ops[move])]

\* With a single use the move is not needed, and its slot is free for the use.
LastUse(use) ==
  /\ job.uses = {use} /\ job.reg \notin Outs
  /\ \A u \in UsesOf(Graph, job.reg) : u[2] \notin {9, 10}

SampleUse ==
  /\ pc = "sample"
  /\ \E use \in job.left :
       LET b == IF LastUse(use) THEN Without(bundle[Instr], job.move) ELSE bundle[Instr]
           FromSampler(c) ==
             [c EXCEPT !.ops = [s \in DOMAIN @ |-> IF s \in Alu THEN ReadInstead(@[s], job.reg, "sampler") ELSE @[s]]]
           done == [job EXCEPT !.left = @ \ {use}]
       IN  IF <<Instr, use>> \in min_deps /\ AfterFits(bundle[use], b)
           THEN /\ \E c \in CombineAfter(bundle[use], b) : Becomes(Merge(Graph, use, Instr, FromSampler(c)))
                /\ job' = [done EXCEPT !.uses = @ \ {use}]
           ELSE Same /\ job' = done
  /\ UNCHANGED <<pc, cur>>

EndSample ==
  /\ pc = "sample" /\ job.left = {}
  /\ pc' = "texture" /\ cur' = cur + 1 /\ Same /\ UNCHANGED job
----------------------------------------------------------------------------
(* A scheduler puts an instruction in front when all its successors are in *)
(* the new list; which one of those goes first is its own affair.          *)

StartList ==
  /\ pc = "texture" /\ cur > Len(order)
  /\ pc' = "list" /\ Becomes([Graph EXCEPT !.order = <<>>])
  /\ UNCHANGED <<cur, job>>

ListReady == {i \in DOMAIN bundle \ ToSet(order) : Behind(deps, i) \subseteq ToSet(order)}

List ==
  /\ pc = "list"
  /\ \E i \in ListReady : Becomes([Graph EXCEPT !.order = <<i>> \o @])
  /\ UNCHANGED <<pc, cur, job>>

EndList ==
  /\ pc = "list" /\ ListReady = {}
  /\ pc' = "done" /\ Same /\ UNCHANGED <<cur, job>>

PeepholeInit == Init /\ job = <<>>

PeepholeNext ==
  \/ Analyse /\ UNCHANGED job
  \/ StartPeephole
  \/ DiscardMove \/ EndPass("discard", "mul_add")
  \/ MulAdd \/ EndPass("mul_add", "uniform")
  \/ Uniform \/ EndPass("uniform", "varying")
  \/ Varying \/ NextUse \/ MergeUses \/ MoveVarying \/ EndPass("varying", "texture")
  \/ Texture \/ SampleUse \/ EndSample
  \/ StartList \/ List \/ EndList

PeepholeSpec == PeepholeInit /\ [][PeepholeNext]_peepholeVars
----------------------------------------------------------------------------
(* What is left computes what the block computed, in every order the graph *)
(* allows: no use comes before its value, no load has moved behind a       *)
(* change of what it reads, no merge has closed a cycle (then instructions *)
(* are missing from the list), and the optimizer does not run into an      *)
(* instruction it has not expected (peephole.c:702).                       *)
PeepholePreserves ==
  LET Observed(x) == [x EXCEPT !.regs = [c \in Outs |-> @[c]]]
  IN  /\ pc # "failed"
      /\ pc = "done" => Observed(Meaning([k \in DOMAIN order |-> bundle[order[k]]]))
                          = Observed(Meaning(block))
=============================================================================
