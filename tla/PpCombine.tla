------------------------------ MODULE PpCombine ------------------------------
(***************************************************************************)
(* The last scheduler of the fragment backend: pp_lir/combine_scheduler.c, *)
(* which merges instructions as it inserts them (pp_lir/instr_combine.c),  *)
(* over the graph of PpDepInfo.                                            *)
(*                                                                         *)
(* An instruction is what PpBundles makes of it: ops gives the operations  *)
(* of the slots that are in use.  An operation reads and writes channels   *)
(* of registers and pipeline registers (which last as long as the          *)
(* instruction runs), and constants by their place in const0 or const1.    *)
(***************************************************************************)
EXTENDS PpDepInfo, PpBundles, FiniteSetsExt

CONSTANT ConstSize    \* constants that fit in const0 or in const1 (4)

VARIABLES bundle,     \* the instructions as they are now
          max_dist, queue, visited,
          order       \* the new instr_list

combineVars == <<bundle, max_dist, queue, visited, order>>
vars == <<depVars, combineVars>>

Used(b) == DOMAIN b.ops
Consts(b, reg) == IF reg = 0 THEN b.const0 ELSE b.const1

(* What linear_to_scheduled.c makes: the slots tell what the operations do,*)
(* and of two ALU operations of one instruction, none may move.            *)
IsBundle(x) ==
  /\ DOMAIN x = {"ops", "slots", "load", "store", "branch", "const0", "const1"}
  /\ Used(x) \subseteq 1..10 /\ DOMAIN x.slots = 1..10
  /\ \A s \in Used(x) :
       /\ DOMAIN x.ops[s] = {"name", "args", "writes", "temp", "possible", "consts"}
       /\ ReadsOf(x.ops[s]) = x.slots[s].reads /\ x.ops[s].writes = x.slots[s].writes
       /\ x.ops[s].temp = "load" => x.load
       /\ x.ops[s].temp = "store" => x.store
       /\ x.ops[s].temp \in {"none", "load", "store"}
  /\ \A s, t \in Used(x) \cap Alu : s # t => x.ops[s].possible = {s}

\* Whether no two instructions meet in the slots of stores and of branches,
\* which nothing but an edge between them keeps from being used twice.
EndsApart(b) ==
  \A i, j \in DOMAIN b : i # j =>
    /\ 10 \notin Used(b[i]) \cap Used(b[j])
    /\ 9 \in Used(b[i]) \cap Used(b[j]) =>
         b[i].ops[9].temp = "store" /\ b[j].ops[9].temp = "store"

CombineAssumption ==
  \A b \in Blocks : /\ Len(b) \in Nat \ {0} /\ DOMAIN b = 1..Len(b)
                    /\ \A n \in DOMAIN b : IsBundle(b[n])

----------------------------------------------------------------------------
\* lima_pp_lir_instr_can_swap; pipeline registers do not count.
can_swap(before, after) ==
  /\ before.writes \cap (ReadsOf(after) \cup after.writes) = {}
  /\ after.writes \cap ReadsOf(before) = {}
  /\ before.temp = "store" => after.temp = "none"
  /\ after.temp = "store" => before.temp = "none"

(* Constants.  The constants of a register of the old instruction that the *)
(* new one's have not got are appended to them, behind `used' others.      *)
ConstPlaces(have, used, want) ==
  [i \in DOMAIN want |->
     IF want[i] \in ToSet(have) THEN SelectInSeq(have, LAMBDA c : c = want[i])
     ELSE Len(have) + used + Cardinality({k \in 1..i : want[k] \notin ToSet(have)})]

Missing(have, want) == SelectSeq(want, LAMBDA c : c \notin ToSet(have))

ConstsFit(have, used, want) == Len(have) + used + Len(Missing(have, want)) <= ConstSize

\* The registers of `new' the constants of `old' fit in, const0 before const1:
\* for both registers of `old' at once, since they share what is left.
const_maps(new, old) ==
  LET used(to0, reg) == IF to0 = reg THEN Len(Missing(Consts(new, reg), old.const0)) ELSE 0
      fits0(r) == ConstsFit(Consts(new, r), 0, old.const0)
      fits1(to0, r) == ConstsFit(Consts(new, r), used(to0, r), old.const1)
  IN  {m \in [to0 : {0, 1}, to1 : {0, 1}] :
         /\ fits0(m.to0) /\ (m.to0 = 1 => ~fits0(0))
         /\ fits1(m.to0, m.to1) /\ (m.to1 = 1 => ~fits1(m.to0, 0))}

\* What apply_const_map makes of const0 (reg 0) or const1 of `new'.
ConstsAfter(new, old, m, reg) ==
  Consts(new, reg)
    \o (IF m.to0 = reg THEN Missing(Consts(new, reg), old.const0) ELSE <<>>)
    \o (IF m.to1 = reg THEN Missing(Consts(new, reg), old.const1) ELSE <<>>)

\* rewrite_consts.  The place of a constant of const1 is looked up in front of
\* const_map (index swizzle - 4): the result is `junk', whatever lies there.
rewrite_consts(op, new, old, m, junk) ==
  LET places == ConstPlaces(Consts(new, m.to0), 0, old.const0)
  IN  [op EXCEPT !.consts =
         [k \in DOMAIN @ |->
            IF @[k].reg = 0 THEN [reg |-> m.to0, at |-> places[@[k].at]]
                            ELSE [reg |-> m.to1, at |-> junk]]]

----------------------------------------------------------------------------
(* Slots for the ALU operations of `old' among those of `new', from the    *)
(* last to the first.                                                      *)

InConflict(new, slot, op) == slot \in Used(new) /\ ~can_swap(op, new.ops[slot])

\* Slip: that 4 and 5, and 6 and 7, run in parallel is forgotten.
LimitInSequence(new, op, end) ==
  Min({end} \cup {s \in Alu : s < end /\ InConflict(new, s, op)})

\* The slot that op must run before: the first that holds something it may
\* not change places with, or the one that runs in parallel with it.
Limit(new, op, end) ==
  LET first == Min({end} \cup {s \in Alu : s < end /\ InConflict(new, s, op)})
  IN  IF first \in {5, 7} /\ InConflict(new, first, op) THEN first - 1 ELSE first

\* Operations that run in parallel and could not run one after the other.
Paired(old, slot) ==
  \E pair \in {{4, 5}, {6, 7}} :
    /\ slot \in pair /\ pair \subseteq Used(old)
    /\ ~can_swap(old.ops[Min(pair)], old.ops[Max(pair)])

Places(old, new, slot, limit) ==
  {s \in Alu \ Used(new) :
     s < limit /\ IF Paired(old, slot) THEN s = slot ELSE s \in old.ops[slot].possible}

\* In front of the later operations.
LaterEnd(later) == Min({9} \cup {later[s] : s \in DOMAIN later})

AluLimit(old, new, limits, slot, later) ==
  IF limits THEN Limit(new, old.ops[slot], LaterEnd(later)) ELSE LaterEnd(later)

\* The operation of one slot is placed in front of the later ones, if it can be.
PlaceAlu(old, new, limits, slot, later) ==
  LET places == Places(old, new, slot, AluLimit(old, new, limits, slot, later))
  IN  IF slot \notin Used(old) \/ places = {} THEN later
      ELSE [s \in {slot} \cup DOMAIN later |-> IF s = slot THEN Max(places) ELSE later[s]]

\* The slots of the operations of `old' that have one, from the last to the first.
AluMap(old, new, limits) ==
  LET place(slot, later) == PlaceAlu(old, new, limits, slot, later)
  IN  place(4, place(5, place(6, place(7, place(8, <<>>)))))

AluFits(old, new, limits) == DOMAIN AluMap(old, new, limits) = Used(old) \cap Alu

\* Slip: an ALU operation is only compared with the other ALU operations.
BeforeFitsAlu(before, new) ==
  /\ AluFits(before, new, TRUE)
  /\ \A s \in Used(before) \ Alu :
       s \notin Used(new) /\ \A t \in Used(new) : t < s => can_swap(before.ops[s], new.ops[t])

\* combine_before: whatever of `new' runs before an operation of `before' must
\* be able to change places with it.
BeforeFits(before, new) ==
  /\ AluFits(before, new, TRUE)
  /\ \A s \in Used(before) \cap Alu : \A t \in Used(new) \cap 1..3 :
       can_swap(before.ops[s], new.ops[t])
  /\ \A s \in Used(before) \ Alu :
       s \notin Used(new) /\ \A t \in Used(new) : t < s => can_swap(before.ops[s], new.ops[t])

\* combine_indep: the tests for texld, temp_store and branch are not about
\* the slots of `new' (878, 951, 957).
IndepFits(other, new) ==
  /\ AluFits(other, new, FALSE)
  /\ 2 \notin Used(other)
  /\ {1, 3} \cap Used(other) \cap Used(new) = {}

\* `new' with the operations of `old', each in its slot, where it stays.
Merged(old, new, at, m, junk) ==
  LET to   == [s \in Used(old) |-> IF s \in Alu THEN at[s] ELSE s]
      came == {to[s] : s \in Used(old)}
  IN  [new EXCEPT
         !.const0 = ConstsAfter(new, old, m, 0),
         !.const1 = ConstsAfter(new, old, m, 1),
         !.ops = [t \in Used(new) \cup came |->
                    IF t \in came
                    THEN [rewrite_consts(old.ops[CHOOSE s \in Used(old) : to[s] = t],
                                         new, old, m, junk) EXCEPT !.possible = {}]
                    ELSE new.ops[t]]]

\* Slip: the edges of the other instruction are not handed over.
combine_deps_none(E, i, into) == E \ {<<i, into>>, <<into, i>>}

\* remove_dep and combine_deps: `into' takes over the edges of i.
combine_deps(E, i, into) ==
  LET name(j) == IF j = i THEN into ELSE j
  IN  {<<name(e[1]), name(e[2])>> : e \in E} \ {<<into, into>>}

----------------------------------------------------------------------------
Init ==
  /\ DepInit
  /\ bundle = block
  /\ max_dist = <<>> /\ queue = {} /\ visited = {} /\ order = <<>>

Analyse ==
  /\ AddDepInstr \/ CalcMinDepInfo
  /\ UNCHANGED combineVars

\* calc_max_dist, the predecessors of an instruction met in any order.
MaxDist(i) ==
  {FoldLeft(LAMBDA d, p : Max({d, max_dist[p]}) + 1, 0, preds) :
     preds \in SetToSeqs(Preds(deps, i))}

CalcMaxDist ==
  /\ pc = "schedule"
  /\ \E d \in MaxDist(cur) : max_dist' = max_dist @@ (cur :> d)
  /\ Advance("pull")
  /\ queue' = IF pc' = "pull" THEN {i \in Instrs : Succs(deps, i) = {}} ELSE queue
  /\ UNCHANGED <<block, deps, true_deps, min_deps, bundle, visited, order>>

At(i) == SelectInSeq(order, LAMBDA x : x = i)

\* Where the first successor of i is in the list: the one of largest index.
\* Without one, behind the end of the list.
LatestSucc(i) == Min({Len(order) + 1} \cup {At(s) : s \in Succs(deps, i)})

CanCombineBefore(i) ==
  /\ Succs(deps, i) # {}
  /\ LET into == bundle[order[LatestSucc(i)]]
     IN  const_maps(into, bundle[i]) # {} /\ BeforeFits(bundle[i], into)

\* The places in the list, in front of all successors, whose instruction can
\* take i in.
IndepPlaces(i) ==
  {k \in 1..(LatestSucc(i) - 1) :
     /\ const_maps(bundle[order[k]], bundle[i]) # {}
     /\ IndepFits(bundle[i], bundle[order[k]])}

\* i becomes part of `into' and is deleted.
MergeInto(i, into, limits) ==
  /\ \E m \in const_maps(bundle[into], bundle[i]), junk \in 1..ConstSize :
       bundle' = [bundle EXCEPT
         ![into] = Merged(bundle[i], @, AluMap(bundle[i], @, limits), m, junk)]
  /\ deps' = combine_deps(deps, i, into)
  /\ UNCHANGED order

\* Pulled i is visited; its predecessors may now be ready.  (The graph true
\* and minimal edges are not looked at any more.)
Pulled(i) ==
  /\ visited' = visited \cup {i}
  /\ queue' = (queue \ {i})
                \cup {p \in Preds(deps, i) : Succs(deps', p) \subseteq visited'}
  /\ UNCHANGED <<block, pc, cur, true_deps, min_deps, max_dist>>

Ready(i) == pc = "pull" /\ i \in queue /\ \A o \in queue : max_dist[i] >= max_dist[o]

CombineBefore(i) ==
  /\ Ready(i) /\ CanCombineBefore(i)
  /\ MergeInto(i, order[LatestSucc(i)], TRUE)
  /\ Pulled(i)

CombineIndep(i) ==
  /\ Ready(i) /\ ~CanCombineBefore(i) /\ IndepPlaces(i) # {}
  /\ MergeInto(i, order[Max(IndepPlaces(i))], FALSE)
  /\ Pulled(i)

InsertStart(i) ==
  /\ Ready(i) /\ ~CanCombineBefore(i) /\ IndepPlaces(i) = {}
  /\ order' = <<i>> \o order
  /\ UNCHANGED <<deps, bundle>>
  /\ Pulled(i)

Finish ==
  /\ pc = "pull" /\ queue = {}
  /\ pc' = "done"
  /\ UNCHANGED <<block, cur, deps, true_deps, min_deps, combineVars>>

Done == pc = "done" /\ UNCHANGED vars

Next ==
  \/ Analyse \/ CalcMaxDist
  \/ \E i \in Instrs : CombineBefore(i) \/ CombineIndep(i) \/ InsertStart(i)
  \/ Finish \/ Done

Spec == Init /\ [][Next]_vars

----------------------------------------------------------------------------
(* The meaning of a list of instructions: what is left in the registers,   *)
(* in the temporaries, and what went to the frame buffer and the branches. *)
(* A value is named by its operation and what that has read.               *)

Stages == <<{1}, {2}, {3}, {4, 5}, {6, 7}, {8}, {9}, {10}>>

Commutative == {"add", "mul", "max"}

\* What a move takes from one place is the same value in the other.
Value(b, op, st) ==
  LET args == [k \in DOMAIN op.args |-> st.regs[op.args[k]]]
  IN  IF op.name = "mov" /\ args # <<>> THEN Head(args)
      ELSE << op.name, IF op.name \in Commutative THEN ToSet(args) ELSE args,
              [k \in DOMAIN op.consts |-> Consts(b, op.consts[k].reg)[op.consts[k].at]],
              IF op.temp = "load" THEN st.temps ELSE <<>> >>

RunStage(b, st, stage) ==
  LET slots == stage \cap Used(b)
      written(c) == {s \in slots : c \in b.ops[s].writes \/ (s \in DOMAIN PipeOf /\ c = PipeOf[s])}
      value(s) == Value(b, b.ops[s], st)
      Part(s, c) == IF Cardinality(b.ops[s].writes) <= 1 THEN value(s) ELSE <<value(s), c>>
  IN  [regs |-> [c \in DOMAIN st.regs |->
                   IF written(c) = {} THEN st.regs[c]
                   ELSE Part(CHOOSE s \in written(c) : TRUE, c)],
       temps |-> IF \E s \in slots : b.ops[s].temp = "store"
                 THEN <<value(CHOOSE s \in slots : TRUE), st.temps>> ELSE st.temps,
       out |-> IF \E s \in slots : s >= 9 /\ b.ops[s].temp = "none"
               THEN Append(st.out, value(CHOOSE s \in slots : TRUE)) ELSE st.out]

\* One instruction: its pipeline registers are gone at the end.
RunBundle(b, st) ==
  LET start == [st EXCEPT !.regs = [p \in Pipes |-> <<>>] @@ @]
  IN  FoldLeft(LAMBDA x, stage : RunStage(b, x, stage), start, Stages)

Meaning(bundles) ==
  LET start == [regs |-> [c \in Chans |-> <<c>>], temps |-> <<>>, out |-> <<>>]
      end   == FoldLeft(LAMBDA st, b : RunBundle(b, st), start, bundles)
  IN  [end EXCEPT !.regs = [c \in Chans |-> @[c]]]

----------------------------------------------------------------------------
(* The list the scheduler leaves computes what the block computed: merging *)
(* never lets an operation see a value it would not have seen, nor loses   *)
(* one, whatever slots lima_pp_lir_instr_combine_before and _indep find.   *)
CombinePreserves ==
  pc = "done" => Meaning([k \in DOMAIN order |-> bundle[order[k]]]) = Meaning(block)

(* An edge between instructions that have been inserted leads forward in   *)
(* the list, and none leads to or from an instruction that was merged into *)
(* another and deleted: a later search for the latest successor would      *)
(* follow it into freed memory or insert too far back.                     *)
EdgesFollowList ==
  pc = "pull" =>
    \A e \in deps :
      /\ e[1] \in visited => e[1] \in ToSet(order)
      /\ e[2] \in visited => e[2] \in ToSet(order)
      /\ {e[1], e[2]} \subseteq visited => At(e[1]) < At(e[2])
=============================================================================
