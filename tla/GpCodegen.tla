----------------------------- MODULE GpCodegen ------------------------------
(***************************************************************************)
(* What a scheduled block does when it runs, as gp_ir/codegen.c emits it:  *)
(* an operand names a unit of one of the last two instructions or a load   *)
(* slot of this one or the last, never the node that computed it.  Whether *)
(* the right value is there is up to the schedule.                         *)
(*                                                                         *)
(* Values are terms: an operation applied to terms, or what was read.  The *)
(* state of a run maps the places written to terms: register components,   *)
(* offset registers, components of varyings and temporaries, and <<>> for  *)
(* the condition of the branch.                                            *)
(***************************************************************************)
EXTENDS GpSchedule

Absent == <<"absent">>          \* no source, an empty unit or an unsettled register
Find(f, x) == IF x \in DOMAIN f THEN f[x] ELSE Absent

RegPlace(p, r, c) == <<"reg", p.phys[r][1], p.phys[r][2] + c>>
OffPlace(reg) == <<OffStore(reg)>>

\* A move hands its operand on; a uniform is read at an index and an offset.
Term(p, n, args) == IF Op(p, n) = "mov" THEN args[1] ELSE <<Op(p, n), args>>
Uniform(index, c, offset) == <<"load_uniform", index, c, offset>>

\* What a root leaves behind: V gives the value of an operand that is stored as
\* it is, A that of one which goes through a unit.
Effect(p, root, V(_), A(_)) ==
    LET x == p.node[root]
        Slots == { i \in 1..4 \cap DOMAIN x.kids : x.kids[i] # Nil }
        PlaceOf(i) == CASE x.op = "store_reg" -> RegPlace(p, x.reg, i - 1)
                        [] x.op = "store_varying" -> <<"varying", x.idx, i - 1>>
                        [] x.op = "store_temp" -> <<"temp", A(x.kids[5]), i - 1>>
    IN  IF x.op \in Stores
        THEN [ l \in { PlaceOf(i) : i \in Slots } |-> V(x.kids[CHOOSE i \in Slots : l = PlaceOf(i)]) ]
        ELSE (IF x.op = "branch_cond" THEN <<>> ELSE <<x.op>>) :> A(x.kids[1])
-----------------------------------------------------------------------------
(* The meaning of the block: every node in front of its successor.         *)

RECURSIVE ValueOf(_, _, _)
ValueOf(p, st, n) ==
    LET x == p.node[n]
        Now(l) == Find(st.places, l)
    IN  CASE n \in DOMAIN st.val -> st.val[n]
          [] n \notin DOMAIN st.val /\ x.op = "load_reg" ->
                LET l == RegPlace(p, x.reg, x.idx) IN IF Now(l) = Absent THEN l ELSE Now(l)
          [] n \notin DOMAIN st.val /\ x.op = "load_uniform" ->
                Uniform(x.idx[1], x.idx[2], IF x.idx[3] = Nil THEN Nil ELSE Now(OffPlace(x.idx[3])))
          [] n \notin DOMAIN st.val /\ x.op \in {"load_attribute", "load_temp"} -> <<x.op, x.idx>>
          [] OTHER -> Term(p, n, [i \in DOMAIN x.kids |-> ValueOf(p, st, x.kids[i])])

BlockMeaning(p) ==
    LET Evaluate(st, root) ==
            LET val == [ n \in { m \in DOMAIN p.node : p.node[m].succ = root } \ {root}
                         |-> ValueOf(p, st, n) ] @@ st.val
                V(n) == val[n]
            IN  [places |-> Effect(p, root, V, V) @@ st.places, val |-> val]
    IN  FoldLeft(Evaluate, [places |-> <<>>, val |-> <<>>], RootSeq(p)).places
-----------------------------------------------------------------------------
(* The machine, one instruction at a time.                                 *)

\* The unit a node was scheduled to.
UnitOf(p, n, pos) ==
    LET op == Op(p, n)
        moving == << <<"add", 1>>, <<"add", 2>>, <<"mul", 2>>, <<"mul", 1>>, <<"complex">>, <<"pass">> >>
    IN  CASE op \in {"mov", "neg"} -> moving[pos + 1]
          [] op = "mul" -> moving[pos + 3]
          [] op \in {"select", "complex1", "complex2"} -> <<"mul", 1>>
          [] op \in {"preexp2", "postlog2"} -> <<"pass">>
          [] op \in Complexes -> <<"complex">>
          [] OTHER -> <<"add", pos + 1>>

\* The value an operand names: st.last and st.second are what the last two
\* instructions left, st.loaded what this one loads.
get_alu_input(b, st, parent, child) ==
    LET apart == b.at[child] - b.at[parent]
        x == b.p.node[child]
        unit == UnitOf(b.p, child, b.pos[child])
        AttrOrReg(c) == Find(IF apart = 0 THEN st.loaded ELSE st.last, <<"attr_reg", c>>)
    IN  CASE x.op = "load_uniform" -> Find(st.loaded, <<"uniform", x.idx[2]>>)
          [] x.op = "load_attribute" -> AttrOrReg(x.idx[2])
          [] x.op = "load_reg" ->
                LET c == b.p.phys[x.reg][2] + x.idx
                IN  IF b.pos[child] = 0 THEN Find(st.loaded, <<"reg", c>>) ELSE AttrOrReg(c)
          [] x.op = "load_temp" -> Absent
          [] OTHER -> CASE apart = 1 -> Find(st.last, unit)
                        [] apart = 2 /\ unit # <<"complex">> -> Find(st.second, unit)
                        [] OTHER -> Absent

\* A write can be read `delay' instructions on; until then there is nothing to rely on.
Settled(st, l, j, delay) ==
    IF l \in DOMAIN st.by /\ st.by[l] - j < delay THEN Absent ELSE Find(st.places, l)

LoadedBy(b, st, j) ==
    LET i == b.instrs[j + 1]
        Slots == { s \in {"uniform", "attr_reg", "reg"} : i[s].nodes # <<>> }
        InReg(l) == IF l \in DOMAIN st.by THEN Settled(st, l, j, 3) ELSE l
        From(key, c) == CASE key[1] = "physical" -> InReg(<<"reg", key[2], c>>)
                          [] key[1] = "attribute" -> <<"load_attribute", <<key[2], c>>>>
                          [] key[1] = "load_temp" -> <<"load_temp", <<key[2], c, key[3]>>>>
                          [] key[1] = "load_uniform" ->
                                Uniform(key[2], c, IF key[3] = Nil THEN Nil
                                                   ELSE Settled(st, OffPlace(key[3]), j, 4))
    IN  [ sc \in Slots \X Component |-> From(i[sc[1]].key, sc[2]) ]

\* The units compute side by side; those a store or a branch takes hold no value.
Computed(b, st, j) ==
    LET i == b.instrs[j + 1]
        Units == { <<u, k>> : u \in {"mul", "add"}, k \in 1..2 } \cup {<<"complex">>, <<"pass">>}
        In(u) == IF Len(u) = 2 THEN i[u[1]][u[2]] ELSE i[u[1]]
        Args(n) == [k \in DOMAIN b.p.node[n].kids |-> get_alu_input(b, st, n, b.p.node[n].kids[k])]
    IN  [ u \in { v \in Units : In(v) # Nil /\ is_alu_node(b.p, In(v)) } |-> Term(b.p, In(u), Args(In(u))) ]

\* Stores take what the units of their own instruction hold.
StoreEffect(b, st, units, n) ==
    Effect(b.p, n, LAMBDA c : Find(units, UnitOf(b.p, c, b.pos[c])), LAMBDA c : get_alu_input(b, st, n, c))

RunInstr(b, st, j) ==
    LET i == b.instrs[j + 1]
        s == [st EXCEPT !.loaded = LoadedBy(b, st, j)]
        units == Computed(b, s, j)
        effects == ToSet(i.store) \cup ({i.branch, i.complex} \ {Nil})
        written == FoldSet(LAMBDA n, f : IF is_alu_node(b.p, n) /\ Op(b.p, n) \notin OffStores THEN f
                                         ELSE StoreEffect(b, s, units, n) @@ f, <<>>, effects)
    IN  [ s EXCEPT !.places = written @@ @, !.by = [l \in DOMAIN written |-> j] @@ @,
                   !.second = st.last, !.last = units @@ s.loaded ]

\* The branch leaves the block.
Machine(b) ==
    LET exit == Max({0} \cup { j \in 0..(Len(b.instrs) - 1) : b.instrs[j + 1].branch # Nil })
        order == [k \in 1..(Len(b.instrs) - exit) |-> Len(b.instrs) - k]
    IN  FoldLeft(LAMBDA st, j : RunInstr(b, st, j),
                 [places |-> <<>>, by |-> <<>>, loaded |-> <<>>, last |-> <<>>, second |-> <<>>],
                 order).places
-----------------------------------------------------------------------------
\* The code of a block does what the block means: nothing is lost, read too early
\* or too late, or overwritten while a unit, a slot or a register is shared.
\* (The registers the scheduler took for itself are its own.)
MachineMeaning ==
    BlockScheduled =>
        LET meaning == BlockMeaning(source)
            machine == Machine(block)
        IN  /\ DOMAIN meaning \subseteq DOMAIN machine
            /\ \A l \in DOMAIN meaning : machine[l] = meaning[l]

\* The units reserved for the values of the stores are there (assertions in
\* instr_try_insert_node and instr_remove_alu_node), whatever moves come and go.
StoresHaveRoom == \A i \in ToSet(block.instrs) : ReservationFits(i)

\* With a register for what moves cannot carry, every block can be scheduled: the
\* loop of restarts comes to an end.
NeverAbandoned == ~ Abandoned
=============================================================================
