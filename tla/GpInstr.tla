------------------------------ MODULE GpInstr -------------------------------
(***************************************************************************)
(* An instruction of the geometry processor as the scheduler fills it      *)
(* (gp_ir/instr.c): two multipliers, two adders, the complex and the pass  *)
(* unit, the shared load of a uniform or temporary, of an attribute or     *)
(* register, of a register, the stores and the branch.                     *)
(*                                                                         *)
(* A store takes its values from units of its own instruction.  They are   *)
(* scheduled after it, so the units they will need are reserved:           *)
(* `unscheduled' counts them.                                              *)
(***************************************************************************)
EXTENDS GpDeps

\* A slot shared by loads: the nodes, and what all of them load.
NoLoads == [nodes |-> <<>>, key |-> None]

EmptyInstr ==
    [ mul |-> <<Nil, Nil>>, add |-> <<Nil, Nil>>, complex |-> Nil, pass |-> Nil,
      uniform |-> NoLoads, attr_reg |-> NoLoads, reg |-> NoLoads,
      branch |-> Nil, store |-> <<>>, mask |-> {}, unscheduled |-> 0 ]

\* add, mov and neg share an opcode, and so do mul, mov and neg.
pair_ok(shared, op, other) == op = other \/ {op, other} \subseteq shared

add_pos_ok(p, instr, op, k) ==
    /\ instr.add[k + 1] = Nil
    /\ instr.add[2 - k] # Nil => pair_ok({"add", "mov", "neg"}, op, Op(p, instr.add[2 - k]))

mul_pos_ok(p, instr, op, k) ==
    /\ instr.mul[k + 1] = Nil
    /\ LET other == instr.mul[2 - k]
       IN  other # Nil =>
               \/ k = 1 /\ Op(p, other) = "complex2" /\ op \in {"mov", "mul", "neg"}
               \/ k = 0 /\ op = "complex2" /\ Op(p, other) \in {"mov", "mul", "neg"}
               \/ pair_ok({"mul", "mov", "neg"}, op, Op(p, other))

\* The units an arithmetic node may take at a sched_pos: {} if it has no place.
Unit(kind, k) == <<kind, k + 1>>
MulUnit(p, instr, op, k) == IF mul_pos_ok(p, instr, op, k) THEN {Unit("mul", k)} ELSE {}
AddUnit(p, instr, op, k) == IF add_pos_ok(p, instr, op, k) THEN {Unit("add", k)} ELSE {}
FreeUnit(instr, kind) == IF instr[kind] = Nil THEN {<<kind>>} ELSE {}

\* The first multiplier is kept for complex2 as long as possible.
UnitsFor(p, instr, n, k) ==
    LET op == Op(p, n)
    IN  CASE op \in {"mov", "neg"} /\ k < 2 -> AddUnit(p, instr, op, k)
          [] op \in {"mov", "neg"} /\ k \in 2..3 -> MulUnit(p, instr, op, 3 - k)
          [] op = "mov" /\ k = 4 -> FreeUnit(instr, "complex")
          [] op = "mov" /\ k = 5 -> FreeUnit(instr, "pass")
          [] op = "mul" -> MulUnit(p, instr, op, 1 - k)
          [] op \in {"select", "complex1"} ->
                IF instr.mul = <<Nil, Nil>> THEN {Unit("mul", 0), Unit("mul", 1)} ELSE {}
          [] op = "complex2" -> MulUnit(p, instr, op, 0)
          [] op \in {"add", "floor", "sign", "ge", "lt", "min", "max"} -> AddUnit(p, instr, op, k)
          [] op \in {"preexp2", "postlog2"} -> FreeUnit(instr, "pass")
          [] op \in Complexes \cup OffStores -> FreeUnit(instr, "complex")

Take(instr, n, units) ==
    [instr EXCEPT !.mul = [k \in 1..2 |-> IF <<"mul", k>> \in units THEN n ELSE @[k]],
                  !.add = [k \in 1..2 |-> IF <<"add", k>> \in units THEN n ELSE @[k]],
                  !.complex = IF <<"complex">> \in units THEN n ELSE @,
                  !.pass = IF <<"pass">> \in units THEN n ELSE @]

\* The register a slot is addressed by (get_reg_index).
RegKey(p, r) == IF p.phys[r] # None THEN <<"physical", p.phys[r][1]>> ELSE <<"virtual", r>>

\* The slot a load goes to, and what the slot has to load for it.
LoadSlot(p, n, k) ==
    CASE Op(p, n) \in {"load_uniform", "load_temp"} -> "uniform"
      [] Op(p, n) = "load_reg" /\ k = 0 -> "reg"
      [] OTHER -> "attr_reg"
LoadKey(p, n) ==
    CASE Op(p, n) \in {"load_uniform", "load_temp"} ->
            <<Op(p, n), p.node[n].idx[1], p.node[n].idx[3]>>
      [] Op(p, n) = "load_attribute" -> <<"attribute", p.node[n].idx[1]>>
      [] OTHER -> RegKey(p, p.node[n].reg)

\* What a store writes to; stores to one varying or register share the slot.
StoreKey(p, n) ==
    CASE Op(p, n) = "store_temp" -> <<"temp", n>>
      [] Op(p, n) = "store_varying" -> <<"varying", p.node[n].idx>>
      [] OTHER -> RegKey(p, p.node[n].reg)

StoreFits(p, instr, n) ==
    /\ Op(p, n) = "store_temp" => instr.complex = Nil
    /\ instr.store # <<>> =>
           /\ StoreKey(p, n) = StoreKey(p, Head(instr.store))
           /\ Written(p, n) \cap instr.mask = {}

\* The places node n may take in an instruction: at most one.
try_insert_node(p, instr, n, k) ==
    CASE Op(p, n) \in Loads ->
            LET slot == LoadSlot(p, n, k)
            IN  IF instr[slot].nodes # <<>> /\ instr[slot].key # LoadKey(p, n) THEN {}
                ELSE {[instr EXCEPT ![slot] = [nodes |-> Append(@.nodes, n), key |-> LoadKey(p, n)]]}
      [] Op(p, n) \in Stores ->
            IF ~ StoreFits(p, instr, n) THEN {}
            ELSE {[instr EXCEPT !.store = Append(@, n), !.mask = @ \cup Written(p, n),
                                !.complex = IF Op(p, n) = "store_temp" THEN n ELSE @]}
      [] Op(p, n) = "branch_cond" ->
            IF instr.branch = Nil /\ instr.pass = Nil
            THEN {[instr EXCEPT !.branch = n, !.pass = n]} ELSE {}
      [] OTHER ->
            LET units == UnitsFor(p, instr, n, k)
            IN  IF units = {} THEN {} ELSE {Take(instr, n, units)}

num_free_alu_nodes(instr) ==
    Cardinality({ k \in 1..2 : instr.mul[k] = Nil }) + Cardinality({ k \in 1..2 : instr.add[k] = Nil })
        + Cardinality({ u \in {"complex", "pass"} : instr[u] = Nil })

is_alu_node(p, n) == Op(p, n) \notin Loads \cup Stores \cup {"branch_cond"}

is_store_child(p, instr, n) ==
    \E s \in ToSet(instr.store) : \E i \in 1..4 : p.node[s].kids[i] = n

num_components(p, n) == IF Op(p, n) \in Stores THEN Cardinality(Written(p, n)) ELSE 0

\* Room for what the node itself reserves, and for what is reserved already.
RoomFor(p, instr, n) ==
    /\ num_components(p, n) > 0 => instr.unscheduled + num_components(p, n) <= num_free_alu_nodes(instr)
    /\ is_alu_node(p, n) /\ ~ is_store_child(p, instr, n) => instr.unscheduled # num_free_alu_nodes(instr)

\* Slip: the reservation stays when the value is there.
InsertAndReserve(p, instr, n, k) ==
    IF ~ RoomFor(p, instr, n) THEN {}
    ELSE { [i EXCEPT !.unscheduled = @ + num_components(p, n)] : i \in try_insert_node(p, instr, n, k) }

instr_try_insert_node(p, instr, n, k) ==
    IF ~ RoomFor(p, instr, n) THEN {}
    ELSE { [i EXCEPT !.unscheduled = @ + num_components(p, n)
                        - (IF is_alu_node(p, n) /\ is_store_child(p, instr, n) THEN 1 ELSE 0)]
           : i \in try_insert_node(p, instr, n, k) }

\* A node that was never inserted gives its reservation back all the same.
instr_remove_alu_node(p, instr, n) ==
    LET Drop(m) == IF m = n THEN Nil ELSE m
    IN  [instr EXCEPT !.mul = <<Drop(@[1]), Drop(@[2])>>, !.add = <<Drop(@[1]), Drop(@[2])>>,
                      !.complex = Drop(@), !.pass = Drop(@),
                      !.unscheduled = @ + (IF is_store_child(p, instr, n) THEN 1 ELSE 0)]

\* The assertion in instr_try_insert_node and instr_remove_alu_node.
ReservationFits(instr) == instr.unscheduled \in 0..num_free_alu_nodes(instr)
=============================================================================
