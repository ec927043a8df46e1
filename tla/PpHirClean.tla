----------------------------- MODULE PpHirClean -----------------------------
(***************************************************************************)
(* The state of the passes over the high-level IR of the pixel processor,  *)
(* and the first of them: narrowing of results (pp_hir/reg_narrow.c) and   *)
(* dead code elimination (dce.c) in turns until nothing is dead, then copy *)
(* propagation (copy_propagation.c).                                       *)
(***************************************************************************)
EXTENDS PpHir

CONSTANT Shaders        \* as from_glsl.cpp leaves them

VARIABLES
    prog,       \* the program
    pass,       \* the next pass
    work,       \* the commands or blocks the pass has left
    lir,       \* what the program was lowered to
    meaning     \* what the program computed when it came in

vars == <<prog, pass, work, lir, meaning>>

At(name) == pass = name /\ UNCHANGED <<lir, meaning>>
-----------------------------------------------------------------------------
(* reg_narrow.c: results no wider than what is read of them.               *)

get_num_channels_used(p, c, arg) ==
    LET s == p.cmd[c].srcs[arg] IN
    IF Op(p, c) = "combine" THEN p.cmd[s.dep].size
    ELSE Max({0} \cup { s.swz[k] : k \in 1..ArgSize(p, c, arg) })

get_total_channels_used(p, c) ==
    IF \E b \in p.cmd[c].block_uses : p.block[b].cond = "end" /\ p.block[b].output = c THEN 4
    ELSE Max({1, DestSize(Op(p, c))} \cup
             UNION { { get_num_channels_used(p, use, arg) :
                         arg \in { i \in Args(p, use) : p.cmd[use].srcs[i].dep = c } } :
                     use \in p.cmd[c].cmd_uses })

\* The new command takes the place, the register and the uses of the old one.
narrow_combine(p, c) ==
    LET x == p.cmd[c]
        Width(n) == FoldLeft(LAMBDA sum, i : sum + p.cmd[x.srcs[i].dep].size, 0, [i \in 1..n |-> i])
        n == Min({ i \in DOMAIN x.srcs : Width(i) >= x.size })
        q == [remove_from_uses(p, c) EXCEPT !.cmd[c].op = IF n = 1 THEN "mov" ELSE @,
                                            !.cmd[c].srcs = SubSeq(@, 1, n)]
    IN  IF n = Len(x.srcs) /\ n # 1 THEN p ELSE add_to_uses(q, c)

Narrow(p, c) ==
    LET n == get_total_channels_used(p, c)
        q == [p EXCEPT !.cmd[c].size = n]
    IN  CASE ~HasDest(Op(p, c)) \/ n >= p.cmd[c].size -> p
          [] HasDest(Op(p, c)) /\ n < p.cmd[c].size /\ Op(p, c) = "combine" -> narrow_combine(q, c)
          [] OTHER -> q

\* One round over all commands.
RegNarrow ==
    /\ At("reg_narrow")
    /\ prog' = FoldLeft(Narrow, prog, AllCmds(prog))
    /\ pass' = IF prog' = prog THEN "dead_code" ELSE "reg_narrow"
    /\ UNCHANGED work
-----------------------------------------------------------------------------
(* dce.c                                                                   *)

LiveAtOnce(p) ==
    { c \in Cmds(p) : IsStore(Op(p, c)) \/ p.cmd[c].block_uses # {} }
        \cup UNION { BlockReads(p, b) : b \in BlockSet(p) }

\* What the work queue ends with, in whatever order it is worked off.
RECURSIVE Live(_, _)
Live(p, S) ==
    LET more == UNION { Deps(p, c) : c \in S } \ S
    IN  IF more = {} THEN S ELSE Live(p, S \cup more)

DeadCode ==
    /\ At("dead_code")
    /\ LET live == Live(prog, LiveAtOnce(prog))
           dead == SelectSeq(AllCmds(prog), LAMBDA c : c \notin live)
       IN  /\ prog' = FoldLeft(LAMBDA p, c : block_remove(p, BlockOf(p, c), c), prog, dead)
           /\ pass' = IF dead = <<>> THEN "copies" ELSE "reg_narrow"
           /\ work' = IF dead = <<>>
                      THEN SelectSeq(AllCmds(prog), LAMBDA c :
                                Op(prog, c) = "mov" /\ ~IsConstant(prog.cmd[c].srcs[1]))
                      ELSE work
-----------------------------------------------------------------------------
(* copy_propagation.c                                                      *)

MoveSource(p, move) == p.cmd[move].srcs[1]
Modifies(s) == s.abs \/ s.neg

CanPropagateOutmod(p, move) ==
    LET source == MoveSource(p, move).dep IN
    /\ ~Modifies(MoveSource(p, move))
    /\ Cardinality(p.cmd[source].cmd_uses) <= 1 /\ p.cmd[source].block_uses = {}
    /\ OutputModifiers(Op(p, source))
    /\ p.cmd[source].outmod = "none"

try_propagate_outmod(p, move) ==
    [p EXCEPT !.cmd[MoveSource(p, move).dep].outmod = p.cmd[move].outmod,
              !.cmd[move].outmod = "none"]

ident_swizzle(p, move) ==
    \A k \in 1..p.cmd[move].size : MoveSource(p, move).swz[k] = k

CanReplaceUse(p, move, use, arg) ==
    LET m == MoveSource(p, move) IN
    /\ Modifies(m) => InputModifier(Op(p, use), arg)
    /\ IsStore(Op(p, use)) /\ arg = 1 => ident_swizzle(p, move)
    /\ Op(p, use) = "combine" => p.cmd[m.dep].size = p.cmd[move].size

\* The source of a move, seen through the source that reads the move.
Through(m, s, size) ==
    [s EXCEPT !.dep = m.dep,
              !.neg = IF m.neg /\ ~s.abs THEN ~@ ELSE @,
              !.abs = @ \/ m.abs,
              !.swz = [k \in 1..4 |-> IF k <= size THEN m.swz[@[k]] ELSE @[k]]]

try_replace_use(p, move, use, arg) ==
    LET m == MoveSource(p, move) IN
    [p EXCEPT !.cmd[use].srcs[arg] = Through(m, @, ArgSize(p, use, arg)),
              !.cmd[move].cmd_uses = @ \ {use},
              !.cmd[m.dep].cmd_uses = @ \cup {use}]

\* The first argument that cannot be replaced ends all replacing.
ReplaceArg(s, move, use, arg) ==
    IF s.success /\ CanReplaceUse(s.p, move, use, arg)
    THEN [s EXCEPT !.p = try_replace_use(s.p, move, use, arg)]
    ELSE [s EXCEPT !.success = FALSE]

ReplaceUse(s, move, use) ==
    LET args == { i \in Args(s.p, use) : s.p.cmd[use].srcs[i].dep = move }
    IN  FoldLeft(LAMBDA t, arg : ReplaceArg(t, move, use, arg), s, SetToSortSeq(args, <))

CanReplaceBlockUses(p, move) == ident_swizzle(p, move) /\ ~Modifies(MoveSource(p, move))

ReplaceBlockUses(p, move) ==
    LET source == MoveSource(p, move).dep
        q == Redirect(p, move, source)
        InBlocks == [p EXCEPT !.block = q.block]
    IN  [InBlocks EXCEPT !.cmd[source].block_uses = @ \cup p.cmd[move].block_uses,
                         !.cmd[move].block_uses = {}]

\* The uses in the given order: a set by address.
try_replace_uses(p, move, uses) ==
    LET q == IF p.cmd[move].outmod = "none" THEN p ELSE try_propagate_outmod(p, move)
        s == FoldLeft(LAMBDA t, use : ReplaceUse(t, move, use), [p |-> q, success |-> TRUE], uses)
    IN  IF p.cmd[move].outmod # "none" /\ ~CanPropagateOutmod(p, move)
        THEN [p |-> p, success |-> FALSE]
        ELSE IF s.success /\ p.cmd[move].block_uses # {}
        THEN IF CanReplaceBlockUses(q, move) THEN [s EXCEPT !.p = ReplaceBlockUses(@, move)]
             ELSE [s EXCEPT !.success = FALSE]
        ELSE s

PropagateCopies ==
    /\ At("copies") /\ work # <<>>
    /\ \E uses \in SetToSeqs(prog.cmd[Head(work)].cmd_uses) :
        LET move == Head(work)
            s == try_replace_uses(prog, move, uses)
        IN  prog' = IF s.success THEN block_remove(s.p, BlockOf(s.p, move), move) ELSE s.p
    /\ work' = Tail(work)
    /\ UNCHANGED pass

EndCopies ==
    /\ At("copies") /\ work = <<>>
    /\ pass' = "xform"
    /\ UNCHANGED <<prog, work>>

Clean == RegNarrow \/ DeadCode \/ PropagateCopies \/ EndCopies
=============================================================================
