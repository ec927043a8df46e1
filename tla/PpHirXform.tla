----------------------------- MODULE PpHirXform -----------------------------
(***************************************************************************)
(* The rewriting of operations the hardware does not have into ones it has *)
(* (pp_hir/xform.c).  A rewriting of a command x is a sequence of commands,*)
(* the first of them named r and the others counted on from there, which   *)
(* takes the place of x; whoever read x reads the last one.                *)
(***************************************************************************)
EXTENDS PpHirClean

\* An intermediate result as wide as x, and the last command.
Same(x, op, srcs) == Cmd(op, x.size, srcs)
Final(x, op, srcs) == [Cmd(op, x.size, srcs) EXCEPT !.outmod = x.outmod]

Negate(s) == [s EXCEPT !.neg = ~@]
All(v) == [Source(Nil) EXCEPT !.constant = <<v, v, v, v>>]
Component(s, k) == [s EXCEPT !.swz[1] = s.swz[k]]

sub_xform(x, r) == <<Final(x, "add", <<x.srcs[1], Negate(x.srcs[2])>>)>>
neg_xform(x, r) == <<Final(x, "mov", <<Negate(x.srcs[1])>>)>>
abs_xform(x, r) == <<Final(x, "mov", <<[x.srcs[1] EXCEPT !.abs = ~@]>>)>>

\* One command for each component, and a vector of them.
scalarize_xform(x, r) ==
    IF x.size = 1 THEN <<>>
    ELSE [k \in 1..x.size |->
             [Cmd(x.op, 1, [i \in DOMAIN x.srcs |-> Component(x.srcs[i], k)]) EXCEPT !.outmod = x.outmod]]
         \o <<Same(x, "combine", [k \in 1..x.size |-> Source(r + k - 1)])>>

sign_xform(x, r) ==
    << Same(x, "gt", <<x.srcs[1], All(0)>>),
       Same(x, "gt", <<All(0), x.srcs[1]>>),
       Final(x, "add", <<Source(r), Negate(Source(r + 1))>>) >>

\* The reciprocal has one component.
div_xform(x, r) == <<Cmd("rcp", 1, <<x.srcs[2]>>), Final(x, "mul", <<x.srcs[1], Source(r)>>)>>

\* y * fract(x / y)
mod_xform(x, r) ==
    << Same(x, "div", x.srcs),
       Same(x, "fract", <<Source(r)>>),
       Final(x, "mul", <<x.srcs[2], Source(r + 1)>>) >>

\* The factor is never given to the last command.
normalize_xform(x, r) ==
    << Cmd(IF x.op = "normalize2" THEN "dot2" ELSE "dot4", 1, <<x.srcs[1], x.srcs[1]>>),
       Cmd("rsqrt", 1, <<Source(r)>>),
       Final(x, "mul", <<x.srcs[1], Source(Nil)>>) >>

const_mul_xform(x, r, new_op, factor) ==
    <<Same(x, "mul", <<x.srcs[1], All(factor)>>), Final(x, new_op, <<Source(r)>>)>>

tan_xform(x, r) ==
    << Same(x, "mul", <<x.srcs[1], All(HalfOverPi)>>),
       Same(x, "cos_lut", <<Source(r)>>),
       Same(x, "sin_lut", <<Source(r)>>),
       Same(x, "rcp", <<Source(r + 1)>>),
       Final(x, "mul", <<Source(r + 2), Source(r + 3)>>) >>

\* sqrt(1 - x * x), the other side of the triangle.
Cathetus(x, r) ==
    << Same(x, "mul", <<x.srcs[1], x.srcs[1]>>),
       Same(x, "add", <<All(One), Negate(Source(r))>>),
       Same(x, "sqrt", <<Source(r + 1)>>) >>
asin_xform(x, r) == Append(Cathetus(x, r), Final(x, "atan2", <<x.srcs[1], Source(r + 2)>>))
acos_xform(x, r) == Append(Cathetus(x, r), Final(x, "atan2", <<Source(r + 2), x.srcs[1]>>))

atan_xform(x, r) ==
    IF x.size > 1 THEN scalarize_xform(x, r)
    ELSE <<Cmd("atan_pt1", 3, x.srcs), Final(x, "atan_pt2", <<Source(r)>>)>>

atan2_xform(x, r) ==
    IF x.size > 1 THEN scalarize_xform(x, r)
    ELSE << Cmd("atan2_pt1", 3, x.srcs),
            Cmd("mul", 1, <<Component(Source(r), 1), Component(Source(r), 2)>>),
            Cmd("combine", 3, <<Source(r + 1), [Source(r) EXCEPT !.swz = <<2, 3, 3, 4>>]>>),
            Final(x, "atan_pt2", <<Source(r + 2)>>) >>

pow_xform(x, r) ==
    << Same(x, "log2", <<x.srcs[1]>>),
       Same(x, "mul", <<Source(r), x.srcs[2]>>),
       Final(x, "exp2", <<Source(r + 1)>>) >>

log_xform(x, r) ==
    <<Same(x, "log2", <<x.srcs[1]>>), Final(x, "mul", <<Source(r), All(Reciprocal(Log2E))>>)>>

\* The sum of n components of s, into the place the command of another stands for.
sum_cmd(cmd, s, n) ==
    CASE n = 2 -> [cmd EXCEPT !.op = "add", !.srcs = <<s, Component(s, 2)>>]
      [] n = 3 -> [cmd EXCEPT !.op = "sum3", !.srcs = <<s>>]
      [] n = 4 -> [cmd EXCEPT !.op = "sum4", !.srcs = <<s>>]

dot_xform(x, r, n) ==
    <<Cmd("mul", n, x.srcs), sum_cmd(Final(x, x.op, <<>>), Source(r), n)>>

\* x * (1 - t) + y * t
lrp_xform(x, r) ==
    << Same(x, "mul", <<x.srcs[2], x.srcs[3]>>),
       Same(x, "add", <<All(One), Negate(x.srcs[3])>>),
       Same(x, "mul", <<Source(r + 1), x.srcs[1]>>),
       Final(x, "add", <<Source(r), Source(r + 2)>>) >>

any_xform(x, r, n) ==
    <<sum_cmd(Cmd(x.op, 1, <<>>), x.srcs[1], n), Final(x, "ne", <<Source(r), All(0)>>)>>
all_xform(x, r, n) ==
    <<sum_cmd(Cmd(x.op, 1, <<>>), x.srcs[1], n), Final(x, "eq", <<Source(r), All(n * One)>>)>>

\* The comparison is as wide as the result.
all_eq_xform(x, r, all) == <<Same(x, "eq", x.srcs), Final(x, all, <<Source(r)>>)>>
any_ne_xform(x, r, any) == <<Same(x, "ne", x.srcs), Final(x, any, <<Source(r)>>)>>
-----------------------------------------------------------------------------
\* The table lima_pp_hir_xform: no command where there is nothing to rewrite.
xform(x, r) ==
    CASE x.op = "neg" -> neg_xform(x, r)   [] x.op = "sub" -> sub_xform(x, r)
      [] x.op = "abs" -> abs_xform(x, r)   [] x.op = "sign" -> sign_xform(x, r)
      [] x.op = "div" -> div_xform(x, r)   [] x.op = "mod" -> mod_xform(x, r)
      [] x.op = "pow" -> pow_xform(x, r)   [] x.op = "lrp" -> lrp_xform(x, r)
      [] x.op = "tan" -> tan_xform(x, r)   [] x.op = "log" -> log_xform(x, r)
      [] x.op = "asin" -> asin_xform(x, r) [] x.op = "acos" -> acos_xform(x, r)
      [] x.op = "atan" -> atan_xform(x, r) [] x.op = "atan2" -> atan2_xform(x, r)
      [] x.op \in {"normalize2", "normalize4"} -> normalize_xform(x, r)
      [] x.op \in {"rcp", "sin_lut", "cos_lut", "exp2", "log2", "sqrt", "rsqrt"} -> scalarize_xform(x, r)
      [] x.op = "sin" -> const_mul_xform(x, r, "sin_lut", HalfOverPi)
      [] x.op = "cos" -> const_mul_xform(x, r, "cos_lut", HalfOverPi)
      [] x.op = "exp" -> const_mul_xform(x, r, "exp2", Log2E)
      [] x.op = "dot2" -> dot_xform(x, r, 2) [] x.op = "dot3" -> dot_xform(x, r, 3)
      [] x.op = "dot4" -> dot_xform(x, r, 4)
      [] x.op = "any2" -> any_xform(x, r, 2) [] x.op = "any3" -> any_xform(x, r, 3)
      [] x.op = "any4" -> any_xform(x, r, 4)
      [] x.op = "all2" -> all_xform(x, r, 2) [] x.op = "all3" -> all_xform(x, r, 3)
      [] x.op = "all4" -> all_xform(x, r, 4)
      [] x.op = "all_eq2" -> all_eq_xform(x, r, "all2") [] x.op = "any_ne2" -> any_ne_xform(x, r, "any2")
      [] x.op = "all_eq3" -> all_eq_xform(x, r, "all3") [] x.op = "any_ne3" -> any_ne_xform(x, r, "any3")
      [] x.op = "all_eq4" -> all_eq_xform(x, r, "all4") [] x.op = "any_ne4" -> any_ne_xform(x, r, "any4")
      [] OTHER -> <<>>

\* New commands in the place of c, of which the last has its uses.
block_replace(p, c, new) ==
    LET b == BlockOf(p, c)
        Insert(q, cmd) == block_insert(q, b, SelectInSeq(q.cmds[b], LAMBDA d : d = c), cmd)
        q == FoldLeft(Insert, p, new)
    IN  block_remove(replace_uses(q, c, q.next - 1), b, c)

Rewrite(p, c) ==
    LET new == xform(p.cmd[c], p.next)
    IN  IF new = <<>> THEN p ELSE block_replace(p, c, new)

\* Round by round, until one has nothing left to rewrite.
Xform ==
    /\ At("xform")
    /\ prog' = FoldLeft(Rewrite, prog, AllCmds(prog))
    /\ pass' = IF prog' = prog THEN "split" ELSE "xform"
    /\ UNCHANGED work
=============================================================================
