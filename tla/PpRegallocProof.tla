--------------------------- MODULE PpRegallocProof ---------------------------
(***************************************************************************)
(* For every program and every number of physical registers, and through   *)
(* every round of coalescing, simplification, colouring and spilling: a    *)
(* move that is still to be tried is known to both registers it could      *)
(* merge, which are both in the graph; and in the allocation that comes    *)
(* out at last, registers that interfere are in different places.  Both    *)
(* as long as $0 is not simplified; and it is not, and every register      *)
(* waits in the queue it belongs to, as long as no register is given up    *)
(* (freeze) while a move is left that was coalesced into it.  The          *)
(* registers of loads and stores keep their components, as long as none is *)
(* merged twice.                                                           *)
(***************************************************************************)
EXTENDS PpRegalloc, FiniteSetTheorems, WellFoundedInduction, TLAPS

InRound == pc \in {"work", "assign", "done"}

RoundTypes ==
    /\ state \in [Regs(prog) -> States]
    /\ q_total \in [Regs(prog) -> Nat]
    /\ adjacent \in [Regs(prog) -> SUBSET Regs(prog)]
    /\ moves \in [Regs(prog) -> SUBSET Moves(prog)]
    /\ alias \in [Regs(prog) -> Regs(prog)]
    /\ move_queue \subseteq Moves(prog) /\ active_moves \subseteq Moves(prog)
    /\ freeze_queue \subseteq Regs(prog) /\ spill_queue \subseteq Regs(prog)
    /\ simplify_queue \in Seq(Regs(prog)) /\ select_stack \in Seq(Regs(prog))
    /\ spilled_regs \subseteq VirtualRegs(prog)

(* Every component of a register is a component of what it was merged      *)
(* into, and a place is within a physical register.                        *)
PlaceTypes ==
    /\ \A r \in Regs(prog) : \A c \in Comps(r) : alias_swizzle[r][c] \in Comps(alias[r])
    /\ allocated \in [Regs(prog) -> (0..(NumPhys - 1)) \X Nat]
    /\ \A r \in Regs(prog) : allocated[r][2] + prog.size[r] <= 4

(* alias is the end of a chain.                                            *)
AliasInv ==
    /\ \A r \in Regs(prog) : alias[alias[r]] = alias[r]
    /\ alias[Precolored] = Precolored

Queued == freeze_queue \cup spill_queue \cup ToSet(simplify_queue)

(* A register waits in the queue its state names.                          *)
StateInv ==
    /\ state[Precolored] = "initial"
    /\ \A r \in VirtualRegs(prog) :
        /\ state[r] \in {"to_simplify", "to_freeze", "to_spill", "simplified", "coalesced"}
        /\ state[r] = "to_simplify" => r \in ToSet(simplify_queue)
        /\ state[r] = "to_freeze" => r \in freeze_queue
        /\ state[r] = "to_spill" => r \in spill_queue
        /\ state[r] = "simplified" => r \in ToSet(select_stack)
        /\ state[r] = "coalesced" <=> alias[r] # r

QueueInv ==
    /\ \A r \in Queued \cup ToSet(select_stack) : r # Precolored /\ alias[r] = r
    /\ \A r \in freeze_queue : state[r] = "to_freeze"
    /\ \A r \in spill_queue : state[r] \in {"to_spill", "to_simplify", "simplified"}
    /\ \A r \in ToSet(simplify_queue) \cup ToSet(select_stack) :
           state[r] \in {"to_simplify", "simplified"}

EdgeInv == \A r, s \in Regs(prog) : s \in adjacent[r] => r \in adjacent[s]

(* What interferes in the program, between the registers they were merged  *)
(* into.                                                                   *)
Coarse == CoarseMatrix(prog, DetailedMatrix(prog))
Related(r, s) ==
    /\ r # s
    /\ \E a, b \in Regs(prog) : alias[a] = r /\ alias[b] = s /\ b \in Coarse[a]

Sees(r, s) == \E x \in adjacent[r] : alias[x] = s
Earlier(r, s) ==
    \E n \in DOMAIN select_stack :
        select_stack[n] = r /\ \A m \in 1..n : select_stack[m] # s

(* The earlier of two interfering registers on the stack, which is         *)
(* coloured later, has the other in its list of neighbours, under the name *)
(* the other had then; of two that are not on the stack each has the other.*)
StackInv ==
    \A r, s \in Regs(prog) : Related(r, s) =>
        /\ Earlier(r, s) => Sees(r, s)
        /\ pc = "work" => \/ r \in ToSet(select_stack) \/ s \in ToSet(select_stack)
                          \/ s \in adjacent[r]

Overlap(r, s) ==
    /\ allocated[r][1] = allocated[s][1]
    /\ Span(allocated[r][2], r) \cap Span(allocated[s][2], s) # {}

Finished(r) == alias[r] = r /\ r # Precolored /\ r \notin ToSet(select_stack)
Colored(r) == Finished(r) /\ state[r] = "colored"

(* No two registers that have come off the stack are in each other's way.  *)
AssignInv ==
    /\ \A r \in ToSet(select_stack) : r # Precolored /\ alias[r] = r
    /\ \A r \in Regs(prog) : Finished(r) =>
        /\ state[r] \in {"colored", "spilled"}
        /\ state[r] = "spilled" => r \in spilled_regs
    /\ \A r \in Regs(prog) : Colored(r) /\ Related(r, Precolored) => allocated[r][1] # 0
    /\ \A r, s \in Regs(prog) : Colored(r) /\ Colored(s) /\ Related(r, s) => ~ Overlap(r, s)

Mentions(x, r) == x.dest = r \/ ReadsReg(x, r)

(* What spill_reg has come past has nothing to do with the register, and   *)
(* what it comes to does not both read and write it.                       *)
RewriteInv ==
    /\ spilling \in VirtualRegs(prog) /\ spilling \notin spilled_regs
    /\ spilled_regs \subseteq VirtualRegs(prog)
    /\ at \in 1..(Len(prog.code) + 1)
    /\ \A n \in DOMAIN prog.code :
        /\ n < at => ~ Mentions(prog.code[n], spilling)
        /\ n >= at /\ prog.code[n].dest = spilling => ~ ReadsReg(prog.code[n], spilling)

PcInv == pc \in {"start", "work", "assign", "spill", "rewrite", "done", "failed"}

RoundInv ==
    /\ IsProgram(prog)
    /\ PcInv
    /\ InRound => RoundTypes /\ PlaceTypes /\ AliasInv /\ EdgeInv /\ StackInv
    /\ pc = "work" => StateInv /\ QueueInv /\ LiveMovesLive
    /\ pc \in {"assign", "done"} => AssignInv
    /\ pc = "done" => select_stack = <<>> /\ spilled_regs = {}
    /\ pc = "spill" => spilled_regs \subseteq VirtualRegs(prog)
    /\ pc = "rewrite" => RewriteInv
-----------------------------------------------------------------------------
(* Tables and sets.                                                        *)

(* A class, its places and what a neighbour takes away of them are in      *)
(* range.                                                                  *)
LEMMA ClassTypes ==
  ASSUME IsProgram(prog), NEW r \in Regs(prog), NEW s \in Regs(prog)
  PROVE  Class(r) \in 0..7 /\ PR(r) \in Nat /\ QR(r, s) \in 1..4
<1>1. ASSUME NEW t \in Regs(prog) PROVE Class(t) \in 0..7
  <2>1. prog.size[t] \in 1..4 /\ prog.beginning[t] \in BOOLEAN
    BY DEF IsProgram
  <2> QED BY <2>1 DEF Class, get_reg_class
<1>2. ASSUME NEW c \in 0..7 PROVE PerVec4[c + 1] \in 1..4
  BY DEF PerVec4
<1>3. ASSUME NEW c \in 0..7 PROVE P(c) \in Nat
  BY <1>2, NumPhysAssumption DEF P
<1>4. ASSUME NEW c \in 0..7 PROVE \A d \in 0..7 : Q(c, d) \in 1..4
  <2>1. \A i \in 1..8 : \A d \in 1..8 : QTable[i][d] \in 1..4
    BY DEF QTable
  <2>2. c + 1 \in 1..8 /\ \A d \in 0..7 : d + 1 \in 1..8
    OBVIOUS
  <2> QED BY <2>1, <2>2 DEF Q
<1> QED BY <1>1, <1>3, <1>4 DEF PR, QR

LEMMA FiniteProgram ==
  ASSUME IsProgram(prog)
  PROVE  /\ IsFiniteSet(Regs(prog)) /\ Regs(prog) \subseteq Nat
         /\ IsFiniteSet(Moves(prog))
         /\ Precolored \in Regs(prog) /\ prog.size[Precolored] = 4
         /\ \A r \in Regs(prog) : prog.size[r] \in 1..4
<1>1. Len(prog.code) \in Nat /\ DOMAIN prog.code = 1..Len(prog.code)
  BY DEF IsProgram
<1>2. IsFiniteSet(1..Len(prog.code))
  BY <1>1, FS_Interval
<1>3. Moves(prog) \subseteq 1..Len(prog.code)
  BY <1>1 DEF Moves
<1>4. IsFiniteSet(Moves(prog))
  BY <1>2, <1>3, FS_Subset
<1> QED BY <1>4 DEF IsProgram

(* A sum over neighbours is a number.                                      *)
LEMMA SumQType ==
  ASSUME IsProgram(prog), NEW r, NEW S \in SUBSET Regs(prog)
  PROVE  SumQ(r, S) \in Nat
<1>1. IsFiniteSet(S)
  BY FiniteProgram, FS_Subset
<1>2. IsFiniteSet(1..4)
  <2>1. 1 \in Int /\ 4 \in Int
    OBVIOUS
  <2> QED BY <2>1, FS_Interval
<1>3. IsFiniteSet(S \X (1..4))
  BY <1>1, <1>2, FS_Product
<1>4. IsFiniteSet({ e \in S \X (1..4) : e[2] <= QR(r, e[1]) })
  BY <1>3, FS_Subset
<1> QED BY <1>4, FS_CardinalityType DEF SumQ

(* A sequence of all of a finite set has no other elements and leaves none *)
(* out.                                                                    *)
LEMMA AllInOrder ==
  ASSUME NEW S, IsFiniteSet(S), NEW f \in SetToSeqs(S)
  PROVE  f \in Seq(S) /\ ToSet(f) = S /\ DOMAIN f = 1..Cardinality(S) /\ Cardinality(S) \in Nat
<1>1. Cardinality(S) \in Nat
  BY FS_CardinalityType
<1> DEFINE D == 1..Cardinality(S)
<1>2. f \in [D -> S] /\ \A i, j \in D : i # j => f[i] # f[j]
  BY DEF SetToSeqs
<1>3. f \in Seq(S) /\ DOMAIN f = D
  BY <1>1, <1>2
<1>4. IsFiniteSet(D) /\ Cardinality(D) = Cardinality(S)
  <2>1. IsFiniteSet(1..Cardinality(S)) /\ Cardinality(1..Cardinality(S)) =
            IF 1 > Cardinality(S) THEN 0 ELSE Cardinality(S) - 1 + 1
    BY <1>1, FS_Interval
  <2> QED BY <2>1, <1>1
<1>5. f \in Injection(D, S)
  BY <1>2 DEF Injection, IsInjective
<1>6. f \in Surjection(D, S)
  <2> HIDE DEF D
  <2> QED BY <1>4, <1>5, FS_Injection
<1>7. \A t \in S : \E n \in D : f[n] = t
  BY <1>6 DEF Surjection
<1>8. ToSet(f) = S
  <2> HIDE DEF D
  <2> QED BY <1>2, <1>3, <1>7 DEF ToSet
<1> QED BY <1>1, <1>3, <1>8

(* Sequences and the sets of their elements.                               *)
LEMMA ElementsOfSeq ==
  ASSUME NEW S, NEW s \in Seq(S)
  PROVE  ToSet(s) \subseteq S
BY DEF ToSet

LEMMA AppendedLength ==
  ASSUME NEW S, NEW s \in Seq(S), NEW t \in Seq(S)
  PROVE  Len(s \o t) = Len(s) + Len(t)
OBVIOUS

LEMMA AppendedElements ==
  ASSUME NEW S, NEW s \in Seq(S), NEW t \in Seq(S)
  PROVE  s \o t \in Seq(S) /\ ToSet(s \o t) = ToSet(s) \cup ToSet(t)
<1>1. /\ s \o t \in Seq(S) /\ Len(s \o t) = Len(s) + Len(t)
      /\ Len(s) \in Nat /\ Len(t) \in Nat
      /\ DOMAIN s = 1..Len(s) /\ DOMAIN t = 1..Len(t) /\ DOMAIN (s \o t) = 1..(Len(s) + Len(t))
      /\ \A n \in 1..(Len(s) + Len(t)) :
            (s \o t)[n] = IF n <= Len(s) THEN s[n] ELSE t[n - Len(s)]
  OBVIOUS
<1>2. \A e \in ToSet(s) : e \in ToSet(s \o t)
  BY <1>1 DEF ToSet
<1>3. \A e \in ToSet(t) : e \in ToSet(s \o t)
  <2> SUFFICES ASSUME NEW n \in 1..Len(t) PROVE t[n] \in ToSet(s \o t)
    BY <1>1 DEF ToSet
  <2>1. n + Len(s) \in 1..(Len(s) + Len(t)) /\ (s \o t)[n + Len(s)] = t[n]
    BY <1>1
  <2> QED BY <1>1, <2>1 DEF ToSet
<1>4. \A e \in ToSet(s \o t) : e \in ToSet(s) \cup ToSet(t)
  <2> SUFFICES ASSUME NEW n \in 1..(Len(s) + Len(t)) PROVE (s \o t)[n] \in ToSet(s) \cup ToSet(t)
    BY <1>1 DEF ToSet
  <2>1. CASE n <= Len(s)
    BY <1>1, <2>1 DEF ToSet
  <2>2. CASE n > Len(s)
    <3>1. n - Len(s) \in 1..Len(t) /\ (s \o t)[n] = t[n - Len(s)]
      BY <1>1, <2>2
    <3> QED BY <1>1, <3>1 DEF ToSet
  <2> QED BY <1>1, <2>1, <2>2
<1> QED BY <1>1, <1>2, <1>3, <1>4
-----------------------------------------------------------------------------
(* What several steps do to the queues.                                    *)

(* What decrementing degrees does to the queues.                           *)
Requeued(st, mv, queued, fq, sq, queue) ==
    /\ move_queue' \cup active_moves' = queued \cup active_moves
    /\ state' \in [Regs(prog) -> States]
    /\ freeze_queue' \subseteq Regs(prog) /\ spill_queue' \subseteq Regs(prog)
    /\ simplify_queue' \in Seq(Regs(prog))
    /\ \A r \in Regs(prog) :
         /\ \/ state'[r] = st[r]
            \/ st[r] = "to_spill" /\ state'[r] \in {"to_spill", "to_freeze", "to_simplify"}
            \/ st[r] = "to_freeze" /\ state'[r] \in {"to_spill", "to_freeze"}
         /\ state'[r] = "to_simplify" =>
              \/ st[r] = "to_simplify"
              \/ r \in ToSet(simplify_queue') /\ mv[r] \cap (queued \cup active_moves) = {}
         /\ state'[r] = "to_freeze" /\ (st[r] = "to_freeze" => r \in fq) => r \in freeze_queue'
         /\ state'[r] = "to_spill" /\ (st[r] = "to_spill" => r \in sq) => r \in spill_queue'
    /\ \A r \in freeze_queue' : state'[r] = "to_freeze" /\ st[r] \in {"to_freeze", "to_spill"}
    /\ \A r \in spill_queue' :
         \/ r \in sq /\ state'[r] = st[r]
         \/ state'[r] = "to_spill"
    /\ ToSet(queue) \subseteq ToSet(simplify_queue')
    /\ \A r \in ToSet(simplify_queue') :
         \/ r \in ToSet(queue) /\ (st[r] \notin {"to_freeze", "to_spill"} => state'[r] = st[r])
         \/ st[r] = "to_spill" /\ state'[r] = "to_simplify"

(* The precolored register never drops below its p (54), so decrementing   *)
(* degrees only moves registers that waited to be spilled: to the freeze   *)
(* queue while they have a move, to the simplify queue otherwise.          *)
LEMMA RequeueEffect ==
  ASSUME IsProgram(prog),
         active_moves \subseteq Moves(prog),
         NEW others \in SUBSET Regs(prog), NEW q, NEW st \in [Regs(prog) -> States],
         NEW mv, NEW adj, NEW queued \in SUBSET Moves(prog),
         NEW fq \in SUBSET Regs(prog), NEW sq \in SUBSET Regs(prog),
         NEW queue \in Seq(Regs(prog)), NEW full \in SUBSET Regs(prog),
         \A r \in others : q[r] < PR(r) => st[r] \in {"to_simplify", "to_freeze", "to_spill"},
         \A r \in fq : st[r] = "to_freeze",
         Requeue(others, q, st, mv, adj, queued, fq, sq, queue, full)
  PROVE  Requeued(st, mv, queued, fq, sq, queue)
<1> DEFINE dropped == Dropped(others, q, st)
           related == { r \in dropped : mv[r] \cap (queued \cup active_moves) # {} }
           tried   == active_moves \cap UNION {mv[r] : r \in Woken(dropped, st, adj)}
           after   == [r \in Regs(prog) |->
                          IF r \in related THEN "to_freeze"
                          ELSE IF r \in dropped THEN "to_simplify"
                          ELSE st[r]]
           back    == { r \in full : after[r] = "to_freeze" }
<1>1. /\ active_moves' = active_moves \ tried
      /\ move_queue' = queued \cup tried
      /\ spill_queue' = (sq \ dropped) \cup back
      /\ freeze_queue' = (fq \cup related) \ back
      /\ \E pushed \in SetToSeqs(dropped \ related) : simplify_queue' = queue \o pushed
      /\ state' = [r \in Regs(prog) |-> IF r \in back THEN "to_spill" ELSE after[r]]
  BY DEF Requeue
<1>2. /\ dropped \subseteq others
      /\ \A r \in dropped : st[r] = "to_spill"
  BY DEF Dropped
<1>3. related \subseteq dropped /\ back \subseteq full /\ tried \subseteq active_moves
  OBVIOUS
<1>4. IsFiniteSet(dropped \ related)
  <2>1. dropped \ related \subseteq Regs(prog)
    <3> HIDE DEF dropped, related
    <3> QED BY <1>2
  <2> HIDE DEF dropped, related
  <2> QED BY <2>1, FiniteProgram, FS_Subset
<1>5. PICK pushed \in SetToSeqs(dropped \ related) : simplify_queue' = queue \o pushed
  BY <1>1
<1>6. pushed \in Seq(dropped \ related) /\ ToSet(pushed) = dropped \ related
  <2> HIDE DEF dropped, related
  <2> QED BY <1>4, <1>5, AllInOrder
<1>7. simplify_queue' \in Seq(Regs(prog)) /\ ToSet(simplify_queue') = ToSet(queue) \cup (dropped \ related)
  <2> HIDE DEF dropped, related
  <2>1. pushed \in Seq(Regs(prog))
    BY <1>2, <1>6
  <2>2. ToSet(queue \o pushed) = ToSet(queue) \cup ToSet(pushed)
    BY <2>1, AppendedElements
  <2> QED BY <1>5, <1>6, <2>1, <2>2
<1>8. \A r \in Regs(prog) :
         /\ after[r] = IF r \in related THEN "to_freeze"
                       ELSE IF r \in dropped THEN "to_simplify" ELSE st[r]
         /\ state'[r] = IF r \in back THEN "to_spill" ELSE after[r]
  BY <1>1
<1>9. \A r \in dropped : r \in related \/ mv[r] \cap (queued \cup active_moves) = {}
  OBVIOUS
<1>10. /\ move_queue' \cup active_moves' = queued \cup active_moves
       /\ freeze_queue' \subseteq Regs(prog) /\ spill_queue' \subseteq Regs(prog)
  <2> HIDE DEF dropped, related, tried, back, after
  <2> QED BY <1>1, <1>2, <1>3
<1>11. \A r \in back : r \in Regs(prog) /\ after[r] = "to_freeze"
  BY <1>3
<1>12. state' \in [Regs(prog) -> States]
  <2>1. \A r \in Regs(prog) : state'[r] \in States
    <3> HIDE DEF dropped, related, tried, back, after
    <3> QED BY <1>8 DEF States
  <2> QED BY <1>1, <2>1
<1>13. \A r \in Regs(prog) :
              /\ \/ state'[r] = st[r]
                 \/ st[r] = "to_spill" /\ state'[r] \in {"to_spill", "to_freeze", "to_simplify"}
                 \/ st[r] = "to_freeze" /\ state'[r] \in {"to_spill", "to_freeze"}
              /\ state'[r] = "to_simplify" =>
                   \/ st[r] = "to_simplify"
                   \/ r \in ToSet(simplify_queue') /\ mv[r] \cap (queued \cup active_moves) = {}
              /\ state'[r] = "to_freeze" /\ (st[r] = "to_freeze" => r \in fq) => r \in freeze_queue'
              /\ state'[r] = "to_spill" /\ (st[r] = "to_spill" => r \in sq) => r \in spill_queue'
  <2> HIDE DEF dropped, related, tried, back, after
  <2> SUFFICES ASSUME NEW r \in Regs(prog)
               PROVE  /\ \/ state'[r] = st[r]
                         \/ st[r] = "to_spill" /\ state'[r] \in {"to_spill", "to_freeze", "to_simplify"}
                         \/ st[r] = "to_freeze" /\ state'[r] \in {"to_spill", "to_freeze"}
                      /\ state'[r] = "to_simplify" =>
                           \/ st[r] = "to_simplify"
                           \/ r \in ToSet(simplify_queue') /\ mv[r] \cap (queued \cup active_moves) = {}
                      /\ state'[r] = "to_freeze" /\ (st[r] = "to_freeze" => r \in fq) => r \in freeze_queue'
                      /\ state'[r] = "to_spill" /\ (st[r] = "to_spill" => r \in sq) => r \in spill_queue'
    OBVIOUS
  <2>1. CASE r \in back
    BY <2>1, <1>1, <1>2, <1>3, <1>8, <1>11
  <2>2. CASE r \notin back /\ r \in related
    BY <2>2, <1>1, <1>2, <1>3, <1>8
  <2>3. CASE r \notin back /\ r \in dropped \ related
    BY <2>3, <1>1, <1>2, <1>7, <1>8, <1>9
  <2>4. CASE r \notin back /\ r \notin dropped
    BY <2>4, <1>1, <1>3, <1>8
  <2> QED BY <2>1, <2>2, <2>3, <2>4, <1>3
<1>14. \A r \in freeze_queue' : state'[r] = "to_freeze" /\ st[r] \in {"to_freeze", "to_spill"}
  <2> HIDE DEF dropped, related, tried, back, after
  <2> SUFFICES ASSUME NEW r \in freeze_queue'
               PROVE  state'[r] = "to_freeze" /\ st[r] \in {"to_freeze", "to_spill"}
    OBVIOUS
  <2>1. r \notin back /\ r \in Regs(prog) /\ r \in fq \cup related
    BY <1>1, <1>10
  <2> QED BY <2>1, <1>2, <1>3, <1>8
<1>15. \A r \in spill_queue' :
              \/ r \in sq /\ state'[r] = st[r]
              \/ state'[r] = "to_spill"
  <2> HIDE DEF dropped, related, tried, back, after
  <2> QED BY <1>1, <1>3, <1>8, <1>11
<1>16. /\ ToSet(queue) \subseteq ToSet(simplify_queue')
       /\ \A r \in ToSet(simplify_queue') :
              \/ r \in ToSet(queue) /\ (st[r] \notin {"to_freeze", "to_spill"} => state'[r] = st[r])
              \/ st[r] = "to_spill" /\ state'[r] = "to_simplify"
  <2> HIDE DEF dropped, related, tried, back, after
  <2>1. ToSet(simplify_queue') \subseteq Regs(prog)
    BY <1>7, ElementsOfSeq
  <2> QED BY <2>1, <1>2, <1>3, <1>7, <1>8, <1>11
<1> QED
  <2> HIDE DEF dropped, related, tried, back, after
  <2> QED BY <1>7, <1>10, <1>12, <1>13, <1>14, <1>15, <1>16 DEF Requeued

(* The other steps only push registers on the simplify queue, empty until  *)
(* then, none of which has a move that is still to be tried ...            *)
Pushes(T) ==
    /\ simplify_queue' \in Seq(Regs(prog)) /\ ToSet(simplify_queue') = T
    /\ T \subseteq VirtualRegs(prog)
    /\ \A r \in T : alias[r] = r /\ moves[r] \cap LiveMoves' = {}
    /\ LiveMoves' \subseteq LiveMoves
    /\ state' = [r \in Regs(prog) |-> IF r \in T THEN "to_simplify" ELSE state[r]]
    /\ freeze_queue' = freeze_queue \ T
    /\ spill_queue' \subseteq spill_queue /\ spill_queue \ spill_queue' \subseteq T

(* ... which is what add_to_queue does ...                                 *)
LEMMA AddBothPushes ==
  ASSUME IsProgram(prog), RoundTypes, NEW src \in Regs(prog), NEW dst \in Regs(prog),
         alias[src] = src, alias[dst] = dst,
         LiveMoves' \subseteq LiveMoves, AddBothToQueue(src, dst), UNCHANGED spill_queue
  PROVE  Pushes({ r \in {src, dst} : Pushable(r) })
<1> DEFINE T == { r \in {src, dst} : Pushable(r) }
<1>1. ASSUME NEW r \in Regs(prog)
      PROVE  Push(r) \in Seq(Regs(prog)) /\ ToSet(Push(r)) = { s \in {r} : Pushable(s) }
  <2>1. <<r>> \in Seq(Regs(prog)) /\ <<>> \in Seq(Regs(prog))
    OBVIOUS
  <2>2. ToSet(<<r>>) = {r} /\ ToSet(<<>>) = {}
    BY DEF ToSet
  <2> QED BY <2>1, <2>2 DEF Push
<1>2. simplify_queue' \in Seq(Regs(prog)) /\ ToSet(simplify_queue') = T
  <2>1. CASE src = dst
    BY <2>1, <1>1 DEF AddBothToQueue
  <2>2. CASE src # dst
    <3>1. simplify_queue' = Push(src) \o Push(dst)
      BY <2>2 DEF AddBothToQueue
    <3>2. /\ Push(src) \o Push(dst) \in Seq(Regs(prog))
          /\ ToSet(Push(src) \o Push(dst)) = ToSet(Push(src)) \cup ToSet(Push(dst))
      BY <1>1, AppendedElements
    <3> QED BY <3>1, <3>2, <1>1
  <2> QED BY <2>1, <2>2
<1>3. \A r \in T : r \in VirtualRegs(prog) /\ alias[r] = r /\ moves[r] \cap LiveMoves' = {}
  BY DEF Pushable, move_related, VirtualRegs
<1>4. /\ freeze_queue' = freeze_queue \ T
      /\ state' = [r \in Regs(prog) |-> IF r \in T THEN "to_simplify" ELSE state[r]]
  BY DEF AddBothToQueue
<1>5. Pushes(T)
  <2> HIDE DEF T
  <2> QED BY <1>2, <1>3, <1>4 DEF Pushes
<1> QED BY <1>5

(* ... and what freeze_moves does: the register at the other end of a move *)
(* is pushed when no move is left to it.                                   *)
LEMMA FreezePushes ==
  ASSUME IsProgram(prog), RoundTypes, PrecoloredStays, pc = "work", AliasInv,
         NEW reg \in VirtualRegs(prog), alias[reg] = reg,
         NEW fq \in SUBSET freeze_queue, freeze_queue \ fq \subseteq {reg},
         reg \in freeze_queue => reg \notin fq,
         spill_queue' \subseteq spill_queue, spill_queue \ spill_queue' \subseteq {reg},
         FreezeMoves(reg, fq)
  PROVE  \E T \in SUBSET VirtualRegs(prog) : Pushes(T)
<1> DEFINE frozen == moves[reg] \cap LiveMoves
<1>1. PICK order \in SetToSeqs(frozen) :
        LET left(n)  == LiveMoves \ {order[m] : m \in 1..n}
            other(n) == Other(reg, order[n])
            pushed   == { n \in DOMAIN order : Ready(other(n), left(n)) }
        IN  /\ \E turn \in Ascending(pushed) :
                   simplify_queue' = <<reg>> \o [n \in DOMAIN turn |-> other(turn[n])]
            /\ freeze_queue' = fq \ {other(n) : n \in pushed}
            /\ state' = [r \in Regs(prog) |->
                            IF r = reg \/ \E n \in pushed : other(n) = r
                            THEN "to_simplify" ELSE state[r]]
            /\ move_queue' = move_queue \ frozen
            /\ active_moves' = active_moves \ frozen
  BY DEF FreezeMoves
<1> DEFINE left(n)  == LiveMoves \ {order[m] : m \in 1..n}
           other(n) == Other(reg, order[n])
           pushed   == { n \in DOMAIN order : Ready(other(n), left(n)) }
           T        == {reg} \cup {other(n) : n \in pushed}
<1>2. /\ \E turn \in Ascending(pushed) :
                   simplify_queue' = <<reg>> \o [n \in DOMAIN turn |-> other(turn[n])]
      /\ freeze_queue' = fq \ {other(n) : n \in pushed}
      /\ state' = [r \in Regs(prog) |->
                      IF r = reg \/ \E n \in pushed : other(n) = r
                      THEN "to_simplify" ELSE state[r]]
      /\ move_queue' = move_queue \ frozen
      /\ active_moves' = active_moves \ frozen
  BY <1>1
<1>3. frozen \subseteq Moves(prog) /\ IsFiniteSet(frozen)
  <2>1. frozen \subseteq Moves(prog)
    BY DEF RoundTypes, VirtualRegs
  <2> QED BY <2>1, FiniteProgram, FS_Subset
<1>4. ToSet(order) = frozen /\ DOMAIN order = 1..Cardinality(frozen) /\ Cardinality(frozen) \in Nat
  <2> HIDE DEF frozen
  <2> QED BY <1>3, AllInOrder
<1>5. \A n \in DOMAIN order : order[n] \in frozen
  <2> HIDE DEF frozen
  <2> QED BY <1>4 DEF ToSet
<1>6. ASSUME NEW n \in DOMAIN order
      PROVE  other(n) \in Regs(prog) /\ alias[other(n)] = other(n)
  <2>1. order[n] \in Moves(prog)
    BY <1>3, <1>5
  <2>2. prog.code[order[n]].dest \in Regs(prog) /\ prog.code[order[n]].src \in Regs(prog)
    BY <2>1 DEF Moves, IsProgram, IsInstr
  <2> QED BY <2>2 DEF Other, RoundTypes, AliasInv
<1>7. LiveMoves' = LiveMoves \ frozen
  <2> HIDE DEF frozen
  <2> QED BY <1>2 DEF LiveMoves
<1>8. ASSUME NEW n \in pushed
      PROVE  /\ other(n) \in VirtualRegs(prog) /\ alias[other(n)] = other(n)
             /\ moves[other(n)] \cap LiveMoves' = {}
  <2>1. n \in DOMAIN order /\ Ready(other(n), left(n))
    OBVIOUS
  <2>2. other(n) \in Regs(prog) /\ alias[other(n)] = other(n)
    BY <1>6, <2>1
  <2>3. moves[other(n)] \cap left(n) = {} /\ q_total[other(n)] < PR(other(n))
    BY <2>1 DEF Ready, move_related
  <2>4. {order[m] : m \in 1..n} \subseteq frozen
    <3>1. n \in 1..Cardinality(frozen) /\ \A m \in 1..n : m \in DOMAIN order
      <4> HIDE DEF frozen, pushed, other, left
      <4> QED BY <2>1, <1>4
    <3> QED BY <3>1, <1>5
  <2>5. LiveMoves' \subseteq left(n)
    <3> HIDE DEF frozen
    <3> QED BY <1>7, <2>4
  <2>6. other(n) # Precolored
    <3>1. Precolored \in Regs(prog) /\ q_total[Precolored] \in Nat
      BY DEF RoundTypes, IsProgram
    <3>2. PR(Precolored) \in Nat /\ q_total[Precolored] >= PR(Precolored)
      BY <3>1, ClassTypes DEF PrecoloredStays
    <3> QED BY <2>3, <3>1, <3>2
  <2> QED
    <3> HIDE DEF left, other
    <3> QED BY <2>2, <2>3, <2>5, <2>6 DEF VirtualRegs
<1>9. moves[reg] \cap LiveMoves' = {}
  BY <1>7 DEF LiveMoves
<1>10. PICK turn \in Ascending(pushed) :
          simplify_queue' = <<reg>> \o [n \in DOMAIN turn |-> other(turn[n])]
  BY <1>2
<1>11. /\ ToSet(turn) = pushed /\ DOMAIN turn = 1..Cardinality(pushed) /\ Cardinality(pushed) \in Nat
       /\ \A n \in DOMAIN turn : turn[n] \in pushed
  <2>1. turn \in SetToSeqs(pushed)
    <3> HIDE DEF pushed
    <3> QED BY <1>10 DEF Ascending
  <2>2. IsFiniteSet(1..Cardinality(frozen))
    <3> HIDE DEF frozen
    <3> QED BY <1>4, FS_Interval
  <2>3. IsFiniteSet(pushed)
    <3>1. pushed \subseteq 1..Cardinality(frozen)
      BY <1>4
    <3> HIDE DEF pushed, frozen
    <3> QED BY <2>2, <3>1, FS_Subset
  <2> HIDE DEF pushed
  <2> QED BY <2>1, <2>3, AllInOrder DEF ToSet
<1> DEFINE pushing == [n \in DOMAIN turn |-> other(turn[n])]
<1>12. pushing \in Seq(Regs(prog)) /\ ToSet(pushing) = {other(n) : n \in pushed}
  <2>1. \A n \in DOMAIN turn : other(turn[n]) \in Regs(prog)
    <3> HIDE DEF pushed, other
    <3> QED BY <1>8, <1>11 DEF VirtualRegs
  <2>2. pushing \in [1..Cardinality(pushed) -> Regs(prog)]
    <3> HIDE DEF pushed, other
    <3> QED BY <1>11, <2>1
  <2>3. pushing \in Seq(Regs(prog)) /\ DOMAIN pushing = DOMAIN turn
    <3> HIDE DEF pushed, other
    <3> QED BY <1>11, <2>2
  <2>4. \A e \in ToSet(pushing) : e \in {other(n) : n \in pushed}
    <3> HIDE DEF pushed, other
    <3> QED BY <1>11, <2>3 DEF ToSet
  <2>5. \A n \in pushed : other(n) \in ToSet(pushing)
    <3> SUFFICES ASSUME NEW n \in pushed PROVE other(n) \in ToSet(pushing)
      OBVIOUS
    <3>1. PICK k \in DOMAIN turn : turn[k] = n
      <4> HIDE DEF pushed
      <4> QED BY <1>11 DEF ToSet
    <3> QED
      <4> HIDE DEF pushed, other
      <4> QED BY <3>1, <2>3 DEF ToSet
  <2> HIDE DEF pushed, other, pushing
  <2> QED BY <2>3, <2>4, <2>5
<1>13. simplify_queue' \in Seq(Regs(prog)) /\ ToSet(simplify_queue') = T
  <2>1. <<reg>> \in Seq(Regs(prog)) /\ ToSet(<<reg>>) = {reg}
    BY DEF ToSet, VirtualRegs
  <2> HIDE DEF pushing, pushed, other
  <2>2. simplify_queue' = <<reg>> \o pushing
    BY <1>10 DEF pushing
  <2>3. PICK R, f, g : R = Regs(prog) /\ f = <<reg>> /\ g = pushing
    OBVIOUS
  <2>4. f \in Seq(R) /\ g \in Seq(R) /\ simplify_queue' = f \o g
    BY <2>1, <2>2, <2>3, <1>12
  <2>5. f \o g \in Seq(R) /\ ToSet(f \o g) = ToSet(f) \cup ToSet(g)
    BY <2>4, AppendedElements
  <2> QED BY <2>1, <2>3, <2>4, <2>5, <1>12
<1>14. state' = [r \in Regs(prog) |-> IF r \in T THEN "to_simplify" ELSE state[r]]
  <2> HIDE DEF other, pushed
  <2> QED BY <1>2
<1>15. freeze_queue' = freeze_queue \ T
  <2> HIDE DEF other, pushed
  <2> QED BY <1>2
<1>16. \A r \in T : r \in VirtualRegs(prog) /\ alias[r] = r /\ moves[r] \cap LiveMoves' = {}
  <2> HIDE DEF other, pushed
  <2> QED BY <1>8, <1>9
<1>17. Pushes(T)
  <2>1. spill_queue \ spill_queue' \subseteq T
    OBVIOUS
  <2> HIDE DEF T, frozen
  <2> QED BY <1>7, <1>13, <1>14, <1>15, <1>16, <2>1 DEF Pushes
<1> QED
  <2> HIDE DEF T
  <2> QED BY <1>16, <1>17

(* Then the queues stay in order.                                          *)
LEMMA PushingKeepsQueues ==
  ASSUME IsProgram(prog), pc = "work", RoundTypes, StateInv, QueueInv, LiveMovesLive,
         simplify_queue = <<>>, NEW T \in SUBSET VirtualRegs(prog), Pushes(T),
         UNCHANGED <<prog, pc, graph, select_stack, spilled_regs>>
  PROVE  RoundTypes' /\ StateInv' /\ QueueInv' /\ LiveMovesLive'
<1>1. /\ simplify_queue' \in Seq(Regs(prog)) /\ ToSet(simplify_queue') = T
      /\ \A r \in T : alias[r] = r /\ moves[r] \cap LiveMoves' = {} /\ r # Precolored /\ r \in Regs(prog)
      /\ LiveMoves' \subseteq LiveMoves
      /\ state' = [r \in Regs(prog) |-> IF r \in T THEN "to_simplify" ELSE state[r]]
      /\ freeze_queue' = freeze_queue \ T
      /\ spill_queue' \subseteq spill_queue /\ spill_queue \ spill_queue' \subseteq T
  BY DEF Pushes, VirtualRegs
<1>2. ToSet(simplify_queue) = {}
  BY DEF ToSet
<1>3. /\ prog' = prog /\ pc' = pc /\ q_total' = q_total /\ adjacent' = adjacent
      /\ moves' = moves /\ alias' = alias /\ select_stack' = select_stack
      /\ spilled_regs' = spilled_regs
  BY DEF graph
<1>4. state' \in [Regs(prog) -> States]
  BY <1>1 DEF RoundTypes, States
<1>5. \A r \in Regs(prog) : state'[r] = IF r \in T THEN "to_simplify" ELSE state[r]
  BY <1>1
<1>6. RoundTypes'
  <2>1. move_queue' \subseteq Moves(prog) /\ active_moves' \subseteq Moves(prog)
    BY <1>1 DEF RoundTypes, LiveMoves
  <2>2. freeze_queue' \subseteq Regs(prog) /\ spill_queue' \subseteq Regs(prog)
    BY <1>1 DEF RoundTypes
  <2> QED BY <1>1, <1>3, <1>4, <2>1, <2>2 DEF RoundTypes
<1>7. StateInv'
  <2>1. state'[Precolored] = "initial"
    BY <1>1, <1>5, FiniteProgram DEF StateInv
  <2>2. ASSUME NEW r \in VirtualRegs(prog)
        PROVE  /\ state'[r] \in {"to_simplify", "to_freeze", "to_spill", "simplified", "coalesced"}
               /\ state'[r] = "to_simplify" => r \in ToSet(simplify_queue')
               /\ state'[r] = "to_freeze" => r \in freeze_queue'
               /\ state'[r] = "to_spill" => r \in spill_queue'
               /\ state'[r] = "simplified" => r \in ToSet(select_stack')
               /\ state'[r] = "coalesced" <=> alias'[r] # r
    <3>1. r \in Regs(prog)
      BY DEF VirtualRegs
    <3>2. CASE r \in T
      BY <3>1, <3>2, <1>1, <1>3, <1>5
    <3>3. CASE r \notin T
      BY <3>1, <3>3, <1>1, <1>2, <1>3, <1>5 DEF StateInv
    <3> QED BY <3>2, <3>3
  <2> QED BY <2>1, <2>2, <1>3 DEF StateInv
<1>8. QueueInv'
  <2>1. \A r \in freeze_queue' : state'[r] = "to_freeze" /\ r # Precolored /\ alias'[r] = r
    BY <1>1, <1>3, <1>5 DEF QueueInv, Queued, RoundTypes
  <2>2. \A r \in spill_queue' : state'[r] \in {"to_spill", "to_simplify", "simplified"}
                                   /\ r # Precolored /\ alias'[r] = r
    BY <1>1, <1>3, <1>5 DEF QueueInv, Queued, RoundTypes
  <2>3. \A r \in ToSet(select_stack) : r \in Regs(prog)
    BY ElementsOfSeq DEF RoundTypes
  <2>4. \A r \in ToSet(simplify_queue') \cup ToSet(select_stack') :
           state'[r] \in {"to_simplify", "simplified"} /\ r # Precolored /\ alias'[r] = r
    BY <1>1, <1>3, <1>5, <2>3 DEF QueueInv
  <2> QED BY <2>1, <2>2, <2>4 DEF QueueInv, Queued
<1>9. LiveMovesLive'
  <2> SUFFICES ASSUME NEW m \in LiveMoves',
                      NEW r \in {alias[prog.code[m].src], alias[prog.code[m].dest]}
               PROVE  m \in moves[r] /\ state'[r] \in {"initial", "to_freeze", "to_spill"}
    BY <1>3 DEF LiveMovesLive
  <2>1. m \in LiveMoves /\ m \in moves[r] /\ state[r] \in {"initial", "to_freeze", "to_spill"}
    BY <1>1 DEF LiveMovesLive
  <2>2. m \in Moves(prog)
    BY <2>1 DEF LiveMoves, RoundTypes
  <2>3. r \in Regs(prog)
    BY <2>2 DEF Moves, IsProgram, IsInstr, RoundTypes
  <2>4. r \notin T
    BY <1>1, <2>1
  <2> QED BY <2>1, <2>3, <2>4, <1>5
<1> QED BY <1>6, <1>7, <1>8, <1>9

(* What is known of the graph and the places stays while they do.          *)
LEMMA SameGraph ==
  ASSUME UNCHANGED <<prog, graph, select_stack, allocated>>, pc' = "work" => pc = "work",
         PlaceTypes, AliasInv, EdgeInv, StackInv, IsProgram(prog)
  PROVE  (IsProgram(prog) /\ PlaceTypes /\ AliasInv /\ EdgeInv /\ StackInv)'
<1>1. /\ prog' = prog /\ adjacent' = adjacent /\ alias' = alias /\ allocated' = allocated
      /\ alias_swizzle' = alias_swizzle /\ select_stack' = select_stack
  BY DEF graph
<1>2. PlaceTypes' /\ AliasInv' /\ EdgeInv' /\ IsProgram(prog)'
  BY <1>1 DEF PlaceTypes, AliasInv, EdgeInv, Comps
<1>3. /\ \A r, s : Related(r, s)' <=> Related(r, s)
      /\ \A r, s : Sees(r, s)' <=> Sees(r, s)
      /\ \A r, s : Earlier(r, s)' <=> Earlier(r, s)
  BY <1>1 DEF Related, Sees, Earlier, Coarse
<1>4. StackInv'
  BY <1>1, <1>3 DEF StackInv
<1> QED BY <1>2, <1>4
-----------------------------------------------------------------------------
(* One lemma per step.                                                     *)

(* During a round, that is.                                                *)
WorkInv ==
    /\ IsProgram(prog) /\ pc = "work"
    /\ RoundTypes /\ PlaceTypes /\ AliasInv /\ EdgeInv /\ StackInv
    /\ StateInv /\ QueueInv /\ LiveMovesLive

LEMMA RoundInvInWork ==
  ASSUME pc = "work"
  PROVE  RoundInv <=> WorkInv
BY DEF RoundInv, WorkInv, InRound, PcInv

LEMMA MoveEnds ==
  ASSUME WorkInv, NEW m \in move_queue
  PROVE  /\ m \in Moves(prog) /\ m \in LiveMoves
         /\ prog.code[m].src \in Regs(prog) /\ prog.code[m].dest \in Regs(prog)
         /\ \A r \in {alias[prog.code[m].src], alias[prog.code[m].dest]} :
              /\ r \in Regs(prog) /\ alias[r] = r
              /\ m \in moves[r] /\ state[r] \in {"initial", "to_freeze", "to_spill"}
<1>1. m \in Moves(prog) /\ m \in LiveMoves
  BY DEF WorkInv, RoundTypes, LiveMoves
<1>2. prog.code[m].src \in Regs(prog) /\ prog.code[m].dest \in Regs(prog)
  BY <1>1 DEF Moves, WorkInv, IsProgram, IsInstr
<1> QED BY <1>1, <1>2 DEF WorkInv, AliasInv, RoundTypes, LiveMovesLive

(* A step that only pushes.                                                *)
LEMMA PushingStep ==
  ASSUME WorkInv, simplify_queue = <<>>, NEW T \in SUBSET VirtualRegs(prog), Pushes(T),
         UNCHANGED <<prog, pc, graph, select_stack, allocated, spilled_regs>>
  PROVE  WorkInv'
<1>1. RoundTypes' /\ StateInv' /\ QueueInv' /\ LiveMovesLive'
  BY PushingKeepsQueues DEF WorkInv
<1>2. (IsProgram(prog) /\ PlaceTypes /\ AliasInv /\ EdgeInv /\ StackInv)'
  BY SameGraph DEF WorkInv
<1> QED BY <1>1, <1>2 DEF WorkInv

LEMMA CoalesceSameStep ==
  ASSUME WorkInv, CoalesceSame
  PROVE  WorkInv'
<1>1. PICK m \in move_queue :
           /\ alias[prog.code[m].src] = alias[prog.code[m].dest]
           /\ move_queue' = move_queue \ {m}
           /\ active_moves' = active_moves
           /\ AddBothToQueue(alias[prog.code[m].src], alias[prog.code[m].src])
  BY DEF CoalesceSame
<1> DEFINE src == alias[prog.code[m].src]
           T == { r \in {src, src} : Pushable(r) }
<1>2. src \in Regs(prog) /\ alias[src] = src
  BY MoveEnds
<1>3. LiveMoves' \subseteq LiveMoves
  BY <1>1 DEF LiveMoves
<1>4. simplify_queue = <<>> /\ UNCHANGED <<prog, pc, graph, select_stack, allocated, spilled_regs, spill_queue>>
  BY DEF CoalesceSame, Trying
<1>5. Pushes(T)
  <2> HIDE DEF src
  <2> QED BY <1>1, <1>2, <1>3, <1>4, AddBothPushes DEF WorkInv, src
<1>6. T \in SUBSET VirtualRegs(prog)
  BY <1>5 DEF Pushes
<1> QED
  <2> HIDE DEF T
  <2> QED BY <1>4, <1>5, <1>6, PushingStep

LEMMA CoalesceImpossibleStep ==
  ASSUME WorkInv, CoalesceImpossible
  PROVE  WorkInv'
<1>1. PICK m \in move_queue :
           /\ move_queue' = move_queue \ {m}
           /\ active_moves' = active_moves
           /\ AddBothToQueue(From(prog.code[m]), Into(prog.code[m]))
  BY DEF CoalesceImpossible
<1> DEFINE src == From(prog.code[m])
           dst == Into(prog.code[m])
           T == { r \in {src, dst} : Pushable(r) }
<1>2. src \in Regs(prog) /\ alias[src] = src /\ dst \in Regs(prog) /\ alias[dst] = dst
  BY MoveEnds DEF From, Into
<1>3. LiveMoves' \subseteq LiveMoves
  BY <1>1 DEF LiveMoves
<1>4. simplify_queue = <<>> /\ UNCHANGED <<prog, pc, graph, select_stack, allocated, spilled_regs, spill_queue>>
  BY DEF CoalesceImpossible, Trying
<1>5. Pushes(T)
  <2> HIDE DEF src, dst
  <2> QED BY <1>1, <1>2, <1>3, <1>4, AddBothPushes DEF WorkInv, src, dst
<1>6. T \in SUBSET VirtualRegs(prog)
  BY <1>5 DEF Pushes
<1> QED
  <2> HIDE DEF T
  <2> QED BY <1>4, <1>5, <1>6, PushingStep

(* A move that waits is still to be tried.                                 *)
LEMMA CoalesceLaterStep ==
  ASSUME WorkInv, CoalesceLater
  PROVE  WorkInv'
<1>1. PICK m \in move_queue :
           move_queue' = move_queue \ {m} /\ active_moves' = active_moves \cup {m}
  BY DEF CoalesceLater
<1>2. /\ simplify_queue' = simplify_queue /\ freeze_queue' = freeze_queue
      /\ spill_queue' = spill_queue /\ state' = state
      /\ UNCHANGED <<prog, pc, graph, select_stack, allocated, spilled_regs>>
  BY DEF CoalesceLater
<1>3. LiveMoves' = LiveMoves
  BY <1>1 DEF LiveMoves
<1>4. (IsProgram(prog) /\ PlaceTypes /\ AliasInv /\ EdgeInv /\ StackInv)'
  BY <1>2, SameGraph DEF WorkInv
<1>5. /\ prog' = prog /\ pc' = pc /\ q_total' = q_total /\ adjacent' = adjacent
      /\ moves' = moves /\ alias' = alias /\ select_stack' = select_stack
      /\ spilled_regs' = spilled_regs
  BY <1>2 DEF graph
<1>6. RoundTypes'
  BY <1>1, <1>2, <1>5 DEF WorkInv, RoundTypes
<1>7. StateInv' /\ QueueInv'
  BY <1>2, <1>5 DEF WorkInv, StateInv, QueueInv, Queued
<1>8. LiveMovesLive'
  BY <1>2, <1>3, <1>5 DEF WorkInv, LiveMovesLive
<1> QED BY <1>4, <1>5, <1>6, <1>7, <1>8 DEF WorkInv

LEMMA FreezeStep ==
  ASSUME WorkInv, PrecoloredStays, Freeze
  PROVE  WorkInv'
<1>1. PICK reg \in freeze_queue : FreezeMoves(reg, freeze_queue \ {reg})
  BY DEF Freeze
<1>2. /\ simplify_queue = <<>> /\ spill_queue' = spill_queue
      /\ UNCHANGED <<prog, pc, graph, select_stack, allocated, spilled_regs>>
  BY DEF Freeze, Trying
<1>3. reg \in VirtualRegs(prog) /\ alias[reg] = reg
  BY DEF WorkInv, QueueInv, Queued, RoundTypes, VirtualRegs
<1>4. PICK T \in SUBSET VirtualRegs(prog) : Pushes(T)
  <2> DEFINE fq == freeze_queue \ {reg}
  <2>1. /\ fq \in SUBSET freeze_queue /\ freeze_queue \ fq \subseteq {reg} /\ reg \notin fq
        /\ FreezeMoves(reg, fq)
    BY <1>1
  <2>2. spill_queue' \subseteq spill_queue /\ spill_queue \ spill_queue' \subseteq {reg}
    BY <1>2
  <2> HIDE DEF fq
  <2> QED BY <1>3, <2>1, <2>2, FreezePushes DEF WorkInv
<1> QED BY <1>2, <1>4, PushingStep

LEMMA SelectSpillStep ==
  ASSUME WorkInv, PrecoloredStays, SelectSpill
  PROVE  WorkInv'
<1>1. PICK reg \in Cheapest : FreezeMoves(reg, freeze_queue) /\ spill_queue' = spill_queue \ {reg}
  BY DEF SelectSpill
<1>2. /\ simplify_queue = <<>> /\ freeze_queue = {}
      /\ UNCHANGED <<prog, pc, graph, select_stack, allocated, spilled_regs>>
  BY DEF SelectSpill, Trying
<1>3. reg \in VirtualRegs(prog) /\ alias[reg] = reg
  BY DEF WorkInv, QueueInv, Queued, RoundTypes, VirtualRegs, Cheapest
<1>4. PICK T \in SUBSET VirtualRegs(prog) : Pushes(T)
  <2>1. /\ freeze_queue \in SUBSET freeze_queue /\ freeze_queue \ freeze_queue \subseteq {reg}
        /\ reg \in freeze_queue => reg \notin freeze_queue
    BY <1>2
  <2>2. spill_queue' \subseteq spill_queue /\ spill_queue \ spill_queue' \subseteq {reg}
    BY <1>1
  <2> QED BY <1>1, <1>3, <2>1, <2>2, FreezePushes DEF WorkInv
<1> QED BY <1>2, <1>4, PushingStep

(* The queues and the states agree before, with st for the states.        *)
Consistent(st, mv, queued, fq, sq, queue) ==
    /\ st[Precolored] = "initial"
    /\ \A r \in VirtualRegs(prog) :
         /\ st[r] \in {"to_simplify", "to_freeze", "to_spill", "simplified", "coalesced"}
         /\ st[r] = "to_simplify" => r \in ToSet(queue)
         /\ st[r] = "to_freeze" => r \in fq
         /\ st[r] = "to_spill" => r \in sq
         /\ st[r] = "simplified" => r \in ToSet(select_stack')
         /\ st[r] = "coalesced" <=> alias'[r] # r
    /\ \A r \in fq : st[r] = "to_freeze"
    /\ \A r \in sq : st[r] \in {"to_spill", "to_simplify", "simplified"}
    /\ \A r \in ToSet(queue) \cup ToSet(select_stack') : st[r] \in {"to_simplify", "simplified"}
    /\ \A m \in queued \cup active_moves :
         \A r \in {alias'[prog.code[m].src], alias'[prog.code[m].dest]} :
            m \in mv[r] /\ st[r] \in {"initial", "to_freeze", "to_spill"}

(* Decrementing degrees keeps the queues in order, too.                    *)
LEMMA RequeueKeepsQueues ==
  ASSUME IsProgram(prog), prog' = prog, pc' = "work", RoundTypes,
         NEW others \in SUBSET Regs(prog), NEW q, NEW st \in [Regs(prog) -> States],
         NEW adj, NEW queued \in SUBSET Moves(prog),
         NEW fq \in SUBSET Regs(prog), NEW sq \in SUBSET Regs(prog),
         NEW queue \in Seq(Regs(prog)), NEW full \in SUBSET Regs(prog),
         NEW mv, moves' = mv,
         alias' \in [Regs(prog) -> Regs(prog)], select_stack' \in Seq(Regs(prog)),
         q[Precolored] \in Nat, q[Precolored] >= PR(Precolored),
         \A r \in others : st[r] \notin {"simplified", "coalesced"},
         Consistent(st, mv, queued, fq, sq, queue),
         Requeue(others, q, st, mv, adj, queued, fq, sq, queue, full)
  PROVE  /\ StateInv' /\ QueueInv' /\ LiveMovesLive'
         /\ state' \in [Regs(prog) -> States]
         /\ move_queue' \subseteq Moves(prog) /\ active_moves' \subseteq Moves(prog)
         /\ freeze_queue' \subseteq Regs(prog) /\ spill_queue' \subseteq Regs(prog)
         /\ simplify_queue' \in Seq(Regs(prog))
<1>0. /\ st[Precolored] = "initial"
      /\ \A r \in VirtualRegs(prog) :
             /\ st[r] \in {"to_simplify", "to_freeze", "to_spill", "simplified", "coalesced"}
             /\ st[r] = "to_simplify" => r \in ToSet(queue)
             /\ st[r] = "to_freeze" => r \in fq
             /\ st[r] = "to_spill" => r \in sq
             /\ st[r] = "simplified" => r \in ToSet(select_stack')
             /\ st[r] = "coalesced" <=> alias'[r] # r
      /\ \A r \in fq : st[r] = "to_freeze"
      /\ \A r \in sq : st[r] \in {"to_spill", "to_simplify", "simplified"}
      /\ \A r \in ToSet(queue) \cup ToSet(select_stack') : st[r] \in {"to_simplify", "simplified"}
      /\ \A m \in queued \cup active_moves :
         \A r \in {alias'[prog.code[m].src], alias'[prog.code[m].dest]} :
              m \in mv[r] /\ st[r] \in {"initial", "to_freeze", "to_spill"}
  BY DEF Consistent
<1>1. \A r \in others : q[r] < PR(r) => st[r] \in {"to_simplify", "to_freeze", "to_spill"}
  <2>1. PR(Precolored) \in Nat
    BY ClassTypes, FiniteProgram
  <2> QED BY <2>1, <1>0 DEF VirtualRegs
<1>2. active_moves \subseteq Moves(prog)
  BY DEF RoundTypes
<1>3. /\ Requeued(st, mv, queued, fq, sq, queue)
      /\ move_queue' \cup active_moves' = queued \cup active_moves
      /\ state' \in [Regs(prog) -> States]
      /\ freeze_queue' \subseteq Regs(prog) /\ spill_queue' \subseteq Regs(prog)
      /\ simplify_queue' \in Seq(Regs(prog))
  <2>1. Requeued(st, mv, queued, fq, sq, queue)
    BY <1>0, <1>1, <1>2, RequeueEffect
  <2> QED BY <2>1 DEF Requeued
<1>4. \A r \in Regs(prog) :
              /\ \/ state'[r] = st[r]
                 \/ st[r] = "to_spill" /\ state'[r] \in {"to_spill", "to_freeze", "to_simplify"}
                 \/ st[r] = "to_freeze" /\ state'[r] \in {"to_spill", "to_freeze"}
              /\ state'[r] = "to_simplify" =>
                   \/ st[r] = "to_simplify"
                   \/ r \in ToSet(simplify_queue') /\ mv[r] \cap (queued \cup active_moves) = {}
              /\ state'[r] = "to_freeze" /\ (st[r] = "to_freeze" => r \in fq) => r \in freeze_queue'
              /\ state'[r] = "to_spill" /\ (st[r] = "to_spill" => r \in sq) => r \in spill_queue'
  BY <1>3 DEF Requeued
<1>5. /\ \A r \in freeze_queue' : state'[r] = "to_freeze" /\ st[r] \in {"to_freeze", "to_spill"}
      /\ \A r \in spill_queue' :
              \/ r \in sq /\ state'[r] = st[r]
              \/ state'[r] = "to_spill"
      /\ ToSet(queue) \subseteq ToSet(simplify_queue')
      /\ \A r \in ToSet(simplify_queue') :
              \/ r \in ToSet(queue) /\ (st[r] \notin {"to_freeze", "to_spill"} => state'[r] = st[r])
              \/ st[r] = "to_spill" /\ state'[r] = "to_simplify"
  BY <1>3 DEF Requeued
<1>6. Precolored \in Regs(prog) /\ \A r \in Regs(prog) : r = Precolored \/ r \in VirtualRegs(prog)
  BY FiniteProgram DEF VirtualRegs
<1>7. /\ ToSet(simplify_queue') \subseteq Regs(prog) /\ ToSet(select_stack') \subseteq Regs(prog)
      /\ ToSet(queue) \subseteq Regs(prog)
  BY <1>3, ElementsOfSeq
<1>8. \A r \in Regs(prog) : st[r] \in States \ {"initial", "coalesced"} => r # Precolored /\ alias'[r] = r
  BY <1>0, <1>6 DEF States
<1>9. StateInv'
  <2>1. state'[Precolored] = "initial"
    BY <1>0, <1>4, <1>6
  <2>2. ASSUME NEW r \in VirtualRegs(prog)
        PROVE  /\ state'[r] \in {"to_simplify", "to_freeze", "to_spill", "simplified", "coalesced"}
               /\ state'[r] = "to_simplify" => r \in ToSet(simplify_queue')
               /\ state'[r] = "to_freeze" => r \in freeze_queue'
               /\ state'[r] = "to_spill" => r \in spill_queue'
               /\ state'[r] = "simplified" => r \in ToSet(select_stack')
               /\ state'[r] = "coalesced" <=> alias'[r] # r
    <3>1. r \in Regs(prog)
      BY DEF VirtualRegs
    <3>2. CASE state'[r] = st[r]
      BY <3>1, <3>2, <1>0, <1>4, <1>5
    <3>3. CASE state'[r] # st[r]
      <4>1. /\ st[r] \in {"to_spill", "to_freeze"}
            /\ state'[r] \in {"to_spill", "to_freeze", "to_simplify"}
        BY <3>1, <3>3, <1>4
      <4>2. alias'[r] = r
        BY <3>1, <4>1, <1>8 DEF States
      <4>3. /\ state'[r] = "to_simplify" => r \in ToSet(simplify_queue')
            /\ state'[r] = "to_freeze" => r \in freeze_queue'
            /\ state'[r] = "to_spill" => r \in spill_queue'
        BY <3>1, <4>1, <1>0, <1>4
      <4> QED BY <4>1, <4>2, <4>3
    <3> QED BY <3>2, <3>3
  <2> QED BY <2>1, <2>2 DEF StateInv
<1>10. QueueInv'
  <2>1. \A r \in freeze_queue' : state'[r] = "to_freeze" /\ r # Precolored /\ alias'[r] = r
    BY <1>3, <1>5, <1>8 DEF States
  <2>2. \A r \in spill_queue' : state'[r] \in {"to_spill", "to_simplify", "simplified"}
                                   /\ r # Precolored /\ alias'[r] = r
    <3> SUFFICES ASSUME NEW r \in spill_queue'
                 PROVE  state'[r] \in {"to_spill", "to_simplify", "simplified"}
                                   /\ r # Precolored /\ alias'[r] = r
      OBVIOUS
    <3>1. r \in Regs(prog)
      BY <1>3
    <3>2. CASE r \in sq /\ state'[r] = st[r]
      BY <3>1, <3>2, <1>0, <1>8 DEF States
    <3>3. CASE state'[r] = "to_spill"
      <4>1. st[r] \in {"to_spill", "to_freeze"}
        BY <3>1, <3>3, <1>4
      <4> QED BY <3>1, <3>3, <4>1, <1>8 DEF States
    <3> QED BY <3>2, <3>3, <1>5
  <2>3. \A r \in ToSet(simplify_queue') : state'[r] \in {"to_simplify", "simplified"}
                                             /\ r # Precolored /\ alias'[r] = r
    BY <1>0, <1>5, <1>7, <1>8 DEF States
  <2>4. \A r \in ToSet(select_stack') : state'[r] \in {"to_simplify", "simplified"}
                                             /\ r # Precolored /\ alias'[r] = r
    BY <1>0, <1>4, <1>7, <1>8 DEF States
  <2> QED BY <2>1, <2>2, <2>3, <2>4 DEF QueueInv, Queued
<1>11. LiveMovesLive'
  <2> SUFFICES ASSUME NEW m \in queued \cup active_moves,
                      NEW r \in {alias'[prog.code[m].src], alias'[prog.code[m].dest]}
               PROVE  m \in mv[r] /\ state'[r] \in {"initial", "to_freeze", "to_spill"}
    BY <1>3 DEF LiveMovesLive, LiveMoves
  <2>1. m \in mv[r] /\ st[r] \in {"initial", "to_freeze", "to_spill"}
    BY <1>0
  <2>2. r \in Regs(prog)
    <3>1. m \in Moves(prog)
      BY <1>2
    <3>2. prog.code[m].src \in Regs(prog) /\ prog.code[m].dest \in Regs(prog)
      BY <3>1 DEF Moves, IsProgram, IsInstr
    <3> QED BY <3>2
  <2>3. state'[r] # "to_simplify"
    BY <2>1, <2>2, <1>4
  <2> QED BY <2>1, <2>2, <2>3, <1>4
<1>12. move_queue' \subseteq Moves(prog) /\ active_moves' \subseteq Moves(prog)
  BY <1>2, <1>3
<1> QED BY <1>3, <1>9, <1>10, <1>11, <1>12

(* Popping and pushing.                                                    *)
LEMMA HeadAndTail ==
  ASSUME NEW S, NEW s \in Seq(S), s # <<>>
  PROVE  /\ Head(s) \in ToSet(s) /\ Tail(s) \in Seq(S)
         /\ ToSet(s) = {Head(s)} \cup ToSet(Tail(s))
<1>1. /\ Len(s) \in Nat /\ Len(s) >= 1 /\ DOMAIN s = 1..Len(s) /\ Head(s) = s[1]
      /\ Tail(s) \in Seq(S) /\ Len(Tail(s)) = Len(s) - 1
      /\ DOMAIN Tail(s) = 1..(Len(s) - 1)
      /\ \A n \in 1..(Len(s) - 1) : Tail(s)[n] = s[n + 1]
  OBVIOUS
<1>2. Head(s) \in ToSet(s)
  BY <1>1 DEF ToSet
<1>3. \A e \in ToSet(Tail(s)) : e \in ToSet(s)
  <2> SUFFICES ASSUME NEW n \in 1..(Len(s) - 1) PROVE Tail(s)[n] \in ToSet(s)
    BY <1>1 DEF ToSet
  <2>1. n + 1 \in 1..Len(s)
    BY <1>1
  <2> QED BY <1>1, <2>1 DEF ToSet
<1>4. \A e \in ToSet(s) : e = Head(s) \/ e \in ToSet(Tail(s))
  <2> SUFFICES ASSUME NEW n \in 1..Len(s) PROVE s[n] = Head(s) \/ s[n] \in ToSet(Tail(s))
    BY <1>1 DEF ToSet
  <2>1. CASE n = 1
    BY <1>1, <2>1
  <2>2. CASE n > 1
    <3>1. n - 1 \in 1..(Len(s) - 1) /\ Tail(s)[n - 1] = s[n]
      BY <1>1, <2>2
    <3> QED BY <1>1, <3>1 DEF ToSet
  <2> QED BY <2>1, <2>2
<1> QED BY <1>1, <1>2, <1>3, <1>4

LEMMA AppendedElement ==
  ASSUME NEW S, NEW s \in Seq(S), NEW e \in S
  PROVE  /\ Append(s, e) \in Seq(S) /\ ToSet(Append(s, e)) = ToSet(s) \cup {e}
         /\ Len(s) \in Nat /\ DOMAIN s = 1..Len(s) /\ DOMAIN Append(s, e) = 1..(Len(s) + 1)
         /\ Append(s, e)[Len(s) + 1] = e /\ \A n \in 1..Len(s) : Append(s, e)[n] = s[n]
<1>1. /\ Append(s, e) \in Seq(S) /\ Len(s) \in Nat /\ DOMAIN s = 1..Len(s)
      /\ DOMAIN Append(s, e) = 1..(Len(s) + 1)
      /\ Append(s, e)[Len(s) + 1] = e /\ \A n \in 1..Len(s) : Append(s, e)[n] = s[n]
  OBVIOUS
<1>2. \A x \in ToSet(Append(s, e)) : x \in ToSet(s) \cup {e}
  <2> SUFFICES ASSUME NEW n \in 1..(Len(s) + 1) PROVE Append(s, e)[n] \in ToSet(s) \cup {e}
    BY <1>1 DEF ToSet
  <2>1. CASE n = Len(s) + 1
    BY <1>1, <2>1
  <2>2. CASE n \in 1..Len(s)
    BY <1>1, <2>2 DEF ToSet
  <2> QED BY <1>1, <2>1, <2>2
<1>3. \A x \in ToSet(s) : x \in ToSet(Append(s, e))
  <2> SUFFICES ASSUME NEW n \in 1..Len(s) PROVE s[n] \in ToSet(Append(s, e))
    BY <1>1 DEF ToSet
  <2>1. n \in 1..(Len(s) + 1) /\ Append(s, e)[n] = s[n]
    BY <1>1
  <2> QED BY <1>1, <2>1 DEF ToSet
<1>4. e \in ToSet(Append(s, e))
  <2>1. Len(s) + 1 \in 1..(Len(s) + 1)
    BY <1>1
  <2> QED BY <1>1, <2>1 DEF ToSet
<1> QED BY <1>1, <1>2, <1>3, <1>4

LEMMA SimplifyStack ==
  ASSUME WorkInv, Simplify
  PROVE  StackInv'
<1> DEFINE reg == Head(simplify_queue)
<1>1. /\ simplify_queue # <<>> /\ select_stack' = Append(select_stack, reg)
      /\ prog' = prog /\ pc' = pc /\ alias' = alias /\ adjacent' = adjacent
  BY DEF Simplify
<1>2. /\ simplify_queue \in Seq(Regs(prog)) /\ select_stack \in Seq(Regs(prog))
      /\ reg \in ToSet(simplify_queue) /\ reg \in Regs(prog)
  BY <1>1, HeadAndTail, ElementsOfSeq DEF WorkInv, RoundTypes
<1>3. /\ ToSet(select_stack') = ToSet(select_stack) \cup {reg}
      /\ Len(select_stack) \in Nat /\ DOMAIN select_stack = 1..Len(select_stack)
      /\ DOMAIN select_stack' = 1..(Len(select_stack) + 1)
      /\ select_stack'[Len(select_stack) + 1] = reg
      /\ \A n \in 1..Len(select_stack) : select_stack'[n] = select_stack[n]
  BY <1>1, <1>2, AppendedElement
<1>4. \A r, s : (Related(r, s)' <=> Related(r, s)) /\ (Sees(r, s)' <=> Sees(r, s))
  BY <1>1 DEF Related, Sees, Coarse
<1> SUFFICES ASSUME NEW r \in Regs(prog), NEW s \in Regs(prog), Related(r, s)
             PROVE  /\ Earlier(r, s)' => Sees(r, s)
                    /\ r \in ToSet(select_stack') \/ s \in ToSet(select_stack') \/ s \in adjacent[r]
  BY <1>1, <1>4 DEF StackInv
<1>5. /\ Earlier(r, s) => Sees(r, s)
      /\ r \in ToSet(select_stack) \/ s \in ToSet(select_stack) \/ s \in adjacent[r]
  BY DEF WorkInv, StackInv
<1>6. r \in ToSet(select_stack') \/ s \in ToSet(select_stack') \/ s \in adjacent[r]
  BY <1>3, <1>5
<1>7. ASSUME Earlier(r, s)' PROVE Sees(r, s)
  <2>1. PICK n \in 1..(Len(select_stack) + 1) :
            select_stack'[n] = r /\ \A m \in 1..n : select_stack'[m] # s
    BY <1>7, <1>3 DEF Earlier
  <2>2. CASE n \in 1..Len(select_stack)
    <3>1. select_stack[n] = r /\ \A m \in 1..n : select_stack[m] # s
      BY <2>1, <2>2, <1>3
    <3>2. Earlier(r, s)
      BY <3>1, <2>2, <1>3 DEF Earlier
    <3> QED BY <3>2, <1>5
  <2>3. CASE n = Len(select_stack) + 1
    <3>1. \A m \in 1..Len(select_stack) : select_stack[m] # s
      BY <2>1, <2>3, <1>3
    <3>2. s \notin ToSet(select_stack)
      BY <3>1, <1>3 DEF ToSet
    <3>3. CASE r \in ToSet(select_stack)
      <4>1. PICK k \in 1..Len(select_stack) : select_stack[k] = r
        BY <3>3, <1>3 DEF ToSet
      <4>2. Earlier(r, s)
        BY <4>1, <3>1, <1>3 DEF Earlier
      <4> QED BY <4>2, <1>5
    <3>4. CASE s \in adjacent[r]
      <4>1. alias[s] = s
        BY DEF Related, WorkInv, AliasInv, RoundTypes
      <4> QED BY <3>4, <4>1 DEF Sees
    <3> QED BY <3>2, <3>3, <3>4, <1>5
  <2> QED BY <2>2, <2>3, <1>3
<1> QED BY <1>6, <1>7

LEMMA SimplifyStep ==
  ASSUME WorkInv, PrecoloredStays', Simplify
  PROVE  WorkInv'
<1> DEFINE reg == Head(simplify_queue)
           st  == [state EXCEPT ![reg] = "simplified"]
           others == adjacent[reg] \ Gone(st)
<1>1. /\ pc = "work" /\ simplify_queue # <<>>
      /\ q_total' = [r \in Regs(prog) |->
                             IF r \in others THEN (q_total[r] - QR(r, reg)) % UInt
                             ELSE q_total[r]]
      /\ select_stack' = Append(select_stack, reg)
      /\ Requeue(others, q_total', st, moves, adjacent, move_queue, freeze_queue,
                      spill_queue, Tail(simplify_queue), {})
      /\ UNCHANGED <<source, prog, pc, adjacent, detailed, moves, alias, alias_swizzle,
                   allocated, spilled_regs, spill>>
  BY DEF Simplify
<1>2. /\ simplify_queue \in Seq(Regs(prog)) /\ reg \in Regs(prog)
      /\ Tail(simplify_queue) \in Seq(Regs(prog))
      /\ ToSet(simplify_queue) = {reg} \cup ToSet(Tail(simplify_queue))
  BY <1>1, HeadAndTail, ElementsOfSeq DEF WorkInv, RoundTypes
<1>3. /\ select_stack' \in Seq(Regs(prog))
      /\ ToSet(select_stack') = ToSet(select_stack) \cup {reg}
  <2>1. select_stack \in Seq(Regs(prog))
    BY DEF WorkInv, RoundTypes
  <2> QED BY <1>1, <1>2, <2>1, AppendedElement
<1>4. /\ reg # Precolored /\ alias[reg] = reg /\ state[reg] \in {"to_simplify", "simplified"}
      /\ state \in [Regs(prog) -> States]
  BY <1>2 DEF WorkInv, QueueInv, Queued, RoundTypes
<1>5. /\ st \in [Regs(prog) -> States]
      /\ \A r \in Regs(prog) : st[r] = IF r = reg THEN "simplified" ELSE state[r]
  BY <1>4 DEF States
<1>6. /\ others \subseteq Regs(prog)
      /\ \A r \in others : st[r] \notin {"simplified", "coalesced"}
  BY <1>2 DEF Gone, WorkInv, RoundTypes
<1>7. q_total' \in [Regs(prog) -> Nat]
  <2>1. \A r \in Regs(prog) : q_total'[r] \in Nat
    <3> SUFFICES ASSUME NEW r \in Regs(prog) PROVE q_total'[r] \in Nat
      OBVIOUS
    <3>1. q_total[r] \in Nat /\ QR(r, reg) \in Nat
      <4>1. QR(r, reg) \in 1..4
        BY <1>2, ClassTypes DEF WorkInv
      <4> QED BY <4>1 DEF WorkInv, RoundTypes
    <3>2. (q_total[r] - QR(r, reg)) % UInt \in Nat
      BY <3>1 DEF UInt
    <3> QED BY <1>1, <3>1, <3>2
  <2> QED BY <1>1, <2>1
<1>8. q_total'[Precolored] \in Nat /\ q_total'[Precolored] >= PR(Precolored)
  BY <1>1, <1>7, FiniteProgram DEF PrecoloredStays, WorkInv, PR, Class
<1>9. \A r \in VirtualRegs(prog) :
            /\ st[r] \in {"to_simplify", "to_freeze", "to_spill", "simplified", "coalesced"}
            /\ st[r] = "to_simplify" => r \in ToSet(Tail(simplify_queue))
            /\ st[r] = "to_freeze" => r \in freeze_queue
            /\ st[r] = "to_spill" => r \in spill_queue
            /\ st[r] = "simplified" => r \in ToSet(select_stack')
            /\ st[r] = "coalesced" <=> alias'[r] # r
  <2> SUFFICES ASSUME NEW r \in VirtualRegs(prog)
               PROVE  /\ st[r] \in {"to_simplify", "to_freeze", "to_spill", "simplified", "coalesced"}
                      /\ st[r] = "to_simplify" => r \in ToSet(Tail(simplify_queue))
                      /\ st[r] = "to_freeze" => r \in freeze_queue
                      /\ st[r] = "to_spill" => r \in spill_queue
                      /\ st[r] = "simplified" => r \in ToSet(select_stack')
                      /\ st[r] = "coalesced" <=> alias'[r] # r
    OBVIOUS
  <2>1. r \in Regs(prog) /\ alias' = alias
    BY <1>1 DEF VirtualRegs
  <2>2. CASE r = reg
    <3> HIDE DEF st
    <3> QED BY <2>1, <2>2, <1>3, <1>4, <1>5
  <2>3. CASE r # reg
    <3> HIDE DEF st
    <3> QED BY <2>1, <2>3, <1>2, <1>3, <1>5 DEF WorkInv, StateInv
  <2> QED BY <2>2, <2>3
<1>10. /\ \A r \in freeze_queue : st[r] = "to_freeze"
       /\ \A r \in spill_queue : st[r] \in {"to_spill", "to_simplify", "simplified"}
  <2> HIDE DEF st
  <2> QED BY <1>4, <1>5 DEF WorkInv, QueueInv, RoundTypes
<1>11. \A r \in ToSet(Tail(simplify_queue)) \cup ToSet(select_stack') : st[r] \in {"to_simplify", "simplified"}
  <2>1. ToSet(Tail(simplify_queue)) \subseteq Regs(prog) /\ ToSet(select_stack') \subseteq Regs(prog)
    BY <1>2, <1>3, ElementsOfSeq
  <2> HIDE DEF st
  <2> QED BY <2>1, <1>2, <1>3, <1>5 DEF WorkInv, QueueInv
<1>12. \A m \in move_queue \cup active_moves :
            \A r \in {alias'[prog.code[m].src], alias'[prog.code[m].dest]} :
               m \in moves[r] /\ st[r] \in {"initial", "to_freeze", "to_spill"}
  <2> SUFFICES ASSUME NEW m \in move_queue \cup active_moves,
                      NEW r \in {alias[prog.code[m].src], alias[prog.code[m].dest]}
               PROVE  m \in moves[r] /\ st[r] \in {"initial", "to_freeze", "to_spill"}
    BY <1>1
  <2>1. m \in moves[r] /\ state[r] \in {"initial", "to_freeze", "to_spill"}
    BY <1>1 DEF WorkInv, LiveMovesLive, LiveMoves
  <2>2. m \in Moves(prog)
    BY DEF WorkInv, RoundTypes
  <2>3. r \in Regs(prog)
    BY <2>2 DEF Moves, WorkInv, IsProgram, IsInstr, RoundTypes
  <2> HIDE DEF st
  <2> QED BY <2>1, <2>3, <1>4, <1>5
<1>13. st[Precolored] = "initial"
  <2> HIDE DEF st
  <2> QED BY <1>4, <1>5, FiniteProgram DEF WorkInv, StateInv
<1>14. /\ StateInv' /\ QueueInv' /\ LiveMovesLive'
       /\ state' \in [Regs(prog) -> States]
       /\ move_queue' \subseteq Moves(prog) /\ active_moves' \subseteq Moves(prog)
       /\ freeze_queue' \subseteq Regs(prog) /\ spill_queue' \subseteq Regs(prog)
       /\ simplify_queue' \in Seq(Regs(prog))
  <2>1. /\ prog' = prog /\ pc' = "work" /\ moves' = moves /\ alias' \in [Regs(prog) -> Regs(prog)]
        /\ move_queue \in SUBSET Moves(prog) /\ freeze_queue \in SUBSET Regs(prog)
        /\ spill_queue \in SUBSET Regs(prog) /\ {} \in SUBSET Regs(prog)
    BY <1>1 DEF WorkInv, RoundTypes
  <2>2. others \in SUBSET Regs(prog)
    BY <1>6
  <2>3. Requeue(others, q_total', st, moves, adjacent, move_queue, freeze_queue,
                      spill_queue, Tail(simplify_queue), {})
    BY <1>1
  <2>4. Consistent(st, moves, move_queue, freeze_queue, spill_queue, Tail(simplify_queue))
    <3> HIDE DEF st, reg
    <3> QED BY <1>9, <1>10, <1>11, <1>12, <1>13 DEF Consistent
  <2> HIDE DEF st, others, reg
  <2> QED BY <2>1, <2>2, <2>3, <2>4, <1>2, <1>3, <1>5, <1>6, <1>8,
             RequeueKeepsQueues DEF WorkInv
<1>15. RoundTypes'
  <2>1. /\ prog' = prog /\ adjacent' = adjacent /\ moves' = moves /\ alias' = alias
        /\ spilled_regs' = spilled_regs
    BY <1>1
  <2> HIDE DEF st, others, reg
  <2> QED BY <2>1, <1>3, <1>7, <1>14 DEF WorkInv, RoundTypes
<1>16. (IsProgram(prog) /\ pc = "work" /\ PlaceTypes /\ AliasInv /\ EdgeInv)'
  <2>1. /\ prog' = prog /\ pc' = pc /\ adjacent' = adjacent /\ alias' = alias /\ allocated' = allocated
        /\ alias_swizzle' = alias_swizzle
    BY <1>1
  <2> HIDE DEF st, others, reg
  <2> QED BY <2>1 DEF WorkInv, PlaceTypes, AliasInv, EdgeInv, Comps
<1> QED BY <1>14, <1>15, <1>16, SimplifyStack DEF WorkInv

(* The components a move identifies are components of the two registers ...*)
LEMMA PairsTypes ==
  ASSUME WorkInv, NEW m \in move_queue
  PROVE  Pairs(prog.code[m]) \subseteq Comps(From(prog.code[m])) \X Comps(Into(prog.code[m]))
<1> SUFFICES ASSUME NEW x, x = prog.code[m]
             PROVE  Pairs(x) \subseteq Comps(From(x)) \X Comps(Into(x))
  OBVIOUS
<1>1. /\ x.src \in Regs(prog) /\ x.dest \in Regs(prog)
      /\ \A c \in x.mask : x.swz[c] \in Comps(x.src) /\ c \in Comps(x.dest)
  <2>1. m \in Moves(prog)
    BY MoveEnds
  <2> QED BY <2>1 DEF Moves, WorkInv, IsProgram, IsInstr, Comps
<1>2. \A c \in x.mask : /\ alias_swizzle[x.src][x.swz[c]] \in Comps(alias[x.src])
                        /\ alias_swizzle[x.dest][c] \in Comps(alias[x.dest])
  BY <1>1 DEF WorkInv, PlaceTypes
<1>3. Mapping(x) \subseteq Comps(alias[x.src]) \X Comps(alias[x.dest])
  BY <1>2 DEF Mapping
<1>4. CASE Flipped(x)
  <2>1. /\ From(x) = alias[x.dest] /\ Into(x) = alias[x.src]
        /\ Pairs(x) = {<<e[2], e[1]>> : e \in Mapping(x)}
    BY <1>4 DEF Pairs, From, Into
  <2>2. \A e \in Mapping(x) : e[1] \in Comps(alias[x.src]) /\ e[2] \in Comps(alias[x.dest])
    BY <1>3
  <2> QED BY <2>1, <2>2
<1>5. CASE ~ Flipped(x)
  <2>1. From(x) = alias[x.src] /\ Into(x) = alias[x.dest] /\ Pairs(x) = Mapping(x)
    BY <1>5 DEF Pairs, From, Into
  <2> QED BY <1>3, <2>1
<1> QED BY <1>4, <1>5

(* ... and so are those the others are put in.                             *)
LEMMA SwizzleTypes ==
  ASSUME NEW src, NEW dst, NEW pairs \in SUBSET (Comps(src) \X Comps(dst)),
         NEW swizzle \in Swizzles(src, dst, pairs)
  PROVE  \A c \in Comps(src) : swizzle[c] \in Comps(dst)
<1> DEFINE others == Comps(src) \ {e[1] : e \in pairs}
<1>1. PICK rest :
        /\ \A c \in others : rest[c] \in FreeFor(c, src, dst, pairs, rest)
        /\ swizzle = [c \in Comps(src) |-> IF c \in others THEN rest[c]
                                ELSE CHOOSE d \in Comps(dst) : <<c, d>> \in pairs]
  BY DEF Swizzles
<1> SUFFICES ASSUME NEW c \in Comps(src) PROVE swizzle[c] \in Comps(dst)
  OBVIOUS
<1>2. CASE c \in others
  <2>1. swizzle[c] = rest[c] /\ rest[c] \in FreeFor(c, src, dst, pairs, rest)
    BY <1>1, <1>2
  <2> QED BY <2>1 DEF FreeFor
<1>3. CASE c \notin others
  <2>1. PICK e \in pairs : e[1] = c
    BY <1>3
  <2>2. e[2] \in Comps(dst) /\ <<c, e[2]>> \in pairs
    BY <2>1
  <2>3. (CHOOSE d \in Comps(dst) : <<c, d>> \in pairs) \in Comps(dst)
    BY <2>2
  <2> QED BY <1>1, <1>3, <2>3
<1> QED BY <1>2, <1>3

(* The precolored register is never merged into another, because no        *)
(* register is larger (684-695).                                           *)
LEMMA MergedIsVirtual ==
  ASSUME WorkInv, NEW m \in move_queue, From(prog.code[m]) # Into(prog.code[m])
  PROVE  From(prog.code[m]) # Precolored
<1>1. /\ alias[prog.code[m].src] \in Regs(prog) /\ alias[prog.code[m].dest] \in Regs(prog)
  BY MoveEnds
<1>2. /\ prog.size[Precolored] = 4
      /\ prog.size[alias[prog.code[m].src]] \in 1..4
      /\ prog.size[alias[prog.code[m].dest]] \in 1..4
  BY <1>1, FiniteProgram DEF WorkInv
<1>3. CASE Flipped(prog.code[m])
  <2>1. \/ alias[prog.code[m].src] = Precolored
        \/ prog.size[alias[prog.code[m].src]] > prog.size[alias[prog.code[m].dest]]
    BY <1>3 DEF Flipped
  <2> QED BY <1>2, <1>3, <2>1 DEF From, Into
<1>4. CASE ~ Flipped(prog.code[m])
  BY <1>4 DEF Flipped, From
<1> QED BY <1>3, <1>4

LEMMA DegreesTypes ==
  ASSUME IsProgram(prog), q_total \in [Regs(prog) -> Nat],
         NEW src \in Regs(prog), NEW dst \in Regs(prog),
         NEW others, NEW new, NEW seen \in SUBSET Regs(prog)
  PROVE  Degrees(src, dst, others, new, seen) \in [Regs(prog) -> Nat]
<1>1. ASSUME NEW r \in Regs(prog), NEW S \in SUBSET Regs(prog)
      PROVE  Raise(r, S) \in Nat
  <2>1. SumQ(r, S) \in Nat
    BY SumQType
  <2>2. QR(r, r) \in 1..4
    BY ClassTypes
  <2> QED BY <2>1, <2>2 DEF Raise
<1>2. ASSUME NEW r \in Regs(prog)
      PROVE  (q_total[r] + Raise(r, IF r = dst THEN seen ELSE IF r \in new THEN {dst} ELSE {})
                    - (IF r \in others THEN QR(r, src) ELSE 0)) % UInt \in Nat
  <2> DEFINE S == IF r = dst THEN seen ELSE IF r \in new THEN {dst} ELSE {}
  <2>1. S \in SUBSET Regs(prog)
    OBVIOUS
  <2>2. Raise(r, S) \in Nat
    BY <1>1, <2>1
  <2>3. QR(r, src) \in 1..4
    BY ClassTypes
  <2> HIDE DEF S
  <2>4. (q_total[r] + Raise(r, S) - (IF r \in others THEN QR(r, src) ELSE 0)) \in Int
    BY <2>2, <2>3
  <2>5. (q_total[r] + Raise(r, S) - (IF r \in others THEN QR(r, src) ELSE 0)) % UInt \in Nat
    BY <2>4 DEF UInt
  <2> QED BY <2>5 DEF S
<1> QED BY <1>2 DEF Degrees

(* What the interference of the two becomes that of the merged register.   *)
LEMMA CombineStack ==
  ASSUME WorkInv, NEW src \in VirtualRegs(prog), NEW dst \in Regs(prog), src # dst,
         alias[src] = src, alias[dst] = dst,
         state[src] \in {"to_freeze", "to_spill"},
         state[dst] \in {"initial", "to_freeze", "to_spill"},
         NEW others, others = adjacent[src] \ Gone([state EXCEPT ![src] = "coalesced"]),
         NEW new, new = others \ adjacent[dst],
         adjacent' = Linked(dst, new, new),
         alias' = [r \in Regs(prog) |-> IF alias[r] = src THEN dst ELSE alias[r]],
         UNCHANGED <<prog, pc, select_stack>>
  PROVE  StackInv' /\ EdgeInv' /\ adjacent' \in [Regs(prog) -> SUBSET Regs(prog)]
<1>1. /\ src \in Regs(prog) /\ src # Precolored /\ Precolored \in Regs(prog)
      /\ state \in [Regs(prog) -> States] /\ adjacent \in [Regs(prog) -> SUBSET Regs(prog)]
      /\ alias \in [Regs(prog) -> Regs(prog)] /\ select_stack \in Seq(Regs(prog))
      /\ pc = "work"
  BY FiniteProgram DEF WorkInv, RoundTypes, VirtualRegs
<1>2. others \subseteq Regs(prog) /\ others \subseteq adjacent[src] /\ new \subseteq others
  BY <1>1
<1>3. \A r \in Regs(prog) : \A s :
        s \in adjacent'[r] <=> \/ s \in adjacent[r]
                               \/ r = dst /\ s \in new
                               \/ r # dst /\ r \in new /\ s = dst
  <2> SUFFICES ASSUME NEW r \in Regs(prog), NEW s
               PROVE  s \in adjacent'[r] <=> \/ s \in adjacent[r]
                                             \/ r = dst /\ s \in new
                                             \/ r # dst /\ r \in new /\ s = dst
    OBVIOUS
  <2>1. adjacent'[r] = IF r = dst THEN adjacent[r] \cup new
                       ELSE IF r \in new THEN adjacent[r] \cup {dst}
                       ELSE adjacent[r]
    BY DEF Linked
  <2>2. CASE r = dst
    BY <2>1, <2>2
  <2>3. CASE r # dst /\ r \in new
    BY <2>1, <2>3
  <2>4. CASE r # dst /\ r \notin new
    BY <2>1, <2>4
  <2> QED BY <2>2, <2>3, <2>4
<1>4. adjacent' \in [Regs(prog) -> SUBSET Regs(prog)]
  <2>1. ASSUME NEW r \in Regs(prog), NEW s, s \in adjacent'[r] PROVE s \in Regs(prog)
    BY <2>1, <1>1, <1>2, <1>3
  <2>2. \A r \in Regs(prog) : adjacent'[r] \in SUBSET Regs(prog)
    BY <2>1
  <2>3. adjacent' = [r \in Regs(prog) |-> adjacent'[r]]
    BY DEF Linked
  <2> QED BY <2>2, <2>3
<1>5. EdgeInv'
  <2> SUFFICES ASSUME NEW r \in Regs(prog), NEW s \in Regs(prog), s \in adjacent'[r]
               PROVE  r \in adjacent'[s]
    BY DEF EdgeInv
  <2>0. \/ s \in adjacent[r]
        \/ r = dst /\ s \in new
        \/ r # dst /\ r \in new /\ s = dst
    BY <1>3
  <2>1. CASE s \in adjacent[r]
    <3>1. r \in adjacent[s]
      BY <2>1 DEF WorkInv, EdgeInv
    <3> QED BY <3>1, <1>3
  <2>2. CASE r = dst /\ s \in new
    <3>1. s # dst => r \in adjacent'[s]
      BY <2>2, <1>3
    <3> QED BY <2>2, <3>1
  <2>3. CASE s = dst /\ r \in new
    BY <2>3, <1>3
  <2> QED BY <2>0, <2>1, <2>2, <2>3
<1>6. \A r \in Regs(prog) : alias'[r] = IF alias[r] = src THEN dst ELSE alias[r]
  OBVIOUS
<1>7. /\ prog' = prog /\ pc' = pc /\ select_stack' = select_stack /\ Coarse' = Coarse
      /\ \A r, s : Earlier(r, s)' <=> Earlier(r, s)
  BY DEF Coarse, Earlier
<1>8. src \notin ToSet(select_stack) /\ dst \notin ToSet(select_stack)
  BY DEF WorkInv, QueueInv
<1>9. ASSUME NEW r \in Regs(prog), NEW s \in Regs(prog), Sees(r, s), s # src
      PROVE  Sees(r, s)'
  <2>1. PICK x \in adjacent[r] : alias[x] = s
    BY <1>9 DEF Sees
  <2>2. x \in Regs(prog) /\ x \in adjacent'[r] /\ alias'[x] = s
    BY <2>1, <1>1, <1>3, <1>6, <1>9
  <2> QED BY <2>2 DEF Sees
<1>10. ASSUME NEW r \in Regs(prog), Sees(r, src)
       PROVE  Sees(r, dst)'
  <2>1. PICK x \in adjacent[r] : alias[x] = src
    BY <1>10 DEF Sees
  <2>2. x \in Regs(prog) /\ x \in adjacent'[r] /\ alias'[x] = dst
    BY <2>1, <1>1, <1>3, <1>6
  <2> QED BY <2>2 DEF Sees
\* Registers that are still there, not on the stack.
<1>11. ASSUME NEW s \in Regs(prog), alias[s] = s, s # src, s \notin ToSet(select_stack),
              s \in adjacent[src]
       PROVE  s \in adjacent'[dst] /\ dst \in adjacent'[s]
  <2>1. state[s] \notin {"simplified", "coalesced"}
    <3>1. CASE s = Precolored
      BY <3>1 DEF WorkInv, StateInv
    <3>2. CASE s # Precolored
      BY <3>2, <1>11 DEF WorkInv, StateInv, VirtualRegs
    <3> QED BY <3>1, <3>2
  <2>2. s \in others
    BY <2>1, <1>1, <1>11 DEF Gone
  <2>3. s \in adjacent'[dst]
    BY <2>2, <1>3
  <2> QED BY <2>3, <1>5, <1>7 DEF EdgeInv
<1>12. ASSUME NEW r \in Regs(prog), NEW s \in Regs(prog), Related(r, s)', r # dst, s # dst
       PROVE  Related(r, s) /\ r # src /\ s # src
  <2>1. PICK a \in Regs(prog), b \in Regs(prog) : alias'[a] = r /\ alias'[b] = s /\ b \in Coarse[a]
    BY <1>12, <1>7 DEF Related
  <2>2. alias[a] = r /\ alias[b] = s /\ r # src /\ s # src
    BY <2>1, <1>6, <1>12
  <2> QED BY <2>1, <2>2, <1>12 DEF Related
<1>13. ASSUME NEW s \in Regs(prog), Related(dst, s)'
       PROVE  /\ Related(dst, s) \/ Related(src, s)
              /\ s # src /\ s # dst /\ alias[s] = s
  <2>1. PICK a \in Regs(prog), b \in Regs(prog) : alias'[a] = dst /\ alias'[b] = s /\ b \in Coarse[a]
    BY <1>13, <1>7 DEF Related
  <2>2. s # dst
    BY <1>13 DEF Related
  <2>3. alias[a] \in {dst, src} /\ alias[b] = s /\ s # src
    BY <2>1, <2>2, <1>6
  <2>4. alias[s] = s
    BY <2>3 DEF WorkInv, AliasInv
  <2> QED BY <2>1, <2>2, <2>3, <2>4 DEF Related
<1>14. ASSUME NEW r \in Regs(prog), Related(r, dst)'
       PROVE  /\ Related(r, dst) \/ Related(r, src)
              /\ r # src /\ r # dst /\ alias[r] = r
  <2>1. PICK a \in Regs(prog), b \in Regs(prog) : alias'[a] = r /\ alias'[b] = dst /\ b \in Coarse[a]
    BY <1>14, <1>7 DEF Related
  <2>2. r # dst
    BY <1>14 DEF Related
  <2>3. alias[a] = r /\ alias[b] \in {dst, src} /\ r # src
    BY <2>1, <2>2, <1>6
  <2>4. alias[r] = r
    BY <2>3 DEF WorkInv, AliasInv
  <2> QED BY <2>1, <2>2, <2>3, <2>4 DEF Related
<1>15. \A r, s \in Regs(prog) : Related(r, s) =>
          /\ Earlier(r, s) => Sees(r, s)
          /\ r \in ToSet(select_stack) \/ s \in ToSet(select_stack) \/ s \in adjacent[r]
  BY <1>1 DEF WorkInv, StackInv
<1>16. ASSUME NEW r \in Regs(prog), NEW s \in Regs(prog), Earlier(r, s)
       PROVE  r \in ToSet(select_stack)
  BY <1>16 DEF Earlier, ToSet
<1>17. ASSUME NEW r \in Regs(prog), Earlier(r, dst)
       PROVE  Earlier(r, src)
  <2>1. PICK n \in DOMAIN select_stack : select_stack[n] = r /\ \A m \in 1..n : select_stack[m] # dst
    BY <1>17 DEF Earlier
  <2>2. \A m \in 1..n : select_stack[m] # src
    <3>1. \A m \in 1..n : m \in DOMAIN select_stack
      BY <1>1
    <3> QED BY <3>1, <1>8 DEF ToSet
  <2> QED BY <2>1, <2>2 DEF Earlier
<1>18. ASSUME NEW r \in Regs(prog), NEW s \in Regs(prog), Related(r, s)'
       PROVE  /\ Earlier(r, s) => Sees(r, s)'
              /\ r \in ToSet(select_stack) \/ s \in ToSet(select_stack) \/ s \in adjacent'[r]
  <2>1. CASE r # dst /\ s # dst
    <3>1. Related(r, s) /\ r # src /\ s # src
      BY <2>1, <1>12, <1>18
    <3>2. Sees(r, s) => Sees(r, s)'
      BY <3>1, <1>9
    <3> QED BY <3>1, <3>2, <1>3, <1>15
  <2>2. CASE r = dst
    <3>1. /\ Related(dst, s) \/ Related(src, s)
          /\ s # src /\ s # dst /\ alias[s] = s
      BY <2>2, <1>13, <1>18
    <3>2. ~ Earlier(r, s)
      BY <2>2, <1>8, <1>16
    <3>3. s \in ToSet(select_stack) \/ s \in adjacent[dst] \/ s \in adjacent[src]
      BY <3>1, <1>1, <1>8, <1>15
    <3>4. s \in ToSet(select_stack) \/ s \in adjacent'[dst]
      BY <3>1, <3>3, <1>3, <1>11
    <3> QED BY <2>2, <3>2, <3>4
  <2>3. CASE s = dst
    <3>1. /\ Related(r, dst) \/ Related(r, src)
          /\ r # src /\ r # dst /\ alias[r] = r
      BY <2>3, <1>14, <1>18
    <3>2. ASSUME Earlier(r, s) PROVE Sees(r, s)'
      <4>1. Earlier(r, dst) /\ Earlier(r, src)
        BY <3>2, <2>3, <1>17
      <4>2. Sees(r, dst) \/ Sees(r, src)
        BY <4>1, <3>1, <1>1, <1>15
      <4>3. Sees(r, dst)'
        BY <4>2, <1>9, <1>10
      <4> QED BY <4>3, <2>3
    <3>3. r \in ToSet(select_stack) \/ dst \in adjacent[r] \/ src \in adjacent[r]
      BY <3>1, <1>1, <1>8, <1>15
    <3>4. src \in adjacent[r] => r \in adjacent[src]
      BY <1>1 DEF WorkInv, EdgeInv
    <3>5. r \in ToSet(select_stack) \/ dst \in adjacent'[r]
      BY <3>1, <3>3, <3>4, <1>3, <1>11
    <3> QED BY <2>3, <3>2, <3>5
  <2> QED BY <2>1, <2>2, <2>3
<1>19. StackInv'
  BY <1>7, <1>18 DEF StackInv
<1> QED BY <1>4, <1>5, <1>19

LEMMA CombineStep ==
  ASSUME WorkInv, PrecoloredStays', prog' = prog, pc' = pc, simplify_queue = <<>>,
         NEW src \in VirtualRegs(prog), NEW dst \in Regs(prog), src # dst,
         alias[src] = src, alias[dst] = dst,
         state[src] \in {"initial", "to_freeze", "to_spill"},
         state[dst] \in {"initial", "to_freeze", "to_spill"},
         NEW swizzle, \A c \in Comps(src) : swizzle[c] \in Comps(dst),
         NEW queued \in SUBSET move_queue,
         Combine(src, dst, swizzle, queued),
         UNCHANGED <<select_stack, allocated, spilled_regs>>
  PROVE  WorkInv'
<1>2. PICK st, others, new, fq, sq, seen :
         /\ st = [state EXCEPT ![src] = "coalesced"]
         /\ others = adjacent[src] \ Gone(st)
         /\ new = others \ adjacent[dst]
         /\ fq = freeze_queue \ (IF state[src] = "to_freeze" THEN {src} ELSE {})
         /\ sq = spill_queue \ (IF state[src] = "to_freeze" THEN {} ELSE {src})
         /\ moves' = UnionMoves(src, dst)
         /\ alias' = [r \in Regs(prog) |-> IF alias[r] = src THEN dst ELSE alias[r]]
         /\ alias_swizzle' = [r \in Regs(prog) |->
               IF alias[r] = src
               THEN [c \in Comps(r) |-> swizzle[alias_swizzle[r][c]]]
               ELSE alias_swizzle[r]]
         /\ adjacent' = Linked(dst, new, new)
         /\ q_total' = Degrees(src, dst, others, new, new)
         /\ seen \in SUBSET new
         /\ Requeue(others, Degrees(src, dst, others, new, seen), st,
                       UnionMoves(src, dst), Linked(dst, new, seen), queued, fq, sq, <<>>,
                       IF q_total'[dst] >= PR(dst) THEN {dst} ELSE {})
  BY DEF Combine
<1>3. /\ src \in Regs(prog) /\ src # Precolored /\ Precolored \in Regs(prog) /\ IsProgram(prog)
      /\ pc = "work" /\ state \in [Regs(prog) -> States]
      /\ adjacent \in [Regs(prog) -> SUBSET Regs(prog)]
      /\ moves \in [Regs(prog) -> SUBSET Moves(prog)]
      /\ alias \in [Regs(prog) -> Regs(prog)] /\ select_stack \in Seq(Regs(prog))
      /\ q_total \in [Regs(prog) -> Nat]
  BY FiniteProgram DEF WorkInv, RoundTypes, VirtualRegs
<1>4. state[src] \in {"to_freeze", "to_spill"}
  BY DEF WorkInv, StateInv
<1>5. /\ others \subseteq Regs(prog) /\ new \subseteq Regs(prog) /\ seen \subseteq Regs(prog)
      /\ \A r \in others : st[r] \notin {"simplified", "coalesced"}
  BY <1>2, <1>3 DEF Gone
<1>6. /\ st \in [Regs(prog) -> States]
      /\ \A r \in Regs(prog) : st[r] = IF r = src THEN "coalesced" ELSE state[r]
  BY <1>2, <1>3 DEF States
<1>7. \A r \in Regs(prog) : alias'[r] = IF alias[r] = src THEN dst ELSE alias[r]
  BY <1>2
<1>8. alias' \in [Regs(prog) -> Regs(prog)]
  BY <1>2, <1>3
<1>9. StackInv' /\ EdgeInv' /\ adjacent' \in [Regs(prog) -> SUBSET Regs(prog)]
  <2>1. /\ others = adjacent[src] \ Gone([state EXCEPT ![src] = "coalesced"])
        /\ new = others \ adjacent[dst]
        /\ adjacent' = Linked(dst, new, new)
        /\ alias' = [r \in Regs(prog) |-> IF alias[r] = src THEN dst ELSE alias[r]]
        /\ UNCHANGED <<prog, pc, select_stack>>
    BY <1>2
  <2> QED BY <2>1, <1>4, CombineStack
<1>10. AliasInv'
  <2>1. alias[Precolored] = Precolored /\ \A r \in Regs(prog) : alias[alias[r]] = alias[r]
    BY DEF WorkInv, AliasInv
  <2>2. alias'[Precolored] = Precolored
    BY <2>1, <1>3, <1>7
  <2>3. ASSUME NEW r \in Regs(prog) PROVE alias'[alias'[r]] = alias'[r]
    <3>1. CASE alias[r] = src
      BY <3>1, <1>3, <1>7
    <3>2. CASE alias[r] # src
      BY <3>2, <2>1, <1>3, <1>7
    <3> QED BY <3>1, <3>2
  <2> QED BY <2>2, <2>3 DEF AliasInv
<1>11. PlaceTypes'
  <2>1. ASSUME NEW r \in Regs(prog), NEW c \in Comps(r)
        PROVE  alias_swizzle'[r][c] \in Comps(alias'[r])
    <3>1. alias_swizzle[r][c] \in Comps(alias[r])
      BY DEF WorkInv, PlaceTypes
    <3>2. CASE alias[r] = src
      <4>1. alias_swizzle'[r][c] = swizzle[alias_swizzle[r][c]] /\ alias'[r] = dst
        BY <3>2, <1>2
      <4> QED BY <4>1, <3>1, <3>2
    <3>3. CASE alias[r] # src
      BY <3>1, <3>3, <1>2, <1>7
    <3> QED BY <3>2, <3>3
  <2>2. \A r : Comps(r)' = Comps(r)
    BY DEF Comps
  <2> QED BY <2>1, <2>2 DEF PlaceTypes, WorkInv
<1>12. /\ q_total' \in [Regs(prog) -> Nat]
       /\ Degrees(src, dst, others, new, seen) \in [Regs(prog) -> Nat]
  <2>1. new \in SUBSET Regs(prog) /\ seen \in SUBSET Regs(prog)
    BY <1>5
  <2> QED BY <2>1, <1>2, <1>3, DegreesTypes
<1>13. /\ Degrees(src, dst, others, new, seen)[Precolored] \in Nat
       /\ Degrees(src, dst, others, new, seen)[Precolored] >= PR(Precolored)
  <2>1. \A S : Raise(Precolored, S) = 0
    BY DEF Raise
  <2>2. \A S : Degrees(src, dst, others, new, S)[Precolored]
                 = (q_total[Precolored] + 0 - (IF Precolored \in others THEN QR(Precolored, src) ELSE 0)) % UInt
    BY <2>1, <1>3 DEF Degrees
  <2>3. Degrees(src, dst, others, new, seen)[Precolored] = q_total'[Precolored]
    BY <2>2, <1>2
  <2>4. q_total'[Precolored] >= PR(Precolored)
    BY <1>3 DEF PrecoloredStays, PR, Class
  <2> QED BY <2>3, <2>4, <1>3, <1>12
<1>14. /\ UnionMoves(src, dst) \in [Regs(prog) -> SUBSET Moves(prog)]
       /\ \A r \in Regs(prog) : UnionMoves(src, dst)[r] = IF r = dst THEN moves[dst] \cup moves[src] ELSE moves[r]
  BY <1>3 DEF UnionMoves
<1>15. Consistent(st, UnionMoves(src, dst), queued, fq, sq, <<>>)
  <2>0. ToSet(<<>>) = {}
    BY DEF ToSet
  <2>1. st[Precolored] = "initial"
    BY <1>3, <1>6 DEF WorkInv, StateInv
  <2>2. \A r \in VirtualRegs(prog) :
         /\ st[r] \in {"to_simplify", "to_freeze", "to_spill", "simplified", "coalesced"}
         /\ st[r] = "to_simplify" => r \in ToSet(<<>>)
         /\ st[r] = "to_freeze" => r \in fq
         /\ st[r] = "to_spill" => r \in sq
         /\ st[r] = "simplified" => r \in ToSet(select_stack')
         /\ st[r] = "coalesced" <=> alias'[r] # r
    <3> SUFFICES ASSUME NEW r \in VirtualRegs(prog)
                 PROVE  /\ st[r] \in {"to_simplify", "to_freeze", "to_spill", "simplified", "coalesced"}
                        /\ st[r] = "to_simplify" => r \in ToSet(<<>>)
                        /\ st[r] = "to_freeze" => r \in fq
                        /\ st[r] = "to_spill" => r \in sq
                        /\ st[r] = "simplified" => r \in ToSet(select_stack')
                        /\ st[r] = "coalesced" <=> alias'[r] # r
      OBVIOUS
    <3>1. r \in Regs(prog)
      BY DEF VirtualRegs
    <3>2. CASE r = src
      <4>1. st[r] = "coalesced" /\ alias'[r] # r
        BY <3>1, <3>2, <1>3, <1>6, <1>7
      <4> QED BY <4>1
    <3>3. CASE r # src
      <4>1. st[r] = state[r]
        BY <3>1, <3>3, <1>6
      <4>2. r \in freeze_queue => r \in fq
        BY <3>3, <1>2
      <4>3. r \in spill_queue => r \in sq
        BY <3>3, <1>2
      <4>4. alias'[r] # r <=> alias[r] # r
        BY <3>1, <3>3, <1>3, <1>7
      <4>5. /\ state[r] \in {"to_simplify", "to_freeze", "to_spill", "simplified", "coalesced"}
            /\ state[r] = "to_simplify" => r \in ToSet(simplify_queue)
            /\ state[r] = "to_freeze" => r \in freeze_queue
            /\ state[r] = "to_spill" => r \in spill_queue
            /\ state[r] = "simplified" => r \in ToSet(select_stack)
            /\ state[r] = "coalesced" <=> alias[r] # r
        BY DEF WorkInv, StateInv
      <4> QED BY <4>1, <4>2, <4>3, <4>4, <4>5, <2>0
    <3> QED BY <3>2, <3>3
  <2>3. \A r \in fq : st[r] = "to_freeze"
    <3>1. \A r \in fq : r \in freeze_queue /\ r # src
      BY <1>2, <1>4 DEF WorkInv, QueueInv
    <3> QED BY <3>1, <1>6 DEF WorkInv, QueueInv, RoundTypes
  <2>4. \A r \in sq : st[r] \in {"to_spill", "to_simplify", "simplified"}
    <3>1. \A r \in sq : r \in spill_queue /\ r # src
      BY <1>2, <1>4 DEF WorkInv, QueueInv
    <3> QED BY <3>1, <1>6 DEF WorkInv, QueueInv, RoundTypes
  <2>5. \A r \in ToSet(<<>>) \cup ToSet(select_stack') : st[r] \in {"to_simplify", "simplified"}
    <3>1. \A r \in ToSet(select_stack) : r \in Regs(prog)
      BY <1>3, ElementsOfSeq
    <3>2. \A r \in ToSet(select_stack) : state[r] \in {"to_simplify", "simplified"}
      BY DEF WorkInv, QueueInv
    <3> QED BY <2>0, <3>1, <3>2, <1>4, <1>6
  <2>6. \A m \in queued \cup active_moves :
         \A r \in {alias'[prog.code[m].src], alias'[prog.code[m].dest]} :
            m \in UnionMoves(src, dst)[r] /\ st[r] \in {"initial", "to_freeze", "to_spill"}
    <3> SUFFICES ASSUME NEW m \in queued \cup active_moves,
                        NEW e \in {prog.code[m].src, prog.code[m].dest}
                 PROVE  /\ m \in UnionMoves(src, dst)[alias'[e]]
                        /\ st[alias'[e]] \in {"initial", "to_freeze", "to_spill"}
      OBVIOUS
    <3>1. m \in Moves(prog) /\ m \in LiveMoves
      BY DEF WorkInv, RoundTypes, LiveMoves
    <3>2. e \in Regs(prog) /\ alias[e] \in Regs(prog)
      BY <3>1, <1>3 DEF Moves, IsProgram, IsInstr
    <3>3. m \in moves[alias[e]] /\ state[alias[e]] \in {"initial", "to_freeze", "to_spill"}
      BY <3>1, <1>3 DEF WorkInv, LiveMovesLive
    <3>4. CASE alias[e] = src
      BY <3>2, <3>3, <3>4, <1>6, <1>7, <1>14
    <3>5. CASE alias[e] # src
      BY <3>2, <3>3, <3>5, <1>6, <1>7, <1>14
    <3> QED BY <3>4, <3>5
  <2> QED BY <2>1, <2>2, <2>3, <2>4, <2>5, <2>6 DEF Consistent
<1>16. /\ StateInv' /\ QueueInv' /\ LiveMovesLive'
       /\ state' \in [Regs(prog) -> States]
       /\ move_queue' \subseteq Moves(prog) /\ active_moves' \subseteq Moves(prog)
       /\ freeze_queue' \subseteq Regs(prog) /\ spill_queue' \subseteq Regs(prog)
       /\ simplify_queue' \in Seq(Regs(prog))
  <2> DEFINE full == IF q_total'[dst] >= PR(dst) THEN {dst} ELSE {}
  <2>1. others \in SUBSET Regs(prog) /\ full \in SUBSET Regs(prog)
    BY <1>5
  <2>2. /\ queued \in SUBSET Moves(prog) /\ fq \in SUBSET Regs(prog) /\ sq \in SUBSET Regs(prog)
    BY <1>2 DEF WorkInv, RoundTypes
  <2>3. <<>> \in Seq(Regs(prog)) /\ select_stack' \in Seq(Regs(prog)) /\ pc' = "work"
    BY <1>3
  <2>4. moves' = UnionMoves(src, dst)
    BY <1>2
  <2>5. Requeue(others, Degrees(src, dst, others, new, seen), st,
                       UnionMoves(src, dst), Linked(dst, new, seen), queued, fq, sq, <<>>, full)
    BY <1>2
  <2>6. RoundTypes
    BY DEF WorkInv
  <2> HIDE DEF full
  <2> QED BY <2>1, <2>2, <2>3, <2>4, <2>5, <2>6, <1>3, <1>5, <1>6, <1>8, <1>13, <1>15,
             RequeueKeepsQueues
<1>17. RoundTypes'
  <2>1. moves' \in [Regs(prog) -> SUBSET Moves(prog)]
    BY <1>2, <1>14
  <2> QED BY <2>1, <1>3, <1>8, <1>9, <1>12, <1>16 DEF RoundTypes, WorkInv
<1> QED BY <1>3, <1>9, <1>10, <1>11, <1>16, <1>17 DEF WorkInv

LEMMA CoalesceStep ==
  ASSUME WorkInv, PrecoloredStays', Coalesce
  PROVE  WorkInv'
<1>1. PICK m \in move_queue :
          /\ From(prog.code[m]) # Into(prog.code[m])
          /\ \E swizzle \in Swizzles(From(prog.code[m]), Into(prog.code[m]), Pairs(prog.code[m])) :
                Combine(From(prog.code[m]), Into(prog.code[m]), swizzle, move_queue \ {m})
  BY DEF Coalesce
<1>2. PICK src, dst, pairs :
          /\ src = From(prog.code[m]) /\ dst = Into(prog.code[m]) /\ pairs = Pairs(prog.code[m])
  OBVIOUS
<1>3. PICK swizzle \in Swizzles(src, dst, pairs) : Combine(src, dst, swizzle, move_queue \ {m})
  BY <1>1, <1>2
<1>4. /\ src \in Regs(prog) /\ dst \in Regs(prog) /\ alias[src] = src /\ alias[dst] = dst
      /\ state[src] \in {"initial", "to_freeze", "to_spill"}
      /\ state[dst] \in {"initial", "to_freeze", "to_spill"}
  BY <1>2, MoveEnds DEF From, Into
<1>5. src \in VirtualRegs(prog) /\ src # dst
  BY <1>1, <1>2, <1>4, MergedIsVirtual DEF VirtualRegs
<1>6. pairs \in SUBSET (Comps(src) \X Comps(dst))
  BY <1>2, PairsTypes
<1>7. \A c \in Comps(src) : swizzle[c] \in Comps(dst)
  BY <1>6, SwizzleTypes
<1>8. /\ prog' = prog /\ pc' = pc /\ UNCHANGED <<select_stack, allocated, spilled_regs>>
      /\ move_queue \ {m} \in SUBSET move_queue /\ simplify_queue = <<>>
  BY DEF Coalesce, Trying
<1> QED BY <1>3, <1>4, <1>5, <1>7, <1>8, CombineStep

(* When the queues are empty, every register is on the stack or merged.    *)
LEMMA QueuesEmptyStep ==
  ASSUME WorkInv, QueuesEmpty
  PROVE  RoundInv'
<1>1. /\ simplify_queue = <<>> /\ move_queue = {} /\ freeze_queue = {} /\ spill_queue = {}
      /\ pc' = "assign"
      /\ UNCHANGED <<prog, state, graph, move_queue, active_moves, simplify_queue,
                     freeze_queue, spill_queue, select_stack, allocated, spilled_regs>>
  BY DEF QueuesEmpty, Trying
<1>2. (IsProgram(prog) /\ PlaceTypes /\ AliasInv /\ EdgeInv /\ StackInv)'
  BY <1>1, SameGraph DEF WorkInv
<1>3. RoundTypes'
  BY <1>1 DEF WorkInv, RoundTypes, graph
<1>4. \A r \in Regs(prog) : ~ Finished(r)'
  <2> SUFFICES ASSUME NEW r \in Regs(prog), alias[r] = r, r # Precolored,
                      r \notin ToSet(select_stack)
               PROVE  FALSE
    BY <1>1 DEF Finished, graph
  <2>1. r \in VirtualRegs(prog) /\ ToSet(simplify_queue) = {}
    BY <1>1 DEF VirtualRegs, ToSet
  <2> QED BY <2>1, <1>1 DEF WorkInv, StateInv
<1>5. AssignInv'
  <2>1. \A r \in ToSet(select_stack) : r # Precolored /\ alias[r] = r
    BY DEF WorkInv, QueueInv
  <2> QED BY <2>1, <1>1, <1>4 DEF AssignInv, Colored, graph
<1> QED BY <1>1, <1>2, <1>3, <1>5 DEF RoundInv, InRound, PcInv

(* The interference relation is symmetric.                                 *)
LEMMA CoarseSymmetric ==
  ASSUME NEW a \in Regs(prog), NEW b \in Regs(prog), b \in Coarse[a]
  PROVE  a \in Coarse[b]
<1> DEFINE half == UNION { Interfere(prog, n, LiveAfter(prog)[n]) :
                               n \in {m \in DOMAIN prog.code : prog.code[m].dest # NoReg} }
           all  == DetailedMatrix(prog)
<1>1. all = half \cup { <<e[2], e[1]>> : e \in half }
  BY DEF DetailedMatrix
<1>2. \A e \in half : e = <<e[1], e[2]>>
  <2> SUFFICES ASSUME NEW n, NEW e \in Interfere(prog, n, LiveAfter(prog)[n])
               PROVE  e = <<e[1], e[2]>>
    OBVIOUS
  <2>1. PICK A, B : Interfere(prog, n, LiveAfter(prog)[n]) = A \X B
    BY DEF Interfere
  <2> QED BY <2>1
<1>3. PICK i \in Component, j \in Component : <<<<a, i>>, <<b, j>>>> \in all
  <2> HIDE DEF all
  <2>1. Coarse = CoarseMatrix(prog, all)
    BY DEF Coarse, all
  <2> QED BY <2>1 DEF CoarseMatrix
<1>4. <<<<b, j>>, <<a, i>>>> \in all
  <2> HIDE DEF half, all
  <2>1. CASE <<<<a, i>>, <<b, j>>>> \in half
    <3>1. \E e \in half : <<<<b, j>>, <<a, i>>>> = <<e[2], e[1]>>
      BY <2>1
    <3> QED BY <3>1, <1>1
  <2>2. CASE \E e \in half : <<<<a, i>>, <<b, j>>>> = <<e[2], e[1]>>
    <3>1. PICK e \in half : <<<<a, i>>, <<b, j>>>> = <<e[2], e[1]>>
      BY <2>2
    <3>2. e = <<<<b, j>>, <<a, i>>>>
      BY <3>1, <1>2
    <3> QED BY <3>1, <3>2, <1>1
  <2>3. <<<<a, i>>, <<b, j>>>> \in half \/ \E e \in half : <<<<a, i>>, <<b, j>>>> = <<e[2], e[1]>>
    BY <1>1, <1>3
  <2> QED BY <2>1, <2>2, <2>3
<1> QED
  <2> HIDE DEF all
  <2>1. Coarse = CoarseMatrix(prog, all)
    BY DEF Coarse, all
  <2> QED BY <2>1, <1>4 DEF CoarseMatrix

LEMMA RelatedSymmetric ==
  ASSUME NEW r, NEW s, Related(r, s)
  PROVE  Related(s, r)
BY CoarseSymmetric DEF Related

LEMMA FrontAndLast ==
  ASSUME NEW S, NEW s \in Seq(S), s # <<>>
  PROVE  /\ Front(s) \in Seq(S) /\ Last(s) \in S
         /\ Len(s) \in Nat \ {0} /\ DOMAIN s = 1..Len(s)
         /\ DOMAIN Front(s) = 1..(Len(s) - 1)
         /\ \A n \in 1..(Len(s) - 1) : Front(s)[n] = s[n]
         /\ s[Len(s)] = Last(s)
         /\ ToSet(s) = ToSet(Front(s)) \cup {Last(s)}
<1>1. Len(s) \in Nat /\ Len(s) # 0 /\ DOMAIN s = 1..Len(s)
  OBVIOUS
<1>2. /\ Front(s) \in Seq(S) /\ DOMAIN Front(s) = 1..(Len(s) - 1)
      /\ \A n \in 1..(Len(s) - 1) : Front(s)[n] = s[n]
  BY <1>1 DEF Front
<1>3. s[Len(s)] = Last(s) /\ Last(s) \in S
  BY <1>1 DEF Last
<1>4. \A e \in ToSet(s) : e \in ToSet(Front(s)) \/ e = Last(s)
  <2> SUFFICES ASSUME NEW n \in 1..Len(s) PROVE s[n] \in ToSet(Front(s)) \/ s[n] = Last(s)
    BY <1>1 DEF ToSet
  <2>1. CASE n = Len(s)
    BY <2>1, <1>3
  <2>2. CASE n # Len(s)
    <3>1. n \in 1..(Len(s) - 1)
      <4>1. PICK k \in Nat : k = Len(s)
        BY <1>1
      <4>2. n \in 1..k /\ n # k
        BY <4>1, <2>2
      <4>3. n \in 1..(k - 1)
        BY <4>2
      <4> QED BY <4>1, <4>3
    <3> QED BY <3>1, <1>2 DEF ToSet
  <2> QED BY <2>1, <2>2
<1>5. \A e \in ToSet(Front(s)) : e \in ToSet(s)
  <2> SUFFICES ASSUME NEW n \in 1..(Len(s) - 1) PROVE Front(s)[n] \in ToSet(s)
    BY <1>2 DEF ToSet
  <2>1. n \in 1..Len(s)
    BY <1>1
  <2> QED BY <2>1, <1>1, <1>2 DEF ToSet
<1>6. Last(s) \in ToSet(s)
  <2>1. Len(s) \in 1..Len(s)
    BY <1>1
  <2> QED BY <2>1, <1>1, <1>3 DEF ToSet
<1> QED BY <1>1, <1>2, <1>3, <1>4, <1>5, <1>6

(* While the stack is popped.                                              *)
ColouringInv ==
    /\ IsProgram(prog) /\ pc = "assign"
    /\ RoundTypes /\ PlaceTypes /\ AliasInv /\ EdgeInv /\ StackInv /\ AssignInv

LEMMA RoundInvInAssign ==
  ASSUME pc = "assign"
  PROVE  RoundInv <=> ColouringInv
BY DEF RoundInv, ColouringInv, InRound, PcInv

(* The last on the stack sees every coloured register it interferes with.  *)
LEMMA LastSees ==
  ASSUME ColouringInv, select_stack # <<>>, NEW s \in Regs(prog),
         s \notin ToSet(select_stack), Related(Last(select_stack), s)
  PROVE  Sees(Last(select_stack), s)
<1>1. /\ Len(select_stack) \in Nat \ {0} /\ DOMAIN select_stack = 1..Len(select_stack)
      /\ select_stack[Len(select_stack)] = Last(select_stack)
      /\ Last(select_stack) \in Regs(prog)
  BY FrontAndLast DEF ColouringInv, RoundTypes
<1>2. \A m \in 1..Len(select_stack) : select_stack[m] # s
  BY <1>1 DEF ToSet
<1>3. Len(select_stack) \in DOMAIN select_stack
  BY <1>1
<1>4. Earlier(Last(select_stack), s)
  BY <1>1, <1>2, <1>3 DEF Earlier
<1> QED BY <1>1, <1>4 DEF ColouringInv, StackInv

(* So the place it takes is out of the way of all of them.                 *)
LEMMA FreeIsApart ==
  ASSUME ColouringInv, select_stack # <<>>, NEW place, place[1] \in Int,
         ~ Conflicts(Last(select_stack), place)
  PROVE  /\ Related(Last(select_stack), Precolored) => place[1] # 0
         /\ \A s \in Regs(prog) : Colored(s) /\ Related(Last(select_stack), s) =>
               ~ (/\ allocated[s][1] = place[1]
                  /\ Span(allocated[s][2], s) \cap Span(place[2], Last(select_stack)) # {})
<1> DEFINE reg == Last(select_stack)
<1>1. \A s : Sees(reg, s) => s \in {alias[r] : r \in adjacent[reg]}
  BY DEF Sees
<1>2. Precolored \in Regs(prog) /\ Precolored \notin ToSet(select_stack)
  BY FiniteProgram DEF ColouringInv, AssignInv
<1>3. Related(reg, Precolored) => place[1] # 0
  <2> SUFFICES ASSUME Related(reg, Precolored) PROVE place[1] # 0
    OBVIOUS
  <2>1. Sees(reg, Precolored)
    BY <1>2, LastSees
  <2> QED BY <2>1, <1>1 DEF Conflicts
<1>4. ASSUME NEW s \in Regs(prog), Colored(s), Related(reg, s)
      PROVE  ~ (/\ allocated[s][1] = place[1]
                /\ Span(allocated[s][2], s) \cap Span(place[2], reg) # {})
  <2>1. s \notin ToSet(select_stack) /\ s # Precolored /\ state[s] = "colored"
    BY <1>4 DEF Colored, Finished
  <2>2. Sees(reg, s)
    BY <2>1, <1>4, LastSees
  <2> QED BY <2>1, <2>2, <1>1 DEF Conflicts
<1> QED BY <1>3, <1>4

LEMMA AssignColorStep ==
  ASSUME ColouringInv, AssignColor
  PROVE  ColouringInv'
<1> SUFFICES ASSUME NEW reg, reg = Last(select_stack)
             PROVE  ColouringInv'
  OBVIOUS
<1>1. /\ select_stack # <<>> /\ select_stack' = Front(select_stack)
      /\ UNCHANGED <<prog, pc, graph, move_queue, active_moves, simplify_queue,
                     freeze_queue, spill_queue>>
      /\ \/ /\ state' = [state EXCEPT ![reg] = "spilled"]
            /\ spilled_regs' = spilled_regs \cup {reg}
            /\ allocated' = allocated
         \/ \E place \in Places(reg) :
               /\ ~ Conflicts(reg, place)
               /\ allocated' = [allocated EXCEPT ![reg] = place]
               /\ state' = [state EXCEPT ![reg] = "colored"]
               /\ spilled_regs' = spilled_regs
  BY DEF AssignColor
<1>2. /\ IsProgram(prog) /\ reg \in Regs(prog) /\ reg # Precolored /\ alias[reg] = reg
      /\ select_stack' \in Seq(Regs(prog))
      /\ ToSet(select_stack) = ToSet(select_stack') \cup {reg}
      /\ Len(select_stack) \in Nat \ {0} /\ DOMAIN select_stack = 1..Len(select_stack)
      /\ DOMAIN select_stack' = 1..(Len(select_stack) - 1)
      /\ \A n \in 1..(Len(select_stack) - 1) : select_stack'[n] = select_stack[n]
  <2>1. select_stack \in Seq(Regs(prog))
    BY DEF ColouringInv, RoundTypes
  <2>2. reg \in ToSet(select_stack)
    BY <2>1, <1>1, FrontAndLast
  <2> QED BY <2>1, <2>2, <1>1, FrontAndLast DEF ColouringInv, AssignInv
<1>3. /\ prog' = prog /\ pc' = pc /\ alias' = alias /\ adjacent' = adjacent
      /\ q_total' = q_total /\ moves' = moves /\ alias_swizzle' = alias_swizzle
      /\ pc = "assign" /\ state \in [Regs(prog) -> States]
      /\ spilled_regs \subseteq VirtualRegs(prog)
      /\ allocated \in [Regs(prog) -> (0..(NumPhys - 1)) \X Nat]
  BY <1>1 DEF graph, ColouringInv, RoundTypes, PlaceTypes
<1>4. StackInv'
  <2>1. ASSUME NEW r \in Regs(prog), NEW s \in Regs(prog), Earlier(r, s)'
        PROVE  Earlier(r, s)
    <3>1. PICK n \in 1..(Len(select_stack) - 1) :
            select_stack'[n] = r /\ \A m \in 1..n : select_stack'[m] # s
      BY <2>1, <1>2 DEF Earlier
    <3>2. /\ n \in DOMAIN select_stack /\ select_stack[n] = r
          /\ \A m \in 1..n : select_stack[m] # s
      BY <3>1, <1>2
    <3> QED BY <3>2 DEF Earlier
  <2>2. \A r, s : (Related(r, s)' <=> Related(r, s)) /\ (Sees(r, s)' <=> Sees(r, s))
    BY <1>3 DEF Related, Sees, Coarse
  <2> QED BY <2>1, <2>2, <1>3 DEF StackInv, ColouringInv
<1>5. AliasInv' /\ EdgeInv' /\ IsProgram(prog)'
  BY <1>2, <1>3 DEF AliasInv, EdgeInv, ColouringInv
<1>6. /\ state' \in [Regs(prog) -> States]
      /\ state'[reg] \in {"colored", "spilled"}
      /\ state'[reg] = "spilled" => reg \in spilled_regs'
      /\ \A r \in Regs(prog) : r # reg => state'[r] = state[r]
      /\ spilled_regs' \subseteq VirtualRegs(prog) /\ spilled_regs \subseteq spilled_regs'
  <2>1. CASE /\ state' = [state EXCEPT ![reg] = "spilled"]
             /\ spilled_regs' = spilled_regs \cup {reg}
    BY <2>1, <1>2, <1>3 DEF States, VirtualRegs
  <2>2. CASE state' = [state EXCEPT ![reg] = "colored"] /\ spilled_regs' = spilled_regs
    BY <2>2, <1>2, <1>3 DEF States
  <2> QED BY <2>1, <2>2, <1>1
<1>7. RoundTypes'
  <2>1. UNCHANGED <<move_queue, active_moves, simplify_queue, freeze_queue, spill_queue>>
    BY <1>1
  <2> QED BY <2>1, <1>2, <1>3, <1>6 DEF RoundTypes, ColouringInv
<1>8. /\ allocated' \in [Regs(prog) -> (0..(NumPhys - 1)) \X Nat]
      /\ \A r \in Regs(prog) : r # reg => allocated'[r] = allocated[r]
      /\ allocated'[reg][2] + prog.size[reg] <= 4
      /\ state'[reg] = "colored" => ~ Conflicts(reg, allocated'[reg])
  <2>1. CASE allocated' = allocated /\ state' = [state EXCEPT ![reg] = "spilled"]
    BY <2>1, <1>2, <1>3 DEF ColouringInv, PlaceTypes
  <2>2. ASSUME NEW place \in Places(reg), ~ Conflicts(reg, place),
               allocated' = [allocated EXCEPT ![reg] = place]
        PROVE  /\ allocated' \in [Regs(prog) -> (0..(NumPhys - 1)) \X Nat]
               /\ \A r \in Regs(prog) : r # reg => allocated'[r] = allocated[r]
               /\ allocated'[reg][2] + prog.size[reg] <= 4
               /\ ~ Conflicts(reg, allocated'[reg])
    <3>1. prog.size[reg] \in 1..4
      BY <1>2, FiniteProgram
    <3>2. place \in (0..(NumPhys - 1)) \X Nat /\ place[2] + prog.size[reg] <= 4
      <4>1. CASE prog.beginning[reg]
        <5>1. place \in (0..(NumPhys - 1)) \X {0}
          BY <4>1 DEF Places
        <5> QED BY <5>1, <3>1
      <4>2. CASE ~ prog.beginning[reg]
        <5>1. place \in (0..(NumPhys - 1)) \X (0..(4 - prog.size[reg]))
          BY <4>2 DEF Places
        <5> QED BY <5>1, <3>1
      <4> QED BY <4>1, <4>2
    <3>3. /\ allocated'[reg] = place
          /\ \A r \in Regs(prog) : r # reg => allocated'[r] = allocated[r]
          /\ allocated' \in [Regs(prog) -> (0..(NumPhys - 1)) \X Nat]
      BY <2>2, <3>2, <1>2, <1>3
    <3> QED BY <2>2, <3>2, <3>3
  <2> QED BY <2>1, <2>2, <1>1
<1>9. PlaceTypes'
  <2>1. \A r : Comps(r)' = Comps(r)
    BY <1>3 DEF Comps
  <2>2. \A r \in Regs(prog) : allocated'[r][2] + prog.size[r] <= 4
    BY <1>8 DEF ColouringInv, PlaceTypes
  <2>3. \A r \in Regs(prog) : \A c \in Comps(r) : alias_swizzle[r][c] \in Comps(alias[r])
    BY DEF ColouringInv, PlaceTypes
  <2> QED BY <2>1, <2>2, <2>3, <1>3, <1>8 DEF PlaceTypes
<1>10. \A r \in Regs(prog) : /\ Finished(r)' => r = reg \/ Finished(r)
                             /\ r # reg /\ Colored(r)' => Colored(r)
  <2> QED BY <1>2, <1>3, <1>6 DEF Finished, Colored
<1>11. \A r, s : Related(r, s)' <=> Related(r, s)
  BY <1>3 DEF Related, Coarse
<1>12. ASSUME state'[reg] = "colored"
       PROVE  /\ Related(reg, Precolored) => allocated'[reg][1] # 0
              /\ \A s \in Regs(prog) : Colored(s) /\ Related(reg, s) =>
                  ~ (/\ allocated[s][1] = allocated'[reg][1]
                     /\ Span(allocated[s][2], s) \cap Span(allocated'[reg][2], reg) # {})
  <2>1. ~ Conflicts(reg, allocated'[reg]) /\ allocated'[reg][1] \in Int
    BY <1>2, <1>8, <1>12
  <2>2. PICK place : place = allocated'[reg]
    OBVIOUS
  <2>3. ~ Conflicts(reg, place) /\ place[1] \in Int
    BY <2>1, <2>2
  <2>4. /\ Related(reg, Precolored) => place[1] # 0
        /\ \A s \in Regs(prog) : Colored(s) /\ Related(reg, s) =>
               ~ (/\ allocated[s][1] = place[1]
                  /\ Span(allocated[s][2], s) \cap Span(place[2], reg) # {})
    BY <2>3, <1>1, FreeIsApart
  <2> QED BY <2>2, <2>4
<1>13. \A r \in Regs(prog) : Colored(r)' /\ Related(r, Precolored) => allocated'[r][1] # 0
  <2> SUFFICES ASSUME NEW r \in Regs(prog), Colored(r)', Related(r, Precolored)
               PROVE  allocated'[r][1] # 0
    OBVIOUS
  <2>1. CASE r = reg
    <3>1. state'[reg] = "colored"
      BY <2>1 DEF Colored
    <3> QED BY <2>1, <3>1, <1>12
  <2>2. CASE r # reg
    <3>1. Colored(r) /\ allocated'[r] = allocated[r]
      BY <2>2, <1>8, <1>10
    <3> QED BY <3>1 DEF ColouringInv, AssignInv
  <2> QED BY <2>1, <2>2
<1>14. ASSUME NEW s \in Regs(prog), Colored(reg)', Colored(s)', Related(reg, s)
       PROVE  ~ Overlap(reg, s)' /\ ~ Overlap(s, reg)'
  <2>1. s # reg /\ state'[reg] = "colored"
    BY <1>14 DEF Related, Colored
  <2>2. Colored(s) /\ allocated'[s] = allocated[s]
    BY <2>1, <1>8, <1>10, <1>14
  <2>3. ~ (/\ allocated[s][1] = allocated'[reg][1]
           /\ Span(allocated[s][2], s) \cap Span(allocated'[reg][2], reg) # {})
    BY <2>1, <2>2, <1>12, <1>14
  <2>4. Overlap(reg, s)' => /\ allocated'[reg][1] = allocated[s][1]
                            /\ Span(allocated'[reg][2], reg) \cap Span(allocated[s][2], s) # {}
    BY <2>2, <1>3 DEF Overlap, Span
  <2>5. Overlap(s, reg)' => /\ allocated'[reg][1] = allocated[s][1]
                            /\ Span(allocated'[reg][2], reg) \cap Span(allocated[s][2], s) # {}
    BY <2>2, <1>3 DEF Overlap, Span
  <2>6. Span(allocated'[reg][2], reg) \cap Span(allocated[s][2], s)
          = Span(allocated[s][2], s) \cap Span(allocated'[reg][2], reg)
    OBVIOUS
  <2> QED BY <2>3, <2>4, <2>5, <2>6
<1>15. \A r, s \in Regs(prog) : Colored(r)' /\ Colored(s)' /\ Related(r, s) => ~ Overlap(r, s)'
  <2> SUFFICES ASSUME NEW r \in Regs(prog), NEW s \in Regs(prog),
                      Colored(r)', Colored(s)', Related(r, s)
               PROVE  ~ Overlap(r, s)'
    OBVIOUS
  <2>1. CASE r = reg
    BY <2>1, <1>14
  <2>2. CASE s = reg
    <3>1. Related(reg, r)
      BY <2>2, RelatedSymmetric
    <3> QED BY <3>1, <2>2, <1>14
  <2>3. CASE r # reg /\ s # reg
    <3>1. /\ Colored(r) /\ allocated'[r] = allocated[r]
          /\ Colored(s) /\ allocated'[s] = allocated[s]
      BY <2>3, <1>8, <1>10
    <3>2. ~ Overlap(r, s)
      BY <3>1 DEF ColouringInv, AssignInv
    <3> QED BY <3>1, <3>2, <1>3 DEF Overlap, Span
  <2> QED BY <2>1, <2>2, <2>3
<1>16. AssignInv'
  <2>1. \A r \in ToSet(select_stack') : r # Precolored /\ alias'[r] = r
    BY <1>2, <1>3 DEF ColouringInv, AssignInv
  <2>2. ASSUME NEW r \in Regs(prog), Finished(r)'
        PROVE  state'[r] \in {"colored", "spilled"} /\ (state'[r] = "spilled" => r \in spilled_regs')
    <3>1. CASE r = reg
      BY <3>1, <1>6
    <3>2. CASE r # reg
      <4>1. Finished(r) /\ state'[r] = state[r]
        BY <2>2, <3>2, <1>6, <1>10
      <4> QED BY <4>1, <1>6 DEF ColouringInv, AssignInv
    <3> QED BY <3>1, <3>2
  <2>3. \A r \in Regs(prog) : Colored(r)' /\ Related(r, Precolored)' => allocated'[r][1] # 0
    BY <1>11, <1>13
  <2>4. \A r, s \in Regs(prog) : Colored(r)' /\ Colored(s)' /\ Related(r, s)' => ~ Overlap(r, s)'
    BY <1>11, <1>15
  <2> QED BY <2>1, <2>2, <2>3, <2>4, <1>3 DEF AssignInv
<1> QED BY <1>3, <1>4, <1>5, <1>7, <1>9, <1>16 DEF ColouringInv

LEMMA ReturnStep ==
  ASSUME ColouringInv, Return
  PROVE  RoundInv'
<1>1. /\ select_stack = <<>> /\ pc = "assign"
      /\ pc' = IF spilled_regs = {} THEN "done" ELSE "spill"
      /\ UNCHANGED <<prog, state, graph, move_queue, active_moves, simplify_queue,
                     freeze_queue, spill_queue, select_stack, allocated, spilled_regs>>
  BY DEF Return
<1>2. (IsProgram(prog) /\ PlaceTypes /\ AliasInv /\ EdgeInv /\ StackInv)'
  BY <1>1, SameGraph DEF ColouringInv
<1>3. RoundTypes'
  BY <1>1 DEF ColouringInv, RoundTypes, graph
<1>4. AssignInv'
  <2>1. /\ prog' = prog /\ alias' = alias /\ state' = state /\ allocated' = allocated
        /\ select_stack' = select_stack /\ spilled_regs' = spilled_regs
    BY <1>1 DEF graph
  <2>2. /\ \A r : (Finished(r)' <=> Finished(r)) /\ (Colored(r)' <=> Colored(r))
        /\ \A r, s : (Related(r, s)' <=> Related(r, s)) /\ (Overlap(r, s)' <=> Overlap(r, s))
    BY <2>1 DEF Finished, Colored, Related, Overlap, Span, Coarse
  <2> QED BY <2>1, <2>2 DEF AssignInv, ColouringInv
<1>5. spilled_regs \subseteq VirtualRegs(prog)
  BY DEF ColouringInv, RoundTypes
<1> QED BY <1>1, <1>2, <1>3, <1>4, <1>5 DEF RoundInv, InRound, PcInv
-----------------------------------------------------------------------------
(* What interferes is a matter of the instructions alone.                  *)
LEMMA SameInterference ==
  ASSUME NEW p, NEW q, q.code = p.code, q.size = p.size
  PROVE  CoarseMatrix(q, DetailedMatrix(q)) = CoarseMatrix(p, DetailedMatrix(p))
<1>1. LiveAfter(q) = LiveAfter(p)
  BY DEF LiveAfter
<1>2. \A n, live : Interfere(q, n, live) = Interfere(p, n, live)
  BY DEF Interfere
<1>3. DetailedMatrix(q) = DetailedMatrix(p)
  BY <1>1, <1>2 DEF DetailedMatrix
<1>4. Regs(q) = Regs(p)
  BY DEF Regs
<1> QED BY <1>3, <1>4 DEF CoarseMatrix

LEMMA SameProgram ==
  ASSUME NEW p, NEW q, IsProgram(p),
         q.size = p.size, q.beginning = p.beginning, q.code = p.code,
         q.reg_alloc \in Nat, q.reg_alloc >= Cardinality(VirtualRegs(p)), q.temps \in Nat
  PROVE  IsProgram(q)
<1>1. Regs(q) = Regs(p) /\ VirtualRegs(q) = VirtualRegs(p)
  BY DEF Regs, VirtualRegs
<1>2. \A x : IsInstr(p, x) => IsInstr(q, x)
  BY <1>1 DEF IsInstr
<1> QED BY <1>1, <1>2 DEF IsProgram

(* The first state of a round.                                             *)
LEMMA StartRoundStep ==
  ASSUME IsProgram(prog), StartRound
  PROVE  WorkInv'
<1>1. /\ pc' = "work"
      /\ adjacent' = Coarse
      /\ moves' = [r \in Regs(prog) |-> MovesOf(r)]
      /\ q_total' = [r \in Regs(prog) |-> InitQTotal(r, adjacent')]
      /\ alias' = [r \in Regs(prog) |-> r]
      /\ alias_swizzle' = [r \in Regs(prog) |-> [c \in Comps(r) |-> c]]
      /\ move_queue' = Moves(prog) /\ active_moves' = {}
      /\ state' = [r \in Regs(prog) |-> InitState(r, q_total'[r], moves'[r])]
      /\ simplify_queue' \in Ascending({r \in Regs(prog) : state'[r] = "to_simplify"})
      /\ freeze_queue' = {r \in Regs(prog) : state'[r] = "to_freeze"}
      /\ spill_queue' = {r \in Regs(prog) : state'[r] = "to_spill"}
      /\ select_stack' = <<>> /\ spilled_regs' = {}
      /\ allocated' = [r \in Regs(prog) |-> <<0, 0>>]
  BY DEF StartRound, Coarse
<1>2. /\ prog'.size = prog.size /\ prog'.beginning = prog.beginning /\ prog'.code = prog.code
      /\ prog'.reg_alloc = Cardinality(VirtualRegs(prog)) /\ prog'.temps = prog.temps
  BY DEF StartRound
<1>3. /\ IsFiniteSet(Regs(prog)) /\ Precolored \in Regs(prog)
      /\ \A r \in Regs(prog) : prog.size[r] \in 1..4
  BY FiniteProgram
<1>4. Cardinality(VirtualRegs(prog)) \in Nat
  <2>1. IsFiniteSet(VirtualRegs(prog))
    BY <1>3, FS_Subset DEF VirtualRegs
  <2> QED BY <2>1, FS_CardinalityType
<1>5. IsProgram(prog')
  <2>1. prog.temps \in Nat
    BY DEF IsProgram
  <2>2. /\ prog'.reg_alloc \in Nat /\ prog'.temps \in Nat
        /\ prog'.reg_alloc >= Cardinality(VirtualRegs(prog))
    BY <2>1, <1>2, <1>4
  <2> QED BY <2>2, <1>2, SameProgram
<1>6. /\ Regs(prog') = Regs(prog) /\ VirtualRegs(prog') = VirtualRegs(prog)
      /\ Moves(prog') = Moves(prog)
  BY <1>2 DEF Regs, VirtualRegs, Moves
<1>7. Coarse' = Coarse
  BY <1>2, SameInterference DEF Coarse
<1>8. adjacent' \in [Regs(prog) -> SUBSET Regs(prog)]
  <2>1. \A r \in Regs(prog) : { s \in Regs(prog) : \E i, j \in Component :
                                  <<<<r, i>>, <<s, j>>>> \in DetailedMatrix(prog) } \in SUBSET Regs(prog)
    OBVIOUS
  <2> QED BY <2>1, <1>1 DEF Coarse, CoarseMatrix
<1>9. q_total' \in [Regs(prog) -> Nat]
  <2>1. ASSUME NEW r \in Regs(prog) PROVE InitQTotal(r, adjacent') \in Nat
    <3>1. CASE r = Precolored
      <4>1. prog.reg_alloc \in Nat
        BY DEF IsProgram
      <4> QED BY <3>1, <4>1, NumPhysAssumption DEF InitQTotal
    <3>2. CASE r # Precolored
      <4>1. adjacent'[r] \in SUBSET Regs(prog)
        BY <1>8
      <4>2. SumQ(r, adjacent'[r]) \in Nat
        BY <4>1, SumQType
      <4> QED BY <3>2, <4>2 DEF InitQTotal
    <3> QED BY <3>1, <3>2
  <2> QED BY <2>1, <1>1
<1>10. \A r \in Regs(prog) :
         /\ state'[r] = InitState(r, q_total'[r], moves'[r])
         /\ state'[r] \in {"initial", "to_spill", "to_simplify", "to_freeze"}
         /\ state'[r] = "initial" <=> r = Precolored
         /\ state'[r] = "to_simplify" => moves'[r] = {}
  BY <1>1 DEF InitState
<1>11. state' \in [Regs(prog) -> States]
  <2>1. \A r \in Regs(prog) : state'[r] \in States
    BY <1>10 DEF States
  <2> QED BY <2>1, <1>1
<1> DEFINE S == {r \in Regs(prog) : state'[r] = "to_simplify"}
<1>12. /\ simplify_queue' \in Seq(Regs(prog))
       /\ ToSet(simplify_queue') = {r \in Regs(prog) : state'[r] = "to_simplify"}
  <2>1. S \in SUBSET Regs(prog) /\ IsFiniteSet(S)
    BY <1>3, FS_Subset
  <2>2. simplify_queue' \in SetToSeqs(S)
    BY <1>1 DEF Ascending
  <2>3. simplify_queue' \in Seq(S) /\ ToSet(simplify_queue') = S
    <3> HIDE DEF S
    <3> QED BY <2>1, <2>2, AllInOrder
  <2>4. simplify_queue' \in Seq(Regs(prog))
    <3> HIDE DEF S
    <3> QED BY <2>1, <2>3
  <2> QED BY <2>3, <2>4
<1>13. ToSet(select_stack') = {} /\ select_stack' \in Seq(Regs(prog))
  BY <1>1 DEF ToSet
<1>14. \A r \in Regs(prog) : moves'[r] = MovesOf(r) /\ MovesOf(r) \subseteq Moves(prog) /\ alias'[r] = r
  BY <1>1 DEF MovesOf
<1>15. RoundTypes'
  <2>1. moves' \in [Regs(prog) -> SUBSET Moves(prog)]
    BY <1>1, <1>14
  <2>2. alias' \in [Regs(prog) -> Regs(prog)]
    BY <1>1
  <2>3. /\ move_queue' \subseteq Moves(prog) /\ active_moves' \subseteq Moves(prog)
        /\ freeze_queue' \subseteq Regs(prog) /\ spill_queue' \subseteq Regs(prog)
        /\ spilled_regs' \subseteq VirtualRegs(prog)
    BY <1>1
  <2> QED BY <2>1, <2>2, <2>3, <1>6, <1>8, <1>9, <1>11, <1>12, <1>13 DEF RoundTypes
<1>16. PlaceTypes'
  <2>1. \A r : Comps(r)' = Comps(r)
    BY <1>2 DEF Comps
  <2>2. \A r \in Regs(prog) : \A c \in Comps(r) : alias_swizzle'[r][c] \in Comps(alias'[r])
    BY <1>1, <1>14
  <2>3. allocated' \in [Regs(prog) -> (0..(NumPhys - 1)) \X Nat]
    <3>1. 0 \in 0..(NumPhys - 1)
      BY NumPhysAssumption
    <3> QED BY <3>1, <1>1
  <2>4. \A r \in Regs(prog) : allocated'[r][2] + prog.size[r] <= 4
    <3> SUFFICES ASSUME NEW r \in Regs(prog) PROVE allocated'[r][2] + prog.size[r] <= 4
      OBVIOUS
    <3>1. allocated'[r] = <<0, 0>> /\ prog.size[r] \in 1..4
      BY <1>1, <1>3
    <3> QED BY <3>1
  <2> QED BY <2>1, <2>2, <2>3, <2>4, <1>2, <1>6 DEF PlaceTypes
<1>17. AliasInv'
  BY <1>3, <1>6, <1>14 DEF AliasInv
<1>18. EdgeInv'
  BY <1>1, <1>6, CoarseSymmetric DEF EdgeInv
<1>19. StackInv'
  <2> SUFFICES ASSUME NEW r \in Regs(prog), NEW s \in Regs(prog), Related(r, s)'
               PROVE  ~ Earlier(r, s)' /\ s \in adjacent'[r]
    BY <1>6 DEF StackInv
  <2>1. ~ Earlier(r, s)'
    <3>1. DOMAIN select_stack' = {}
      BY <1>1
    <3> QED BY <3>1 DEF Earlier
  <2>2. s \in Coarse[r]
    BY <1>6, <1>7, <1>14 DEF Related
  <2> QED BY <2>1, <2>2, <1>1
<1>20. StateInv'
  <2>1. \A r \in VirtualRegs(prog) : r \in Regs(prog) /\ r # Precolored
    BY DEF VirtualRegs
  <2> QED BY <2>1, <1>1, <1>3, <1>6, <1>10, <1>12, <1>14 DEF StateInv
<1>21. QueueInv'
  <2>1. \A r \in freeze_queue' : r \in Regs(prog) /\ state'[r] = "to_freeze"
    BY <1>1
  <2>2. \A r \in spill_queue' : r \in Regs(prog) /\ state'[r] = "to_spill"
    BY <1>1
  <2>3. \A r \in ToSet(simplify_queue') : r \in Regs(prog) /\ state'[r] = "to_simplify"
    BY <1>12
  <2> QED BY <2>1, <2>2, <2>3, <1>10, <1>13, <1>14 DEF QueueInv, Queued
<1>22. LiveMovesLive'
  <2>1. ASSUME NEW m \in Moves(prog),
               NEW e \in {prog.code[m].src, prog.code[m].dest}
        PROVE  m \in moves'[alias'[e]] /\ state'[alias'[e]] \in {"initial", "to_freeze", "to_spill"}
    <3>1. prog.code[m].src \in Regs(prog) /\ prog.code[m].dest \in Regs(prog)
      BY DEF Moves, IsProgram, IsInstr
    <3>2. e \in Regs(prog) /\ alias'[e] = e
      BY <3>1, <1>14
    <3>3. m \in moves'[e]
      BY <3>2, <1>14 DEF MovesOf
    <3> QED BY <3>2, <3>3, <1>10
  <2>2. LiveMoves' = Moves(prog)
    BY <1>1 DEF LiveMoves
  <2>3. \A m \in LiveMoves' : \A r \in {alias'[prog.code[m].src], alias'[prog.code[m].dest]} :
            m \in moves'[r] /\ state'[r] \in {"initial", "to_freeze", "to_spill"}
    BY <2>1, <2>2
  <2>4. \A m : prog'.code[m] = prog.code[m]
    BY <1>2
  <2> HIDE DEF S
  <2> QED BY <2>3, <2>4 DEF LiveMovesLive
<1> QED BY <1>1, <1>5, <1>15, <1>16, <1>17, <1>18, <1>19, <1>20, <1>21, <1>22 DEF WorkInv
-----------------------------------------------------------------------------
(* Spilling.                                                               *)

LEMMA SpillRegStep ==
  ASSUME IsProgram(prog), spilled_regs \subseteq VirtualRegs(prog), SpillReg
  PROVE  RoundInv'
<1>1. PICK reg \in spilled_regs :
         IF LosesUse(prog, reg)
           THEN pc' = "failed" /\ UNCHANGED <<prog, spilled_regs, spill>>
           ELSE /\ pc' = "rewrite"
                /\ spilling' = reg /\ at' = 1
                /\ spilled_regs' = spilled_regs \ {reg}
                /\ prog' = [ size |-> prog.size, beginning |-> prog.beginning,
                             reg_alloc |-> prog.reg_alloc, temps |-> prog.temps + 1,
                             code |-> prog.code ]
  BY DEF SpillReg
<1>2. CASE LosesUse(prog, reg)
  BY <1>1, <1>2 DEF RoundInv, InRound, PcInv
<1>3. CASE ~ LosesUse(prog, reg)
  <2>1. /\ pc' = "rewrite" /\ spilling' = reg /\ at' = 1 /\ spilled_regs' = spilled_regs \ {reg}
        /\ prog'.size = prog.size /\ prog'.beginning = prog.beginning /\ prog'.code = prog.code
        /\ prog'.reg_alloc = prog.reg_alloc /\ prog'.temps = prog.temps + 1
    BY <1>1, <1>3
  <2>2. IsProgram(prog')
    <3>1. /\ prog'.reg_alloc \in Nat /\ prog'.temps \in Nat
          /\ prog'.reg_alloc >= Cardinality(VirtualRegs(prog))
      BY <2>1 DEF IsProgram
    <3> QED BY <3>1, <2>1, SameProgram
  <2>3. VirtualRegs(prog') = VirtualRegs(prog)
    BY <2>1 DEF VirtualRegs, Regs
  <2>4. Len(prog.code) \in Nat /\ DOMAIN prog.code = 1..Len(prog.code)
    BY DEF IsProgram
  <2>5. \A n \in DOMAIN prog.code : ~ (n < 1)
    BY <2>4
  <2>6. \A n \in DOMAIN prog.code : prog.code[n].dest = reg => ~ ReadsReg(prog.code[n], reg)
    BY <1>3 DEF LosesUse, CanPipeline
  <2>7. RewriteInv'
    <3>1. 1 \in 1..(Len(prog.code) + 1)
      BY <2>4
    <3>2. spilling' \in VirtualRegs(prog) /\ spilling' \notin spilled_regs' /\ spilled_regs' \subseteq VirtualRegs(prog)
      BY <2>1
    <3> QED BY <3>1, <3>2, <2>1, <2>3, <2>5, <2>6 DEF RewriteInv
  <2> QED BY <2>1, <2>2, <2>7 DEF RoundInv, InRound, PcInv
<1> QED BY <1>2, <1>3

(* A deleted register that nothing mentions leaves a program.              *)
LEMMA SpillDoneStep ==
  ASSUME IsProgram(prog), RewriteInv, SpillDone
  PROVE  RoundInv'
<1>1. /\ at \notin DOMAIN prog.code /\ prog' = DeleteReg(prog, spilling)
      /\ pc' = IF spilled_regs = {} THEN "start" ELSE "spill"
      /\ spilled_regs' = spilled_regs
  BY DEF SpillDone
<1>2. /\ prog'.size = [r \in Regs(prog) \ {spilling} |-> prog.size[r]]
      /\ prog'.beginning = [r \in Regs(prog) \ {spilling} |-> prog.beginning[r]]
      /\ prog'.reg_alloc = prog.reg_alloc /\ prog'.temps = prog.temps /\ prog'.code = prog.code
  BY <1>1 DEF DeleteReg
<1>3. /\ Regs(prog') = Regs(prog) \ {spilling}
      /\ VirtualRegs(prog') = VirtualRegs(prog) \ {spilling}
  BY <1>2 DEF Regs, VirtualRegs
<1>4. /\ spilling \in VirtualRegs(prog) /\ spilling \notin spilled_regs
      /\ spilled_regs \subseteq VirtualRegs(prog)
  BY DEF RewriteInv
<1>5. Len(prog.code) \in Nat /\ DOMAIN prog.code = 1..Len(prog.code)
  BY DEF IsProgram
<1>6. \A n \in DOMAIN prog.code : ~ Mentions(prog.code[n], spilling)
  <2>1. at \in 1..(Len(prog.code) + 1)
    BY DEF RewriteInv
  <2>2. \A n \in DOMAIN prog.code : n < at
    BY <2>1, <1>1, <1>5
  <2> QED BY <2>2 DEF RewriteInv
<1>7. ASSUME NEW n \in DOMAIN prog.code
      PROVE  IsInstr(prog', prog.code[n])
  <2> DEFINE x == prog.code[n]
  <2>1. IsInstr(prog, x) /\ x.dest # spilling /\ ~ ReadsReg(x, spilling)
    BY <1>6 DEF IsProgram, Mentions
  <2> HIDE DEF x
  <2>2. x.dest \in Regs(prog') \cup {NoReg}
    BY <2>1, <1>3 DEF IsInstr
  <2>3. x.reads \subseteq (Regs(prog') \cup {Pipeline}) \X Component
    <3> SUFFICES ASSUME NEW e \in x.reads
                 PROVE  e \in (Regs(prog') \cup {Pipeline}) \X Component
      OBVIOUS
    <3>1. e \in (Regs(prog) \cup {Pipeline}) \X Component
      BY <2>1 DEF IsInstr
    <3>2. e = <<e[1], e[2]>> /\ e[2] \in Component /\ e[1] \in Regs(prog) \cup {Pipeline}
      BY <3>1
    <3>3. e[1] # spilling
      BY <2>1, <3>2 DEF ReadsReg
    <3>4. e[1] \in Regs(prog') \cup {Pipeline}
      BY <3>2, <3>3, <1>3
    <3> QED BY <3>2, <3>4
  <2>4. x.move =>
        /\ x.dest \in Regs(prog') /\ x.src \in Regs(prog')
        /\ x.mask # {} /\ x.mask \subseteq 0..(prog'.size[x.dest] - 1)
        /\ \A c \in x.mask : /\ x.swz[c] \in 0..(prog'.size[x.src] - 1)
                             /\ <<x.src, x.swz[c]>> \in x.reads
    <3> SUFFICES ASSUME x.move
                 PROVE  /\ x.dest \in Regs(prog') /\ x.src \in Regs(prog')
                        /\ x.mask # {} /\ x.mask \subseteq 0..(prog'.size[x.dest] - 1)
                        /\ \A c \in x.mask : /\ x.swz[c] \in 0..(prog'.size[x.src] - 1)
                                             /\ <<x.src, x.swz[c]>> \in x.reads
      OBVIOUS
    <3>1. /\ x.dest \in Regs(prog) /\ x.src \in Regs(prog)
          /\ x.mask # {} /\ x.mask \subseteq 0..(prog.size[x.dest] - 1) /\ x.mask \subseteq Component
          /\ \A c \in x.mask : /\ x.swz[c] \in 0..(prog.size[x.src] - 1)
                               /\ <<x.src, x.swz[c]>> \in x.reads
      BY <2>1 DEF IsInstr
    <3>2. x.src # spilling
      <4>1. PICK c \in x.mask : TRUE
        BY <3>1
      <4>2. <<x.src, x.swz[c]>> \in x.reads /\ x.swz[c] \in Component
        BY <3>1, <2>1 DEF IsInstr
      <4> QED BY <4>2, <2>1 DEF ReadsReg
    <3>3. x.dest \in Regs(prog') /\ x.src \in Regs(prog')
      BY <2>1, <3>1, <3>2, <1>3
    <3>4. prog'.size[x.dest] = prog.size[x.dest] /\ prog'.size[x.src] = prog.size[x.src]
      BY <3>3, <1>2, <1>3
    <3> QED BY <3>1, <3>3, <3>4
  <2>5. IsInstr(prog', x)
    BY <2>1, <2>2, <2>3, <2>4 DEF IsInstr
  <2> QED BY <2>5 DEF x
<1>8. IsProgram(prog')
  <2>1. /\ prog'.size \in [Regs(prog') -> 1..4] /\ prog'.beginning \in [Regs(prog') -> BOOLEAN]
        /\ IsFiniteSet(Regs(prog')) /\ Regs(prog') \subseteq Nat
        /\ Precolored \in Regs(prog') /\ prog'.size[Precolored] = 4
    <3>1. /\ prog.size \in [Regs(prog) -> 1..4] /\ prog.beginning \in [Regs(prog) -> BOOLEAN]
          /\ IsFiniteSet(Regs(prog)) /\ Regs(prog) \subseteq Nat
          /\ Precolored \in Regs(prog) /\ prog.size[Precolored] = 4
      BY DEF IsProgram
    <3>2. spilling # Precolored
      BY <1>4 DEF VirtualRegs
    <3>3. IsFiniteSet(Regs(prog'))
      BY <3>1, <1>3, FS_Subset
    <3>4. prog'.size \in [Regs(prog') -> 1..4] /\ prog'.beginning \in [Regs(prog') -> BOOLEAN]
      BY <3>1, <1>2, <1>3
    <3> QED BY <3>1, <3>2, <3>3, <3>4, <1>2, <1>3
  <2>2. /\ prog'.reg_alloc \in Nat /\ prog'.reg_alloc >= Cardinality(VirtualRegs(prog'))
        /\ prog'.temps \in Nat
    <3>1. IsFiniteSet(VirtualRegs(prog))
      BY FiniteProgram, FS_Subset DEF VirtualRegs
    <3>2. /\ Cardinality(VirtualRegs(prog) \ {spilling}) <= Cardinality(VirtualRegs(prog))
          /\ Cardinality(VirtualRegs(prog) \ {spilling}) \in Nat
          /\ Cardinality(VirtualRegs(prog)) \in Nat
      <4>1. VirtualRegs(prog) \ {spilling} \in SUBSET VirtualRegs(prog)
        OBVIOUS
      <4>2. IsFiniteSet(VirtualRegs(prog) \ {spilling})
        BY <3>1, <4>1, FS_Subset
      <4> QED BY <3>1, <4>1, <4>2, FS_Subset, FS_CardinalityType
    <3>3. prog.reg_alloc \in Nat /\ prog.reg_alloc >= Cardinality(VirtualRegs(prog)) /\ prog.temps \in Nat
      BY DEF IsProgram
    <3> QED BY <3>2, <3>3, <1>2, <1>3
  <2>3. /\ Len(prog'.code) \in Nat /\ DOMAIN prog'.code = 1..Len(prog'.code)
        /\ \A n \in DOMAIN prog'.code : IsInstr(prog', prog'.code[n])
    BY <1>2, <1>5, <1>7
  <2> QED BY <2>1, <2>2, <2>3 DEF IsProgram
<1>9. spilled_regs' \subseteq VirtualRegs(prog')
  BY <1>1, <1>3, <1>4
<1> QED BY <1>1, <1>8, <1>9 DEF RoundInv, InRound, PcInv

(* A finite set of numbers has a greatest one, so there is a number for a  *)
(* new register.                                                           *)
LEMMA GreatestExists ==
  ASSUME NEW U \in SUBSET Nat, IsFiniteSet(U), U # {}
  PROVE  \E m \in U : \A k \in U : k <= m
<1> DEFINE From_(i) == {k \in U : k >= i}
           T == {From_(i) : i \in U}
<1>1. ASSUME NEW a \in U, NEW b \in U, b > a
      PROVE  From_(b) \subseteq From_(a) /\ a \in From_(a) /\ a \notin From_(b)
  <2>1. \A x \in U : x >= b => x >= a
    BY <1>1
  <2>2. a >= a /\ ~ (a >= b)
    BY <1>1
  <2> QED BY <2>1, <2>2
<1>2. IsWellFoundedOn(StrictSubsetOrdering(U), SUBSET U)
  BY FS_StrictSubsetOrderingWellFounded, FS_FiniteSubsetsOfFinite
<1>3. T \subseteq SUBSET U /\ T # {}
  OBVIOUS
<1>4. PICK X \in T : \A Y \in T : <<Y, X>> \notin StrictSubsetOrdering(U)
  <2> HIDE DEF T
  <2> QED BY <1>2, <1>3, WFMin
<1>5. PICK m \in U : X = From_(m)
  BY <1>4
<1>6. ASSUME NEW k \in U PROVE k <= m
  <2> SUFFICES ASSUME k > m PROVE FALSE
    OBVIOUS
  <2>1. From_(k) \in T /\ From_(k) \in SUBSET U /\ X \in SUBSET U
    BY <1>5
  <2>2. From_(k) \subseteq X /\ m \in X /\ m \notin From_(k)
    <3> HIDE DEF From_, T
    <3> QED BY <1>1, <1>5
  <2>3. <<From_(k), X>> \in StrictSubsetOrdering(U)
    <3> HIDE DEF From_
    <3> QED BY <2>1, <2>2 DEF StrictSubsetOrdering
  <2> QED BY <1>4, <2>1, <2>3
<1> QED BY <1>6

LEMMA NextRegIsNew ==
  ASSUME IsProgram(prog)
  PROVE  NextReg(prog) \in Nat \ {0} /\ NextReg(prog) \notin Regs(prog)
<1>1. Regs(prog) \in SUBSET Nat /\ IsFiniteSet(Regs(prog)) /\ Regs(prog) # {}
  BY FiniteProgram
<1>2. \E m \in Regs(prog) : \A k \in Regs(prog) : k <= m
  BY <1>1, GreatestExists
<1>3. PICK m \in Regs(prog) : m = CHOOSE r \in Regs(prog) : \A s \in Regs(prog) : s <= r
  BY <1>2
<1>4. \A s \in Regs(prog) : s <= m
  BY <1>2, <1>3
<1>5. NextReg(prog) = 1 + m /\ m \in Nat
  BY <1>1, <1>3 DEF NextReg
<1>6. 1 + m \notin Regs(prog)
  <2> SUFFICES ASSUME 1 + m \in Regs(prog) PROVE FALSE
    OBVIOUS
  <2>1. 1 + m <= m
    BY <1>4
  <2> QED BY <2>1, <1>5
<1> QED BY <1>5, <1>6

(* q has the registers of p, and may have others.                          *)
HasRegsOf(q, p) ==
    /\ Regs(p) \subseteq Regs(q)
    /\ \A r \in Regs(p) : q.size[r] = p.size[r]

LEMMA AppendRegExtends ==
  ASSUME IsProgram(prog), NEW new \in Nat \ {0}, new \notin Regs(prog)
  PROVE  /\ HasRegsOf(AppendReg(prog, new), prog) /\ IsProgram(AppendReg(prog, new))
         /\ new \in Regs(AppendReg(prog, new)) /\ AppendReg(prog, new).size[new] = 4
         /\ VirtualRegs(prog) \subseteq VirtualRegs(AppendReg(prog, new))
         /\ AppendReg(prog, new).code = prog.code
<1> SUFFICES ASSUME NEW q, q = AppendReg(prog, new)
             PROVE  /\ HasRegsOf(q, prog) /\ IsProgram(q)
                    /\ new \in Regs(q) /\ q.size[new] = 4
                    /\ VirtualRegs(prog) \subseteq VirtualRegs(q)
                    /\ q.code = prog.code
  OBVIOUS
<1>1. /\ q.size = [r \in Regs(prog) \cup {new} |-> IF r = new THEN 4 ELSE prog.size[r]]
      /\ q.beginning = [r \in Regs(prog) \cup {new} |-> IF r = new THEN TRUE ELSE prog.beginning[r]]
      /\ q.reg_alloc = prog.reg_alloc + 1 /\ q.temps = prog.temps /\ q.code = prog.code
  BY DEF AppendReg
<1>2. /\ Regs(q) = Regs(prog) \cup {new}
      /\ VirtualRegs(q) = VirtualRegs(prog) \cup {new}
  BY <1>1 DEF Regs, VirtualRegs, Precolored
<1>3. /\ prog.size \in [Regs(prog) -> 1..4] /\ prog.beginning \in [Regs(prog) -> BOOLEAN]
      /\ IsFiniteSet(Regs(prog)) /\ Regs(prog) \subseteq Nat
      /\ Precolored \in Regs(prog) /\ prog.size[Precolored] = 4
  BY DEF IsProgram
<1>4. /\ q.size \in [Regs(q) -> 1..4] /\ q.beginning \in [Regs(q) -> BOOLEAN]
      /\ Regs(q) \subseteq Nat /\ Precolored \in Regs(q) /\ q.size[Precolored] = 4
      /\ q.size[new] = 4
      /\ \A r \in Regs(prog) : q.size[r] = prog.size[r]
  <2>1. PICK R : R = Regs(prog)
    OBVIOUS
  <2>2. q.size \in [R \cup {new} -> 1..4]
    BY <2>1, <1>1, <1>3
  <2>3. q.beginning \in [R \cup {new} -> BOOLEAN]
    BY <2>1, <1>1, <1>3
  <2>4. q.size[new] = 4 /\ \A r \in R : q.size[r] = prog.size[r]
    BY <2>1, <1>1
  <2> QED BY <2>1, <2>2, <2>3, <2>4, <1>2, <1>3
<1>5. IsFiniteSet(Regs(q))
  BY <1>2, <1>3, FS_AddElement
<1>6. /\ q.reg_alloc \in Nat /\ q.reg_alloc >= Cardinality(VirtualRegs(q)) /\ q.temps \in Nat
  <2>1. prog.reg_alloc \in Nat /\ prog.reg_alloc >= Cardinality(VirtualRegs(prog)) /\ prog.temps \in Nat
    BY DEF IsProgram
  <2>2. IsFiniteSet(VirtualRegs(prog)) /\ new \notin VirtualRegs(prog)
    BY <1>3, FS_Subset DEF VirtualRegs
  <2>3. Cardinality(VirtualRegs(q)) = Cardinality(VirtualRegs(prog)) + 1
    BY <1>2, <2>2, FS_AddElement
  <2>4. Cardinality(VirtualRegs(prog)) \in Nat
    BY <2>2, FS_CardinalityType
  <2> QED BY <1>1, <2>1, <2>3, <2>4
<1>7. \A x : IsInstr(prog, x) => IsInstr(q, x)
  BY <1>2, <1>4 DEF IsInstr
<1>8. IsProgram(q)
  BY <1>1, <1>4, <1>5, <1>6, <1>7 DEF IsProgram
<1> QED BY <1>1, <1>2, <1>4, <1>8 DEF HasRegsOf

(* Each instruction of `all' is one of `code' or one of `new'.              *)
InPlaceOf(all, code, n, new) ==
    /\ Len(all) \in Nat /\ DOMAIN all = 1..Len(all)
    /\ Len(all) = Len(code) + Len(new) - 1
    /\ \A m \in DOMAIN all :
          \/ m < n /\ m \in DOMAIN code /\ all[m] = code[m]
          \/ m >= n /\ m < n + Len(new) /\ all[m] \in ToSet(new)
          \/ /\ m >= n + Len(new)
             /\ m - Len(new) + 1 \in DOMAIN code /\ m - Len(new) + 1 > n
             /\ all[m] = code[m - Len(new) + 1]

LEMMA ReplacedCode ==
  ASSUME NEW code, Len(code) \in Nat, DOMAIN code = 1..Len(code),
         NEW n \in 1..Len(code),
         NEW S, NEW new \in Seq(S), Len(new) >= 1,
         NEW all, all = Replaced(code, n, new)
  PROVE  InPlaceOf(all, code, n, new)
<1>1. Len(new) \in Nat /\ DOMAIN new = 1..Len(new)
  OBVIOUS
<1>2. PICK k \in Nat : k = Len(code) + Len(new) - 1
  <2>1. Len(code) + Len(new) - 1 \in Nat
    BY <1>1
  <2> QED BY <2>1
<1>3. all = [m \in 1..k |-> IF m < n THEN code[m]
                            ELSE IF m < n + Len(new) THEN new[m - n + 1]
                            ELSE code[m - Len(new) + 1]]
  BY <1>2 DEF Replaced
<1>4. Len(all) = k /\ DOMAIN all = 1..k
  BY <1>3
<1>5. ASSUME NEW m \in 1..k
      PROVE  \/ m < n /\ m \in DOMAIN code /\ all[m] = code[m]
             \/ m >= n /\ m < n + Len(new) /\ all[m] \in ToSet(new)
             \/ /\ m >= n + Len(new)
                /\ m - Len(new) + 1 \in DOMAIN code /\ m - Len(new) + 1 > n
                /\ all[m] = code[m - Len(new) + 1]
  <2>1. CASE m < n
    BY <2>1, <1>3
  <2>2. CASE m >= n /\ m < n + Len(new)
    <3>1. all[m] = new[m - n + 1] /\ m - n + 1 \in 1..Len(new)
      BY <2>2, <1>1, <1>3
    <3> QED BY <2>2, <3>1, <1>1 DEF ToSet
  <2>3. CASE m >= n + Len(new)
    BY <2>3, <1>1, <1>2, <1>3
  <2> QED BY <2>1, <2>2, <2>3, <1>1
<1> QED BY <1>2, <1>4, <1>5 DEF InPlaceOf

(* An instruction is replaced by others that have nothing to do with the   *)
(* register.                                                               *)
LEMMA RewriteStep ==
  ASSUME IsProgram(prog), RewriteInv, at \in DOMAIN prog.code,
         NEW q, IsProgram(q), HasRegsOf(q, prog), VirtualRegs(prog) \subseteq VirtualRegs(q),
         NEW S, NEW all \in Seq(S), Len(all) >= 1,
         \A x \in ToSet(all) : IsInstr(q, x) /\ ~ Mentions(x, spilling),
         prog' = WithCode(q, Replaced(prog.code, at, all)), at' = at + Len(all),
         pc' = "rewrite", UNCHANGED <<spilling, spilled_regs>>
  PROVE  RoundInv'
<1>1. PICK code : code = Replaced(prog.code, at, all)
  OBVIOUS
<1>12. PICK old, here : old = prog.code /\ here = at
  OBVIOUS
<1>2. Len(prog.code) \in Nat /\ DOMAIN prog.code = 1..Len(prog.code) /\ Len(all) \in Nat /\ at \in Nat
  BY DEF IsProgram
<1>3. /\ Len(code) \in Nat /\ DOMAIN code = 1..Len(code)
      /\ Len(code) = Len(prog.code) + Len(all) - 1
      /\ \A m \in DOMAIN code :
             \/ m < at /\ m \in DOMAIN prog.code /\ code[m] = prog.code[m]
             \/ m >= at /\ m < at + Len(all) /\ code[m] \in ToSet(all)
             \/ /\ m >= at + Len(all)
                /\ m - Len(all) + 1 \in DOMAIN prog.code /\ m - Len(all) + 1 > at
                /\ code[m] = prog.code[m - Len(all) + 1]
  <2>1. /\ Len(old) \in Nat /\ DOMAIN old = 1..Len(old) /\ here \in 1..Len(old)
        /\ code = Replaced(old, here, all)
    BY <1>12, <1>1, <1>2
  <2>2. InPlaceOf(code, old, here, all)
    BY <2>1, ReplacedCode
  <2> QED BY <2>2, <1>12 DEF InPlaceOf
<1>4. /\ prog'.size = q.size /\ prog'.beginning = q.beginning /\ prog'.reg_alloc = q.reg_alloc
      /\ prog'.temps = q.temps /\ prog'.code = code
  BY <1>1 DEF WithCode
<1>5. Regs(prog') = Regs(q) /\ VirtualRegs(prog') = VirtualRegs(q)
  BY <1>4 DEF Regs, VirtualRegs
<1>6. \A x : IsInstr(prog, x) => IsInstr(q, x)
  BY DEF IsInstr, HasRegsOf
<1>7. \A x : IsInstr(q, x) => IsInstr(prog', x)
  BY <1>4, <1>5 DEF IsInstr
<1>8. \A m \in DOMAIN code : IsInstr(prog', code[m])
  BY <1>3, <1>6, <1>7 DEF IsProgram
<1>9. IsProgram(prog')
  BY <1>3, <1>4, <1>5, <1>8 DEF IsProgram
<1>10. ASSUME NEW m \in DOMAIN code
       PROVE  /\ m < at + Len(all) => ~ Mentions(code[m], spilling)
              /\ m >= at + Len(all) /\ code[m].dest = spilling => ~ ReadsReg(code[m], spilling)
  <2>1. CASE m < at /\ m \in DOMAIN prog.code /\ code[m] = prog.code[m]
    <3>1. ~ Mentions(code[m], spilling)
      BY <2>1 DEF RewriteInv
    <3>2. ~ (m >= at + Len(all))
      BY <2>1, <1>2, <1>3
    <3> QED BY <3>1, <3>2
  <2>2. CASE m >= at /\ m < at + Len(all) /\ code[m] \in ToSet(all)
    <3>1. ~ (m >= at + Len(all))
      BY <2>2, <1>2, <1>3
    <3> QED BY <2>2, <3>1
  <2>3. CASE /\ m >= at + Len(all)
             /\ m - Len(all) + 1 \in DOMAIN prog.code /\ m - Len(all) + 1 > at
             /\ code[m] = prog.code[m - Len(all) + 1]
    <3>1. PICK k \in DOMAIN prog.code : k = m - Len(all) + 1 /\ k >= at
      BY <2>3, <1>2, <1>3
    <3>2. prog.code[k].dest = spilling => ~ ReadsReg(prog.code[k], spilling)
      BY <3>1 DEF RewriteInv
    <3>3. ~ (m < at + Len(all))
      BY <2>3, <1>2, <1>3
    <3> QED BY <2>3, <3>1, <3>2, <3>3
  <2> QED BY <2>1, <2>2, <2>3, <1>3
<1>11. RewriteInv'
  <2>1. at + Len(all) \in 1..(Len(code) + 1)
    BY <1>2, <1>3
  <2>2. /\ spilling \in VirtualRegs(q) /\ spilling \notin spilled_regs
        /\ spilled_regs \subseteq VirtualRegs(q)
    BY DEF RewriteInv
  <2> QED BY <2>1, <2>2, <1>4, <1>5, <1>10 DEF RewriteInv
<1> QED BY <1>9, <1>11 DEF RoundInv, InRound, PcInv

(* What an instruction becomes is an instruction, and has nothing to do    *)
(* with the register any more.                                             *)
LEMMA PipelinedInstr ==
  ASSUME NEW p, NEW x, IsInstr(p, x), NEW reg \in Regs(p), Regs(p) \subseteq Nat,
         x.dest # reg, NEW temp
  PROVE  /\ IsInstr(p, Pipelined(x, reg, temp))
         /\ ~ Mentions(Pipelined(x, reg, temp), reg)
<1>1. PICK y : y = Pipelined(x, reg, temp)
  OBVIOUS
<1>2. DOMAIN x = Fields
  BY DEF IsInstr
<1>3. /\ DOMAIN y = Fields
      /\ y.dest = x.dest /\ y.mask = x.mask /\ y.swz = x.swz
      /\ y.reads = { IF e[1] = reg THEN <<Pipeline, e[2]>> ELSE e : e \in x.reads }
      /\ y.src = IF x.src = reg THEN Pipeline ELSE x.src
      /\ y.move = (x.move /\ x.src # reg)
  BY <1>1, <1>2 DEF Pipelined, Fields
<1>4. reg # Pipeline
  BY DEF Pipeline
<1>5. x.reads \subseteq (Regs(p) \cup {Pipeline}) \X Component
  BY DEF IsInstr
<1>6. \A e \in y.reads : e \in (Regs(p) \cup {Pipeline}) \X Component /\ e[1] # reg
  BY <1>3, <1>4, <1>5
<1>7. y.move => x.move /\ x.src # reg /\ y.src = x.src
  BY <1>3
<1>8. \A c \in Component : x.src # reg /\ <<x.src, c>> \in x.reads => <<x.src, c>> \in y.reads
  <2> SUFFICES ASSUME NEW c \in Component, x.src # reg, <<x.src, c>> \in x.reads
               PROVE  <<x.src, c>> \in y.reads
    OBVIOUS
  <2>1. PICK e \in x.reads : e = <<x.src, c>>
    OBVIOUS
  <2>2. e[1] # reg
    BY <2>1
  <2>3. \E f \in x.reads : e = IF f[1] = reg THEN <<Pipeline, f[2]>> ELSE f
    BY <2>2
  <2> QED BY <2>1, <2>3, <1>3
<1>9. y.move => /\ y.dest \in Regs(p) /\ y.src \in Regs(p)
                /\ y.mask # {} /\ y.mask \subseteq 0..(p.size[y.dest] - 1)
                /\ \A c \in y.mask : /\ y.swz[c] \in 0..(p.size[y.src] - 1)
                                     /\ <<y.src, y.swz[c]>> \in y.reads
  <2> SUFFICES ASSUME y.move
               PROVE  /\ y.dest \in Regs(p) /\ y.src \in Regs(p)
                      /\ y.mask # {} /\ y.mask \subseteq 0..(p.size[y.dest] - 1)
                      /\ \A c \in y.mask : /\ y.swz[c] \in 0..(p.size[y.src] - 1)
                                           /\ <<y.src, y.swz[c]>> \in y.reads
    OBVIOUS
  <2>1. x.move /\ x.src # reg /\ y.src = x.src
    BY <1>7
  <2>2. /\ x.dest \in Regs(p) /\ x.src \in Regs(p)
        /\ x.mask # {} /\ x.mask \subseteq 0..(p.size[x.dest] - 1)
        /\ \A c \in x.mask : /\ x.swz[c] \in 0..(p.size[x.src] - 1)
                             /\ <<x.src, x.swz[c]>> \in x.reads
    BY <2>1 DEF IsInstr
  <2>3. \A c \in x.mask : <<x.src, x.swz[c]>> \in y.reads
    <3> SUFFICES ASSUME NEW c \in x.mask PROVE <<x.src, x.swz[c]>> \in y.reads
      OBVIOUS
    <3>1. <<x.src, x.swz[c]>> \in x.reads
      BY <2>2
    <3>2. x.swz[c] \in Component
      BY <3>1, <1>5
    <3> QED BY <3>1, <3>2, <2>1, <1>8
  <2> QED BY <1>3, <2>1, <2>2, <2>3
<1>10. y.dest \in Regs(p) \cup {NoReg} /\ y.mask \subseteq Component
  BY <1>3 DEF IsInstr
<1>11. IsInstr(p, y)
  BY <1>3, <1>6, <1>9, <1>10 DEF IsInstr
<1>12. ~ Mentions(y, reg)
  <2>1. y.dest # reg
    BY <1>3
  <2>2. \A c \in Component : <<reg, c>> \notin y.reads
    <3> SUFFICES ASSUME NEW c \in Component, NEW e \in y.reads, e = <<reg, c>> PROVE FALSE
      OBVIOUS
    <3>1. e[1] = reg
      OBVIOUS
    <3> QED BY <3>1, <1>6
  <2> QED BY <2>1, <2>2 DEF Mentions, ReadsReg
<1> QED BY <1>1, <1>11, <1>12

LEMMA LoadInstr ==
  ASSUME NEW p, NEW new \in Regs(p), NEW reg \in Nat, new # reg, NEW temp
  PROVE  IsInstr(p, LoadTemp(new, temp)) /\ ~ Mentions(LoadTemp(new, temp), reg)
<1>1. PICK y : y = LoadTemp(new, temp)
  OBVIOUS
<1>2. /\ DOMAIN y = Fields
      /\ y.dest = new /\ y.mask = Component /\ y.reads = {Pipeline} \X Component
      /\ y.move = FALSE
  BY <1>1 DEF LoadTemp, Fields
<1>3. IsInstr(p, y)
  BY <1>2 DEF IsInstr
<1>4. ~ Mentions(y, reg)
  <2>1. reg # Pipeline
    BY DEF Pipeline
  <2> QED BY <1>2, <2>1 DEF Mentions, ReadsReg
<1> QED BY <1>1, <1>3, <1>4

LEMMA StoreInstr ==
  ASSUME NEW p, NEW new \in Regs(p), NEW reg \in Nat, new # reg, NEW temp
  PROVE  IsInstr(p, StoreTemp(new, temp)) /\ ~ Mentions(StoreTemp(new, temp), reg)
<1>1. PICK y : y = StoreTemp(new, temp)
  OBVIOUS
<1>2. /\ DOMAIN y = Fields
      /\ y.dest = NoReg /\ y.mask = {} /\ y.reads = {new} \X Component
      /\ y.move = FALSE
  <2>1. PICK z : z = LoadTemp(NoReg, NoReg)
    OBVIOUS
  <2>2. DOMAIN z = Fields /\ z.dest = NoReg /\ z.move = FALSE
    BY <2>1 DEF LoadTemp, Fields
  <2>3. y = [z EXCEPT !.mask = {}, !.reads = {new} \X Component, !.src = new, !.store = temp]
    BY <1>1, <2>1 DEF StoreTemp
  <2> QED BY <2>2, <2>3 DEF Fields
<1>3. IsInstr(p, y)
  BY <1>2 DEF IsInstr
<1>4. ~ Mentions(y, reg)
  <2>1. reg # NoReg
    BY DEF NoReg
  <2> QED BY <1>2, <2>1 DEF Mentions, ReadsReg
<1> QED BY <1>1, <1>3, <1>4

LEMMA RenamedInstr ==
  ASSUME NEW p, NEW x, IsInstr(p, x), NEW q, HasRegsOf(q, p),
         NEW new \in Regs(q), q.size[new] = 4,
         NEW reg \in Regs(p), p.size[reg] \in 1..4, x.dest = reg, ~ ReadsReg(x, reg), new # reg
  PROVE  /\ IsInstr(q, [x EXCEPT !.dest = new])
         /\ ~ Mentions([x EXCEPT !.dest = new], reg)
<1>1. PICK y : y = [x EXCEPT !.dest = new]
  OBVIOUS
<1>2. /\ DOMAIN y = Fields
      /\ y.dest = new /\ y.mask = x.mask /\ y.swz = x.swz /\ y.reads = x.reads
      /\ y.src = x.src /\ y.move = x.move
  <2>1. DOMAIN x = Fields
    BY DEF IsInstr
  <2> QED BY <1>1, <2>1 DEF Fields
<1>3. /\ y.mask \subseteq Component
      /\ y.reads \subseteq (Regs(q) \cup {Pipeline}) \X Component
  BY <1>2 DEF IsInstr, HasRegsOf
<1>4. y.move => /\ y.src \in Regs(q) /\ y.mask # {} /\ y.mask \subseteq 0..(q.size[new] - 1)
                /\ \A c \in y.mask : /\ y.swz[c] \in 0..(q.size[y.src] - 1)
                                     /\ <<y.src, y.swz[c]>> \in y.reads
  BY <1>2 DEF IsInstr, HasRegsOf
<1>5. IsInstr(q, y)
  BY <1>2, <1>3, <1>4 DEF IsInstr
<1>6. ~ Mentions(y, reg)
  BY <1>2 DEF Mentions, ReadsReg
<1> QED BY <1>1, <1>5, <1>6

LEMMA SpillInstrStep ==
  ASSUME RoundInv, SpillInstr
  PROVE  RoundInv'
<1>1. IsProgram(prog) /\ RewriteInv /\ pc = "rewrite" /\ at \in DOMAIN prog.code
  BY DEF RoundInv, SpillInstr
<1>2. PICK x, reg, new, temp : x = prog.code[at] /\ reg = spilling /\ new = NextReg(prog)
                               /\ temp = Temp(prog.temps)
  OBVIOUS
<1>3. new \in Nat \ {0} /\ new \notin Regs(prog)
  BY <1>1, <1>2, NextRegIsNew
<1>4. IsInstr(prog, x) /\ reg \in VirtualRegs(prog) /\ reg \in Regs(prog) /\ reg \in Nat
      /\ prog.size[reg] \in 1..4 /\ Regs(prog) \subseteq Nat
  BY <1>1, <1>2, FiniteProgram DEF IsProgram, RewriteInv, VirtualRegs
<1>5. x.dest = reg => ~ ReadsReg(x, reg)
  <2>1. at \in Nat
    BY <1>1 DEF IsProgram
  <2> QED BY <1>1, <1>2, <2>1 DEF RewriteInv
<1>6. PICK all : all = Spilled(prog, x, reg, new, temp)
  OBVIOUS
<1>7. PICK q : q = IF x.dest = reg THEN AppendReg(prog, new) ELSE prog
  OBVIOUS
<1>8. /\ prog' = WithCode(q, Replaced(prog.code, at, all))
      /\ at' = at + Len(all)
      /\ pc' = "rewrite" /\ UNCHANGED <<spilling, spilled_regs>>
  BY <1>1, <1>2, <1>6, <1>7 DEF SpillInstr
<1>9. /\ IsProgram(q) /\ HasRegsOf(q, prog) /\ VirtualRegs(prog) \subseteq VirtualRegs(q)
      /\ x.dest = reg => new \in Regs(q) /\ q.size[new] = 4
  BY <1>1, <1>3, <1>7, AppendRegExtends DEF HasRegsOf
<1>10. PICK S : S = {x, Pipelined(x, reg, temp), LoadTemp(new, temp),
                     [x EXCEPT !.dest = new], StoreTemp(new, temp)}
  OBVIOUS
<1>11. /\ all \in Seq(S) /\ Len(all) >= 1
       /\ \A y \in ToSet(all) : IsInstr(q, y) /\ ~ Mentions(y, reg)
  <2>1. CASE x.dest # reg /\ ~ ReadsReg(x, reg)
    <3>1. all = <<x>> /\ q = prog
      BY <2>1, <1>6, <1>7 DEF Spilled
    <3>2. ~ Mentions(x, reg)
      BY <2>1 DEF Mentions
    <3>3. x \in S
      BY <1>10
    <3> QED BY <3>1, <3>2, <3>3, <1>4 DEF ToSet
  <2>2. CASE x.dest # reg /\ ReadsReg(x, reg)
    <3>1. PICK y : y = Pipelined(x, reg, temp)
      OBVIOUS
    <3>2. all = <<y>> /\ q = prog
      BY <2>2, <3>1, <1>6, <1>7 DEF Spilled
    <3>3. IsInstr(prog, y) /\ ~ Mentions(y, reg)
      BY <2>2, <3>1, <1>4, PipelinedInstr
    <3>4. y \in S
      BY <3>1, <1>10
    <3> QED BY <3>2, <3>3, <3>4 DEF ToSet
  <2>3. CASE x.dest = reg
    <3>1. PICK l, m, s : l = LoadTemp(new, temp) /\ m = [x EXCEPT !.dest = new]
                         /\ s = StoreTemp(new, temp)
      OBVIOUS
    <3>2. all = (IF NeedsLoad(prog, x, reg) THEN <<l>> ELSE <<>>) \o <<m, s>>
      BY <2>3, <3>1, <1>6 DEF Spilled
    <3>3. new # reg
      BY <1>3, <1>4
    <3>4. IsInstr(q, l) /\ ~ Mentions(l, reg)
      BY <2>3, <3>1, <3>3, <1>4, <1>9, LoadInstr
    <3>5. IsInstr(q, m) /\ ~ Mentions(m, reg)
      BY <2>3, <3>1, <3>3, <1>4, <1>5, <1>9, RenamedInstr
    <3>6. IsInstr(q, s) /\ ~ Mentions(s, reg)
      BY <2>3, <3>1, <3>3, <1>4, <1>9, StoreInstr
    <3>7. l \in S /\ m \in S /\ s \in S
      BY <3>1, <1>10
    <3>8. CASE NeedsLoad(prog, x, reg)
      <4>1. PICK f, g : f = <<l>> /\ g = <<m, s>>
        OBVIOUS
      <4>2. all = f \o g
        BY <3>2, <3>8, <4>1
      <4>3. f \in Seq(S) /\ g \in Seq(S) /\ Len(f) = 1 /\ Len(g) = 2
        BY <4>1, <3>7
      <4>4. /\ \A y \in ToSet(f) : IsInstr(q, y) /\ ~ Mentions(y, reg)
            /\ \A y \in ToSet(g) : IsInstr(q, y) /\ ~ Mentions(y, reg)
        BY <4>1, <3>4, <3>5, <3>6 DEF ToSet
      <4>5. all \in Seq(S) /\ ToSet(all) = ToSet(f) \cup ToSet(g)
        BY <4>2, <4>3, AppendedElements
      <4>6. Len(all) = 3
        <5>1. Len(all) = Len(f) + Len(g)
          BY <4>2, <4>3, AppendedLength
        <5> QED BY <5>1, <4>3
      <4> QED BY <4>4, <4>5, <4>6
    <3>9. CASE ~ NeedsLoad(prog, x, reg)
      <4>1. all = <<m, s>>
        BY <3>2, <3>9
      <4> QED BY <4>1, <3>5, <3>6, <3>7 DEF ToSet
    <3> QED BY <3>8, <3>9
  <2> QED BY <2>1, <2>2, <2>3
<1>12. \A y \in ToSet(all) : IsInstr(q, y) /\ ~ Mentions(y, spilling)
  BY <1>2, <1>11
<1> QED BY <1>1, <1>8, <1>9, <1>11, <1>12, RewriteStep
-----------------------------------------------------------------------------
(* All steps.                                                              *)

LEMMA InitRoundInv == Init => RoundInv
  BY ProgramsAssumption DEF Init, RoundInv, InRound, PcInv

LEMMA StutterStep ==
  ASSUME RoundInv, UNCHANGED vars
  PROVE  RoundInv'
<1>1. /\ prog' = prog /\ pc' = pc /\ state' = state /\ q_total' = q_total
      /\ adjacent' = adjacent /\ detailed' = detailed /\ moves' = moves
      /\ alias' = alias /\ alias_swizzle' = alias_swizzle
      /\ move_queue' = move_queue /\ active_moves' = active_moves
      /\ simplify_queue' = simplify_queue /\ freeze_queue' = freeze_queue
      /\ spill_queue' = spill_queue /\ select_stack' = select_stack
      /\ allocated' = allocated /\ spilled_regs' = spilled_regs
      /\ spilling' = spilling /\ at' = at
  BY DEF vars, graph, spill
<1>2. IsProgram(prog)' /\ PcInv' /\ (InRound' <=> InRound)
  BY <1>1 DEF RoundInv, PcInv, InRound
<1>3. RoundTypes' <=> RoundTypes
  BY <1>1 DEF RoundTypes
<1>4. PlaceTypes' <=> PlaceTypes
  BY <1>1 DEF PlaceTypes, Comps
<1>5. AliasInv' <=> AliasInv
  BY <1>1 DEF AliasInv
<1>6. EdgeInv' <=> EdgeInv
  BY <1>1 DEF EdgeInv
<1>7. StackInv' <=> StackInv
  BY <1>1 DEF StackInv, Earlier, Sees, Related, Coarse
<1>8. StateInv' <=> StateInv
  BY <1>1 DEF StateInv
<1>9. QueueInv' <=> QueueInv
  BY <1>1 DEF QueueInv, Queued
<1>10. LiveMovesLive' <=> LiveMovesLive
  BY <1>1 DEF LiveMovesLive, LiveMoves
<1>11. AssignInv' <=> AssignInv
  BY <1>1 DEF AssignInv, Colored, Finished, Overlap, Span, Related, Coarse
<1>12. RewriteInv' <=> RewriteInv
  BY <1>1 DEF RewriteInv
<1> QED BY <1>1, <1>2, <1>3, <1>4, <1>5, <1>6, <1>7, <1>8, <1>9, <1>10, <1>11, <1>12 DEF RoundInv

LEMMA RoundInvKept ==
  ASSUME RoundInv, PrecoloredStays, PrecoloredStays', [Next]_vars
  PROVE  RoundInv'
<1>1. /\ pc = "work" => WorkInv
      /\ pc = "assign" => ColouringInv
      /\ pc = "rewrite" => RewriteInv
      /\ pc = "spill" => spilled_regs \subseteq VirtualRegs(prog)
      /\ IsProgram(prog)
  BY RoundInvInWork, RoundInvInAssign DEF RoundInv
<1>2. WorkInv' => RoundInv'
  BY DEF RoundInv, WorkInv, InRound, PcInv
<1>3. ColouringInv' => RoundInv'
  BY DEF RoundInv, ColouringInv, InRound, PcInv
<1>4. CASE StartRound
  BY <1>1, <1>2, <1>4, StartRoundStep
<1>5. CASE Simplify
  <2>1. pc = "work"
    BY <1>5 DEF Simplify
  <2> QED BY <2>1, <1>1, <1>2, <1>5, SimplifyStep
<1>6. CASE CoalesceSame \/ CoalesceImpossible \/ CoalesceLater \/ Coalesce
  <2>1. pc = "work"
    BY <1>6 DEF CoalesceSame, CoalesceImpossible, CoalesceLater, Coalesce, Trying
  <2>2. WorkInv'
    BY <2>1, <1>1, <1>6, CoalesceSameStep, CoalesceImpossibleStep, CoalesceLaterStep, CoalesceStep
  <2> QED BY <2>2, <1>2
<1>7. CASE Freeze \/ SelectSpill
  <2>1. pc = "work"
    BY <1>7 DEF Freeze, SelectSpill, Trying
  <2>2. WorkInv'
    BY <2>1, <1>1, <1>7, FreezeStep, SelectSpillStep
  <2> QED BY <2>2, <1>2
<1>8. CASE QueuesEmpty
  <2>1. pc = "work"
    BY <1>8 DEF QueuesEmpty, Trying
  <2> QED BY <2>1, <1>1, <1>8, QueuesEmptyStep
<1>9. CASE AssignColor
  <2>1. pc = "assign"
    BY <1>9 DEF AssignColor
  <2> QED BY <2>1, <1>1, <1>3, <1>9, AssignColorStep
<1>10. CASE Return
  <2>1. pc = "assign"
    BY <1>10 DEF Return
  <2> QED BY <2>1, <1>1, <1>10, ReturnStep
<1>11. CASE SpillReg
  <2>1. pc = "spill"
    BY <1>11 DEF SpillReg
  <2> QED BY <2>1, <1>1, <1>11, SpillRegStep
<1>12. CASE SpillInstr
  BY <1>12, SpillInstrStep
<1>13. CASE SpillDone
  <2>1. pc = "rewrite"
    BY <1>13 DEF SpillDone
  <2> QED BY <2>1, <1>1, <1>13, SpillDoneStep
<1>14. CASE UNCHANGED vars
  BY <1>14, StutterStep
<1> QED
  BY <1>4, <1>5, <1>6, <1>7, <1>8, <1>9, <1>10, <1>11, <1>12, <1>13, <1>14 DEF Next
-----------------------------------------------------------------------------
(* When a round has come to an end, no component of a register is in the   *)
(* place of a component of another that interferes with it.                *)
LEMMA DoneApart == RoundInv => NeighboursApart
<1> SUFFICES ASSUME RoundInv, pc = "done" PROVE NeighboursApart
  BY DEF NeighboursApart
<1>1. /\ IsProgram(prog) /\ RoundTypes /\ PlaceTypes /\ AliasInv /\ AssignInv
      /\ select_stack = <<>> /\ spilled_regs = {}
  BY DEF RoundInv, InRound
<1>2. /\ \A r \in Regs(prog) : alias[r] \in Regs(prog) /\ alias[alias[r]] = alias[r]
      /\ alias[Precolored] = Precolored
      /\ \A r \in Regs(prog) : prog.size[r] \in 1..4 /\ allocated[r] \in (0..(NumPhys - 1)) \X Nat
      /\ \A r \in Regs(prog) : allocated[r][2] + prog.size[r] <= 4
      /\ \A r \in Regs(prog) : \A c \in Comps(r) : alias_swizzle[r][c] \in Comps(alias[r])
      /\ Precolored \in Regs(prog) /\ prog.size[Precolored] = 4
      /\ NumPhys \in Nat \ {0}
  BY <1>1, FiniteProgram, NumPhysAssumption DEF RoundTypes, PlaceTypes, AliasInv
<1>3. ASSUME NEW r \in Regs(prog), NEW c \in Comps(r)
      PROVE  /\ Place(r, c) \in (0..(NumPhys - 1)) \X Component
             /\ alias[r] = Precolored => Place(r, c)[1] = 0
             /\ alias[r] # Precolored =>
                   /\ Place(r, c)[1] = allocated[alias[r]][1]
                   /\ Place(r, c)[2] \in Span(allocated[alias[r]][2], alias[r])
  <2>1. PICK a, d : a = alias[r] /\ d = alias_swizzle[r][c]
    OBVIOUS
  <2>2. a \in Regs(prog) /\ d \in 0..(prog.size[a] - 1) /\ prog.size[a] \in 1..4
    BY <1>2, <2>1 DEF Comps
  <2>3. CASE a = Precolored
    <3>1. Place(r, c) = <<0, d>>
      BY <2>1, <2>3 DEF Place
    <3> QED BY <3>1, <2>1, <2>2, <2>3, <1>2 DEF Component
  <2>4. CASE a # Precolored
    <3>1. PICK m \in 0..(NumPhys - 1), n \in Nat : allocated[a] = <<m, n>>
      BY <1>2, <2>2
    <3>2. Place(r, c) = <<m, n + d>>
      BY <2>1, <2>4, <3>1 DEF Place
    <3>3. n + prog.size[a] <= 4
      BY <1>2, <2>2, <3>1
    <3>4. n + d \in Component /\ n + d \in n..(n + prog.size[a] - 1)
      BY <2>2, <3>3 DEF Component
    <3>5. allocated[a][1] = m /\ allocated[a][2] = n
      BY <3>1
    <3> QED BY <3>2, <3>4, <3>5, <2>1, <2>4 DEF Span
  <2> QED BY <2>3, <2>4
<1>4. ASSUME NEW a \in Regs(prog), alias[a] = a, a # Precolored
      PROVE  Colored(a)
  <2>1. Finished(a)
    BY <1>1, <1>4 DEF Finished, ToSet
  <2> QED BY <2>1, <1>1 DEF AssignInv, Colored
<1>5. ASSUME NEW r \in Regs(prog), NEW s \in Coarse[r], alias[r] # alias[s]
      PROVE  s \in Regs(prog) /\ Related(alias[r], alias[s]) /\ Related(alias[s], alias[r])
  <2>1. s \in Regs(prog)
    BY DEF Coarse, CoarseMatrix
  <2>2. Related(alias[r], alias[s])
    BY <2>1, <1>5 DEF Related
  <2> QED BY <2>1, <2>2, RelatedSymmetric
<1>6. ASSUME NEW r \in Regs(prog), NEW s \in Coarse[r], alias[r] # alias[s],
             NEW c \in Comps(r), NEW d \in Comps(s)
      PROVE  Place(r, c) # Place(s, d)
  <2>1. PICK a, b : a = alias[r] /\ b = alias[s]
    OBVIOUS
  <2>2. /\ s \in Regs(prog) /\ Related(a, b) /\ Related(b, a)
        /\ a \in Regs(prog) /\ b \in Regs(prog) /\ alias[a] = a /\ alias[b] = b /\ a # b
    BY <1>2, <1>5, <1>6, <2>1
  <2>3. CASE a # Precolored /\ b # Precolored
    <3>1. ~ Overlap(a, b)
      BY <2>2, <2>3, <1>1, <1>4 DEF AssignInv
    <3>2. /\ Place(r, c)[1] = allocated[a][1] /\ Place(r, c)[2] \in Span(allocated[a][2], a)
          /\ Place(s, d)[1] = allocated[b][1] /\ Place(s, d)[2] \in Span(allocated[b][2], b)
      BY <2>1, <2>2, <2>3, <1>3
    <3> QED BY <3>1, <3>2 DEF Overlap
  <2>4. CASE a # Precolored /\ b = Precolored
    <3>1. allocated[a][1] # 0
      BY <2>2, <2>4, <1>1, <1>4 DEF AssignInv
    <3>2. Place(r, c)[1] = allocated[a][1] /\ Place(s, d)[1] = 0
      BY <2>1, <2>2, <2>4, <1>3
    <3> QED BY <3>1, <3>2
  <2>5. CASE a = Precolored
    <3>1. allocated[b][1] # 0
      BY <2>2, <2>5, <1>1, <1>4 DEF AssignInv
    <3>2. Place(s, d)[1] = allocated[b][1] /\ Place(r, c)[1] = 0
      BY <2>1, <2>2, <2>5, <1>3
    <3> QED BY <3>1, <3>2
  <2> QED BY <2>3, <2>4, <2>5
<1> QED
  <2>1. \A r \in Regs(prog) : \A s \in Coarse[r] : alias[r] # alias[s] =>
            \A c \in Comps(r), d \in Comps(s) : Place(r, c) # Place(s, d)
    BY <1>6
  <2> QED BY <2>1, <1>3 DEF NeighboursApart, Coarse

LEMMA RoundInvHolds == Spec /\ []PrecoloredStays => []RoundInv
<1>1. Init => RoundInv
  BY InitRoundInv
<1>2. RoundInv /\ PrecoloredStays /\ PrecoloredStays' /\ [Next]_vars => RoundInv'
  BY RoundInvKept
<1> QED BY <1>1, <1>2, PTL DEF Spec

(* As long as the degree of $0 stays above its p ("This value should never *)
(* drop below 6", 54), a move that is still to be tried is known to both   *)
(* registers it could merge, and neither has left the graph: coalesce,     *)
(* enable_moves and freeze_moves never meet a register that was simplified *)
(* or merged already.                                                      *)
THEOREM MovesStayLive == Spec /\ []PrecoloredStays => []LiveMovesLive
<1>1. RoundInv => LiveMovesLive
  BY DEF RoundInv, LiveMovesLive
<1> QED BY <1>1, RoundInvHolds, PTL

(* Under the same condition: in the allocation that comes out at last,     *)
(* after any number of rounds of coalescing, colouring and spilling, every *)
(* component of a register is in a place of the register file, and none is *)
(* in the place of a component of another register that interferes with    *)
(* it, unless the two were merged (get_alias, assign_colors, rewrite_regs).*)
THEOREM AllocationApart == Spec /\ []PrecoloredStays => []NeighboursApart
BY DoneApart, RoundInvHolds, PTL

-----------------------------------------------------------------------------
(* Degrees: sums over neighbours.                                          *)

LEMMA SumQFinite ==
  ASSUME IsProgram(prog), NEW r, NEW S \in SUBSET Regs(prog)
  PROVE  IsFiniteSet({ e \in S \X (1..4) : e[2] <= QR(r, e[1]) })
<1>1. IsFiniteSet(S)
  BY FiniteProgram, FS_Subset
<1>2. IsFiniteSet(1..4)
  <2>1. 1 \in Int /\ 4 \in Int
    OBVIOUS
  <2> QED BY <2>1, FS_Interval
<1>3. IsFiniteSet(S \X (1..4))
  BY <1>1, <1>2, FS_Product
<1> QED BY <1>3, FS_Subset

LEMMA SumQSplit ==
  ASSUME IsProgram(prog), NEW r, NEW S \in SUBSET Regs(prog), NEW T \in SUBSET Regs(prog),
         S \cap T = {}
  PROVE  SumQ(r, S \cup T) = SumQ(r, S) + SumQ(r, T)
<1> DEFINE K(U) == { e \in U \X (1..4) : e[2] <= QR(r, e[1]) }
<1>1. IsFiniteSet(K(S)) /\ IsFiniteSet(K(T))
  BY SumQFinite
<1>2. K(S \cup T) = K(S) \cup K(T) /\ K(S) \cap K(T) = {}
  OBVIOUS
<1>3. PICK A, B, C : A = K(S) /\ B = K(T) /\ C = K(S \cup T)
  OBVIOUS
<1>4. Cardinality(A \cup B) = Cardinality(A) + Cardinality(B) - Cardinality(A \cap B)
  BY <1>1, <1>3, FS_Union
<1>5. Cardinality(A \cap B) = 0 /\ Cardinality(A) \in Nat /\ Cardinality(B) \in Nat
  BY <1>1, <1>2, <1>3, FS_EmptySet, FS_CardinalityType
<1>6. Cardinality(C) = Cardinality(A) + Cardinality(B)
  <2>1. C = A \cup B
    BY <1>2, <1>3
  <2> QED BY <2>1, <1>4, <1>5
<1>7. SumQ(r, S \cup T) = Cardinality(C) /\ SumQ(r, S) = Cardinality(A) /\ SumQ(r, T) = Cardinality(B)
  BY <1>3 DEF SumQ
<1> QED BY <1>6, <1>7

LEMMA SumQOne ==
  ASSUME IsProgram(prog), NEW r \in Regs(prog), NEW s \in Regs(prog)
  PROVE  SumQ(r, {s}) = QR(r, s)
<1>1. QR(r, s) \in 1..4
  BY ClassTypes
<1> DEFINE K == { e \in {s} \X (1..4) : e[2] <= QR(r, e[1]) }
           B(n) == { <<s, k>> : k \in 1..n }
<1>2. K = B(QR(r, s))
  <2>1. \A e \in {s} \X (1..4) : e = <<s, e[2]>> /\ e[1] = s /\ e[2] \in 1..4
    OBVIOUS
  <2>2. \A k \in 1..QR(r, s) : k \in 1..4 /\ k <= QR(r, s)
    BY <1>1
  <2>3. \A e : e \in K <=> e \in B(QR(r, s))
    BY <2>1, <2>2, <1>1
  <2> HIDE DEF K, B
  <2> QED BY <2>3
<1>3. IsFiniteSet(B(1)) /\ Cardinality(B(1)) = 1
  <2>1. B(1) = {<<s, 1>>}
    OBVIOUS
  <2> QED BY <2>1, FS_Singleton
<1>4. ASSUME NEW n \in 1..3, IsFiniteSet(B(n)), Cardinality(B(n)) = n
      PROVE  IsFiniteSet(B(n + 1)) /\ Cardinality(B(n + 1)) = n + 1
  <2>1. B(n + 1) = B(n) \cup {<<s, n + 1>>} /\ <<s, n + 1>> \notin B(n)
    OBVIOUS
  <2> HIDE DEF B
  <2> QED BY <1>4, <2>1, FS_AddElement
<1>5. IsFiniteSet(B(2)) /\ Cardinality(B(2)) = 2
  <2> HIDE DEF B
  <2> QED BY <1>3, <1>4
<1>6. IsFiniteSet(B(3)) /\ Cardinality(B(3)) = 3
  <2> HIDE DEF B
  <2> QED BY <1>5, <1>4
<1>7. IsFiniteSet(B(4)) /\ Cardinality(B(4)) = 4
  <2> HIDE DEF B
  <2> QED BY <1>6, <1>4
<1>8. Cardinality(K) = QR(r, s)
  <2> HIDE DEF K, B
  <2> QED BY <1>1, <1>2, <1>3, <1>5, <1>6, <1>7
<1> QED BY <1>8 DEF SumQ

LEMMA SumQMore ==
  ASSUME IsProgram(prog), NEW r, NEW S \in SUBSET Regs(prog), NEW T \in SUBSET S
  PROVE  SumQ(r, T) <= SumQ(r, S) /\ SumQ(r, T) \in Nat /\ SumQ(r, S) \in Nat
<1>1. T \in SUBSET Regs(prog) /\ S \ T \in SUBSET Regs(prog) /\ T \cap (S \ T) = {} /\ T \cup (S \ T) = S
  OBVIOUS
<1>2. SumQ(r, T \cup (S \ T)) = SumQ(r, T) + SumQ(r, S \ T)
  BY <1>1, SumQSplit
<1>3. SumQ(r, T) \in Nat /\ SumQ(r, S) \in Nat /\ SumQ(r, S \ T) \in Nat
  BY <1>1, SumQType
<1> QED BY <1>1, <1>2, <1>3

LEMMA SumQBound ==
  ASSUME IsProgram(prog), NEW r, NEW S \in SUBSET Regs(prog)
  PROVE  /\ SumQ(r, S) <= 4 * Cardinality(Regs(prog))
         /\ Cardinality(Regs(prog)) \in Nat /\ SumQ(r, S) \in Nat
<1> DEFINE R == Regs(prog)
           K == { e \in R \X (1..4) : e[2] <= QR(r, e[1]) }
<1>1. IsFiniteSet(R) /\ Cardinality(R) \in Nat
  BY FiniteProgram, FS_CardinalityType
<1>2. IsFiniteSet(1..4) /\ Cardinality(1..4) = 4
  <2>1. PICK a, b \in Int : a = 1 /\ b = 4
    OBVIOUS
  <2>2. IsFiniteSet(a..b) /\ Cardinality(a..b) = IF a > b THEN 0 ELSE b - a + 1
    BY FS_Interval
  <2> QED BY <2>1, <2>2
<1>3. IsFiniteSet(R \X (1..4)) /\ Cardinality(R \X (1..4)) = Cardinality(R) * 4
  <2> HIDE DEF R
  <2> QED BY <1>1, <1>2, FS_Product
<1>4. K \in SUBSET (R \X (1..4))
  OBVIOUS
<1>5. Cardinality(K) <= Cardinality(R) * 4
  <2> HIDE DEF R, K
  <2> QED BY <1>3, <1>4, FS_Subset
<1>6. SumQ(r, R) <= Cardinality(R) * 4
  BY <1>5 DEF SumQ
<1>7. S \in SUBSET R /\ R \in SUBSET Regs(prog)
  OBVIOUS
<1>8. SumQ(r, S) <= SumQ(r, R) /\ SumQ(r, S) \in Nat /\ SumQ(r, R) \in Nat
  <2> HIDE DEF R
  <2> QED BY <1>7, SumQMore
<1> QED BY <1>1, <1>6, <1>8

(* The degrees, unsigned ints, have room for four times the registers, and *)
(* that of $0 for one for each register (InitQTotal).                      *)
CountersFit ==
    /\ 4 * (Cardinality(Regs(prog)) + 1) < UInt
    /\ prog.reg_alloc + NumPhys < UInt

(* q, where A is the adjacent list of r and the registers in G are gone: a *)
(* register that is linked to itself counts itself once more.              *)
Fits(r, q, A, G) ==
    /\ q \in Nat
    /\ SumQ(r, A \ G) <= q
    /\ q <= SumQ(r, A) + (IF r \in A THEN 4 ELSE 0)

\* What the edges to the registers in B add, and a register s that goes takes away.
Added(r, B) == SumQ(r, B) + (IF r \in B THEN QR(r, r) ELSE 0)
Lost(r, s, A, G) == IF s \in A \ G THEN QR(r, s) ELSE 0
Then(r, s, A, B, G, q) == q + Added(r, B) - Lost(r, s, A, G)
ThenFits(r, s, A, B, G, q) ==
    /\ Then(r, s, A, B, G, q) % UInt = Then(r, s, A, B, G, q)
    /\ Fits(r, Then(r, s, A, B, G, q), A \cup B, G \cup {s})
    /\ q >= Lost(r, s, A, G) /\ Lost(r, s, A, G) \in Nat /\ Added(r, B) \in Nat

LEMMA DegreeStep ==
  ASSUME IsProgram(prog), CountersFit, NEW r \in Regs(prog), NEW s \in Regs(prog), r # s,
         NEW A \in SUBSET Regs(prog), NEW B \in SUBSET Regs(prog), NEW G \in SUBSET Regs(prog),
         A \cap B = {}, NEW q, Fits(r, q, A, G)
  PROVE  ThenFits(r, s, A, B, G, q)
<1>1. QR(r, s) \in 1..4 /\ QR(r, r) \in 1..4
  BY ClassTypes
<1> DEFINE rest == (A \ G) \ {s}
<1>2. /\ rest \in SUBSET Regs(prog) /\ A \ G \in SUBSET Regs(prog)
      /\ A \cup B \in SUBSET Regs(prog) /\ rest \cup B \in SUBSET Regs(prog)
      /\ rest \cap B = {} /\ (A \cup B) \ (G \cup {s}) \in SUBSET (rest \cup B)
  OBVIOUS
<1>3. /\ SumQ(r, A) \in Nat /\ SumQ(r, B) \in Nat /\ SumQ(r, rest) \in Nat
      /\ SumQ(r, A \ G) \in Nat /\ SumQ(r, A \cup B) \in Nat
      /\ SumQ(r, (A \cup B) \ (G \cup {s})) \in Nat
  BY <1>2, SumQType
<1>4. SumQ(r, A \cup B) = SumQ(r, A) + SumQ(r, B)
  BY SumQSplit
<1>5. SumQ(r, A \ G) = SumQ(r, rest) + Lost(r, s, A, G)
  <2>1. CASE s \in A \ G
    <3>1. {s} \in SUBSET Regs(prog) /\ rest \cap {s} = {} /\ rest \cup {s} = A \ G
      BY <2>1
    <3>2. SumQ(r, rest \cup {s}) = SumQ(r, rest) + SumQ(r, {s})
      <4> HIDE DEF rest
      <4> QED BY <3>1, <1>2, SumQSplit
    <3>3. SumQ(r, {s}) = QR(r, s)
      BY SumQOne
    <3> QED BY <2>1, <3>1, <3>2, <3>3 DEF Lost
  <2>2. CASE s \notin A \ G
    <3>1. rest = A \ G
      BY <2>2
    <3> QED BY <2>2, <3>1, <1>3 DEF Lost
  <2> QED BY <2>1, <2>2
<1>6. SumQ(r, (A \cup B) \ (G \cup {s})) <= SumQ(r, rest) + SumQ(r, B)
  <2>1. SumQ(r, rest \cup B) = SumQ(r, rest) + SumQ(r, B)
    <3> HIDE DEF rest
    <3> QED BY <1>2, SumQSplit
  <2>2. PICK T : T = (A \cup B) \ (G \cup {s})
    OBVIOUS
  <2>3. SumQ(r, T) <= SumQ(r, rest \cup B)
    <3> HIDE DEF rest
    <3> QED BY <1>2, <2>2, SumQMore
  <2> QED BY <2>1, <2>2, <2>3
<1>7. Lost(r, s, A, G) \in Nat /\ Added(r, B) \in Nat
  BY <1>1, <1>3 DEF Lost, Added
<1>8. SumQ(r, A \cup B) + 4 < UInt
  <2>1. SumQ(r, A \cup B) <= 4 * Cardinality(Regs(prog)) /\ Cardinality(Regs(prog)) \in Nat
    BY <1>2, SumQBound
  <2> QED BY <2>1, <1>3 DEF CountersFit, UInt
<1>9. /\ q \in Nat /\ SumQ(r, A \ G) <= q
      /\ q <= SumQ(r, A) + (IF r \in A THEN 4 ELSE 0)
  BY DEF Fits
<1>10. PICK n : n = q + Added(r, B) - Lost(r, s, A, G)
  OBVIOUS
<1>11. n \in Nat /\ q >= Lost(r, s, A, G) /\ SumQ(r, (A \cup B) \ (G \cup {s})) <= n
  <2>1. Added(r, B) >= SumQ(r, B)
    BY <1>1, <1>3 DEF Added
  <2> HIDE DEF rest
  <2> QED BY <2>1, <1>3, <1>5, <1>6, <1>7, <1>9, <1>10
<1>12. n <= SumQ(r, A \cup B) + (IF r \in A \cup B THEN 4 ELSE 0)
  <2>1. CASE r \in B
    <3>1. r \notin A /\ r \in A \cup B /\ Added(r, B) <= SumQ(r, B) + 4
      BY <2>1, <1>1, <1>3 DEF Added
    <3> QED BY <3>1, <1>3, <1>4, <1>7, <1>9, <1>10
  <2>2. CASE r \notin B
    <3>1. Added(r, B) = SumQ(r, B) /\ (r \in A \cup B <=> r \in A)
      BY <2>2, <1>3 DEF Added
    <3> QED BY <3>1, <1>3, <1>4, <1>7, <1>9, <1>10
  <2> QED BY <2>1, <2>2
<1>13. n < UInt
  BY <1>3, <1>8, <1>11, <1>12 DEF UInt
<1>14. n % UInt = n
  BY <1>11, <1>13 DEF UInt
<1>15. Fits(r, n, A \cup B, G \cup {s})
  BY <1>11, <1>12 DEF Fits
<1> QED BY <1>7, <1>10, <1>11, <1>14, <1>15 DEF Then, ThenFits

(* $0 is of a class of its own size, of which any register takes one place.*)
LEMMA PrecoloredClass ==
  ASSUME IsProgram(prog), NEW s \in Regs(prog)
  PROVE  PR(Precolored) = NumPhys /\ QR(Precolored, s) = 1
<1>1. Class(Precolored) \in {3, 7}
  BY FiniteProgram DEF Class, get_reg_class, IsProgram
<1>2. Class(s) \in 0..7
  BY ClassTypes
<1>3. \A c \in {3, 7} : PerVec4[c + 1] = 1 /\ \A d \in 0..7 : QTable[c + 1][d + 1] = 1
  BY DEF PerVec4, QTable
<1> QED BY <1>1, <1>2, <1>3, NumPhysAssumption DEF PR, QR, P, Q

(* The degrees: each is what is left of the neighbours that are left, and  *)
(* that of $0 has room for one push of each register that is left.         *)
DegreesFit(q, adj, G) ==
    /\ \A r \in VirtualRegs(prog) \ G : Fits(r, q[r], adj[r], G)
    /\ q[Precolored] \in Nat /\ q[Precolored] < UInt
    /\ PR(Precolored) + Cardinality(VirtualRegs(prog) \ G) <= q[Precolored]

LEMMA DegreesStep ==
  ASSUME IsProgram(prog), CountersFit,
         NEW q, NEW adj \in [Regs(prog) -> SUBSET Regs(prog)],
         NEW G \in SUBSET Regs(prog), DegreesFit(q, adj, G),
         NEW s \in VirtualRegs(prog), s \notin G,
         NEW q2, NEW adj2, NEW more \in [Regs(prog) -> SUBSET Regs(prog)],
         \A r \in VirtualRegs(prog) : adj[r] \cap more[r] = {} /\ adj2[r] = adj[r] \cup more[r],
         \A r \in VirtualRegs(prog) \ (G \cup {s}) :
             q2[r] = Then(r, s, adj[r], more[r], G, q[r]) % UInt,
         q2[Precolored] \in { q[Precolored] % UInt, (q[Precolored] - 1) % UInt }
  PROVE  DegreesFit(q2, adj2, G \cup {s})
<1>1. ASSUME NEW r \in VirtualRegs(prog) \ (G \cup {s})
      PROVE  Fits(r, q2[r], adj2[r], G \cup {s})
  <2>1. PICK A, B, n : A = adj[r] /\ B = more[r] /\ n = q[r]
    OBVIOUS
  <2>2. /\ r \in Regs(prog) /\ s \in Regs(prog) /\ r # s
        /\ A \in SUBSET Regs(prog) /\ B \in SUBSET Regs(prog) /\ A \cap B = {}
        /\ Fits(r, n, A, G) /\ adj2[r] = A \cup B
        /\ q2[r] = Then(r, s, A, B, G, n) % UInt
    BY <2>1 DEF VirtualRegs, DegreesFit
  <2>3. ThenFits(r, s, A, B, G, n)
    BY <2>2, DegreeStep
  <2> QED BY <2>2, <2>3 DEF ThenFits
<1>2. PICK V, W, c, p : /\ V = VirtualRegs(prog) \ G /\ W = VirtualRegs(prog) \ (G \cup {s})
                        /\ c = q[Precolored] /\ p = PR(Precolored)
  OBVIOUS
<1>3. IsFiniteSet(V) /\ W = V \ {s} /\ s \in V
  <2>1. V \in SUBSET Regs(prog) /\ IsFiniteSet(Regs(prog))
    BY <1>2, FiniteProgram DEF VirtualRegs
  <2> QED BY <2>1, <1>2, FS_Subset
<1>4. Cardinality(W) = Cardinality(V) - 1 /\ Cardinality(W) \in Nat /\ Cardinality(V) \in Nat
  <2>1. Cardinality(W) = Cardinality(V) - 1 /\ IsFiniteSet(W)
    BY <1>3, FS_RemoveElement
  <2> QED BY <2>1, <1>3, FS_CardinalityType
<1>5. c \in Nat /\ c < UInt /\ p + Cardinality(V) <= c /\ p \in Nat
  <2>1. PR(Precolored) \in Nat
    BY FiniteProgram, ClassTypes
  <2> QED BY <2>1, <1>2 DEF DegreesFit
<1>6. c >= 1 /\ c % UInt = c /\ (c - 1) % UInt = c - 1
  <2>1. c >= 1
    BY <1>4, <1>5
  <2> QED BY <2>1, <1>5 DEF UInt
<1>7. q2[Precolored] \in {c, c - 1}
  BY <1>2, <1>6
<1>8. /\ q2[Precolored] \in Nat /\ q2[Precolored] < UInt
      /\ p + Cardinality(W) <= q2[Precolored]
  BY <1>4, <1>5, <1>6, <1>7 DEF UInt
<1> QED BY <1>1, <1>2, <1>8 DEF DegreesFit

-----------------------------------------------------------------------------
(* One register gets on the stack once.                                    *)

(* No register is given up while a move between it and a register that was *)
(* coalesced into it is left: freeze_moves looks for the other end of such *)
(* a move and finds the register itself (805-811), which it then pushes    *)
(* twice.                                                                  *)
NoOwnEnd ==
    Trying /\ move_queue = {} =>
        \A reg \in freeze_queue : \A m \in moves[reg] \cap LiveMoves : Other(reg, m) # reg

DegreeInv == DegreesFit(q_total, adjacent, Gone(state))

OnceInv ==
    /\ IsInjective(simplify_queue)
    /\ ToSet(simplify_queue) \cap ToSet(select_stack) = {}
    /\ \A r \in spill_queue : state[r] = "to_spill" /\ q_total[r] >= PR(r)

LEMMA SameDegrees ==
  ASSUME prog' = prog, NEW q, NEW adj, NEW G,
         q_total' = q, adjacent' = adj, Gone(state)' = G, DegreesFit(q, adj, G)
  PROVE  DegreeInv'
<1>1. \A r, S : SumQ(r, S)' = SumQ(r, S)
  BY DEF SumQ, QR, Class
<1>2. \A r, n, A : Fits(r, n, A, G)' <=> Fits(r, n, A, G)
  BY <1>1 DEF Fits
<1>3. PR(Precolored)' = PR(Precolored) /\ VirtualRegs(prog)' = VirtualRegs(prog)
  BY DEF PR, Class
<1>4. DegreesFit(q, adj, G)' <=> DegreesFit(q, adj, G)
  BY <1>2, <1>3 DEF DegreesFit
<1>5. DegreeInv' <=> DegreesFit(q, adj, G)'
  BY DEF DegreeInv
<1> QED BY <1>4, <1>5

LEMMA AppendedInjective ==
  ASSUME NEW S, NEW s \in Seq(S), NEW t \in Seq(S), IsInjective(s), IsInjective(t),
         ToSet(s) \cap ToSet(t) = {}
  PROVE  IsInjective(s \o t)
<1>1. /\ Len(s) \in Nat /\ Len(t) \in Nat
      /\ DOMAIN s = 1..Len(s) /\ DOMAIN t = 1..Len(t) /\ DOMAIN (s \o t) = 1..(Len(s) + Len(t))
      /\ \A n \in 1..(Len(s) + Len(t)) :
            (s \o t)[n] = IF n <= Len(s) THEN s[n] ELSE t[n - Len(s)]
  OBVIOUS
<1>2. ASSUME NEW a \in 1..(Len(s) + Len(t)), NEW b \in 1..(Len(s) + Len(t)),
             (s \o t)[a] = (s \o t)[b], a <= Len(s), b > Len(s)
      PROVE  FALSE
  <2>1. a \in DOMAIN s /\ b - Len(s) \in DOMAIN t /\ s[a] = t[b - Len(s)]
    BY <1>1, <1>2
  <2> QED BY <2>1 DEF ToSet
<1> SUFFICES ASSUME NEW a \in 1..(Len(s) + Len(t)), NEW b \in 1..(Len(s) + Len(t)),
                    (s \o t)[a] = (s \o t)[b]
             PROVE  a = b
  BY <1>1 DEF IsInjective
<1>3. CASE a <= Len(s) /\ b <= Len(s)
  <2>1. a \in DOMAIN s /\ b \in DOMAIN s /\ s[a] = s[b]
    BY <1>1, <1>3
  <2> QED BY <2>1 DEF IsInjective
<1>4. CASE a > Len(s) /\ b > Len(s)
  <2>1. a - Len(s) \in DOMAIN t /\ b - Len(s) \in DOMAIN t /\ t[a - Len(s)] = t[b - Len(s)]
    BY <1>1, <1>4
  <2>2. a - Len(s) = b - Len(s)
    BY <2>1 DEF IsInjective
  <2> QED BY <2>2, <1>1
<1> QED BY <1>1, <1>2, <1>3, <1>4

LEMMA SingleInjective ==
  ASSUME NEW S, NEW e \in S
  PROVE  /\ <<e>> \in Seq(S) /\ ToSet(<<e>>) = {e} /\ IsInjective(<<e>>)
         /\ <<>> \in Seq(S) /\ ToSet(<<>>) = {} /\ IsInjective(<<>>)
BY DEF ToSet, IsInjective

LEMMA TailInjective ==
  ASSUME NEW S, NEW s \in Seq(S), s # <<>>, IsInjective(s)
  PROVE  IsInjective(Tail(s)) /\ Head(s) \notin ToSet(Tail(s))
<1>1. /\ Len(s) \in Nat /\ Len(s) >= 1 /\ DOMAIN s = 1..Len(s) /\ Head(s) = s[1]
      /\ DOMAIN Tail(s) = 1..(Len(s) - 1)
      /\ \A n \in 1..(Len(s) - 1) : Tail(s)[n] = s[n + 1]
  OBVIOUS
<1>2. ASSUME NEW a \in 1..(Len(s) - 1), NEW b \in 1..(Len(s) - 1), Tail(s)[a] = Tail(s)[b]
      PROVE  a = b
  <2>1. a + 1 \in DOMAIN s /\ b + 1 \in DOMAIN s /\ s[a + 1] = s[b + 1]
    BY <1>1, <1>2
  <2>2. a + 1 = b + 1
    BY <2>1 DEF IsInjective
  <2> QED BY <2>2
<1>3. ASSUME NEW a \in 1..(Len(s) - 1), Tail(s)[a] = Head(s)
      PROVE  FALSE
  <2>1. a + 1 \in DOMAIN s /\ 1 \in DOMAIN s /\ s[a + 1] = s[1]
    BY <1>1, <1>3
  <2>2. a + 1 = 1
    BY <2>1 DEF IsInjective
  <2> QED BY <2>2
<1> QED BY <1>1, <1>2, <1>3 DEF IsInjective, ToSet

\* Decrementing degrees makes no register leave the graph ...
LEMMA RequeueGone ==
  ASSUME prog' = prog, NEW others \in SUBSET Regs(prog), NEW q, NEW st,
         NEW mv, NEW adj, NEW queued, NEW fq, NEW sq, NEW queue, NEW full,
         others \cap Gone(st) = {},
         Requeue(others, q, st, mv, adj, queued, fq, sq, queue, full)
  PROVE  Gone(state)' = Gone(st)
<1> DEFINE dropped == Dropped(others, q, st)
           related == { r \in dropped : mv[r] \cap (queued \cup active_moves) # {} }
           after   == [r \in Regs(prog) |->
                          IF r \in related THEN "to_freeze"
                          ELSE IF r \in dropped THEN "to_simplify"
                          ELSE st[r]]
           back    == { r \in full : after[r] = "to_freeze" }
<1>1. state' = [r \in Regs(prog) |-> IF r \in back THEN "to_spill" ELSE after[r]]
  BY DEF Requeue
<1>2. dropped \subseteq others
  BY DEF Dropped
<1>3. ASSUME NEW r \in Regs(prog)
      PROVE  state'[r] \in {"simplified", "coalesced"} <=> st[r] \in {"simplified", "coalesced"}
  <2>1. /\ state'[r] = IF r \in back THEN "to_spill" ELSE after[r]
        /\ after[r] = IF r \in related THEN "to_freeze"
                      ELSE IF r \in dropped THEN "to_simplify" ELSE st[r]
        /\ r \in back => after[r] = "to_freeze"
        /\ r \in related => r \in dropped
        /\ r \in dropped => st[r] \notin {"simplified", "coalesced"}
    BY <1>1, <1>2 DEF Gone
  <2> HIDE DEF dropped, related, after, back
  <2> QED BY <2>1
<1> QED BY <1>3 DEF Gone

\* ... and pushes each register that drops below its p once.
RequeuedOnce(others, q, st, sq, full) ==
    /\ IsInjective(simplify_queue')
    /\ \A r \in ToSet(simplify_queue') : st[r] \in {"to_simplify", "to_spill"}
    /\ \A r \in spill_queue' :
         /\ state'[r] = "to_spill"
         /\ r \in full \/ (r \in sq /\ (r \in others => ~ q[r] < PR(r)))

LEMMA RequeueOnce ==
  ASSUME IsProgram(prog),
         NEW others \in SUBSET Regs(prog), NEW q, NEW st \in [Regs(prog) -> States],
         NEW mv, NEW adj, NEW queued \in SUBSET Moves(prog),
         NEW fq \in SUBSET Regs(prog), NEW sq \in SUBSET Regs(prog),
         NEW queue \in Seq(Regs(prog)), NEW full \in SUBSET Regs(prog),
         \A r \in others : q[r] < PR(r) => st[r] \in {"to_simplify", "to_freeze", "to_spill"},
         IsInjective(queue), \A r \in ToSet(queue) : st[r] = "to_simplify",
         \A r \in sq : st[r] = "to_spill",
         Requeue(others, q, st, mv, adj, queued, fq, sq, queue, full)
  PROVE  RequeuedOnce(others, q, st, sq, full)
<1> DEFINE dropped == Dropped(others, q, st)
           related == { r \in dropped : mv[r] \cap (queued \cup active_moves) # {} }
           after   == [r \in Regs(prog) |->
                          IF r \in related THEN "to_freeze"
                          ELSE IF r \in dropped THEN "to_simplify"
                          ELSE st[r]]
           back    == { r \in full : after[r] = "to_freeze" }
<1>1. /\ spill_queue' = (sq \ dropped) \cup back
      /\ \E pushed \in SetToSeqs(dropped \ related) : simplify_queue' = queue \o pushed
      /\ state' = [r \in Regs(prog) |-> IF r \in back THEN "to_spill" ELSE after[r]]
  BY DEF Requeue
<1>2. /\ dropped \subseteq others
      /\ \A r \in dropped : st[r] = "to_spill"
      /\ \A r \in others : q[r] < PR(r) /\ st[r] = "to_spill" => r \in dropped
  BY DEF Dropped
<1>3. related \subseteq dropped /\ back \subseteq full
  OBVIOUS
<1>4. IsFiniteSet(dropped \ related) /\ dropped \ related \subseteq Regs(prog)
  <2> HIDE DEF dropped, related
  <2> QED BY <1>2, FiniteProgram, FS_Subset
<1>5. PICK pushed \in SetToSeqs(dropped \ related) : simplify_queue' = queue \o pushed
  BY <1>1
<1>6. /\ pushed \in Seq(dropped \ related) /\ ToSet(pushed) = dropped \ related
      /\ IsInjective(pushed)
  <2> HIDE DEF dropped, related
  <2>1. pushed \in Seq(dropped \ related) /\ ToSet(pushed) = dropped \ related
    BY <1>4, <1>5, AllInOrder
  <2>2. IsInjective(pushed)
    BY <1>5 DEF SetToSeqs, IsInjective
  <2> QED BY <2>1, <2>2
<1>7. ToSet(queue) \cap ToSet(pushed) = {}
  <2> HIDE DEF dropped, related
  <2> QED BY <1>2, <1>6
<1>8. /\ IsInjective(simplify_queue')
      /\ ToSet(simplify_queue') = ToSet(queue) \cup ToSet(pushed)
  <2> HIDE DEF dropped, related
  <2>1. pushed \in Seq(Regs(prog))
    BY <1>4, <1>6
  <2> QED BY <2>1, <1>5, <1>6, <1>7, AppendedElements, AppendedInjective
<1>9. \A r \in ToSet(simplify_queue') : st[r] \in {"to_simplify", "to_spill"}
  <2> HIDE DEF dropped, related
  <2> QED BY <1>2, <1>6, <1>8
<1>10. ASSUME NEW r \in spill_queue'
       PROVE  /\ state'[r] = "to_spill"
              /\ r \in full \/ (r \in sq /\ (r \in others => ~ q[r] < PR(r)))
  <2>1. CASE r \in back
    <3> HIDE DEF after, dropped, related, back
    <3> QED BY <2>1, <1>1, <1>3
  <2>2. CASE r \in sq \ dropped /\ r \notin back
    <3>1. r \in Regs(prog) /\ st[r] = "to_spill" /\ r \notin related /\ r \notin dropped
      <4> HIDE DEF after, dropped, related, back
      <4> QED BY <2>2, <1>3
    <3>2. after[r] = st[r]
      <4> HIDE DEF dropped, related, back
      <4> QED BY <3>1
    <3>3. state'[r] = "to_spill"
      <4> HIDE DEF after, dropped, related, back
      <4> QED BY <2>2, <3>1, <3>2, <1>1
    <3> HIDE DEF after, dropped, related, back
    <3> QED BY <2>2, <3>1, <3>3, <1>2
  <2> HIDE DEF after, dropped, related, back
  <2> QED BY <2>1, <2>2, <1>1
<1> QED
  <2> HIDE DEF after, dropped, related, back
  <2> QED BY <1>8, <1>9, <1>10 DEF RequeuedOnce

\* The other steps push registers of the graph, each once.
PushesOnce(T) ==
    /\ Pushes(T) /\ IsInjective(simplify_queue')
    /\ \A r \in T : state[r] \in {"initial", "to_freeze", "to_spill"} /\ r \notin spill_queue'

LEMMA AddBothOnce ==
  ASSUME WorkInv, OnceInv, NEW src \in Regs(prog), NEW dst \in Regs(prog),
         NEW T, Pushes(T), \A r \in T : r \in {src, dst} /\ Pushable(r),
         state[src] \in {"initial", "to_freeze", "to_spill"},
         state[dst] \in {"initial", "to_freeze", "to_spill"},
         AddBothToQueue(src, dst), UNCHANGED spill_queue
  PROVE  PushesOnce(T)
<1>1. \A r \in Regs(prog) : /\ Push(r) \in Seq(Regs(prog)) /\ IsInjective(Push(r))
                            /\ ToSet(Push(r)) \subseteq {r}
  BY SingleInjective DEF Push
<1>2. IsInjective(simplify_queue')
  <2>1. CASE src = dst
    BY <2>1, <1>1 DEF AddBothToQueue
  <2>2. CASE src # dst
    <3>1. simplify_queue' = Push(src) \o Push(dst)
      BY <2>2 DEF AddBothToQueue
    <3>2. ToSet(Push(src)) \cap ToSet(Push(dst)) = {}
      BY <2>2, <1>1
    <3> QED BY <3>1, <3>2, <1>1, AppendedInjective
  <2> QED BY <2>1, <2>2
<1>3. ASSUME NEW r \in T
      PROVE  state[r] \in {"initial", "to_freeze", "to_spill"} /\ r \notin spill_queue'
  <2>1. r \in {src, dst} /\ q_total[r] < PR(r) /\ r \in Regs(prog)
    BY DEF Pushable
  <2>2. q_total[r] \in Nat /\ PR(r) \in Nat
    BY <2>1, ClassTypes DEF WorkInv, RoundTypes
  <2>3. r \notin spill_queue
    BY <2>1, <2>2 DEF OnceInv
  <2> QED BY <2>1, <2>3
<1> QED BY <1>2, <1>3 DEF PushesOnce

LEMMA FreezeOnce ==
  ASSUME WorkInv, OnceInv,
         NEW reg \in VirtualRegs(prog), state[reg] \in {"to_freeze", "to_spill"},
         q_total[reg] < PR(reg) => \A m \in moves[reg] \cap LiveMoves : Other(reg, m) # reg,
         spill_queue' \subseteq spill_queue, reg \notin spill_queue',
         NEW fq, FreezeMoves(reg, fq), NEW T, Pushes(T)
  PROVE  PushesOnce(T)
<1> DEFINE frozen == moves[reg] \cap LiveMoves
<1>1. PICK order \in SetToSeqs(frozen) :
        LET left(n)  == LiveMoves \ {order[m] : m \in 1..n}
            other(n) == Other(reg, order[n])
            pushed   == { n \in DOMAIN order : Ready(other(n), left(n)) }
        IN  \E turn \in Ascending(pushed) :
                   simplify_queue' = <<reg>> \o [n \in DOMAIN turn |-> other(turn[n])]
  BY DEF FreezeMoves
<1> DEFINE left(n)  == LiveMoves \ {order[m] : m \in 1..n}
           other(n) == Other(reg, order[n])
           pushed   == { n \in DOMAIN order : Ready(other(n), left(n)) }
<1>2. PICK turn \in Ascending(pushed) :
          simplify_queue' = <<reg>> \o [n \in DOMAIN turn |-> other(turn[n])]
  BY <1>1
<1>3. frozen \subseteq Moves(prog) /\ frozen \subseteq LiveMoves /\ IsFiniteSet(frozen)
  <2>1. frozen \subseteq Moves(prog) /\ IsProgram(prog)
    BY DEF WorkInv, RoundTypes, VirtualRegs
  <2> QED BY <2>1, FiniteProgram, FS_Subset
<1>4. /\ ToSet(order) = frozen /\ DOMAIN order = 1..Cardinality(frozen) /\ Cardinality(frozen) \in Nat
      /\ \A a, b \in DOMAIN order : order[a] = order[b] => a = b
  <2>1. ToSet(order) = frozen /\ DOMAIN order = 1..Cardinality(frozen) /\ Cardinality(frozen) \in Nat
    <3> HIDE DEF frozen
    <3> QED BY <1>3, AllInOrder
  <2> HIDE DEF frozen
  <2> QED BY <2>1 DEF SetToSeqs
<1>5. \A n \in DOMAIN order : order[n] \in frozen
  <2> HIDE DEF frozen
  <2> QED BY <1>4 DEF ToSet
\* The other end of a move that is given up is in the graph and knows the move.
<1>6. ASSUME NEW n \in DOMAIN order
      PROVE  /\ other(n) \in Regs(prog) /\ order[n] \in moves[other(n)]
             /\ state[other(n)] \in {"initial", "to_freeze", "to_spill"}
  <2>1. order[n] \in Moves(prog) /\ order[n] \in LiveMoves
    BY <1>3, <1>5
  <2>2. prog.code[order[n]].dest \in Regs(prog) /\ prog.code[order[n]].src \in Regs(prog)
    BY <2>1 DEF Moves, WorkInv, IsProgram, IsInstr
  <2>3. other(n) \in {alias[prog.code[order[n]].src], alias[prog.code[order[n]].dest]}
    BY DEF Other
  <2> HIDE DEF other
  <2> QED BY <2>1, <2>2, <2>3 DEF WorkInv, RoundTypes, LiveMovesLive
<1>7. ASSUME NEW n \in pushed
      PROVE  /\ n \in DOMAIN order /\ other(n) \in Regs(prog) /\ other(n) # reg
             /\ other(n) \notin spill_queue'
             /\ moves[other(n)] \cap left(n) = {}
             /\ state[other(n)] \in {"initial", "to_freeze", "to_spill"}
  <2>1. /\ n \in DOMAIN order /\ moves[other(n)] \cap left(n) = {}
        /\ q_total[other(n)] < PR(other(n))
    BY DEF Ready, move_related
  <2>2. other(n) \in Regs(prog) /\ state[other(n)] \in {"initial", "to_freeze", "to_spill"}
    BY <1>6, <2>1
  <2>3. q_total[other(n)] \in Nat /\ PR(other(n)) \in Nat
    <3> HIDE DEF other
    <3> QED BY <2>2, ClassTypes DEF WorkInv, RoundTypes
  <2>4. other(n) \notin spill_queue'
    <3> HIDE DEF other
    <3> QED BY <2>1, <2>3 DEF OnceInv
  <2>5. other(n) # reg
    <3>1. order[n] \in moves[reg] \cap LiveMoves
      BY <1>5, <2>1
    <3> QED BY <2>1, <3>1
  <2> QED BY <2>1, <2>2, <2>4, <2>5
<1>8. ASSUME NEW a \in pushed, NEW b \in pushed, a < b, other(a) = other(b)
      PROVE  FALSE
  <2>1. a \in DOMAIN order /\ b \in DOMAIN order /\ order[b] \in moves[other(a)]
    BY <1>6, <1>8
  <2>2. order[b] \in LiveMoves
    BY <2>1, <1>3, <1>5
  <2>3. a \in 1..Cardinality(frozen) /\ b \in 1..Cardinality(frozen)
    <3> HIDE DEF frozen, pushed
    <3> QED BY <2>1, <1>4
  <2>4. \A m \in 1..a : m \in DOMAIN order /\ m # b
    <3> HIDE DEF frozen, pushed, other
    <3> QED BY <2>3, <1>4, <1>8
  <2>5. order[b] \in left(a)
    <3> HIDE DEF frozen, pushed, other
    <3> QED BY <2>1, <2>2, <2>4, <1>4
  <2>6. moves[other(a)] \cap left(a) = {}
    BY <1>7
  <2> HIDE DEF left, pushed, other
  <2> QED BY <2>1, <2>5, <2>6
<1>9. ASSUME NEW a \in pushed, NEW b \in pushed, other(a) = other(b)
      PROVE  a = b
  <2>1. a \in DOMAIN order /\ b \in DOMAIN order
    OBVIOUS
  <2>2. a \in Int /\ b \in Int
    <3> HIDE DEF frozen, pushed, other
    <3> QED BY <2>1, <1>4
  <2> HIDE DEF pushed, other
  <2> QED BY <2>2, <1>8, <1>9
<1>10. /\ DOMAIN turn = 1..Cardinality(pushed) /\ Cardinality(pushed) \in Nat
       /\ \A n \in DOMAIN turn : turn[n] \in pushed
       /\ \A a, b \in DOMAIN turn : turn[a] = turn[b] => a = b
  <2>1. turn \in SetToSeqs(pushed)
    <3> HIDE DEF pushed
    <3> QED BY <1>2 DEF Ascending
  <2>2. IsFiniteSet(1..Cardinality(frozen))
    <3> HIDE DEF frozen
    <3> QED BY <1>4, FS_Interval
  <2>3. IsFiniteSet(pushed)
    <3>1. pushed \subseteq 1..Cardinality(frozen)
      BY <1>4
    <3> HIDE DEF pushed, frozen
    <3> QED BY <2>2, <3>1, FS_Subset
  <2> HIDE DEF pushed
  <2>4. DOMAIN turn = 1..Cardinality(pushed) /\ Cardinality(pushed) \in Nat /\ ToSet(turn) = pushed
    BY <2>1, <2>3, AllInOrder
  <2> QED BY <2>1, <2>4 DEF SetToSeqs, ToSet
<1> DEFINE pushing == [n \in DOMAIN turn |-> other(turn[n])]
<1>11. /\ pushing \in Seq(Regs(prog)) /\ DOMAIN pushing = DOMAIN turn
       /\ \A n \in DOMAIN turn : pushing[n] = other(turn[n])
  <2>1. \A n \in DOMAIN turn : other(turn[n]) \in Regs(prog)
    <3> HIDE DEF pushed, other
    <3> QED BY <1>7, <1>10
  <2>2. pushing \in [1..Cardinality(pushed) -> Regs(prog)]
    <3> HIDE DEF pushed, other
    <3> QED BY <1>10, <2>1
  <2> HIDE DEF pushed, other
  <2> QED BY <1>10, <2>2
<1>12. IsInjective(pushing)
  <2> HIDE DEF pushed, other, pushing
  <2> QED BY <1>9, <1>10, <1>11 DEF IsInjective
<1>13. reg \notin ToSet(pushing)
  <2> HIDE DEF pushed, other, pushing
  <2> QED BY <1>7, <1>10, <1>11 DEF ToSet
<1>14. reg \in Regs(prog) /\ <<reg>> \in Seq(Regs(prog)) /\ ToSet(<<reg>>) = {reg} /\ IsInjective(<<reg>>)
  <2>1. reg \in Regs(prog)
    BY DEF VirtualRegs
  <2> QED BY <2>1, SingleInjective
<1>15. /\ IsInjective(simplify_queue')
       /\ ToSet(simplify_queue') = {reg} \cup ToSet(pushing)
  <2> HIDE DEF pushed, other, frozen
  <2>1. simplify_queue' = <<reg>> \o pushing
    BY <1>2
  <2>2. PICK R, f, g : R = Regs(prog) /\ f = <<reg>> /\ g = pushing
    OBVIOUS
  <2>3. /\ f \in Seq(R) /\ g \in Seq(R) /\ IsInjective(f) /\ IsInjective(g)
        /\ ToSet(f) \cap ToSet(g) = {} /\ ToSet(f) = {reg}
    BY <2>2, <1>11, <1>12, <1>13, <1>14
  <2> HIDE DEF pushing
  <2>4. IsInjective(f \o g) /\ ToSet(f \o g) = ToSet(f) \cup ToSet(g)
    BY <2>3, AppendedInjective, AppendedElements
  <2> QED BY <2>1, <2>2, <2>3, <2>4
<1>16. ASSUME NEW r \in T
       PROVE  state[r] \in {"initial", "to_freeze", "to_spill"} /\ r \notin spill_queue'
  <2>1. r = reg \/ r \in ToSet(pushing)
    <3> HIDE DEF pushing
    <3> QED BY <1>15 DEF Pushes
  <2>2. CASE r = reg
    BY <2>2
  <2>3. CASE r \in ToSet(pushing)
    <3>1. PICK n \in DOMAIN turn : r = other(turn[n])
      <4> HIDE DEF pushed, other, pushing
      <4> QED BY <2>3, <1>11 DEF ToSet
    <3> HIDE DEF pushed, other, pushing
    <3> QED BY <3>1, <1>7, <1>10
  <2> QED BY <2>1, <2>2, <2>3
<1> QED BY <1>15, <1>16 DEF PushesOnce

LEMMA PushingOnce ==
  ASSUME WorkInv, DegreeInv, OnceInv, NEW T, PushesOnce(T),
         UNCHANGED <<prog, pc, graph, select_stack>>
  PROVE  DegreeInv' /\ OnceInv'
<1>1. /\ simplify_queue' \in Seq(Regs(prog)) /\ ToSet(simplify_queue') = T
      /\ T \subseteq Regs(prog)
      /\ state' = [r \in Regs(prog) |-> IF r \in T THEN "to_simplify" ELSE state[r]]
      /\ spill_queue' \subseteq spill_queue
      /\ IsInjective(simplify_queue')
      /\ \A r \in T : state[r] \in {"initial", "to_freeze", "to_spill"} /\ r \notin spill_queue'
  BY DEF PushesOnce, Pushes, VirtualRegs
<1>2. /\ prog' = prog /\ q_total' = q_total /\ adjacent' = adjacent
      /\ select_stack' = select_stack
  BY DEF graph
<1>3. Gone(state)' = Gone(state)
  BY <1>1, <1>2 DEF Gone
<1>4. DegreeInv'
  <2>1. PICK q, adj, G : q = q_total /\ adj = adjacent /\ G = Gone(state)
    OBVIOUS
  <2>2. DegreesFit(q, adj, G)
    BY <2>1 DEF DegreeInv
  <2> QED BY <2>1, <2>2, <1>2, <1>3, SameDegrees
<1>5. ToSet(simplify_queue') \cap ToSet(select_stack') = {}
  BY <1>1, <1>2 DEF WorkInv, QueueInv
<1>6. ASSUME NEW r \in spill_queue'
      PROVE  state'[r] = "to_spill" /\ q_total'[r] >= PR(r)'
  <2>1. r \in spill_queue /\ r \in Regs(prog) /\ r \notin T
    BY <1>1 DEF WorkInv, RoundTypes
  <2>2. state[r] = "to_spill" /\ q_total[r] >= PR(r)
    BY <2>1 DEF OnceInv
  <2>3. PR(r)' = PR(r)
    BY <1>2 DEF PR, Class
  <2> QED BY <2>1, <2>2, <2>3, <1>1, <1>2
<1> QED BY <1>1, <1>4, <1>5, <1>6 DEF OnceInv

LEMMA CoalesceFailsOnce ==
  ASSUME WorkInv, DegreeInv, OnceInv, CoalesceSame \/ CoalesceImpossible \/ CoalesceLater
  PROVE  DegreeInv' /\ OnceInv'
<1>1. UNCHANGED <<prog, pc, graph, select_stack, spill_queue>>
  BY DEF CoalesceSame, CoalesceImpossible, CoalesceLater
<1>2. ASSUME NEW m \in move_queue, NEW src, NEW dst,
             {src, dst} \subseteq {alias[prog.code[m].src], alias[prog.code[m].dest]},
             move_queue' = move_queue \ {m}, active_moves' = active_moves,
             AddBothToQueue(src, dst)
      PROVE  DegreeInv' /\ OnceInv'
  <2>1. /\ src \in Regs(prog) /\ alias[src] = src /\ state[src] \in {"initial", "to_freeze", "to_spill"}
        /\ dst \in Regs(prog) /\ alias[dst] = dst /\ state[dst] \in {"initial", "to_freeze", "to_spill"}
    BY <1>2, MoveEnds
  <2>2. LiveMoves' \subseteq LiveMoves
    BY <1>2 DEF LiveMoves
  <2>3. PICK T : T = { r \in {src, dst} : Pushable(r) }
    OBVIOUS
  <2>4. Pushes(T)
    BY <1>1, <1>2, <2>1, <2>2, <2>3, AddBothPushes DEF WorkInv
  <2>5. \A r \in T : r \in {src, dst} /\ Pushable(r)
    BY <2>3
  <2>6. PushesOnce(T)
    BY <1>1, <1>2, <2>1, <2>4, <2>5, AddBothOnce
  <2> QED BY <1>1, <2>6, PushingOnce
<1>3. CASE CoalesceSame
  <2>1. PICK m \in move_queue :
           /\ move_queue' = move_queue \ {m} /\ active_moves' = active_moves
           /\ AddBothToQueue(alias[prog.code[m].src], alias[prog.code[m].src])
    BY <1>3 DEF CoalesceSame
  <2> QED BY <2>1, <1>2
<1>4. CASE CoalesceImpossible
  <2>1. PICK m \in move_queue :
           /\ move_queue' = move_queue \ {m} /\ active_moves' = active_moves
           /\ AddBothToQueue(From(prog.code[m]), Into(prog.code[m]))
    BY <1>4 DEF CoalesceImpossible
  <2>2. {From(prog.code[m]), Into(prog.code[m])}
            \subseteq {alias[prog.code[m].src], alias[prog.code[m].dest]}
    BY DEF From, Into
  <2> QED BY <2>1, <2>2, <1>2
<1>5. CASE CoalesceLater
  <2>1. /\ simplify_queue' = simplify_queue /\ spill_queue' = spill_queue /\ state' = state
        /\ prog' = prog /\ q_total' = q_total /\ adjacent' = adjacent
        /\ select_stack' = select_stack
    BY <1>5 DEF CoalesceLater, graph
  <2>2. Gone(state)' = Gone(state) /\ \A r : PR(r)' = PR(r)
    BY <2>1 DEF Gone, PR, Class
  <2>3. OnceInv'
    BY <2>1, <2>2 DEF OnceInv
  <2>4. PICK q, adj, G : q = q_total /\ adj = adjacent /\ G = Gone(state)
    OBVIOUS
  <2>5. DegreesFit(q, adj, G)
    BY <2>4 DEF DegreeInv
  <2> QED BY <2>1, <2>2, <2>3, <2>4, <2>5, SameDegrees
<1> QED BY <1>3, <1>4, <1>5

LEMMA FreezeMatch ==
  ASSUME WorkInv, PrecoloredStays, DegreeInv, OnceInv, NoOwnEnd, Freeze
  PROVE  DegreeInv' /\ OnceInv'
<1>1. PICK reg \in freeze_queue : FreezeMoves(reg, freeze_queue \ {reg})
  BY DEF Freeze
<1>2. /\ Trying /\ move_queue = {} /\ spill_queue' = spill_queue
      /\ UNCHANGED <<prog, pc, graph, select_stack>>
  BY DEF Freeze
<1>3. reg \in VirtualRegs(prog) /\ alias[reg] = reg /\ state[reg] = "to_freeze"
  BY DEF WorkInv, QueueInv, Queued, RoundTypes, VirtualRegs
<1>4. \A m \in moves[reg] \cap LiveMoves : Other(reg, m) # reg
  BY <1>2 DEF NoOwnEnd
<1>5. reg \notin spill_queue'
  BY <1>2, <1>3 DEF OnceInv
<1>6. PICK fq : fq = freeze_queue \ {reg}
  OBVIOUS
<1>7. /\ fq \in SUBSET freeze_queue /\ freeze_queue \ fq \subseteq {reg} /\ reg \notin fq
      /\ FreezeMoves(reg, fq) /\ spill_queue' \subseteq spill_queue
      /\ spill_queue \ spill_queue' \subseteq {reg}
  BY <1>1, <1>2, <1>6
<1>8. PICK T \in SUBSET VirtualRegs(prog) : Pushes(T)
  BY <1>3, <1>7, FreezePushes DEF WorkInv
<1>9. PushesOnce(T)
  BY <1>3, <1>4, <1>5, <1>7, <1>8, FreezeOnce
<1> QED BY <1>2, <1>9, PushingOnce

LEMMA SelectSpillMatch ==
  ASSUME WorkInv, PrecoloredStays, DegreeInv, OnceInv, SelectSpill
  PROVE  DegreeInv' /\ OnceInv'
<1>1. PICK reg \in Cheapest : FreezeMoves(reg, freeze_queue) /\ spill_queue' = spill_queue \ {reg}
  BY DEF SelectSpill
<1>2. /\ freeze_queue = {} /\ UNCHANGED <<prog, pc, graph, select_stack>>
  BY DEF SelectSpill
<1>3. /\ reg \in spill_queue /\ reg \in VirtualRegs(prog) /\ alias[reg] = reg
      /\ state[reg] = "to_spill"
  BY DEF WorkInv, QueueInv, Queued, RoundTypes, VirtualRegs, Cheapest, OnceInv
<1>4. ~ (q_total[reg] < PR(reg))
  <2>1. q_total[reg] \in Nat /\ PR(reg) \in Nat /\ q_total[reg] >= PR(reg)
    BY <1>3, ClassTypes DEF WorkInv, RoundTypes, VirtualRegs, OnceInv
  <2> QED BY <2>1
<1>5. PICK fq : fq = freeze_queue
  OBVIOUS
<1>6. /\ fq \in SUBSET freeze_queue /\ freeze_queue \ fq \subseteq {reg}
      /\ reg \in freeze_queue => reg \notin fq
      /\ FreezeMoves(reg, fq) /\ spill_queue' \subseteq spill_queue
      /\ spill_queue \ spill_queue' \subseteq {reg} /\ reg \notin spill_queue' /\ pc = "work"
  BY <1>1, <1>2, <1>5 DEF WorkInv
<1>7. PICK T \in SUBSET VirtualRegs(prog) : Pushes(T)
  BY <1>3, <1>6, FreezePushes DEF WorkInv
<1>8. PushesOnce(T)
  BY <1>3, <1>4, <1>6, <1>7, FreezeOnce
<1> QED BY <1>2, <1>8, PushingOnce

\* A degree that is decremented.
LEMMA SimplifyDegrees ==
  ASSUME WorkInv, CountersFit, DegreeInv, OnceInv, Simplify
  PROVE  DegreeInv'
<1>1. PICK reg, st, others :
        /\ reg = Head(simplify_queue) /\ st = [state EXCEPT ![reg] = "simplified"]
        /\ others = adjacent[reg] \ Gone(st)
  OBVIOUS
<1>2. /\ simplify_queue # <<>> /\ prog' = prog /\ adjacent' = adjacent
      /\ q_total' = [r \in Regs(prog) |->
                             IF r \in others THEN (q_total[r] - QR(r, reg)) % UInt
                             ELSE q_total[r]]
      /\ Requeue(others, q_total', st, moves, adjacent, move_queue, freeze_queue,
                      spill_queue, Tail(simplify_queue), {})
  BY <1>1 DEF Simplify
<1>3. /\ reg \in Regs(prog) /\ reg \in ToSet(simplify_queue) /\ IsProgram(prog)
      /\ state \in [Regs(prog) -> States] /\ adjacent \in [Regs(prog) -> SUBSET Regs(prog)]
  BY <1>1, <1>2, HeadAndTail, ElementsOfSeq DEF WorkInv, RoundTypes
<1>4. /\ reg \in VirtualRegs(prog) /\ state[reg] = "to_simplify"
  <2>1. reg # Precolored /\ state[reg] \in {"to_simplify", "simplified"} /\ reg \notin ToSet(select_stack)
    BY <1>3 DEF WorkInv, QueueInv, Queued, OnceInv
  <2> QED BY <2>1, <1>3 DEF WorkInv, StateInv, VirtualRegs
<1>5. PICK G : G = Gone(state)
  OBVIOUS
<1>6. Gone(st) = G \cup {reg} /\ reg \notin G /\ G \in SUBSET Regs(prog)
  BY <1>1, <1>3, <1>4, <1>5 DEF Gone
<1>7. others \in SUBSET Regs(prog) /\ others \cap Gone(st) = {}
  BY <1>1, <1>3
<1>8. Gone(state)' = G \cup {reg}
  <2>1. PICK q2, mv, adj, queued, fq, sq, queue :
          /\ q2 = q_total' /\ mv = moves /\ adj = adjacent /\ queued = move_queue
          /\ fq = freeze_queue /\ sq = spill_queue /\ queue = Tail(simplify_queue)
    OBVIOUS
  <2>2. Requeue(others, q2, st, mv, adj, queued, fq, sq, queue, {})
    BY <1>2, <2>1
  <2>3. Gone(state)' = Gone(st)
    BY <1>2, <1>7, <2>2, RequeueGone
  <2> QED BY <2>3, <1>6
<1>9. PICK q, q2, adj, more :
        /\ q = q_total /\ q2 = q_total' /\ adj = adjacent /\ more = [r \in Regs(prog) |-> {}]
  OBVIOUS
<1>10. /\ DegreesFit(q, adj, G) /\ adj \in [Regs(prog) -> SUBSET Regs(prog)]
       /\ more \in [Regs(prog) -> SUBSET Regs(prog)]
       /\ \A r \in VirtualRegs(prog) : adj[r] \cap more[r] = {} /\ adj[r] = adj[r] \cup more[r]
  BY <1>3, <1>5, <1>9 DEF DegreeInv, VirtualRegs
<1>11. \A r \in Regs(prog) : QR(r, reg) \in 1..4
  BY <1>3, ClassTypes
<1>12. ASSUME NEW r \in VirtualRegs(prog) \ (G \cup {reg})
       PROVE  q2[r] = Then(r, reg, adj[r], more[r], G, q[r]) % UInt
  <2>1. r \in Regs(prog) /\ more[r] = {} /\ q[r] \in Nat
    BY <1>9, <1>10 DEF VirtualRegs, DegreesFit, Fits
  <2>2. Added(r, {}) = 0
    <3>1. SumQ(r, {}) = 0
      <4>1. {e \in {} \X (1..4) : e[2] <= QR(r, e[1])} = {}
        OBVIOUS
      <4> QED BY <4>1, FS_EmptySet DEF SumQ
    <3> QED BY <3>1 DEF Added
  <2>3. r \in others <=> reg \in adj[r] \ G
    BY <2>1, <1>1, <1>3, <1>6, <1>9 DEF WorkInv, EdgeInv
  <2>4. CASE r \in others
    <3>1. q2[r] = (q[r] - QR(r, reg)) % UInt
      BY <2>1, <2>4, <1>2, <1>9
    <3>2. Then(r, reg, adj[r], more[r], G, q[r]) = q[r] + 0 - QR(r, reg)
      BY <2>1, <2>2, <2>3, <2>4 DEF Then, Lost
    <3>3. q[r] + 0 - QR(r, reg) = q[r] - QR(r, reg)
      BY <2>1, <1>11
    <3> QED BY <3>1, <3>2, <3>3
  <2>5. CASE r \notin others
    <3>1. q2[r] = q[r]
      BY <2>1, <2>5, <1>2, <1>9
    <3>2. Then(r, reg, adj[r], more[r], G, q[r]) = q[r] + 0 - 0
      BY <2>1, <2>2, <2>3, <2>5 DEF Then, Lost
    <3>3. q[r] % UInt = q[r]
      <4>1. r \in Regs(prog) /\ adj[r] \in SUBSET Regs(prog) /\ Fits(r, q[r], adj[r], G)
        BY <2>1, <1>10 DEF DegreesFit
      <4>2. SumQ(r, adj[r]) <= 4 * Cardinality(Regs(prog)) /\ SumQ(r, adj[r]) \in Nat
            /\ Cardinality(Regs(prog)) \in Nat
        BY <4>1, <1>3, SumQBound
      <4>3. q[r] <= SumQ(r, adj[r]) + 4
        BY <4>1, <4>2 DEF Fits
      <4>4. 4 * (Cardinality(Regs(prog)) + 1) < UInt
        BY DEF CountersFit
      <4>5. q[r] < UInt
        BY <4>2, <4>3, <4>4, <2>1 DEF UInt
      <4> QED BY <4>5, <2>1 DEF UInt
    <3> QED BY <3>1, <3>2, <3>3, <2>1
  <2> QED BY <2>4, <2>5
<1>13. q2[Precolored] \in { q[Precolored] % UInt, (q[Precolored] - 1) % UInt }
  <2>1. QR(Precolored, reg) = 1 /\ Precolored \in Regs(prog)
    BY <1>3, PrecoloredClass, FiniteProgram
  <2>2. q[Precolored] \in Nat /\ q[Precolored] < UInt
    BY <1>10 DEF DegreesFit
  <2>3. q[Precolored] % UInt = q[Precolored]
    BY <2>2 DEF UInt
  <2> QED BY <2>1, <2>3, <1>2, <1>9
<1>14. DegreesFit(q2, adj, G \cup {reg})
  BY <1>3, <1>4, <1>6, <1>10, <1>12, <1>13, DegreesStep
<1> QED BY <1>2, <1>8, <1>9, <1>14, SameDegrees

LEMMA SimplifyOnce ==
  ASSUME WorkInv, PrecoloredStays', OnceInv, Simplify
  PROVE  OnceInv'
<1>1. PICK reg, st, others, q2, queue :
        /\ reg = Head(simplify_queue) /\ st = [state EXCEPT ![reg] = "simplified"]
        /\ others = adjacent[reg] \ Gone(st) /\ q2 = q_total' /\ queue = Tail(simplify_queue)
  OBVIOUS
<1>2. /\ simplify_queue # <<>> /\ prog' = prog
      /\ select_stack' = Append(select_stack, reg)
      /\ q2 = [r \in Regs(prog) |->
                     IF r \in others THEN (q_total[r] - QR(r, reg)) % UInt ELSE q_total[r]]
      /\ Requeue(others, q2, st, moves, adjacent, move_queue, freeze_queue, spill_queue, queue, {})
  BY <1>1 DEF Simplify
<1>3. /\ reg \in Regs(prog) /\ reg \in ToSet(simplify_queue) /\ IsProgram(prog)
      /\ state \in [Regs(prog) -> States] /\ adjacent \in [Regs(prog) -> SUBSET Regs(prog)]
      /\ q_total \in [Regs(prog) -> Nat] /\ move_queue \in SUBSET Moves(prog)
      /\ freeze_queue \in SUBSET Regs(prog) /\ spill_queue \in SUBSET Regs(prog)
      /\ queue \in Seq(Regs(prog)) /\ simplify_queue \in Seq(Regs(prog))
      /\ ToSet(simplify_queue) = {reg} \cup ToSet(queue)
  BY <1>1, <1>2, HeadAndTail, ElementsOfSeq DEF WorkInv, RoundTypes
<1>4. IsInjective(queue) /\ reg \notin ToSet(queue)
  BY <1>1, <1>2, <1>3, TailInjective DEF OnceInv
\* What waits in the simplify queue is not on the stack yet.
<1>5. \A r \in ToSet(simplify_queue) : r \in VirtualRegs(prog) /\ state[r] = "to_simplify"
  <2> SUFFICES ASSUME NEW r \in ToSet(simplify_queue)
               PROVE  r \in VirtualRegs(prog) /\ state[r] = "to_simplify"
    OBVIOUS
  <2>1. /\ r # Precolored /\ state[r] \in {"to_simplify", "simplified"} /\ r \notin ToSet(select_stack)
        /\ r \in Regs(prog)
    BY <1>3, ElementsOfSeq DEF WorkInv, QueueInv, Queued, OnceInv
  <2> QED BY <2>1 DEF WorkInv, StateInv, VirtualRegs
<1>6. /\ st \in [Regs(prog) -> States]
      /\ \A r \in Regs(prog) : st[r] = IF r = reg THEN "simplified" ELSE state[r]
  BY <1>1, <1>3 DEF States
<1>7. /\ others \in SUBSET Regs(prog)
      /\ \A r \in others : st[r] \notin {"simplified", "coalesced"} /\ r # reg
  BY <1>1, <1>3, <1>6 DEF Gone
<1>8. \A r \in others : q2[r] < PR(r) => st[r] \in {"to_simplify", "to_freeze", "to_spill"}
  <2> SUFFICES ASSUME NEW r \in others, q2[r] < PR(r)
               PROVE  st[r] \in {"to_simplify", "to_freeze", "to_spill"}
    OBVIOUS
  <2>1. r # Precolored
    <3> SUFFICES ASSUME r = Precolored PROVE FALSE
      OBVIOUS
    <3>1. q2[Precolored] >= PR(Precolored) /\ q2[Precolored] < PR(Precolored)
      <4>1. pc' = "work" /\ PR(Precolored)' = PR(Precolored)
        BY <1>2 DEF Simplify, PR, Class
      <4> QED BY <4>1, <1>1 DEF PrecoloredStays
    <3>2. q2[Precolored] \in Nat /\ PR(Precolored) \in Nat
      <4>1. Precolored \in Regs(prog)
        BY <1>3, FiniteProgram
      <4>2. q_total[Precolored] \in Nat /\ QR(Precolored, reg) \in 1..4 /\ PR(Precolored) \in Nat
        BY <4>1, <1>3, ClassTypes
      <4>3. (q_total[Precolored] - QR(Precolored, reg)) % UInt \in Nat
        BY <4>2 DEF UInt
      <4> QED BY <4>1, <4>2, <4>3, <1>2
    <3> QED BY <3>1, <3>2
  <2>2. r \in VirtualRegs(prog) /\ st[r] = state[r]
    BY <2>1, <1>6, <1>7 DEF VirtualRegs
  <2> QED BY <2>2, <1>7 DEF WorkInv, StateInv
<1>9. \A r \in ToSet(queue) : st[r] = "to_simplify"
  <2>1. \A r \in ToSet(queue) : r \in Regs(prog)
    BY <1>3, ElementsOfSeq
  <2> QED BY <2>1, <1>3, <1>4, <1>5, <1>6
<1>10. \A r \in spill_queue : st[r] = "to_spill" /\ state[r] = "to_spill" /\ r # reg
  BY <1>3, <1>5, <1>6 DEF OnceInv
<1>11. RequeuedOnce(others, q2, st, spill_queue, {})
  <2>1. PICK mv, adj, queued, fq, sq :
          /\ mv = moves /\ adj = adjacent /\ queued = move_queue
          /\ fq = freeze_queue /\ sq = spill_queue
    OBVIOUS
  <2>2. Requeue(others, q2, st, mv, adj, queued, fq, sq, queue, {})
    BY <1>2, <2>1
  <2>3. /\ fq \in SUBSET Regs(prog) /\ sq \in SUBSET Regs(prog) /\ {} \in SUBSET Regs(prog)
        /\ queued \in SUBSET Moves(prog) /\ \A r \in sq : st[r] = "to_spill"
    BY <2>1, <1>3, <1>10
  <2>4. RequeuedOnce(others, q2, st, sq, {})
    BY <2>2, <2>3, <1>3, <1>4, <1>6, <1>7, <1>8, <1>9, RequeueOnce
  <2> QED BY <2>1, <2>4
<1>12. ToSet(simplify_queue') \cap ToSet(select_stack') = {}
  <2>1. ToSet(select_stack') = ToSet(select_stack) \cup {reg}
    BY <1>2, <1>3, AppendedElement DEF WorkInv, RoundTypes
  <2>2. \A r \in ToSet(simplify_queue') : st[r] \in {"to_simplify", "to_spill"}
    BY <1>11 DEF RequeuedOnce
  <2>3. \A r \in ToSet(simplify_queue') : r \in ToSet(queue) \/ st[r] = "to_spill"
    <3>1. Requeued(st, moves, move_queue, freeze_queue, spill_queue, queue)
      <4>1. PICK mv, adj, queued, fq, sq :
              /\ mv = moves /\ adj = adjacent /\ queued = move_queue
              /\ fq = freeze_queue /\ sq = spill_queue
        OBVIOUS
      <4>2. Requeue(others, q2, st, mv, adj, queued, fq, sq, queue, {})
        BY <1>2, <4>1
      <4>3. /\ fq \in SUBSET Regs(prog) /\ sq \in SUBSET Regs(prog) /\ {} \in SUBSET Regs(prog)
            /\ queued \in SUBSET Moves(prog) /\ active_moves \subseteq Moves(prog)
        BY <4>1, <1>3 DEF WorkInv, RoundTypes
      <4>4. \A r \in fq : st[r] = "to_freeze"
        BY <4>1, <1>3, <1>5, <1>6 DEF WorkInv, QueueInv
      <4>5. Requeued(st, mv, queued, fq, sq, queue)
        BY <4>2, <4>3, <4>4, <1>3, <1>6, <1>7, <1>8, RequeueEffect
      <4> QED BY <4>1, <4>5
    <3> QED BY <3>1 DEF Requeued
  <2>4. ASSUME NEW r \in ToSet(simplify_queue'), r \in ToSet(select_stack') PROVE FALSE
    <3>1. CASE r \in ToSet(queue)
      BY <3>1, <2>1, <2>4, <1>3, <1>4 DEF OnceInv
    <3>2. CASE st[r] = "to_spill"
      <4>1. r \in Regs(prog) /\ r # reg
        <5>1. \A s \in ToSet(select_stack) : s \in Regs(prog)
          BY ElementsOfSeq DEF WorkInv, RoundTypes
        <5> QED BY <5>1, <3>2, <2>1, <2>4, <1>3, <1>6
      <4> QED BY <4>1, <3>2, <2>1, <2>4, <1>6 DEF WorkInv, QueueInv
    <3> QED BY <3>1, <3>2, <2>3
  <2> QED BY <2>4
<1>13. ASSUME NEW r \in spill_queue'
       PROVE  state'[r] = "to_spill" /\ q_total'[r] >= PR(r)'
  <2>1. /\ state'[r] = "to_spill" /\ r \in spill_queue /\ (r \in others => ~ q2[r] < PR(r))
    BY <1>11 DEF RequeuedOnce
  <2>2. PR(r)' = PR(r) /\ r \in Regs(prog)
    BY <2>1, <1>2, <1>3 DEF PR, Class
  <2>3. CASE r \in others
    <3>1. q2[r] \in Nat /\ PR(r) \in Nat
      <4>1. q_total[r] \in Nat /\ QR(r, reg) \in 1..4 /\ PR(r) \in Nat
        BY <2>2, <1>3, ClassTypes
      <4>2. (q_total[r] - QR(r, reg)) % UInt \in Nat
        BY <4>1 DEF UInt
      <4> QED BY <2>2, <2>3, <4>1, <4>2, <1>2
    <3> QED BY <2>1, <2>2, <2>3, <3>1, <1>1
  <2>4. CASE r \notin others
    <3>1. q2[r] = q_total[r]
      BY <2>2, <2>4, <1>2
    <3> QED BY <2>1, <2>2, <3>1, <1>1 DEF OnceInv
  <2> QED BY <2>3, <2>4
<1>14. IsInjective(simplify_queue')
  BY <1>11 DEF RequeuedOnce
<1> QED BY <1>12, <1>13, <1>14 DEF OnceInv

\* The edges that add_move_edge gives to r, when `seen' are those of dst.
NewEdges(dst, new, seen, r) ==
    IF r = dst THEN seen ELSE IF r \in new THEN {dst} ELSE {}

Combined(src, dst, others, new, seen, r, B) ==
    /\ B \in SUBSET Regs(prog) /\ adjacent[r] \cap B = {}
    /\ Degrees(src, dst, others, new, seen)[r]
         = Then(r, src, adjacent[r], B, Gone(state), q_total[r]) % UInt
    /\ ThenFits(r, src, adjacent[r], B, Gone(state), q_total[r])
    /\ r \in others <=> src \in adjacent[r] \ Gone(state)

\* Coalescing src with dst takes src out of the graph and adds those edges.
LEMMA CombineDegree ==
  ASSUME WorkInv, CountersFit, DegreeInv,
         NEW src \in VirtualRegs(prog), NEW dst \in Regs(prog), src # dst,
         state[src] \in {"to_freeze", "to_spill"},
         NEW others, others = adjacent[src] \ Gone([state EXCEPT ![src] = "coalesced"]),
         NEW new, new = others \ adjacent[dst], NEW seen \in SUBSET new,
         NEW r \in VirtualRegs(prog) \ (Gone(state) \cup {src}),
         NEW B, B = NewEdges(dst, new, seen, r)
  PROVE  Combined(src, dst, others, new, seen, r, B)
<1>1. /\ src \in Regs(prog) /\ r \in Regs(prog) /\ r # Precolored /\ r # src /\ r \notin Gone(state)
      /\ state \in [Regs(prog) -> States] /\ adjacent \in [Regs(prog) -> SUBSET Regs(prog)]
      /\ q_total \in [Regs(prog) -> Nat] /\ IsProgram(prog)
  BY DEF VirtualRegs, WorkInv, RoundTypes
<1>2. /\ others \in SUBSET Regs(prog)
      /\ \A s \in Regs(prog) : s \in others <=> s \in adjacent[src] /\ s # src /\ s \notin Gone(state)
  BY <1>1 DEF Gone
<1>3. src \notin Gone(state)
  BY DEF Gone
<1>4. r \in others <=> src \in adjacent[r] \ Gone(state)
  BY <1>1, <1>2, <1>3 DEF WorkInv, EdgeInv
<1>5. B \in SUBSET Regs(prog)
  BY <1>2 DEF NewEdges
<1>6. adjacent[r] \cap B = {}
  <2>1. CASE r = dst
    BY <2>1 DEF NewEdges
  <2>2. CASE r # dst /\ r \in new
    <3>1. dst \notin adjacent[r]
      BY <2>2, <1>1 DEF WorkInv, EdgeInv
    <3> QED BY <2>2, <3>1 DEF NewEdges
  <2>3. CASE r # dst /\ r \notin new
    BY <2>3 DEF NewEdges
  <2> QED BY <2>1, <2>2, <2>3
<1>7. PICK A, G, n : A = adjacent[r] /\ G = Gone(state) /\ n = q_total[r]
  OBVIOUS
<1>8. /\ A \in SUBSET Regs(prog) /\ G \in SUBSET Regs(prog) /\ Fits(r, n, A, G) /\ A \cap B = {}
  BY <1>1, <1>6, <1>7 DEF Gone, DegreeInv, DegreesFit
<1>9. ThenFits(r, src, A, B, G, n)
  BY <1>1, <1>5, <1>8, DegreeStep
<1>10. Degrees(src, dst, others, new, seen)[r]
         = (n + Raise(r, B) - (IF r \in others THEN QR(r, src) ELSE 0)) % UInt
  BY <1>1, <1>7 DEF Degrees, NewEdges
<1>11. Raise(r, B) = Added(r, B)
  BY <1>1 DEF Raise, Added
<1>12. (IF r \in others THEN QR(r, src) ELSE 0) = Lost(r, src, A, G)
  BY <1>4, <1>7 DEF Lost
<1>13. Degrees(src, dst, others, new, seen)[r] = Then(r, src, A, B, G, n) % UInt
  BY <1>10, <1>11, <1>12 DEF Then
<1> QED BY <1>4, <1>5, <1>6, <1>7, <1>9, <1>13 DEF Combined

LEMMA CombineDegrees ==
  ASSUME WorkInv, CountersFit, DegreeInv, prog' = prog,
         NEW src \in VirtualRegs(prog), NEW dst \in Regs(prog), src # dst,
         state[src] \in {"to_freeze", "to_spill"},
         NEW swizzle, NEW queued, Combine(src, dst, swizzle, queued)
  PROVE  DegreeInv'
<1>1. PICK st, others, new, fq, sq :
         /\ st = [state EXCEPT ![src] = "coalesced"]
         /\ others = adjacent[src] \ Gone(st)
         /\ new = others \ adjacent[dst]
         /\ fq = freeze_queue \ (IF state[src] = "to_freeze" THEN {src} ELSE {})
         /\ sq = spill_queue \ (IF state[src] = "to_freeze" THEN {} ELSE {src})
  OBVIOUS
<1>2. PICK seen \in SUBSET new :
         Requeue(others, Degrees(src, dst, others, new, seen), st,
                 UnionMoves(src, dst), Linked(dst, new, seen), queued, fq, sq, <<>>,
                 IF q_total'[dst] >= PR(dst) THEN {dst} ELSE {})
  BY <1>1 DEF Combine
<1>3. adjacent' = Linked(dst, new, new) /\ q_total' = Degrees(src, dst, others, new, new)
  BY <1>1 DEF Combine
<1>4. /\ src \in Regs(prog) /\ Precolored \in Regs(prog) /\ IsProgram(prog)
      /\ state \in [Regs(prog) -> States] /\ adjacent \in [Regs(prog) -> SUBSET Regs(prog)]
      /\ q_total \in [Regs(prog) -> Nat]
  BY FiniteProgram DEF VirtualRegs, WorkInv, RoundTypes
<1>5. PICK G : G = Gone(state)
  OBVIOUS
<1>6. Gone(st) = G \cup {src} /\ src \notin G /\ G \in SUBSET Regs(prog)
  BY <1>1, <1>4, <1>5 DEF Gone
<1>7. others \in SUBSET Regs(prog) /\ others \cap Gone(st) = {} /\ new \in SUBSET Regs(prog)
  BY <1>1, <1>4
<1>8. Gone(state)' = G \cup {src}
  <2>1. PICK q, mv, adj, full :
          /\ q = Degrees(src, dst, others, new, seen) /\ mv = UnionMoves(src, dst)
          /\ adj = Linked(dst, new, seen) /\ full = IF q_total'[dst] >= PR(dst) THEN {dst} ELSE {}
    OBVIOUS
  <2>2. Requeue(others, q, st, mv, adj, queued, fq, sq, <<>>, full)
    BY <1>2, <2>1
  <2>3. Gone(state)' = Gone(st)
    BY <1>7, <2>2, RequeueGone
  <2> QED BY <2>3, <1>6
<1>9. PICK q, q2, adj, adj2, more :
        /\ q = q_total /\ q2 = q_total' /\ adj = adjacent /\ adj2 = adjacent'
        /\ more = [r \in Regs(prog) |-> NewEdges(dst, new, new, r)]
  OBVIOUS
<1>10. /\ DegreesFit(q, adj, G) /\ adj \in [Regs(prog) -> SUBSET Regs(prog)]
       /\ more \in [Regs(prog) -> SUBSET Regs(prog)]
  <2>1. \A r \in Regs(prog) : NewEdges(dst, new, new, r) \in SUBSET Regs(prog)
    BY <1>7 DEF NewEdges
  <2> QED BY <2>1, <1>4, <1>5, <1>9 DEF DegreeInv
<1>11. ASSUME NEW r \in VirtualRegs(prog)
       PROVE  adj[r] \cap more[r] = {} /\ adj2[r] = adj[r] \cup more[r]
  <2>1. r \in Regs(prog) /\ more[r] = NewEdges(dst, new, new, r)
    BY <1>9 DEF VirtualRegs
  <2>2. adj2[r] = IF r = dst THEN adj[r] \cup new
                  ELSE IF r \in new THEN adj[r] \cup {dst} ELSE adj[r]
    BY <2>1, <1>3, <1>9 DEF Linked
  <2>3. CASE r = dst
    BY <2>1, <2>2, <2>3, <1>1, <1>9 DEF NewEdges
  <2>4. CASE r # dst /\ r \in new
    <3>1. dst \notin adj[r]
      BY <2>1, <2>4, <1>1, <1>9 DEF WorkInv, EdgeInv
    <3> QED BY <2>1, <2>2, <2>4, <3>1 DEF NewEdges
  <2>5. CASE r # dst /\ r \notin new
    BY <2>1, <2>2, <2>5 DEF NewEdges
  <2> QED BY <2>3, <2>4, <2>5
<1>12. ASSUME NEW r \in VirtualRegs(prog) \ (G \cup {src})
       PROVE  q2[r] = Then(r, src, adj[r], more[r], G, q[r]) % UInt
  <2>1. PICK B : B = NewEdges(dst, new, new, r)
    OBVIOUS
  <2>2. Degrees(src, dst, others, new, new)[r]
          = Then(r, src, adjacent[r], B, Gone(state), q_total[r]) % UInt
    <3>1. PICK all : all = new
      OBVIOUS
    <3>2. /\ r \in VirtualRegs(prog) \ (Gone(state) \cup {src}) /\ all \in SUBSET new
          /\ others = adjacent[src] \ Gone([state EXCEPT ![src] = "coalesced"])
          /\ new = others \ adjacent[dst] /\ B = NewEdges(dst, new, all, r)
      BY <3>1, <2>1, <1>1, <1>5
    <3>3. Combined(src, dst, others, new, all, r, B)
      BY <3>2, CombineDegree
    <3> QED BY <3>1, <3>3 DEF Combined
  <2>3. r \in Regs(prog)
    BY DEF VirtualRegs
  <2> QED BY <2>1, <2>2, <2>3, <1>3, <1>5, <1>9
<1>13. q2[Precolored] \in { q[Precolored] % UInt, (q[Precolored] - 1) % UInt }
  <2>1. QR(Precolored, src) = 1
    BY <1>4, PrecoloredClass
  <2>2. q[Precolored] \in Nat
    BY <1>10 DEF DegreesFit
  <2>3. \A S : Raise(Precolored, S) = 0
    BY DEF Raise
  <2>4. q2[Precolored] = (q[Precolored] + 0 - (IF Precolored \in others THEN 1 ELSE 0)) % UInt
    BY <2>1, <2>3, <1>3, <1>4, <1>9 DEF Degrees
  <2>5. q[Precolored] + 0 - 1 = q[Precolored] - 1 /\ q[Precolored] + 0 - 0 = q[Precolored]
    BY <2>2
  <2> QED BY <2>4, <2>5
<1>14. DegreesFit(q2, adj2, G \cup {src})
  BY <1>4, <1>6, <1>10, <1>11, <1>12, <1>13, DegreesStep
<1> QED BY <1>8, <1>9, <1>14, SameDegrees

LEMMA CombineOnce ==
  ASSUME WorkInv, CountersFit, PrecoloredStays', DegreeInv, OnceInv,
         prog' = prog, pc' = pc, select_stack' = select_stack, simplify_queue = <<>>,
         NEW src \in VirtualRegs(prog), NEW dst \in Regs(prog), src # dst,
         state[src] \in {"to_freeze", "to_spill"},
         NEW swizzle, NEW queued \in SUBSET move_queue, Combine(src, dst, swizzle, queued)
  PROVE  OnceInv'
<1>1. PICK st, others, new, fq, sq, full :
         /\ st = [state EXCEPT ![src] = "coalesced"]
         /\ others = adjacent[src] \ Gone(st)
         /\ new = others \ adjacent[dst]
         /\ fq = freeze_queue \ (IF state[src] = "to_freeze" THEN {src} ELSE {})
         /\ sq = spill_queue \ (IF state[src] = "to_freeze" THEN {} ELSE {src})
         /\ full = IF q_total'[dst] >= PR(dst) THEN {dst} ELSE {}
  OBVIOUS
<1>2. PICK seen \in SUBSET new :
         Requeue(others, Degrees(src, dst, others, new, seen), st,
                 UnionMoves(src, dst), Linked(dst, new, seen), queued, fq, sq, <<>>, full)
  BY <1>1 DEF Combine
<1>3. q_total' = Degrees(src, dst, others, new, new)
  BY <1>1 DEF Combine
<1>4. PICK q, all : q = Degrees(src, dst, others, new, seen) /\ all = new
  OBVIOUS
<1>5. /\ src \in Regs(prog) /\ Precolored \in Regs(prog) /\ IsProgram(prog)
      /\ state \in [Regs(prog) -> States] /\ adjacent \in [Regs(prog) -> SUBSET Regs(prog)]
      /\ q_total \in [Regs(prog) -> Nat]
      /\ queued \in SUBSET Moves(prog) /\ freeze_queue \in SUBSET Regs(prog)
      /\ spill_queue \in SUBSET Regs(prog)
  BY FiniteProgram DEF VirtualRegs, WorkInv, RoundTypes
<1>6. /\ st \in [Regs(prog) -> States]
      /\ \A r \in Regs(prog) : st[r] = IF r = src THEN "coalesced" ELSE state[r]
  BY <1>1, <1>5 DEF States
<1>7. /\ others \in SUBSET Regs(prog) /\ new \in SUBSET Regs(prog)
      /\ \A r \in others : st[r] \notin {"simplified", "coalesced"} /\ r # src
  BY <1>1, <1>5, <1>6 DEF Gone
\* What is left of the spill queue.
<1>8. \A r \in sq : /\ r \in VirtualRegs(prog) \ (Gone(state) \cup {src})
                    /\ st[r] = "to_spill" /\ state[r] = "to_spill" /\ q_total[r] >= PR(r)
  <2> SUFFICES ASSUME NEW r \in sq
               PROVE  /\ r \in VirtualRegs(prog) \ (Gone(state) \cup {src})
                      /\ st[r] = "to_spill" /\ state[r] = "to_spill" /\ q_total[r] >= PR(r)
    OBVIOUS
  <2>1. /\ r \in spill_queue /\ r \in Regs(prog) /\ state[r] = "to_spill" /\ q_total[r] >= PR(r)
        /\ r # Precolored
    BY <1>1, <1>5 DEF OnceInv, WorkInv, QueueInv, Queued
  <2>2. r # src
    BY <2>1, <1>1
  <2> QED BY <2>1, <2>2, <1>6 DEF Gone, VirtualRegs
<1>9. q[Precolored] = q_total'[Precolored] /\ q[Precolored] >= PR(Precolored)
  <2>1. \A S : Raise(Precolored, S) = 0
    BY DEF Raise
  <2>2. \A S : Degrees(src, dst, others, new, S)[Precolored]
                 = (q_total[Precolored] + 0 - (IF Precolored \in others THEN QR(Precolored, src) ELSE 0)) % UInt
    BY <2>1, <1>5 DEF Degrees
  <2>3. q[Precolored] = q_total'[Precolored]
    BY <2>2, <1>3, <1>4
  <2>4. pc' = "work" /\ PR(Precolored)' = PR(Precolored)
    BY DEF WorkInv, PR, Class
  <2> QED BY <2>3, <2>4 DEF PrecoloredStays
<1>10. q \in [Regs(prog) -> Nat] /\ q_total' \in [Regs(prog) -> Nat]
  <2>1. seen \in SUBSET Regs(prog)
    BY <1>7
  <2> QED BY <2>1, <1>3, <1>4, <1>5, <1>7, DegreesTypes
<1>11. \A r \in others : q[r] < PR(r) => st[r] \in {"to_simplify", "to_freeze", "to_spill"}
  <2> SUFFICES ASSUME NEW r \in others, q[r] < PR(r)
               PROVE  st[r] \in {"to_simplify", "to_freeze", "to_spill"}
    OBVIOUS
  <2>1. r # Precolored
    <3>1. q[Precolored] \in Nat /\ PR(Precolored) \in Nat
      BY <1>5, <1>10, ClassTypes
    <3> QED BY <3>1, <1>9
  <2>2. r \in VirtualRegs(prog) /\ st[r] = state[r]
    BY <2>1, <1>6, <1>7 DEF VirtualRegs
  <2> QED BY <2>2, <1>7 DEF WorkInv, StateInv
<1>12. RequeuedOnce(others, q, st, sq, full)
  <2>1. PICK mv, adj, queue :
          mv = UnionMoves(src, dst) /\ adj = Linked(dst, new, seen) /\ queue = <<>>
    OBVIOUS
  <2>2. Requeue(others, q, st, mv, adj, queued, fq, sq, queue, full)
    BY <1>2, <1>4, <2>1
  <2>3. queue \in Seq(Regs(prog)) /\ IsInjective(queue) /\ \A r \in ToSet(queue) : st[r] = "to_simplify"
    BY <2>1 DEF ToSet, IsInjective
  <2>4. /\ fq \in SUBSET Regs(prog) /\ sq \in SUBSET Regs(prog) /\ full \in SUBSET Regs(prog)
        /\ \A r \in sq : st[r] = "to_spill"
    BY <1>1, <1>5, <1>8
  <2> QED BY <2>2, <2>3, <2>4, <1>5, <1>6, <1>7, <1>11, RequeueOnce
<1>13. ToSet(simplify_queue') \cap ToSet(select_stack') = {}
  <2>1. \A r \in ToSet(simplify_queue') : st[r] \in {"to_simplify", "to_spill"}
    BY <1>12 DEF RequeuedOnce
  <2>2. \A r \in ToSet(select_stack') : st[r] = "simplified"
    <3> SUFFICES ASSUME NEW r \in ToSet(select_stack) PROVE st[r] = "simplified"
      OBVIOUS
    <3>1. r \in Regs(prog) /\ r # Precolored /\ state[r] \in {"to_simplify", "simplified"}
      BY ElementsOfSeq DEF WorkInv, RoundTypes, QueueInv, Queued
    <3>2. state[r] # "to_simplify"
      <4>1. ToSet(simplify_queue) = {}
        BY DEF ToSet
      <4> QED BY <3>1, <4>1 DEF WorkInv, StateInv, VirtualRegs
    <3> QED BY <3>1, <3>2, <1>6
  <2> QED BY <2>1, <2>2
<1>14. ASSUME NEW r \in sq, r \in others => ~ q[r] < PR(r)
       PROVE  q_total'[r] >= PR(r)
  <2>1. PICK A, G, n, B, C :
          /\ A = adjacent[r] /\ G = Gone(state) /\ n = q_total[r]
          /\ B = NewEdges(dst, new, seen, r) /\ C = NewEdges(dst, new, all, r)
    OBVIOUS
  <2>2. r \in VirtualRegs(prog) \ (Gone(state) \cup {src}) /\ r \in Regs(prog) /\ all \in SUBSET new
    BY <1>4, <1>8 DEF VirtualRegs
  <2>3. others = adjacent[src] \ Gone([state EXCEPT ![src] = "coalesced"])
    BY <1>1
  <2>4. Combined(src, dst, others, new, seen, r, B)
    BY <2>1, <2>2, <2>3, <1>1, CombineDegree
  <2>5. Combined(src, dst, others, new, all, r, C)
    BY <2>1, <2>2, <2>3, <1>1, CombineDegree
  <2>6. /\ q[r] = Then(r, src, A, B, G, n) /\ q_total'[r] = Then(r, src, A, C, G, n)
        /\ Lost(r, src, A, G) \in Nat /\ Added(r, B) \in Nat /\ Added(r, C) \in Nat
        /\ r \in others <=> src \in A \ G
    BY <2>1, <2>4, <2>5, <1>3, <1>4 DEF Combined, ThenFits
  <2>7. n \in Nat /\ PR(r) \in Nat /\ n >= PR(r)
    BY <2>1, <2>2, <1>5, <1>8, ClassTypes
  <2>8. CASE r \notin others
    <3>1. Lost(r, src, A, G) = 0
      BY <2>6, <2>8 DEF Lost
    <3> QED BY <2>6, <2>7, <3>1 DEF Then
  <2>9. CASE r \in others
    <3>1. Added(r, B) <= Added(r, C)
      <4>1. B \in SUBSET C /\ C \in SUBSET Regs(prog)
        BY <2>1, <1>4, <1>7 DEF NewEdges
      <4>2. SumQ(r, B) <= SumQ(r, C) /\ SumQ(r, B) \in Nat /\ SumQ(r, C) \in Nat
        BY <4>1, <1>5, SumQMore
      <4>3. QR(r, r) \in 1..4
        BY <2>2, <1>5, ClassTypes
      <4> QED BY <4>1, <4>2, <4>3 DEF Added
    <3>2. q[r] >= PR(r)
      BY <2>2, <2>7, <2>9, <1>10, <1>14
    <3> QED BY <2>6, <2>7, <3>1, <3>2 DEF Then
  <2> QED BY <2>8, <2>9
<1>15. ASSUME NEW r \in spill_queue'
       PROVE  state'[r] = "to_spill" /\ q_total'[r] >= PR(r)'
  <2>1. /\ state'[r] = "to_spill"
        /\ r \in full \/ (r \in sq /\ (r \in others => ~ q[r] < PR(r)))
    BY <1>12 DEF RequeuedOnce
  <2>2. PR(r)' = PR(r)
    BY DEF PR, Class
  <2> QED BY <2>1, <2>2, <1>1, <1>14
<1>16. IsInjective(simplify_queue')
  BY <1>12 DEF RequeuedOnce
<1> QED BY <1>13, <1>15, <1>16 DEF OnceInv

LEMMA CoalesceMatch ==
  ASSUME WorkInv, CountersFit, DegreeInv, OnceInv, Coalesce
  PROVE  DegreeInv' /\ (PrecoloredStays' => OnceInv')
<1>1. PICK m \in move_queue :
          /\ From(prog.code[m]) # Into(prog.code[m])
          /\ \E swizzle \in Swizzles(From(prog.code[m]), Into(prog.code[m]), Pairs(prog.code[m])) :
                Combine(From(prog.code[m]), Into(prog.code[m]), swizzle, move_queue \ {m})
  BY DEF Coalesce
<1>2. PICK src, dst, queued :
          src = From(prog.code[m]) /\ dst = Into(prog.code[m]) /\ queued = move_queue \ {m}
  OBVIOUS
<1>3. PICK swizzle : Combine(src, dst, swizzle, queued)
  BY <1>1, <1>2
<1>4. /\ src \in Regs(prog) /\ dst \in Regs(prog)
      /\ state[src] \in {"initial", "to_freeze", "to_spill"}
  BY <1>2, MoveEnds DEF From, Into
<1>5. src \in VirtualRegs(prog) /\ src # dst
  BY <1>1, <1>2, <1>4, MergedIsVirtual DEF VirtualRegs
<1>6. state[src] \in {"to_freeze", "to_spill"}
  BY <1>4, <1>5 DEF WorkInv, StateInv
<1>7. /\ prog' = prog /\ pc' = pc /\ select_stack' = select_stack
      /\ queued \in SUBSET move_queue /\ simplify_queue = <<>>
  BY <1>2 DEF Coalesce, Trying
<1>8. DegreeInv'
  BY <1>3, <1>4, <1>5, <1>6, <1>7, CombineDegrees
<1> QED BY <1>3, <1>4, <1>5, <1>6, <1>7, <1>8, CombineOnce

\* At the start of a round.
LEMMA StartRoundMatch ==
  ASSUME IsProgram(prog), CountersFit, StartRound
  PROVE  DegreeInv' /\ OnceInv'
<1>1. /\ adjacent' = Coarse
      /\ q_total' = [r \in Regs(prog) |-> InitQTotal(r, adjacent')]
      /\ state' = [r \in Regs(prog) |-> InitState(r, q_total'[r], moves'[r])]
      /\ simplify_queue' \in Ascending({r \in Regs(prog) : state'[r] = "to_simplify"})
      /\ spill_queue' = {r \in Regs(prog) : state'[r] = "to_spill"}
      /\ select_stack' = <<>>
  BY DEF StartRound, Coarse
<1>2. PICK p : p = prog'
  OBVIOUS
<1>3. p.size = prog.size /\ p.beginning = prog.beginning /\ p.code = prog.code
  BY <1>2 DEF StartRound
<1>4. Regs(p) = Regs(prog) /\ VirtualRegs(p) = VirtualRegs(prog)
  BY <1>3 DEF Regs, VirtualRegs
<1>5. /\ \A r : Class(r)' = Class(r) /\ PR(r)' = PR(r)
      /\ \A r, s : QR(r, s)' = QR(r, s)
      /\ \A r, S : SumQ(r, S)' = SumQ(r, S)
  <2>1. \A r : Class(r)' = Class(r)
    BY <1>2, <1>3 DEF Class, get_reg_class
  <2>2. \A r : PR(r)' = PR(r)
    BY <2>1 DEF PR
  <2>3. \A r, s : QR(r, s)' = QR(r, s)
    BY <2>1 DEF QR
  <2> QED BY <2>1, <2>2, <2>3 DEF SumQ
<1>6. /\ IsFiniteSet(Regs(prog)) /\ Precolored \in Regs(prog) /\ NumPhys \in Nat
      /\ \A r \in Regs(prog) : adjacent'[r] \in SUBSET Regs(prog)
  <2>1. \A r \in Regs(prog) : { s \in Regs(prog) : \E i, j \in Component :
                                  <<<<r, i>>, <<s, j>>>> \in DetailedMatrix(prog) } \in SUBSET Regs(prog)
    OBVIOUS
  <2> QED BY <2>1, <1>1, FiniteProgram, NumPhysAssumption DEF Coarse, CoarseMatrix
<1>7. Gone(state)' = {}
  <2>1. \A r \in Regs(prog) : state'[r] \notin {"simplified", "coalesced"}
    BY <1>1 DEF InitState
  <2> QED BY <2>1, <1>2, <1>4 DEF Gone
<1>8. PICK q, adj : q = q_total' /\ adj = adjacent'
  OBVIOUS
<1>9. ASSUME NEW r \in VirtualRegs(prog)
       PROVE  Fits(r, q[r], adj[r], {})'
  <2>1. PICK A, n : A = adj[r] /\ n = q[r]
    OBVIOUS
  <2>2. n = SumQ(r, A) /\ SumQ(r, A) \in Nat
    <3>1. r \in Regs(prog) /\ r # Precolored
      BY DEF VirtualRegs
    <3>2. SumQ(r, A) \in Nat
      BY <2>1, <3>1, <1>6, <1>8, SumQType
    <3> QED BY <2>1, <3>1, <3>2, <1>1, <1>8 DEF InitQTotal
  <2>3. A \ {} = A
    OBVIOUS
  <2>4. SumQ(r, A)' = SumQ(r, A) /\ SumQ(r, A \ {})' = SumQ(r, A)
    BY <2>3, <1>5
  <2>5. /\ n \in Nat /\ SumQ(r, A \ {})' <= n
        /\ n <= SumQ(r, A)' + (IF r \in A THEN 4 ELSE 0)
    BY <2>2, <2>4
  <2>6. Fits(r, n, A, {})'
    BY <2>5 DEF Fits
  <2> QED BY <2>1, <2>6
<1>10. /\ q_total'[Precolored] \in Nat /\ q_total'[Precolored] < UInt
      /\ PR(Precolored) + Cardinality(VirtualRegs(prog)) <= q_total'[Precolored]
  <2>1. q_total'[Precolored] = prog.reg_alloc + NumPhys
    BY <1>1, <1>6 DEF InitQTotal
  <2>2. PR(Precolored) = NumPhys
    BY <1>6, PrecoloredClass
  <2>3. prog.reg_alloc \in Nat /\ prog.reg_alloc >= Cardinality(VirtualRegs(prog))
    BY DEF IsProgram
  <2>4. Cardinality(VirtualRegs(prog)) \in Nat
    <3>1. IsFiniteSet(VirtualRegs(prog))
      BY <1>6, FS_Subset DEF VirtualRegs
    <3> QED BY <3>1, FS_CardinalityType
  <2>5. prog.reg_alloc + NumPhys < UInt
    BY DEF CountersFit
  <2> QED BY <2>1, <2>2, <2>3, <2>4, <2>5, <1>6
<1>11. DegreeInv'
  <2>1. DegreesFit(q, adj, {})'
    <3>1. VirtualRegs(prog)' \ {} = VirtualRegs(prog) /\ PR(Precolored)' = PR(Precolored)
      BY <1>2, <1>4, <1>5
    <3>2. \A r \in VirtualRegs(prog)' \ {} : Fits(r, q[r], adj[r], {})'
      BY <3>1, <1>9
    <3> QED BY <3>1, <3>2, <1>8, <1>10 DEF DegreesFit
  <2>2. DegreeInv' <=> DegreesFit(q, adj, {})'
    BY <1>7, <1>8 DEF DegreeInv
  <2> QED BY <2>1, <2>2
<1>12. IsInjective(simplify_queue') /\ ToSet(simplify_queue') \cap ToSet(select_stack') = {}
  <2>1. IsInjective(simplify_queue')
    BY <1>1 DEF Ascending, SetToSeqs, IsInjective
  <2>2. ToSet(select_stack') = {}
    BY <1>1 DEF ToSet
  <2> QED BY <2>1, <2>2
<1>13. ASSUME NEW r \in spill_queue' PROVE state'[r] = "to_spill" /\ q_total'[r] >= PR(r)'
  <2>1. r \in Regs(prog) /\ state'[r] = "to_spill" /\ state'[r] = InitState(r, q_total'[r], moves'[r])
    BY <1>1
  <2>2. q_total'[r] >= PR(r)
    BY <2>1 DEF InitState
  <2> QED BY <2>1, <2>2, <1>5
<1> QED BY <1>11, <1>12, <1>13 DEF OnceInv

-----------------------------------------------------------------------------
(* $0 keeps its degree.                                                    *)

MatchInv == pc = "work" => DegreeInv /\ OnceInv

LEMMA DegreeStays == IsProgram(prog) /\ (pc = "work" => DegreeInv) => PrecoloredStays
<1> SUFFICES ASSUME IsProgram(prog), pc = "work", DegreeInv
             PROVE  q_total[Precolored] >= PR(Precolored)
  BY DEF PrecoloredStays
<1>1. PICK V : V = VirtualRegs(prog) \ Gone(state)
  OBVIOUS
<1>2. Cardinality(V) \in Nat
  <2>1. IsFiniteSet(V)
    BY <1>1, FiniteProgram, FS_Subset DEF VirtualRegs
  <2> QED BY <2>1, FS_CardinalityType
<1>3. PR(Precolored) \in Nat
  BY FiniteProgram, ClassTypes
<1>4. q_total[Precolored] \in Nat /\ PR(Precolored) + Cardinality(V) <= q_total[Precolored]
  BY <1>1 DEF DegreeInv, DegreesFit
<1> QED BY <1>2, <1>3, <1>4

LEMMA MatchKept ==
  ASSUME RoundInv, MatchInv, CountersFit, NoOwnEnd, [Next]_vars
  PROVE  (RoundInv /\ MatchInv)'
<1>1. IsProgram(prog) /\ (pc = "work" => WorkInv /\ DegreeInv /\ OnceInv)
  BY RoundInvInWork DEF RoundInv, MatchInv
<1>2. PrecoloredStays
  BY <1>1, DegreeStays
\* A step that ends where degrees count keeps them in order.
<1>3. pc' = "work" => IsProgram(prog)' /\ DegreeInv' /\ (PrecoloredStays' => OnceInv')
  <2>1. CASE StartRound
    <3>1. WorkInv' /\ DegreeInv' /\ OnceInv'
      BY <2>1, <1>1, StartRoundStep, StartRoundMatch
    <3> QED BY <3>1 DEF WorkInv
  <2>2. CASE Simplify
    <3>1. pc = "work" /\ prog' = prog
      BY <2>2 DEF Simplify
    <3>2. DegreeInv' /\ (PrecoloredStays' => OnceInv')
      BY <2>2, <3>1, <1>1, SimplifyDegrees, SimplifyOnce
    <3> QED BY <3>1, <3>2, <1>1
  <2>3. CASE CoalesceSame \/ CoalesceImpossible \/ CoalesceLater
    <3>1. pc = "work" /\ prog' = prog
      BY <2>3 DEF CoalesceSame, CoalesceImpossible, CoalesceLater, Trying
    <3>2. DegreeInv' /\ OnceInv'
      BY <2>3, <3>1, <1>1, CoalesceFailsOnce
    <3> QED BY <3>1, <3>2, <1>1
  <2>4. CASE Coalesce
    <3>1. pc = "work" /\ prog' = prog
      BY <2>4 DEF Coalesce, Trying
    <3>2. DegreeInv' /\ (PrecoloredStays' => OnceInv')
      BY <2>4, <3>1, <1>1, CoalesceMatch
    <3> QED BY <3>1, <3>2, <1>1
  <2>5. CASE Freeze
    <3>1. pc = "work" /\ prog' = prog
      BY <2>5 DEF Freeze, Trying
    <3>2. DegreeInv' /\ OnceInv'
      BY <2>5, <3>1, <1>1, <1>2, FreezeMatch
    <3> QED BY <3>1, <3>2, <1>1
  <2>6. CASE SelectSpill
    <3>1. pc = "work" /\ prog' = prog
      BY <2>6 DEF SelectSpill, Trying
    <3>2. DegreeInv' /\ OnceInv'
      BY <2>6, <3>1, <1>1, <1>2, SelectSpillMatch
    <3> QED BY <3>1, <3>2, <1>1
  <2>7. CASE QueuesEmpty \/ AssignColor \/ Return \/ SpillReg \/ SpillInstr \/ SpillDone
    BY <2>7 DEF QueuesEmpty, AssignColor, Return, SpillReg, SpillInstr, SpillDone
  <2>8. CASE UNCHANGED vars
    <3>1. /\ pc' = pc /\ prog' = prog /\ state' = state /\ simplify_queue' = simplify_queue
          /\ spill_queue' = spill_queue /\ select_stack' = select_stack
          /\ q_total' = q_total /\ adjacent' = adjacent
      BY <2>8 DEF vars, graph
    <3>2. \A r : PR(r)' = PR(r)
      BY <3>1 DEF PR, Class
    <3>3. OnceInv => OnceInv'
      BY <3>1, <3>2 DEF OnceInv
    <3>4. PICK q, adj, G : q = q_total /\ adj = adjacent /\ G = Gone(state)
      OBVIOUS
    <3>5. Gone(state)' = G
      BY <3>1, <3>4 DEF Gone
    <3>6. ASSUME DegreeInv PROVE DegreeInv'
      <4>1. DegreesFit(q, adj, G)
        BY <3>4, <3>6 DEF DegreeInv
      <4> QED BY <4>1, <3>1, <3>4, <3>5, SameDegrees
    <3> QED BY <3>1, <3>3, <3>6, <1>1
  <2> QED BY <2>1, <2>2, <2>3, <2>4, <2>5, <2>6, <2>7, <2>8 DEF Next
<1>4. PrecoloredStays'
  <2>1. (IsProgram(prog) /\ (pc = "work" => DegreeInv) => PrecoloredStays)'
    BY DegreeStays, PTL
  <2>2. CASE pc' = "work"
    BY <2>1, <2>2, <1>3
  <2>3. CASE pc' # "work"
    BY <2>3 DEF PrecoloredStays
  <2> QED BY <2>2, <2>3
<1>5. RoundInv'
  BY <1>2, <1>4, RoundInvKept
<1>6. MatchInv'
  BY <1>3, <1>4 DEF MatchInv
<1> QED BY <1>5, <1>6

LEMMA MatchHolds == Spec /\ []NoOwnEnd /\ []CountersFit => [](RoundInv /\ MatchInv)
<1>1. Init => RoundInv /\ MatchInv
  BY InitRoundInv DEF Init, MatchInv
<1>2. RoundInv /\ MatchInv /\ CountersFit /\ NoOwnEnd /\ [Next]_vars => (RoundInv /\ MatchInv)'
  BY MatchKept
<1> QED BY <1>1, <1>2, PTL DEF Spec

(* "This value should never drop below 6" (54): as long as no register is  *)
(* given up (freeze) while a move of a register coalesced into it is left, *)
(* which freeze_moves would take for a move to another register, and the   *)
(* unsigned degrees do not overflow, the degree of $0 stays above its p,   *)
(* through every round: no more than one push per register counts against  *)
(* it.                                                                     *)
THEOREM ReservedDegree == Spec /\ []NoOwnEnd /\ []CountersFit => []PrecoloredStays
<1>1. RoundInv /\ MatchInv => PrecoloredStays
  BY DegreeStays DEF RoundInv, MatchInv
<1> QED BY <1>1, MatchHolds, PTL

(* Under the same condition every register waits in the queue its state    *)
(* names or is on the select stack, and one in the spill queue is not      *)
(* cleared by the <p, q> test (decrement_q_total, combine, add_to_queue).  *)
THEOREM NoneLostOrDoubled == Spec /\ []NoOwnEnd /\ []CountersFit => []QueuesMatch
<1>1. RoundInv /\ MatchInv => QueuesMatch
  <2> SUFFICES ASSUME RoundInv, MatchInv, pc = "work" PROVE QueuesMatch
    BY DEF QueuesMatch
  <2>1. WorkInv /\ OnceInv
    BY RoundInvInWork DEF MatchInv
  <2>2. /\ freeze_queue \subseteq Regs(prog) /\ spill_queue \subseteq Regs(prog)
        /\ \A r \in freeze_queue : state[r] = "to_freeze"
        /\ \A r \in spill_queue : state[r] = "to_spill" /\ q_total[r] >= PR(r)
    BY <2>1 DEF WorkInv, RoundTypes, QueueInv, OnceInv
  <2>3. \A r \in Regs(prog) : /\ state[r] = "to_freeze" => r \in freeze_queue
                              /\ state[r] = "to_spill" => r \in spill_queue
    BY <2>1 DEF WorkInv, StateInv, VirtualRegs
  <2>4. \A r \in VirtualRegs(prog) :
               \/ r \in freeze_queue \cup spill_queue \cup ToSet(simplify_queue)
               \/ r \in ToSet(select_stack)
               \/ alias[r] # r
    BY <2>1 DEF WorkInv, StateInv
  <2>5. \A r \in ToSet(simplify_queue) \cup ToSet(select_stack) :
               /\ r # Precolored
               /\ state[r] \in {"to_simplify", "simplified"} /\ alias[r] = r
    BY <2>1 DEF WorkInv, QueueInv, Queued
  <2> QED BY <2>2, <2>3, <2>4, <2>5 DEF QueuesMatch
<1> QED BY <1>1, MatchHolds, PTL

(* With it, what was proved from the degree of $0 follows from that        *)
(* condition alone.                                                        *)
COROLLARY ApartUnlessOwnEnd ==
  Spec /\ []NoOwnEnd /\ []CountersFit => [](LiveMovesLive /\ NeighboursApart)
BY ReservedDegree, MovesStayLive, AllocationApart, PTL
-----------------------------------------------------------------------------
(* Registers of loads and stores.                                          *)

(* combine does not make the register that is left one that must start at  *)
(* component x.  The allocator can only keep the components of loads and   *)
(* stores in place if no such register is merged once more.                *)
MergedOnce ==
    pc = "work" =>
        \A r \in Regs(prog) :
            prog.beginning[r] /\ alias'[r] # alias[r] => prog.beginning[alias[r]]

(* A register that must start at component x keeps its components when it  *)
(* is merged, into a register that starts there as well.                   *)
BeginningInv ==
    /\ \A r \in Regs(prog) : prog.beginning[r] =>
        /\ prog.beginning[alias[r]] \/ prog.size[alias[r]] = 4
        /\ \A c \in Comps(r) : alias_swizzle[r][c] = c
    /\ \A r \in Regs(prog) : prog.beginning[r] => allocated[r][2] = 0

BeginInv == InRound => BeginningInv

LEMMA MergeKeepsBeginning ==
  ASSUME WorkInv, BeginningInv, MergedOnce, prog' = prog, allocated' = allocated,
         NEW src \in Regs(prog), NEW dst \in Regs(prog), alias[src] = src, src # dst,
         prog.beginning[src] => prog.beginning[dst] \/ prog.size[dst] = 4,
         NEW swizzle, Straight(src, swizzle),
         alias' = [r \in Regs(prog) |-> IF alias[r] = src THEN dst ELSE alias[r]],
         alias_swizzle' = [r \in Regs(prog) |->
               IF alias[r] = src
               THEN [c \in Comps(r) |-> swizzle[alias_swizzle[r][c]]]
               ELSE alias_swizzle[r]]
  PROVE  BeginningInv'
<1>1. ASSUME NEW r \in Regs(prog), prog.beginning[r]
      PROVE  /\ prog.beginning[alias'[r]] \/ prog.size[alias'[r]] = 4
             /\ \A c \in Comps(r) : alias_swizzle'[r][c] = c
  <2>1. CASE alias[r] # src
    BY <1>1, <2>1 DEF BeginningInv
  <2>2. CASE alias[r] = src
    <3>1. alias'[r] = dst
      BY <2>2
    <3>2. prog.beginning[src]
      BY <1>1, <2>2, <3>1 DEF MergedOnce, WorkInv
    <3>3. ASSUME NEW c \in Comps(r) PROVE alias_swizzle'[r][c] = c
      <4>1. alias_swizzle'[r] = [b \in Comps(r) |-> swizzle[alias_swizzle[r][b]]]
        BY <2>2
      <4>2. alias_swizzle[r][c] = c /\ alias_swizzle[r][c] \in Comps(src)
        BY <1>1, <2>2 DEF BeginningInv, WorkInv, PlaceTypes
      <4>3. swizzle[c] = c
        BY <3>2, <4>2 DEF Straight
      <4> QED BY <4>1, <4>2, <4>3
    <3> QED BY <3>1, <3>2, <3>3
  <2> QED BY <2>1, <2>2
<1>2. \A r \in Regs(prog) : prog.beginning[r] => allocated'[r][2] = 0
  BY DEF BeginningInv
<1>3. Regs(prog)' = Regs(prog) /\ \A r : Comps(r)' = Comps(r)
  BY DEF Comps
<1> QED BY <1>1, <1>2, <1>3 DEF BeginningInv

LEMMA CoalesceBeginning ==
  ASSUME WorkInv, BeginningInv, MergedOnce, Coalesce
  PROVE  BeginningInv'
<1>1. PICK m \in move_queue :
          /\ From(prog.code[m]) # Into(prog.code[m])
          /\ ~ Incompatible(From(prog.code[m]), Into(prog.code[m]), Pairs(prog.code[m]))
          /\ \E swizzle \in Swizzles(From(prog.code[m]), Into(prog.code[m]), Pairs(prog.code[m])) :
                /\ Straight(From(prog.code[m]), swizzle)
                /\ Combine(From(prog.code[m]), Into(prog.code[m]), swizzle, move_queue \ {m})
  BY DEF Coalesce
<1>2. PICK src, dst : src = From(prog.code[m]) /\ dst = Into(prog.code[m])
  OBVIOUS
<1>3. PICK swizzle : Straight(src, swizzle) /\ Combine(src, dst, swizzle, move_queue \ {m})
  BY <1>1, <1>2
<1>4. /\ src \in Regs(prog) /\ dst \in Regs(prog) /\ alias[src] = src /\ src # dst
  BY <1>1, <1>2, MoveEnds DEF From, Into
<1>5. prog.beginning[src] => prog.beginning[dst] \/ prog.size[dst] = 4
  BY <1>1, <1>2 DEF Incompatible
<1>6. prog' = prog /\ allocated' = allocated
  BY DEF Coalesce
<1>7. /\ alias' = [r \in Regs(prog) |-> IF alias[r] = src THEN dst ELSE alias[r]]
      /\ alias_swizzle' = [r \in Regs(prog) |->
               IF alias[r] = src
               THEN [c \in Comps(r) |-> swizzle[alias_swizzle[r][c]]]
               ELSE alias_swizzle[r]]
  BY <1>3 DEF Combine
<1> QED BY <1>3, <1>4, <1>5, <1>6, <1>7, MergeKeepsBeginning

LEMMA ColourBeginning ==
  ASSUME ColouringInv, BeginningInv, AssignColor
  PROVE  BeginningInv'
<1>1. /\ prog' = prog /\ alias' = alias /\ alias_swizzle' = alias_swizzle
  BY DEF AssignColor, graph
<1>2. allocated \in [Regs(prog) -> (0..(NumPhys - 1)) \X Nat]
  BY DEF ColouringInv, PlaceTypes
<1>3. ASSUME NEW r \in Regs(prog), prog.beginning[r] PROVE allocated'[r][2] = 0
  <2>1. CASE allocated' = allocated
    BY <1>3, <2>1 DEF BeginningInv
  <2>2. CASE allocated' # allocated
    <3>1. PICK reg, place : place \in Places(reg) /\ allocated' = [allocated EXCEPT ![reg] = place]
      BY <2>2 DEF AssignColor
    <3>2. CASE reg = r
      <4>1. place[2] \in {0}
        BY <1>3, <3>1, <3>2 DEF Places
      <4> QED BY <1>2, <3>1, <3>2, <4>1
    <3>3. CASE reg # r
      BY <1>2, <1>3, <3>1, <3>3 DEF BeginningInv
    <3> QED BY <3>2, <3>3
  <2> QED BY <2>1, <2>2
<1>4. \A r : Comps(r)' = Comps(r)
  BY <1>1 DEF Comps
<1> QED BY <1>1, <1>3, <1>4 DEF BeginningInv

LEMMA StartBeginning ==
  ASSUME IsProgram(prog), StartRound
  PROVE  BeginningInv'
<1>1. /\ prog'.size = prog.size /\ prog'.beginning = prog.beginning
      /\ alias' = [r \in Regs(prog) |-> r]
      /\ alias_swizzle' = [r \in Regs(prog) |-> [c \in Comps(r) |-> c]]
      /\ allocated' = [r \in Regs(prog) |-> <<0, 0>>]
  BY DEF StartRound
<1>2. Regs(prog)' = Regs(prog) /\ \A r : Comps(r)' = Comps(r)
  BY <1>1 DEF Regs, Comps
<1> QED BY <1>1, <1>2 DEF BeginningInv

LEMMA SameBeginning ==
  ASSUME BeginningInv, UNCHANGED <<prog, alias, alias_swizzle, allocated>>
  PROVE  BeginningInv'
<1>1. /\ prog' = prog /\ alias' = alias /\ alias_swizzle' = alias_swizzle
      /\ allocated' = allocated
  OBVIOUS
<1>2. \A r : Comps(r)' = Comps(r)
  BY <1>1 DEF Comps
<1> QED BY <1>1, <1>2 DEF BeginningInv

LEMMA BeginKept ==
  ASSUME RoundInv, BeginInv, MergedOnce, [Next]_vars
  PROVE  BeginInv'
<1>1. CASE StartRound
  BY <1>1, StartBeginning DEF RoundInv, BeginInv
<1>2. CASE Coalesce
  <2>1. pc = "work"
    BY <1>2 DEF Coalesce, Trying
  <2> QED BY <1>2, <2>1, CoalesceBeginning, RoundInvInWork DEF BeginInv, InRound
<1>3. CASE AssignColor
  <2>1. pc = "assign"
    BY <1>3 DEF AssignColor
  <2> QED BY <1>3, <2>1, ColourBeginning, RoundInvInAssign DEF BeginInv, InRound
<1>4. CASE Simplify \/ CoalesceSame \/ CoalesceImpossible \/ CoalesceLater \/ Freeze
           \/ SelectSpill \/ QueuesEmpty \/ Return \/ UNCHANGED vars
  <2>1. UNCHANGED <<prog, alias, alias_swizzle, allocated>>
    BY <1>4 DEF Simplify, CoalesceSame, CoalesceImpossible, CoalesceLater, Freeze, SelectSpill,
                QueuesEmpty, Return, graph, vars
  <2>2. InRound' => InRound
    BY <1>4 DEF Simplify, CoalesceSame, CoalesceImpossible, CoalesceLater, Freeze, SelectSpill,
                QueuesEmpty, Return, graph, vars, Trying, InRound
  <2> QED BY <2>1, <2>2, SameBeginning DEF BeginInv
<1>5. CASE SpillReg \/ SpillInstr \/ SpillDone
  <2>1. ~ InRound'
    BY <1>5 DEF SpillReg, SpillInstr, SpillDone, InRound
  <2> QED BY <2>1 DEF BeginInv
<1> QED BY <1>1, <1>2, <1>3, <1>4, <1>5 DEF Next

LEMMA DoneBeginning == RoundInv /\ BeginInv => BeginningHonoured
<1> SUFFICES ASSUME RoundInv, BeginInv, pc = "done", NEW r \in Regs(prog), prog.beginning[r],
                    NEW c \in Comps(r)
             PROVE  Place(r, c)[2] = c
  BY DEF BeginningHonoured
<1>1. PICK a, d : a = alias[r] /\ d = alias_swizzle[r][c]
  OBVIOUS
<1>2. /\ BeginningInv /\ RoundTypes /\ PlaceTypes /\ IsProgram(prog)
  BY DEF RoundInv, BeginInv, InRound
<1>3. a \in Regs(prog) /\ prog.size[a] \in 1..4
  BY <1>1, <1>2, FiniteProgram DEF RoundTypes
<1>4. d = c /\ c \in Int
  BY <1>1, <1>2, FiniteProgram DEF BeginningInv, Comps
<1>5. CASE a = Precolored
  BY <1>1, <1>4, <1>5 DEF Place
<1>6. CASE a # Precolored
  <2>1. PICK m \in 0..(NumPhys - 1), n \in Nat : allocated[a] = <<m, n>>
    BY <1>2, <1>3 DEF PlaceTypes
  <2>2. n = 0
    <3>1. CASE prog.beginning[a]
      BY <1>2, <1>3, <2>1, <3>1 DEF BeginningInv
    <3>2. CASE prog.size[a] = 4
      <4>1. allocated[a][2] + prog.size[a] <= 4
        BY <1>2, <1>3 DEF PlaceTypes
      <4> QED BY <2>1, <3>2, <4>1
    <3> QED BY <1>1, <1>2, <3>1, <3>2 DEF BeginningInv
  <2>3. Place(r, c) = <<m, n + d>>
    BY <1>1, <1>6, <2>1 DEF Place
  <2> QED BY <1>4, <2>2, <2>3
<1> QED BY <1>5, <1>6

(* "Whether this register has to be allocated at the beginning of an       *)
(* allocated register" (pp_lir.h:69): as long as no register that stands   *)
(* for one of those is merged once more without being one itself, every    *)
(* component of each is in the same component of a physical register, as   *)
(* the loads and stores, which have no swizzle, need it (add_move_edge,    *)
(* coalesce, assign_colors).                                               *)
THEOREM BeginningInPlace ==
    Spec /\ []PrecoloredStays /\ [][MergedOnce]_vars => []BeginningHonoured
<1>1. Init => BeginInv
  BY DEF Init, BeginInv, InRound
<1>2. RoundInv /\ BeginInv /\ [Next]_vars /\ [MergedOnce]_vars => BeginInv'
  <2>1. UNCHANGED vars => MergedOnce
    BY DEF vars, graph, MergedOnce
  <2> QED BY <2>1, BeginKept
<1>3. RoundInv /\ BeginInv => BeginningHonoured
  BY DoneBeginning
<1> QED BY <1>1, <1>2, <1>3, RoundInvHolds, PTL DEF Spec
=============================================================================
