------------------------------ MODULE RigModel ------------------------------
(***************************************************************************)
(* What the random instruction generator of OTBN (hw/ip/otbn/dv/rig/rig)   *)
(* knows while it generates: which bytes of memory have a value            *)
(* (known_mem.py), an abstract processor state (model.py) and the program  *)
(* so far (program.py, snippet.py).  Objects are records and methods are   *)
(* operators, as in OtbnState.  A failed assertion sets the field bad.      *)
(* Random choices are sets of possible results.                            *)
(***************************************************************************)
EXTENDS OtbnInsn, TLC

CONSTANTS MaxLoopDepth,  \* Model.max_loop_depth
          ImemBytes      \* size of instruction memory

DmemSize == WBytes * DmemWords
MinOf(a, b) == IF a < b THEN a ELSE b
MaxOf(a, b) == IF a > b THEN a ELSE b

(* Python's floor division, for divisors of either sign. *)
FloorDiv(x, y) == IF y > 0 THEN x \div y ELSE (-x) \div (-y)

-----------------------------------------------------------------------------
(* known_mem.py.  A sorted list of half-open ranges <<lo, hi>>.             *)

RECURSIVE Euclid(_, _, _, _, _, _)
Euclid(r, rn, s, sn, t, tn) ==
    IF rn = 0 THEN IF r < 0 THEN <<-r, -s, -t>> ELSE <<r, s, t>>
    ELSE LET q == FloorDiv(r, rn)
         IN Euclid(rn, r - q * rn, sn, s - q * sn, tn, t - q * tn)
ExtendedEuclidean(a, b) == Euclid(a, b, 1, 0, 0, 1)

(* Lexicographic order of tuples of integers, as Python sorts them. *)
RangeLess(x, y) ==
    \E k \in 1 .. 3 : x[k] < y[k] /\ \A j \in 1 .. k - 1 : x[j] = y[j]

(* One sweep over both lists: each range is met with the last of the other
   list.  Ranges that only touch leave an empty range behind. *)
IntersectRanges(a, b) ==
    LET tag(r, f) == [k \in 1 .. Len(r) |-> <<r[k][1], r[k][2], f>>]
        p == SortSeq(tag(a, 0) \o tag(b, 1), RangeLess)
        other(k) == {j \in 1 .. k - 1 : p[j][3] # p[k][3]}
        meet(k) ==
            IF other(k) = {} THEN << >>
            ELSE LET y == p[CHOOSE j \in other(k) : \A i \in other(k) : i <= j]
                 IN IF y[1] <= p[k][2] /\ p[k][1] <= y[2]
                    THEN <<<<MaxOf(p[k][1], y[1]), MinOf(p[k][2], y[2])>>>> ELSE << >>
        sweep[k \in 0 .. Len(p)] == IF k = 0 THEN << >> ELSE sweep[k - 1] \o meet(k)
    IN sweep[Len(p)]

TouchAddr(r, a) ==
    LET n == Cardinality({i \in 1 .. Len(r) : \A j \in 1 .. i : r[j][1] <= a})
        left == SubSeq(r, 1, n - 1)
        L == r[n]
        R == r[n + 1]
        rest(k) == SubSeq(r, n + k, Len(r))
    IN CASE n = 0 /\ r # << >> /\ a = r[1][1] - 1 -> <<<<a, r[1][2]>>>> \o Tail(r)
         [] n = 0 -> <<<<a, a + 1>>>> \o r
         [] n > 0 /\ a < L[2] -> r
         [] n > 0 /\ a = L[2] /\ n < Len(r) /\ a = R[1] - 1 -> left \o <<<<L[1], R[2]>>>> \o rest(2)
         [] n > 0 /\ a = L[2] -> left \o <<<<L[1], a + 1>>>> \o rest(1)
         [] n > 0 /\ a > L[2] /\ n < Len(r) /\ a = R[1] - 1 ->
               left \o <<L, <<a, R[2]>>>> \o rest(2)
         [] OTHER -> left \o <<L, <<a, a + 1>>>> \o rest(1)

TouchRange(r, base, width) ==
    LET touch[k \in 0 .. width] == IF k = 0 THEN r ELSE TouchAddr(touch[k - 1], base + k - 1)
    IN touch[width]

KnownBytes(r) == UNION {r[k][1] .. r[k][2] - 1 : k \in 1 .. Len(r)}

(* The addresses pick_lsu_target may return: base + offset, with the offset in
   lo .. hi and a multiple of oalign, the address a multiple of align, and width
   bytes inside one range.  Both are affine in k; k is kept in k_min .. k_max. *)
PickLsuTarget(r, top, loads, base, lo, hi, oalign, width, align) ==
    LET e == ExtendedEuclidean(-oalign, align)
        gcd == e[1]
        i0 == e[2] * (base \div gcd)
        j0 == e[3] * (base \div gcd)
        mu == oalign \div gcd
        bv == -oalign * (align \div gcd)
        k_max == FloorDiv(-hi + oalign * i0, bv)
        k_min == FloorDiv(-lo + oalign * i0 + (bv - 1), bv)
        ranges == IF loads THEN {r[n] : n \in 1 .. Len(r)} ELSE {<<0, top - 1>>}
        ks(b) == LET w_lo == (b[1] + align - 1) \div align
                     w_hi == (b[2] - width) \div align
                     k_lo == FloorDiv(w_lo - j0 + (mu - 1), mu)
                     k_hi == FloorDiv(w_hi - j0, mu)
                 IN IF b[2] - width < b[1] \/ w_hi < w_lo THEN {}
                    ELSE MaxOf(k_lo, k_min) .. MinOf(k_hi, k_max)
    IN IF base % gcd # 0 THEN {}
       ELSE {align * (j0 + k * mu) : k \in UNION {ks(b) : b \in ranges}}

-----------------------------------------------------------------------------
(* model.py: the call stack.  Its depth is known up to an interval, and the  *)
(* elements at its top are known, or known to exist.                        *)

EmptyStack == [lo |-> 0, hi |-> 0, top |-> << >>]

MergeStacks(a, b) ==
    LET n == Len(a.top)
        m == Len(b.top)
        same(k) == \A j \in 0 .. k - 1 : a.top[n - j] = b.top[m - j]
        k == CHOOSE k \in 0 .. MinOf(n, m) :
                 same(k) /\ (k = MinOf(n, m) \/ a.top[n - k] # b.top[m - k])
    IN [lo |-> MinOf(a.lo, b.lo), hi |-> MaxOf(a.hi, b.hi), top |-> SubSeq(a.top, n - k + 1, n)]

StackFull(c) == c.hi = StackDepth
PeekStack(c) == IF c.top = << >> THEN None ELSE c.top[Len(c.top)]
PopStack(c) == [lo |-> c.lo - 1, hi |-> c.hi - 1,
                top |-> IF c.top = << >> THEN << >> ELSE SubSeq(c.top, 1, Len(c.top) - 1)]
PushStack(c, v) == [lo |-> c.lo + 1, hi |-> c.hi + 1, top |-> Append(c.top, v)]
(* The value just pushed turns out to be known. *)
RefineStack(c, v) ==
    [c EXCEPT !.top = IF c.top = << >> THEN <<v>> ELSE [@ EXCEPT ![Len(@)] = v]]
ForgetStack(c) == [c EXCEPT !.top = [k \in 1 .. Len(@) |-> None]]

-----------------------------------------------------------------------------
(* model.py: the processor.  gpr maps the registers that have an             *)
(* architectural value to that value, or to None when it is not known.      *)

InitModel(pc, fuel, ranges) ==
    [pc |-> pc, fuel |-> fuel, gpr |-> (0 :> 0), wdr |-> {}, const |-> {},
     constStack |-> << >>, cs |-> EmptyStack, depth |-> 0, mem |-> ranges, bad |-> None]

Assert1(m, ok, why) == IF ok \/ m.bad # None THEN m ELSE [m EXCEPT !.bad = why]

MergeModels(a, b) ==
    LET m == [a EXCEPT !.fuel = MinOf(a.fuel, b.fuel),
                       !.gpr = [i \in DOMAIN a.gpr \cap DOMAIN b.gpr |->
                                   IF a.gpr[i] = b.gpr[i] THEN a.gpr[i] ELSE None],
                       !.wdr = @ \cap b.wdr, !.const = @ \cup b.const,
                       !.cs = MergeStacks(@, b.cs), !.mem = IntersectRanges(@, b.mem)]
    IN Assert1(Assert1(m, a.pc = b.pc /\ a.depth = b.depth /\ a.constStack = b.constStack,
                       "merge of models that differ"),
               b.bad = None, b.bad)

ReadReg(m, i) ==
    IF i # 1 THEN m
    ELSE LET c == Assert1(m, 1 \notin m.const /\ m.cs.lo > 0, "read of x1")
         IN IF c.bad # None THEN c ELSE [c EXCEPT !.cs = PopStack(@)]

(* update: the instruction's write has been noted and v is what it wrote. *)
WriteModelReg(m, i, v, update) ==
    LET c == Assert1(m, i \notin m.const
                        /\ (i = 1 => IF update THEN m.cs.lo > 0 ELSE ~StackFull(m.cs)),
                     "write of a register")
    IN CASE i = 0 \/ c.bad # None -> c
         [] i = 1 /\ c.bad = None -> [c EXCEPT !.cs = IF update THEN RefineStack(@, v) ELSE PushStack(@, v)]
         [] OTHER -> [c EXCEPT !.gpr = (i :> v) @@ @]

GetReg(m, i) ==
    CASE i = 1 -> PeekStack(m.cs) [] i \in DOMAIN m.gpr -> m.gpr[i] [] OTHER -> None

HasX1(m) == m.cs.lo > 0 /\ 1 \notin m.const
(* What pick_reg_operand_value may choose as a source, as a destination. *)
SrcRegs(m) == DOMAIN m.gpr \cup (IF HasX1(m) THEN {1} ELSE {})
DestRegs(m) == (0 .. NGpr - 1) \ (m.const \cup (IF StackFull(m.cs) THEN {1} ELSE {}))
RegsWithKnownVals(m) == {i \in SrcRegs(m) : GetReg(m, i) # None}

PushConst(m) == [m EXCEPT !.constStack = Append(@, m.const)]
PopConst(m) == [m EXCEPT !.const = m.constStack[Len(m.constStack)],
                         !.constStack = SubSeq(@, 1, Len(@) - 1)]
MarkConst(m, R) == [m EXCEPT !.const = @ \cup (R \ {0})]
ForgetValues(m, R) ==
    [m EXCEPT !.gpr = [i \in DOMAIN @ |-> IF i \in R \ {0} THEN None ELSE @[i]],
              !.cs = IF 1 \in R THEN ForgetStack(@) ELSE @]

(* A base register and an address for an access of width bytes: the register
   is aligned, the rest is up to the immediate. *)
PickModelTarget(m, loads, lo, hi, oalign, width) ==
    {[grs1 |-> b, addr |-> a, offset |-> a - GetReg(m, b)] :
        <<b, a>> \in UNION {{b} \X PickLsuTarget(m.mem, DmemSize, loads, GetReg(m, b), lo, hi,
                                                 oalign, width, width) :
                            b \in {b \in RegsWithKnownVals(m) :
                                      GetReg(m, b) % MinOf(oalign, width) = 0}}}

-----------------------------------------------------------------------------
(* Updates for an instruction.  bn.lid and bn.movr read their grd operand.   *)
(* A generated load or store carries its target: lsu = <<address, width>>.   *)

IndirectOps == {"BN.LID", "BN.SID", "BN.MOVR"}
GprReads(i) ==
    {i[f] : f \in DOMAIN i \cap {"grs", "grs1", "grs2"}}
       \cup (IF i.op \in IndirectOps THEN {i[f] : f \in DOMAIN i \cap {"grd"}} ELSE {})
GprWrites(i) == IF i.op \in IndirectOps THEN {} ELSE {i[f] : f \in DOMAIN i \cap {"grd"}}

GenericUpdate(m, i) ==
    LET read == IF 1 \in GprReads(i) THEN ReadReg(m, 1) ELSE m
        wrote == IF GprWrites(i) = {} THEN read ELSE WriteModelReg(read, i.grd, None, FALSE)
    IN [wrote EXCEPT !.wdr = @ \cup {i[f] : f \in DOMAIN i \cap {"wrd"}},
                     !.mem = IF "lsu" \in DOMAIN i THEN TouchRange(@, i.lsu[1], i.lsu[2]) ELSE @]

IncGpr(m, r, v, delta, mask) ==
    WriteModelReg(m, r, IF v = None THEN None ELSE Mask(v + delta, mask), FALSE)
(* The number of a wide register is kept below NWdr: "& 31". *)
IdxBits == CHOOSE b \in 0 .. 8 : 2^b = NWdr

UpdateForLui(m, i) == WriteModelReg(GenericUpdate(m, i), i.grd, i.imm * 2^LuiShift, TRUE)

UpdateForAddi(m, i) ==
    LET src == GetReg(m, i.grs1)
    IN WriteModelReg(GenericUpdate(m, i), i.grd,
                     IF src = None THEN None ELSE Mask(src + i.imm, GW), TRUE)

(* BN.LID, BN.SID and BN.MOVR: the wide register named by a GPR, and at most one
   of two increments. *)
UpdateIndirect(m, i) ==
    LET dest == IF i.op = "BN.SID" THEN None ELSE GetReg(m, i.grd)
        g == [GenericUpdate(m, i) EXCEPT !.wdr = @ \cup (IF dest = None THEN {} ELSE {Mask(dest, IdxBits)})]
        step(r) == IncGpr(g, r, GetReg(m, r), 1, IdxBits)
        skip(r) == IncGpr(g, r, GetReg(m, r), WBytes, GW)
    IN CASE i.op # "BN.MOVR" /\ i.grs1_inc -> skip(i.grs1)
         [] i.op = "BN.LID" /\ ~i.grs1_inc /\ i.grd_inc -> step(i.grd)
         [] i.op = "BN.SID" /\ ~i.grs1_inc /\ i.grs2_inc -> step(i.grs2)
         [] i.op = "BN.MOVR" /\ i.grd_inc -> step(i.grd)
         [] i.op = "BN.MOVR" /\ ~i.grd_inc /\ i.grs_inc -> step(i.grs)
         [] OTHER -> g

UpdateForInsn(m, i) ==
    LET u == CASE i.op = "LUI" -> UpdateForLui(m, i)
               [] i.op = "ADDI" -> UpdateForAddi(m, i)
               [] i.op \in IndirectOps -> UpdateIndirect(m, i)
               [] OTHER -> GenericUpdate(m, i)
    IN [Assert1(u, u.fuel > 0, "no fuel") EXCEPT !.fuel = @ - 1]

-----------------------------------------------------------------------------
(* program.py.  The sections are the runs of adjacent addresses in the domain *)
(* of insns.  space bounds what may still be added, size is that of imem.    *)

EmptyProgram(size) == [insns |-> << >>, space |-> size \div 4, size |-> size, bad |-> None]

(* Add insns (a function from addresses to instructions). *)
AddInsns(p, insns) ==
    LET A == DOMAIN insns
    IN [p EXCEPT !.insns = insns @@ @, !.space = @ - Cardinality(A),
                 !.bad = IF @ # None THEN @
                         ELSE IF Cardinality(A) > p.space THEN "assert len(insns) <= self.space"
                         ELSE IF \E a \in A : a % 4 # 0 \/ a > p.size - 4 \/ a \in DOMAIN p.insns
                         THEN "overlap" ELSE None]

SpaceAt(p, a) ==
    LET ends == {n \in 0 .. p.size \div 4 : a + 4 * n >= p.size \/ (a + 4 * n) \in DOMAIN p.insns}
    IN CHOOSE n \in ends : \A k \in ends : n <= k

(* pick_branch_target: free addresses, other than the jump's own, in lo .. hi. *)
BranchTargets(p, pc, lo, hi) ==
    {a \in {4 * n : n \in 0 .. p.size \div 4 - 1} :
        a \notin DOMAIN p.insns /\ a # pc /\ lo <= a /\ a <= hi}

-----------------------------------------------------------------------------
(***************************************************************************)
(* What the random instruction generator of OTBN is given: a configuration *)
(* merged from YAML files that inherit from each other (config.py), the    *)
(* generators it leaves enabled (SnippetGens.__init__ and the constructors *)
(* in gens/) and some initialised data (init_data.py).  A raised error is  *)
(* the value Broken.  A parsed file is a record: inherit is a set of       *)
(* [names |-> sequence of files, weight |-> a number], one of which is     *)
(* picked; gens and insns map names to weights.                            *)
(***************************************************************************)
CONSTANTS Broken,
          StraightOps   \* straight-line instructions that are not pseudo-ops

GenNames == {"Branch", "ECall", "Jump", "Loop", "StraightLineInsn"}
Mnemonics == StraightOps \cup {"BEQ", "BNE", "JAL", "JALR", "LOOP", "LOOPI", "ECALL"}

-----------------------------------------------------------------------------
(* config.py                                                               *)

Weight(w, key) == IF key \in DOMAIN w THEN w[key] ELSE 1
MergeWeights(w, v) == [key \in DOMAIN w \cup DOMAIN v |-> Weight(w, key) * Weight(v, key)]

MergeConfigs(c, d) ==
    IF Broken \in {c, d} THEN Broken
    ELSE [gens |-> MergeWeights(c.gens, d.gens), insns |-> MergeWeights(c.insns, d.insns)]

BadWeights(w) == \E key \in DOMAIN w : w[key] < 0
BadInheritance(i) == i.weight <= 0 \/ i.names = << >>

(* The configurations that loading name may give; children are the files whose
   loading has led here. *)
RECURSIVE LoadConfig(_, _, _)
LoadConfig(files, name, children) ==
    LET y == files[name]
        load(n) == LoadConfig(files, n, children \cup {name})
        load_and_merge(names) ==
            LET merged[k \in 1 .. Len(names)] ==
                    IF k = 1 THEN load(names[1])
                    ELSE {MergeConfigs(c, d) : <<c, d>> \in merged[k - 1] \X load(names[k])}
            IN merged[Len(names)]
        own == [gens |-> y.gens, insns |-> y.insns]
    IN IF \/ name \in children \/ name \notin DOMAIN files
          \/ BadWeights(y.gens) \/ BadWeights(y.insns) \/ \E i \in y.inherit : BadInheritance(i)
       THEN {Broken}
       ELSE IF y.inherit = {} THEN {own}
       ELSE {MergeConfigs(own, c) : c \in UNION {load_and_merge(i.names) : i \in y.inherit}}

-----------------------------------------------------------------------------
(* The constructors of the generators                                      *)

EnabledInsns(c) == {op \in Mnemonics : Weight(c.insns, op) > 0}

(* A generator whose instructions all have weight zero disables itself. *)
Disabled(c, g) ==
    \/ g = "Branch" /\ EnabledInsns(c) \cap {"BEQ", "BNE"} = {}
    \/ g = "Jump" /\ EnabledInsns(c) \cap {"JAL", "JALR"} = {}
    \/ g = "Loop" /\ EnabledInsns(c) \cap {"LOOP", "LOOPI"} = {}

EnabledGens(c) == {g \in GenNames \cap DOMAIN c.gens : c.gens[g] > 0 /\ ~Disabled(c, g)}

SnippetGens(c) ==
    IF \/ c = Broken
       \/ DOMAIN c.gens # GenNames \/ "ECALL" \in DOMAIN c.insns
       \/ ~(DOMAIN c.insns \subseteq Mnemonics)
       \/ EnabledInsns(c) \cap StraightOps = {} \/ EnabledGens(c) = {}
    THEN Broken
    ELSE [gens |-> EnabledGens(c), ops |-> EnabledInsns(c)]

-----------------------------------------------------------------------------
(* init_data.py.  blobs are the wide words drawn, possibly more than once;   *)
(* the addresses keep the order in which they were first drawn.             *)

InitKeys(blobs) ==
    LET words(b) == [k \in 1 .. NPerW |-> b * WBytes + GBytes * (k - 1)]
        new(s, x) == SelectSeq(x, LAMBDA a : \A k \in 1 .. Len(s) : s[k] # a)
        keys[k \in 0 .. Len(blobs)] ==
            IF k = 0 THEN << >> ELSE keys[k - 1] \o new(keys[k - 1], words(blobs[k]))
    IN keys[Len(blobs)]

(* Addresses that follow each other make a segment <<base, end>>. *)
AsSegs(addrs) ==
    LET segs[k \in 0 .. Len(addrs)] ==
            IF k = 0 THEN << >>
            ELSE LET s == segs[k - 1]
                     a == addrs[k]
                 IN IF s # << >> /\ s[Len(s)][2] = a THEN [s EXCEPT ![Len(s)][2] = a + GBytes]
                    ELSE Append(s, <<a, a + GBytes>>)
    IN segs[Len(addrs)]

(* gen_program tells the model of every address. *)
InitRanges(blobs) ==
    LET addrs == InitKeys(blobs)
        r[k \in 0 .. Len(addrs)] == IF k = 0 THEN << >> ELSE TouchRange(r[k - 1], addrs[k], GBytes)
    IN r[Len(addrs)]
=============================================================================
