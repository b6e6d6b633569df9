--------------------------- MODULE OtbnBaseProofs ---------------------------
(***************************************************************************)
(* What an instruction of OTBN can do, for every width and every size of   *)
(* the register files and memories, proved with TLAPS: the types of        *)
(* states, and the instructions of the base set, CSRs and WSRs.            *)
(*                                                                         *)
(* An instruction works on a state in which nothing is staged. execute()   *)
(* only stages writes (Ran), whichever instruction it is.                  *)
(***************************************************************************)
EXTENDS OtbnSim, WellFoundedInduction, TLAPS

(***************************************************************************)
(* The types of states                                                     *)
(***************************************************************************)
(* The types of the parts of OTBNState. A register file has committed
   values and the values an instruction has staged. *)
GprIds == 2 .. NGpr - 1

WdrIds == 0 .. NWdr - 1

MemIds == 0 .. DmemWords - 1

Staged(Idx, V) == UNION {[E -> V] : E \in SUBSET Idx}

RegFiles(Idx, V) == [val : [Idx -> V], next : Staged(Idx, V)]

GprStates == [regs : RegFiles(GprIds, Nat), stack : Seq(Nat), push : Nat \cup {None},
              sawRead : BOOLEAN, err : BOOLEAN]

FlagSets == [C : Nat, M : Nat, L : Nat, Z : Nat]

WsrStates == [mod : Int, modNext : Int \cup {None}, acc : Int, accNext : Int \cup {None},
              rnd : Int \cup {None}, rndRead : BOOLEAN, rndPending : BOOLEAN]

Addresses == {a \in Nat : a \div WBytes \in MemIds}

Writes == [addr : Addresses, val : Int, wide : BOOLEAN]

DmemStates == [data : [MemIds -> Int], trace : Seq(Writes), err : BOOLEAN, begun : BOOLEAN,
               ready : BOOLEAN]

Levels == [start : Int, last : Int, left : Int, count : Int]

LoopStates == [stack : Seq(Levels), err : BOOLEAN, pop : BOOLEAN]

ExtRegs == [INTR_STATE : 0 .. 1, STATUS : 0 .. 1, ERR_BITS : SUBSET ErrNames, START_ADDR : Nat]

ExtStates == [val : ExtRegs, next : ExtRegs]

States ==
    [gprs : GprStates, wdrs : RegFiles(WdrIds, Int), wsrs : WsrStates,
     flags : RegFiles(0 .. 1, FlagSets), dmem : DmemStates, loops : LoopStates, ext : ExtStates,
     pc : Nat, over : Int \cup {None}, insnStall : BOOLEAN, startStall : BOOLEAN,
     urndStall : BOOLEAN, running : BOOLEAN, errBits : SUBSET ErrNames, halt : BOOLEAN,
     newRnd : Int \cup {None}, reseed : BOOLEAN, raised : Exceptions \cup {None}]

(* The powers of two of the model's widths are positive (PowersAssumption
   in the form the provers use). *)
LEMMA Powers == \A n \in 0 .. WW : 2^n \in Nat /\ 2^n # 0
<1> SUFFICES ASSUME NEW n \in 0 .. WW PROVE 2^n \in Nat /\ 2^n # 0
  OBVIOUS
<1>1. n \in Nat
  OBVIOUS
<1>2. 2^n \in Int
  OBVIOUS
<1>3. 2^n > 0
  BY PowersAssumption
<1> QED
  BY <1>3

(* An empty stage is a stage of any register file. *)
LEMMA NoneStagedType ==
  ASSUME NEW Idx, NEW V
  PROVE  NoneStaged \in Staged(Idx, V)
<1>1. NoneStaged \in [{} -> V]
  BY DEF NoneStaged
<1> QED
  BY <1>1 DEF Staged

(* Staging one value for one register keeps a stage well typed. *)
LEMMA StageType ==
  ASSUME NEW Idx, NEW V, NEW f \in Staged(Idx, V), NEW i \in Idx, NEW v \in V
  PROVE  Stage(f, i, v) \in Staged(Idx, V)
<1>1. PICK E \in SUBSET Idx : f \in [E -> V]
  BY DEF Staged
<1>2. Stage(f, i, v) \in [E \cup {i} -> V]
  BY <1>1 DEF Stage
<1> QED
  BY <1>2 DEF Staged

(* write_unsigned of a register file stages its value; what was committed
   stays. *)
LEMMA WriteRegType ==
  ASSUME NEW Idx, NEW V, NEW f \in RegFiles(Idx, V), NEW i \in Idx, NEW v \in V
  PROVE  WriteReg(f, i, v) \in RegFiles(Idx, V) /\ WriteReg(f, i, v).val = f.val
  BY StageType, Zenon DEF WriteReg, RegFiles

(* commit of a register file keeps its type. *)
LEMMA CommitRegsType ==
  ASSUME NEW Idx, NEW V, NEW f \in RegFiles(Idx, V)
  PROVE  CommitRegs(f) \in RegFiles(Idx, V)
<1>1. NoneStaged \in Staged(Idx, V)
  BY NoneStagedType
<1>2. PICK E \in SUBSET Idx : f.next \in [E -> V]
  BY DEF RegFiles, Staged
<1> QED
  BY <1>1, <1>2 DEF CommitRegs, RegFiles

(* abort of a register file drops what is staged and keeps what is
   committed. *)
LEMMA AbortRegsType ==
  ASSUME NEW Idx, NEW V, NEW f \in RegFiles(Idx, V)
  PROVE  AbortRegs(f) \in RegFiles(Idx, V) /\ AbortRegs(f).val = f.val
  BY NoneStagedType DEF AbortRegs, RegFiles

(***************************************************************************)
(* Arithmetic                                                              *)
(***************************************************************************)
(* The widths of the two register files, and the same less one, are
   exponents the model knows. *)
LEMMA Widths ==
    GW \in 0 .. WW /\ GW - 1 \in 0 .. WW /\ WW \in 0 .. WW /\ WW - 1 \in 0 .. WW /\ WW \in Nat
    /\ GW >= 8 /\ GW \in Nat /\ WW >= 8
<1>1. GW \in Nat /\ WW \in Nat
  BY WidthAssumption DEF GW, WW
<1> QED
  BY <1>1, WidthAssumption

(* Masking gives a natural, of negative numbers too. *)
LEMMA MaskNat ==
  ASSUME NEW v \in Int, NEW w \in 0 .. WW
  PROVE  Mask(v, w) \in Nat
  BY Powers DEF Mask

(* A bit is 0 or 1. *)
LEMMA BitType ==
  ASSUME NEW v \in Int, NEW n \in 0 .. WW
  PROVE  Bit(v, n) \in 0 .. 1
<1>1. v \div 2^n \in Int
  BY Powers
<1> QED
  BY DEF Bit

(* A field of a word is a natural. *)
LEMMA GetFieldNat ==
  ASSUME NEW n, NEW w \in 0 .. WW, w * n \in 0 .. WW, NEW v \in Int
  PROVE  GetField(n, w, v) \in Nat
<1>1. v \div 2^(w * n) \in Int
  BY Powers
<1> QED
  BY Powers DEF GetField

(* Replacing a field of a word gives an integer. *)
LEMMA SetFieldInt ==
  ASSUME NEW n, NEW w \in 0 .. WW, w * n \in 0 .. WW, NEW v \in Int, NEW old \in Int
  PROVE  SetField(n, w, v, old) \in Int
<1>1. 2^(w * n) \in Int /\ GetField(n, w, old) \in Int
  BY GetFieldNat
<1> QED
  BY <1>1 DEF SetField

(* A sum over 1..w of members of a set closed under addition is in that
   set. *)
LEMMA SumToType ==
  ASSUME NEW V, 0 \in V, \A x, y \in V : x + y \in V, NEW w \in Nat, NEW g \in [1 .. w -> V]
  PROVE  SumTo(g, w) \in V
(* Induction over the naturals, stated of a set: this form needs no
   operator as a parameter. *)
<1>NatSetInduction. ASSUME NEW S, 0 \in S, \A n \in Nat : n \in S => n + 1 \in S
                    PROVE  Nat \subseteq S
  <2> DEFINE T == Nat \ S
  <2> SUFFICES ASSUME T # {} PROVE FALSE
    BY <1>NatSetInduction
  <2> DEFINE R == OpToRel(<, Nat)
  <2>1. IsWellFoundedOn(R, Nat)
    BY <1>NatSetInduction, NatLessThanWellFounded, Zenon
  <2> HIDE DEF R
  <2>2. T \subseteq Nat
    BY <1>NatSetInduction
  <2> HIDE DEF T
  <2>3. PICK x \in T : \A y \in T : ~(<<y, x>> \in R)
    BY <1>NatSetInduction, <2>1, <2>2, WFMin, Zenon
  <2>4. x \in Nat /\ x # 0
    BY <1>NatSetInduction DEF T
  <2>5. x - 1 \in T
    BY <1>NatSetInduction DEF T
  <2>6. \A a, b \in Nat : a < b => <<a, b>> \in R
    BY <1>NatSetInduction DEF R, OpToRel
  <2>7. <<x - 1, x>> \in R
    <3>1. x - 1 \in Nat /\ x - 1 < x
      BY <1>NatSetInduction, <2>4
    <3> QED
      BY <1>NatSetInduction, <2>4, <2>6
  <2> QED
    BY <1>NatSetInduction, <2>3, <2>5, <2>7
<1> DEFINE Is(r, n) == r = [k \in 0 .. n |-> IF k = 0 THEN 0 ELSE r[k - 1] + g[k]]
           S == {n \in Nat : n <= w => \E r \in [0 .. n -> V] : Is(r, n)}
<1>1. 0 \in S
  <2> DEFINE r == [k \in 0 .. 0 |-> 0]
  <2>1. r \in [0 .. 0 -> V] /\ Is(r, 0)
    OBVIOUS
  <2> QED  BY <2>1, Zenon
<1>2. ASSUME NEW n \in Nat, n \in S PROVE n + 1 \in S
  <2> SUFFICES ASSUME n + 1 <= w PROVE \E r \in [0 .. n + 1 -> V] : Is(r, n + 1)
    OBVIOUS
  <2>0. n <= w
    OBVIOUS
  <2>1. PICK r \in [0 .. n -> V] : Is(r, n)
    BY <1>2, <2>0
  <2> DEFINE q == [k \in 0 .. n + 1 |-> IF k = n + 1 THEN r[n] + g[n + 1] ELSE r[k]]
  <2>2. q \in [0 .. n + 1 -> V]
    OBVIOUS
  <2>3. \A k \in 0 .. n + 1 : q[k] = IF k = 0 THEN 0 ELSE q[k - 1] + g[k]
    <3> SUFFICES ASSUME NEW k \in 0 .. n + 1 PROVE q[k] = IF k = 0 THEN 0 ELSE q[k - 1] + g[k]
      OBVIOUS
    <3>1. CASE k = n + 1
      BY <3>1
    <3>2. CASE k \in 0 .. n
      <4>1. q[k] = r[k] /\ (k # 0 => q[k - 1] = r[k - 1])
        BY <3>2
      <4>2. r[k] = IF k = 0 THEN 0 ELSE r[k - 1] + g[k]
        BY <2>1, <3>2
      <4> QED  BY <4>2
    <3> QED  BY <3>2
  <2>4. Is(q, n + 1)
    BY <2>3
  <2> QED  BY <2>2, <2>4, Zenon
<1> HIDE DEF S
<1>3. w \in S
  BY <1>1, <1>2, <1>NatSetInduction
<1>4. PICK h \in [0 .. w -> V] : Is(h, w)
  BY <1>3 DEF S
<1> DEFINE c == CHOOSE r : Is(r, w)
<1>5. Is(c, w)
  BY <1>4, Zenon
<1>6. SumTo(g, w) = c[w]
  BY DEF SumTo
<1> DEFINE I == {n \in Nat : n <= w => c[n] \in V}
<1> HIDE DEF c
<1>7. \A k \in 0 .. w : c[k] = IF k = 0 THEN 0 ELSE c[k - 1] + g[k]
  BY <1>5
<1>8. 0 \in I
  BY <1>7
<1>9. ASSUME NEW n \in Nat, n \in I PROVE n + 1 \in I
  <2> SUFFICES ASSUME n + 1 <= w PROVE c[n + 1] \in V
    OBVIOUS
  <2>1. c[n] \in V
    BY <1>9
  <2>2. n + 1 \in 0 .. w /\ n + 1 # 0 /\ (n + 1) - 1 = n /\ g[n + 1] \in V
    OBVIOUS
  <2>3. c[n + 1] = c[n] + g[n + 1]
    BY <1>7
  <2> QED
    BY <2>1, <2>3
<1> HIDE DEF I
<1>10. w \in I
  BY <1>8, <1>9, <1>NatSetInduction
<1> QED  BY <1>6, <1>10 DEF I

(* The bitwise operators give naturals. *)
LEMMA BitwiseNat ==
  ASSUME NEW op, \A x, y \in 0 .. 1 : op[x][y] \in Nat, NEW a \in Int, NEW b \in Int,
         NEW w \in 0 .. WW
  PROVE  BitwiseOp(op, a, b, w) \in Nat
<1> DEFINE g == [k \in 1 .. w |-> op[Bit(a, k - 1)][Bit(b, k - 1)] * 2^(k - 1)]
<1>1. ASSUME NEW k \in 1 .. w PROVE op[Bit(a, k - 1)][Bit(b, k - 1)] * 2^(k - 1) \in Nat
  <2>1. k - 1 \in 0 .. WW
    BY Widths
  <2>2. Bit(a, k - 1) \in 0 .. 1 /\ Bit(b, k - 1) \in 0 .. 1 /\ 2^(k - 1) \in Nat
    BY <2>1, BitType, Powers
  <2>3. op[Bit(a, k - 1)][Bit(b, k - 1)] \in Nat
    BY <2>2
  <2> QED
    BY <2>2
<1>2. g \in [1 .. w -> Nat]
  BY <1>1
<1>3. w \in Nat
  OBVIOUS
<1> HIDE DEF g
<1>4. SumTo(g, w) \in Nat
  <2>1. 0 \in Nat /\ \A x, y \in Nat : x + y \in Nat
    OBVIOUS
  <2> QED
    BY <1>2, <1>3, <2>1, SumToType, Zenon
<1> QED
  BY <1>4, Zenon DEF BitwiseOp, g

(* The three tables that bitwise operators are built from. *)
LEMMA BitTables ==
  \A x, y \in 0 .. 1 : AndBit[x][y] \in Nat /\ OrBit[x][y] \in Nat /\ XorBit[x][y] \in Nat
  BY DEF AndBit, OrBit, XorBit

(***************************************************************************)
(* What an instruction may stage, and what it must leave alone             *)
(***************************************************************************)
(* What execution and post_insn leave alone: everything committed, the
   external registers, the PC and the stalls. *)
Same(s, t) ==
    /\ t.gprs.regs.val = s.gprs.regs.val /\ t.gprs.stack = s.gprs.stack
    /\ t.wdrs.val = s.wdrs.val /\ t.flags.val = s.flags.val
    /\ t.wsrs.mod = s.wsrs.mod /\ t.wsrs.acc = s.wsrs.acc
    /\ t.wsrs.rnd = s.wsrs.rnd /\ t.wsrs.rndPending = s.wsrs.rndPending
    /\ t.dmem.data = s.dmem.data /\ t.dmem.begun = s.dmem.begun /\ t.dmem.ready = s.dmem.ready
    /\ t.ext = s.ext /\ t.pc = s.pc /\ t.insnStall = s.insnStall /\ t.startStall = s.startStall
    /\ t.urndStall = s.urndStall /\ t.running = s.running /\ t.newRnd = s.newRnd
    /\ t.reseed = s.reseed

(* What most instructions leave alone besides. *)
Control(s, t) ==
    /\ t.loops = s.loops /\ t.over = s.over /\ t.errBits = s.errBits /\ t.halt = s.halt
    /\ t.raised = s.raised /\ t.wsrs.rndRead = s.wsrs.rndRead

(* A step of an instruction that only stages register or memory writes. *)
Quiet(s, t) == t \in States /\ Same(s, t) /\ Control(s, t)

(* Doing nothing is quiet. *)
LEMMA QuietRefl == ASSUME NEW s \in States PROVE Quiet(s, s)
  BY DEF Quiet, Same, Control

(* Quiet steps compose. *)
LEMMA QuietTrans ==
  ASSUME NEW s, NEW t, NEW u, Quiet(s, t), Quiet(t, u)
  PROVE  Quiet(s, u)
  BY DEF Quiet, Same, Control

(* Staging in the GPRs is quiet. *)
LEMMA PutGprs ==
  ASSUME NEW s \in States, NEW g \in GprStates,
         g.regs.val = s.gprs.regs.val, g.stack = s.gprs.stack
  PROVE  Quiet(s, [s EXCEPT !.gprs = g])
  BY DEF Quiet, Same, Control, States

(* Staging in the WDRs is quiet. *)
LEMMA PutWdrs ==
  ASSUME NEW s \in States, NEW f \in RegFiles(WdrIds, Int), f.val = s.wdrs.val
  PROVE  Quiet(s, [s EXCEPT !.wdrs = f])
  BY DEF Quiet, Same, Control, States

(* Staging flags is quiet. *)
LEMMA PutFlags ==
  ASSUME NEW s \in States, NEW f \in RegFiles(0 .. 1, FlagSets), f.val = s.flags.val
  PROVE  Quiet(s, [s EXCEPT !.flags = f])
  BY DEF Quiet, Same, Control, States

(* Staging in the WSRs, RND apart, is quiet. *)
LEMMA PutWsrs ==
  ASSUME NEW s \in States, NEW w \in WsrStates, w.mod = s.wsrs.mod, w.acc = s.wsrs.acc,
         w.rnd = s.wsrs.rnd, w.rndPending = s.wsrs.rndPending, w.rndRead = s.wsrs.rndRead
  PROVE  Quiet(s, [s EXCEPT !.wsrs = w])
  BY DEF Quiet, Same, Control, States

(* Tracing a store and noting an error of data memory are quiet. *)
LEMMA PutDmem ==
  ASSUME NEW s \in States, NEW d \in DmemStates, d.data = s.dmem.data,
         d.begun = s.dmem.begun, d.ready = s.dmem.ready
  PROVE  Quiet(s, [s EXCEPT !.dmem = d])
  BY DEF Quiet, Same, Control, States

(* A GPR that an instruction names reads as a natural, x0 and the call
   stack included. *)
LEMMA GNat == ASSUME NEW s \in States, NEW r, IsGpr(r) PROVE G(s, r) \in Nat
<1>1. s.gprs.stack \in Seq(Nat) /\ s.gprs.regs.val \in [GprIds -> Nat]
  BY DEF States, GprStates, RegFiles
<1>2. CASE r = 0
  BY <1>2 DEF G, ReadGpr
<1>3. CASE r = 1
  <2>1. s.gprs.stack # << >> => s.gprs.stack[Len(s.gprs.stack)] \in Nat
    BY <1>1
  <2> QED
    BY <1>3, <2>1 DEF G, ReadGpr
<1>4. CASE r # 0 /\ r # 1
  <2>1. r \in GprIds
    BY <1>4 DEF IsGpr, GprIds
  <2> QED
    BY <1>1, <2>1 DEF G, ReadGpr
<1> QED
  BY <1>2, <1>3, <1>4

(* A WDR that an instruction names reads as an integer. *)
LEMMA WInt == ASSUME NEW s \in States, NEW r, IsWdr(r) PROVE W(s, r) \in Int
  BY Zenon DEF W, IsWdr, States, RegFiles, WdrIds

(* A flag group that an instruction names holds four flags. *)
LEMMA FlagType ==
  ASSUME NEW s \in States, NEW fg, IsGroup(fg) PROVE s.flags.val[fg] \in FlagSets
  BY DEF IsGroup, States, RegFiles

(* Noting which GPRs an instruction reads is quiet: a pop of the call
   stack waits for the commit. *)
LEMMA ReadingQuiet == ASSUME NEW s \in States, NEW R PROVE Quiet(s, Reading(s, R))
<1> DEFINE g == NoteReads(s.gprs, R)
<1>1. s.gprs \in GprStates
  BY DEF States
<1>2. g \in GprStates /\ g.regs.val = s.gprs.regs.val /\ g.stack = s.gprs.stack
  BY <1>1, Zenon DEF GprStates, NoteReads
<1> HIDE DEF g
<1>3. Quiet(s, [s EXCEPT !.gprs = g])
  BY <1>2, PutGprs
<1> QED
  BY <1>3 DEF Reading, g

(* Writing a GPR is quiet: a push onto the call stack waits for the
   commit. *)
LEMMA PutGQuiet ==
  ASSUME NEW s \in States, NEW r, IsGpr(r), NEW v \in Nat
  PROVE  Quiet(s, PutG(s, r, v))
<1> DEFINE g == WriteGpr(s.gprs, r, v)
<1>1. s.gprs \in GprStates /\ s.gprs.regs \in RegFiles(GprIds, Nat)
  BY DEF States, GprStates
<1>2. g \in GprStates /\ g.regs.val = s.gprs.regs.val /\ g.stack = s.gprs.stack
  <2>1. CASE r = 0
    BY <1>1, <2>1 DEF WriteGpr
  <2>2. CASE r = 1
    BY <1>1, <2>2, Zenon DEF WriteGpr, GprStates
  <2>3. CASE r # 0 /\ r # 1
    <3>1. r \in GprIds
      BY <2>3 DEF IsGpr, GprIds
    <3>2. WriteReg(s.gprs.regs, r, v) \in RegFiles(GprIds, Nat)
          /\ WriteReg(s.gprs.regs, r, v).val = s.gprs.regs.val
      BY <1>1, <3>1, WriteRegType
    <3> QED
      BY <1>1, <3>2, Zenon DEF WriteGpr, GprStates
  <2> QED
    BY <2>1, <2>2, <2>3
<1> HIDE DEF g
<1>3. Quiet(s, [s EXCEPT !.gprs = g])
  BY <1>2, PutGprs
<1> QED
  BY <1>3 DEF PutG, g

(* Writing a WDR is quiet. *)
LEMMA PutWQuiet ==
  ASSUME NEW s \in States, NEW r, IsWdr(r), NEW v \in Int
  PROVE  Quiet(s, PutW(s, r, v))
<1>1. s.wdrs \in RegFiles(WdrIds, Int) /\ r \in WdrIds
  BY DEF States, IsWdr, WdrIds
<1>2. WriteReg(s.wdrs, r, v) \in RegFiles(WdrIds, Int) /\ WriteReg(s.wdrs, r, v).val = s.wdrs.val
  BY <1>1, WriteRegType
<1> QED
  BY <1>2, PutWdrs DEF PutW

(* Writing a flag group is quiet. *)
LEMMA SetFlagsQuiet ==
  ASSUME NEW s \in States, NEW fg, IsGroup(fg), NEW f \in FlagSets
  PROVE  Quiet(s, SetFlags(s, fg, f))
<1>1. s.flags \in RegFiles(0 .. 1, FlagSets) /\ fg \in 0 .. 1
  BY DEF States, IsGroup
<1>2. WriteReg(s.flags, fg, f) \in RegFiles(0 .. 1, FlagSets)
      /\ WriteReg(s.flags, fg, f).val = s.flags.val
  BY <1>1, WriteRegType
<1> QED
  BY <1>2, PutFlags DEF SetFlags

(* The flags computed from a result are a flag group. *)
LEMMA MlzType ==
  ASSUME NEW c \in Nat, NEW r \in Int PROVE MlzForResult(c, r) \in FlagSets
  BY BitType, Widths DEF MlzForResult, FlagSets

(* Writing the M, L and Z flags of a result is quiet. *)
LEMMA SetMlzQuiet ==
  ASSUME NEW s \in States, NEW fg, IsGroup(fg), NEW r \in Int
  PROVE  Quiet(s, SetMlzFlags(s, fg, r))
<1>1. s.flags.val[fg].C \in Nat
  BY FlagType DEF FlagSets
<1> QED
  BY <1>1, MlzType, SetFlagsQuiet DEF SetMlzFlags

(* Writing a WSR is quiet; a write to RND is dropped. *)
LEMMA WriteWsrQuiet ==
  ASSUME NEW s \in States, NEW name \in {"MOD", "ACC", "RND"}, NEW v \in Int
  PROVE  Quiet(s, [s EXCEPT !.wsrs = WriteWsr(@, name, v)])
<1> DEFINE w == WriteWsr(s.wsrs, name, v)
<1>1. s.wsrs \in WsrStates
  BY DEF States
<1>2. w \in WsrStates /\ w.mod = s.wsrs.mod /\ w.acc = s.wsrs.acc
      /\ w.rnd = s.wsrs.rnd /\ w.rndPending = s.wsrs.rndPending /\ w.rndRead = s.wsrs.rndRead
  BY <1>1 DEF WriteWsr, WsrStates
<1> HIDE DEF w
<1>3. Quiet(s, [s EXCEPT !.wsrs = w])
  BY <1>2, PutWsrs
<1> QED
  BY <1>3 DEF w

(***************************************************************************)
(* Data memory                                                             *)
(***************************************************************************)
(* An address that passes the check of a wide access lies in data memory. *)
LEMMA WideAddress ==
  ASSUME NEW a \in Nat, ~BadWide(a) PROVE a \in Addresses
<1>1. a \div WBytes \in Nat
  BY WidthAssumption
<1> QED
  BY WidthAssumption DEF BadWide, Addresses, MemIds

(* An address that passes the check of a narrow access lies in data
   memory. *)
LEMMA NarrowAddress ==
  ASSUME NEW a \in Nat, ~BadNarrow(a) PROVE a \in Addresses
<1>1. a \div WBytes \in Nat /\ (a + GBytes - 1) \div WBytes \in Int
  BY WidthAssumption
<1>2. a \div WBytes <= (a + GBytes - 1) \div WBytes
  BY WidthAssumption
<1> QED
  BY WidthAssumption DEF BadNarrow, Addresses, MemIds

(* The place of a narrow word in its wide word. *)
LEMMA WordIndex ==
  ASSUME NEW a \in Nat PROVE GW * ((a \div GBytes) % NPerW) \in 0 .. WW
<1>1. a \div GBytes \in Nat
  BY WidthAssumption
<1>2. (a \div GBytes) % NPerW \in 0 .. NPerW - 1
  BY WidthAssumption
<1> QED
  BY WidthAssumption

(* A store is traced, or noted as an error, and not yet done. *)
LEMMA StoreType ==
  ASSUME NEW d \in DmemStates, NEW a \in Nat, NEW v \in Int, NEW wide \in BOOLEAN
  PROVE  LET e == Store(d, a, v, wide)
         IN e \in DmemStates /\ e.data = d.data /\ e.begun = d.begun /\ e.ready = d.ready
<1>1. CASE (wide /\ BadWide(a)) \/ (~wide /\ BadNarrow(a))
  BY <1>1, Zenon DEF Store, DmemStates
<1>2. CASE ~((wide /\ BadWide(a)) \/ (~wide /\ BadNarrow(a)))
  <2>1. a \in Addresses
    BY <1>2, WideAddress, NarrowAddress
  <2>2. [addr |-> a, val |-> v, wide |-> wide] \in Writes
    BY <2>1 DEF Writes
  <2>3. Append(d.trace, [addr |-> a, val |-> v, wide |-> wide]) \in Seq(Writes)
    BY <2>2 DEF DmemStates
  <2> QED
    BY <2>3, Zenon DEF Store, DmemStates
<1> QED
  BY <1>1, <1>2

(* commit of data memory keeps its type. *)
LEMMA CommitDmemType ==
  ASSUME NEW d \in DmemStates PROVE CommitDmem(d) \in DmemStates
(* Performing one traced store keeps data memory well typed. *)
<1>CommitStoreType. ASSUME NEW data \in [MemIds -> Int], NEW t \in Writes
                    PROVE  CommitStore(data, t) \in [MemIds -> Int]
  <2> DEFINE i == t.addr \div WBytes
             k == (t.addr \div GBytes) % NPerW
  <2>1. t.addr \in Nat /\ i \in MemIds /\ t.val \in Int
    BY DEF Writes, Addresses
  <2>2. GW * k \in 0 .. WW
    BY <2>1, WordIndex
  <2> HIDE DEF i, k
  <2>3. SetU32(data[i], k, t.val) \in Int
    BY <2>1, <2>2, Widths, SetFieldInt DEF SetU32
  <2> QED
    BY <2>1, <2>3 DEF CommitStore, i, k
<1>1. d.data \in [MemIds -> Int] /\ d.trace \in Seq(Writes)
  BY DEF DmemStates
<1>2. d.trace # << >> => CommitStore(d.data, d.trace[1]) \in [MemIds -> Int]
  BY <1>1, <1>CommitStoreType
<1>3. << >> \in Seq(Writes)
  OBVIOUS
<1> QED
  BY <1>2, <1>3, Zenon DEF CommitDmem, DmemStates

(* load_le_words changes the data and neither the trace nor a load under
   way. *)
LEMMA LoadLeWordsType ==
  ASSUME NEW d \in DmemStates, NEW ws \in Seq(Int)
  PROVE  LET e == LoadLeWords(d, ws)
         IN /\ e \in DmemStates /\ e.begun = d.begun /\ e.ready = d.ready
            /\ e.trace = d.trace /\ e.err = d.err
(* The padding word of load_le_words is an integer. *)
<1>PadWordInt. PadWord \in Int
  <2> DEFINE g == [n \in 1 .. GBytes |-> PadByte * 2^(ByteBits * (n - 1))]
  <2>1. ASSUME NEW n \in 1 .. GBytes PROVE PadByte * 2^(ByteBits * (n - 1)) \in Int
    <3>1. n - 1 \in 0 .. GBytes - 1
      BY WidthAssumption
    <3>2. ByteBits * (n - 1) \in 0 .. WW
      BY <3>1, WidthAssumption, Zenon
    <3>3. 2^(ByteBits * (n - 1)) \in Int
      BY <3>2
    <3> QED
      BY <3>3, InputsAssumption
  <2>2. g \in [1 .. GBytes -> Int] /\ GBytes \in Nat
    BY <2>1, WidthAssumption, Zenon
  <2>3. 0 \in Int /\ \A x, y \in Int : x + y \in Int
    OBVIOUS
  <2> HIDE DEF g
  <2>4. SumTo(g, GBytes) \in Int
    BY <2>2, <2>3, SumToType, Zenon
  <2> QED
    BY <2>4 DEF PadWord, g
<1> DEFINE word(k) == IF k <= Len(ws) THEN ws[k] ELSE PadWord
           g(i) == [n \in 1 .. NPerW |-> word(NPerW * i + n) * 2^(GW * (n - 1))]
<1>1. ASSUME NEW i \in MemIds PROVE SumTo(g(i), NPerW) \in Int
  <2>1. ASSUME NEW n \in 1 .. NPerW PROVE word(NPerW * i + n) * 2^(GW * (n - 1)) \in Int
    <3>1. n - 1 \in 0 .. NPerW - 1 /\ i \in Nat
      BY WidthAssumption DEF MemIds
    <3>2. 2^(GW * (n - 1)) \in Int
      BY WidthAssumption
    <3>3. NPerW * i + n \in Nat /\ NPerW * i + n >= 1
      BY <3>1, WidthAssumption, SMTT(20)
    <3>4. word(NPerW * i + n) \in Int
      BY <3>3, <1>PadWordInt
    <3> QED
      BY <3>2, <3>4
  <2>2. g(i) \in [1 .. NPerW -> Int] /\ NPerW \in Nat
    BY <2>1, WidthAssumption
  <2>3. 0 \in Int /\ \A x, y \in Int : x + y \in Int
    OBVIOUS
  <2> HIDE DEF g
  <2> QED
    BY <2>2, <2>3, SumToType, Zenon
<1> DEFINE data == [i \in DOMAIN d.data |->
                       IF NPerW * i < Len(ws) THEN SumTo(g(i), NPerW) ELSE d.data[i]]
<1>2. d.data \in [MemIds -> Int]
  BY DEF DmemStates
<1>3. data \in [MemIds -> Int]
  <2> HIDE DEF g
  <2> QED
    BY <1>1, <1>2
<1>4. LoadLeWords(d, ws) = [d EXCEPT !.data = data]
  BY DEF LoadLeWords
<1> HIDE DEF data
<1> QED
  BY <1>3, <1>4, Zenon DEF DmemStates

(***************************************************************************)
(* Instructions                                                            *)
(***************************************************************************)
(* An instruction none of whose assertions, and no lookup of a CSR, can
   fail. LOOPI asserts that it has iterations; LOOP reports a count of
   zero as an error of the program. *)
AssertFree(i) ==
    /\ i.op \in {"CSRRS", "CSRRW"} => KnownCsr(i.csr)
    /\ i.op = "LOOPI" => i.iterations # 0
    /\ i.op \in {"BEQ", "BNE"} => i.offset >= 0

(* What execute() of instruction i may do to a state: stage writes, start
   one loop at the next instruction, ask for a jump, mark RND as read if
   i reads it; and raise, if i may. *)
Ran(s, t, i) ==
    /\ t \in States /\ Same(s, t)
    /\ \/ t.loops.stack = s.loops.stack
       \/ /\ t.over = s.over
          /\ \E l \in Levels : l.start = s.pc + 4 /\ t.loops.stack = Append(s.loops.stack, l)
    /\ t.raised = s.raised => t.wsrs.rndRead = (s.wsrs.rndRead \/ ReadsRnd(i))
    /\ AssertFree(i) => t.raised = s.raised
    /\ AssertFree(i) => t.over = s.over \/ t.over \in Nat

(* A quiet instruction that does not read RND has run. *)
LEMMA QuietRan ==
  ASSUME NEW s \in States, NEW t, NEW i, Quiet(s, t), ~ReadsRnd(i)
  PROVE  Ran(s, t, i)
<1>1. s.wsrs.rndRead \in BOOLEAN
  BY DEF States, WsrStates
<1> QED
  BY <1>1 DEF Quiet, Control, Ran

(* The address of a narrow access is a natural. *)
LEMMA NarrowAddrNat ==
  ASSUME NEW s \in States, NEW i, IsGpr(i.grs1), i.offset \in Int
  PROVE  NarrowAddr(s, i) \in Nat
<1>1. G(s, i.grs1) + i.offset \in Int
  BY GNat
<1> QED
  BY <1>1, MaskNat, Widths DEF NarrowAddr

(* Noting a bad access is quiet. *)
LEMMA NoteAccessQuiet ==
  ASSUME NEW s \in States, NEW bad \in BOOLEAN
  PROVE  Quiet(s, [s EXCEPT !.dmem = NoteAccess(@, bad)])
<1> DEFINE d == NoteAccess(s.dmem, bad)
<1>1. s.dmem \in DmemStates
  BY DEF States
<1>2. d \in DmemStates /\ d.data = s.dmem.data /\ d.begun = s.dmem.begun /\ d.ready = s.dmem.ready
  BY <1>1, Zenon DEF DmemStates, NoteAccess
<1> HIDE DEF d
<1>3. Quiet(s, [s EXCEPT !.dmem = d])
  BY <1>2, PutDmem
<1> QED
  BY <1>3 DEF d

(* A store is quiet until it is committed. *)
LEMMA StoreQuiet ==
  ASSUME NEW s \in States, NEW a \in Nat, NEW v \in Int, NEW wide \in BOOLEAN
  PROVE  Quiet(s, [s EXCEPT !.dmem = Store(@, a, v, wide)])
<1> DEFINE d == Store(s.dmem, a, v, wide)
<1>1. s.dmem \in DmemStates
  BY DEF States
<1>2. d \in DmemStates /\ d.data = s.dmem.data /\ d.begun = s.dmem.begun /\ d.ready = s.dmem.ready
  BY <1>1, StoreType
<1> HIDE DEF d
<1>3. Quiet(s, [s EXCEPT !.dmem = d])
  BY <1>2, PutDmem
<1> QED
  BY <1>3 DEF d

(* A quiet step that asks to stop at the end of the cycle. *)
LEMMA StopRan ==
  ASSUME NEW s \in States, NEW r, NEW i, Quiet(s, r), ~ReadsRnd(i), NEW bits \in SUBSET ErrNames
  PROVE  Ran(s, StopAtEndOfCycle(r, bits), i)
<1> DEFINE t == StopAtEndOfCycle(r, bits)
<1>1. r \in States
  BY DEF Quiet
<1>2. t \in States
  BY <1>1, Zenon DEF StopAtEndOfCycle, States
<1>3. Same(r, t)
  BY DEF StopAtEndOfCycle, Same
<1>4. t.over = r.over /\ t.loops = r.loops /\ t.raised = r.raised /\ t.wsrs = r.wsrs
  BY DEF StopAtEndOfCycle
<1>5. s.wsrs.rndRead \in BOOLEAN
  BY DEF States, WsrStates
<1> HIDE DEF t
<1>6. Same(s, t)
  BY <1>3 DEF Same, Quiet
<1>7. Ran(s, t, i)
  BY <1>2, <1>4, <1>5, <1>6 DEF Ran, Quiet, Control
<1> QED
  BY <1>7 DEF t

(* ILLEGAL_INSN is an error bit. *)
LEMMA IllegalBit == {"ILLEGAL_INSN"} \in SUBSET ErrNames
  BY DEF ErrNames

(* A quiet step that raises, of an instruction that may. *)
LEMMA RaiseRan ==
  ASSUME NEW s \in States, NEW r, NEW i, Quiet(s, r), NEW why \in Exceptions, ~AssertFree(i),
         why # s.raised
  PROVE  Ran(s, Raise(r, why), i)
<1> DEFINE t == Raise(r, why)
<1>1. r \in States
  BY DEF Quiet
<1>2. t \in States
  BY <1>1 DEF Raise, States
<1>3. Same(r, t)
  BY DEF Raise, Same
<1>4. t.over = r.over /\ t.loops = r.loops /\ t.raised = why
  BY SMTT(20) DEF Raise
<1> HIDE DEF t
<1>5. Same(s, t)
  BY <1>3 DEF Same, Quiet
<1>6. Ran(s, t, i)
  BY <1>2, <1>4, <1>5 DEF Ran, Quiet, Control
<1> QED
  BY <1>6 DEF t

(* A quiet step that starts a loop: the new level begins at the next
   instruction. *)
LEMMA LoopStartRan ==
  ASSUME NEW s \in States, s.raised = None, NEW r, NEW i, Quiet(s, r), ~ReadsRnd(i),
         NEW count \in Nat, count = 0 => ~AssertFree(i), NEW insns \in Nat
  PROVE  Ran(s, LoopStart(r, count, insns), i)
<1>1. CASE count = 0
  <2>1. "assert 0 < loop_count" \in Exceptions
    BY DEF Exceptions
  <2>2. "assert 0 < loop_count" # s.raised
    BY <2>1, NoneAssumption, Zenon
  <2>3. Ran(s, Raise(r, "assert 0 < loop_count"), i)
    BY <1>1, <2>1, <2>2, RaiseRan, Zenon
  <2> QED
    BY <1>1, <2>3, Zenon DEF LoopStart
<1>2. CASE count # 0
  <2> DEFINE l == LoopLevel(r.pc + 4, insns, count)
             n == StartLoop(r.loops, r.pc + 4, count, insns)
             t == [r EXCEPT !.loops = n]
  <2>1. r \in States /\ r.loops \in LoopStates /\ r.pc \in Nat /\ r.pc = s.pc
    BY DEF Quiet, States, Same
  <2>2. l \in Levels /\ l.start = s.pc + 4
    BY <2>1 DEF LoopLevel, Levels
  <2> HIDE DEF l
  <2>3. n.stack = Append(r.loops.stack, l) /\ n \in LoopStates
    <3>1. r.loops.stack \in Seq(Levels)
      BY <2>1 DEF LoopStates
    <3>2. Append(r.loops.stack, l) \in Seq(Levels)
      BY <2>2, <3>1
    <3> QED
      BY <2>1, <3>2, Zenon DEF StartLoop, LoopStates, l
  <2> HIDE DEF n
  <2>4. t \in States /\ Same(r, t)
    <3>1. t \in States
      <4>1. r \in States /\ n \in LoopStates
        BY <2>1, <2>3
      <4> QED
        BY <4>1 DEF States
    <3>2. Same(r, t)
      BY DEF Same
    <3> QED
      BY <3>1, <3>2
  <2>5. t.over = r.over /\ t.loops = n /\ t.raised = r.raised /\ t.wsrs = r.wsrs
    OBVIOUS
  <2>6. s.wsrs.rndRead \in BOOLEAN
    BY DEF States, WsrStates
  <2> HIDE DEF t
  <2>7. Same(s, t)
    BY <2>4 DEF Same, Quiet
  <2>8. Ran(s, t, i)
    BY <2>2, <2>3, <2>4, <2>5, <2>6, <2>7, Zenon DEF Ran, Quiet, Control
  <2> QED
    BY <1>2, <2>8 DEF LoopStart, t, n
<1> QED
  BY <1>1, <1>2

(* LOOP runs. *)
LEMMA RanLoop ==
  ASSUME NEW s \in States, s.raised = None, NEW i, i.op = "LOOP", IsGpr(i.grs), i.bodysize \in Nat
  PROVE  Ran(s, ExecLoop(s, i), i)
<1> DEFINE r == Reading(s, {i.grs})
<1>1. Quiet(s, r)
  BY ReadingQuiet
<1>2. ~ReadsRnd(i)
  BY DEF ReadsRnd
<1>3. G(s, i.grs) \in Nat /\ {"LOOP"} \in SUBSET ErrNames
  BY GNat DEF ErrNames
<1> HIDE DEF r
<1>4. CASE G(s, i.grs) = 0
  <2>1. Ran(s, StopAtEndOfCycle(r, {"LOOP"}), i)
    BY <1>1, <1>2, <1>3, StopRan
  <2> QED
    BY <1>4, <2>1 DEF ExecLoop, r
<1>5. CASE G(s, i.grs) # 0
  <2>1. Ran(s, LoopStart(r, G(s, i.grs), i.bodysize), i)
    BY <1>1, <1>2, <1>3, <1>5, LoopStartRan
  <2> QED
    BY <1>5, <2>1 DEF ExecLoop, r
<1> QED
  BY <1>4, <1>5

(* LOOPI runs. *)
LEMMA RanLoopi ==
  ASSUME NEW s \in States, s.raised = None, NEW i, i.op = "LOOPI", i.iterations \in Nat,
         i.bodysize \in Nat
  PROVE  Ran(s, ExecLoopi(s, i), i)
<1>1. ~ReadsRnd(i) /\ (i.iterations = 0 => ~AssertFree(i))
  BY DEF ReadsRnd, AssertFree
<1> QED
  BY <1>1, QuietRefl, LoopStartRan DEF ExecLoopi

(* Four bits are a flag group. *)
LEMMA FlagsFromBitsType == ASSUME NEW v \in Int PROVE FlagsFromBits(v) \in FlagSets
  BY BitType, Widths, SMTT(20) DEF FlagsFromBits, FlagSets

(* A quiet step that also marks RND as read. *)
Marked(s, t) ==
    /\ t \in States /\ Same(s, t)
    /\ t.loops = s.loops /\ t.over = s.over /\ t.errBits = s.errBits /\ t.halt = s.halt
    /\ t.raised = s.raised /\ t.wsrs.rndRead = TRUE

(* Marked and quiet steps compose. *)
LEMMA MarkedQuiet ==
  ASSUME NEW s, NEW t, NEW u
  PROVE  /\ Quiet(s, t) /\ Marked(t, u) => Marked(s, u)
         /\ Marked(s, t) /\ Quiet(t, u) => Marked(s, u)
  BY Zenon DEF Marked, Quiet, Same, Control

(* Reading a WSR is quiet, but for RND, which is marked. *)
LEMMA NoteRead ==
  ASSUME NEW s \in States, NEW name
  PROVE  LET t == [s EXCEPT !.wsrs = NoteWsrRead(@, name)]
         IN IF name = "RND" THEN Marked(s, t) ELSE Quiet(s, t)
<1> DEFINE w == NoteWsrRead(s.wsrs, name)
           t == [s EXCEPT !.wsrs = w]
<1>1. s.wsrs \in WsrStates
  BY DEF States
<1>2. /\ w \in WsrStates /\ w.mod = s.wsrs.mod /\ w.acc = s.wsrs.acc
      /\ w.rnd = s.wsrs.rnd /\ w.rndPending = s.wsrs.rndPending
      /\ w.rndRead = IF name = "RND" THEN TRUE ELSE s.wsrs.rndRead
  BY <1>1, Zenon DEF NoteWsrRead, WsrStates
<1> HIDE DEF w
<1>3. t \in States /\ Same(s, t) /\ t.wsrs = w
  BY <1>2 DEF States, Same
<1>4. /\ t.loops = s.loops /\ t.over = s.over /\ t.errBits = s.errBits /\ t.halt = s.halt
      /\ t.raised = s.raised
  OBVIOUS
<1> HIDE DEF t
<1>5. IF name = "RND" THEN Marked(s, t) ELSE Quiet(s, t)
  BY <1>2, <1>3, <1>4, Zenon DEF Marked, Quiet, Control
<1> QED
  BY <1>5 DEF t, w

(* An instruction that marks RND exactly if it reads it has run. *)
LEMMA MarkedRan ==
  ASSUME NEW s \in States, NEW t, NEW i,
         IF ReadsRnd(i) THEN Marked(s, t) ELSE Quiet(s, t)
  PROVE  Ran(s, t, i)
<1>1. CASE ReadsRnd(i)
  BY <1>1, Zenon DEF Marked, Ran
<1>2. CASE ~ReadsRnd(i)
  BY <1>2, QuietRan
<1> QED
  BY <1>1, <1>2

(* The instructions of the base set, CSRs included, run. *)
LEMMA NarrowRan ==
  \A s \in States : \A i :
    IsNarrowInsn(i) /\ s.raised = None /\ (ReadsRnd(i) => s.wsrs.rnd \in Int)
    => Ran(s, Execute(s, i), i)
(* to_unsigned wraps what is not too negative to a natural. *)
<1>ToUnsignedNat. ASSUME NEW v \in Int, v >= -(2^GW) PROVE ToUnsigned(v, GW) \in Nat
  <2>1. 2^GW \in Nat
    BY <1>ToUnsignedNat, Widths, Powers
  <2> QED
    BY <1>ToUnsignedNat, <2>1 DEF ToUnsigned
(* The result of a register-register instruction is a natural. *)
<1>RegRegResultNat. ASSUME NEW op \in RegRegOps, NEW a \in Nat, NEW b \in Nat
                    PROVE  RegRegResult(op, a, b) \in Nat
  <2> DEFINE n == b % GW
  <2>1. n \in 0 .. WW
    BY Widths
  <2>2. 2^n \in Nat /\ 2^n # 0 /\ 2^GW \in Nat /\ 2^(GW - 1) \in Nat
    BY Widths, Powers
  <2> HIDE DEF n
  <2>3. CASE op \in {"ADD", "SUB"}
    <3>1. a + b \in Int /\ a - b \in Int
      OBVIOUS
    <3>2. Mask(a + b, GW) \in Nat /\ Mask(a - b, GW) \in Nat
      BY MaskNat, Widths
    <3> QED
      BY <2>3, <3>2 DEF RegRegResult
  <2>4. CASE op = "SLL"
    <3>1. a * 2^n \in Int
      BY <2>2
    <3>2. Mask(a * 2^n, GW) \in Nat
      BY <3>1, MaskNat, Widths
    <3> QED
      BY <2>4, <3>2 DEF RegRegResult, n
  <2>5. CASE op = "SRL"
    <3>1. a \div 2^n \in Nat
      BY <2>2
    <3> QED
      BY <2>5, <3>1 DEF RegRegResult, ShiftedRight, n
  <2>6. CASE op = "SRA"
    <3>1. ToSigned(a, GW) \in Int /\ ToSigned(a, GW) >= -(2^GW)
      BY <2>2 DEF ToSigned
    <3>2. ToSigned(a, GW) \div 2^n \in Int /\ ToSigned(a, GW) \div 2^n >= -(2^GW)
      BY <2>2, <3>1
    <3>3. ToUnsigned(ToSigned(a, GW) \div 2^n, GW) \in Nat
      BY <3>2, <1>ToUnsignedNat
    <3> QED
      BY <2>6, <3>3 DEF RegRegResult, ShiftedRight, n
  <2>7. CASE op \in {"AND", "OR", "XOR"}
    <3>1. BitwiseOp(AndBit, a, b, GW) \in Nat /\ BitwiseOp(OrBit, a, b, GW) \in Nat
          /\ BitwiseOp(XorBit, a, b, GW) \in Nat
      BY BitTables, BitwiseNat, Widths, SMTT(20)
    <3> QED
      BY <2>7, <3>1 DEF RegRegResult
  <2> QED
    BY <2>3, <2>4, <2>5, <2>6, <2>7 DEF RegRegOps
(* The register-register instructions run. *)
<1>RanRegReg. ASSUME NEW s \in States, NEW i, i.op \in RegRegOps,
                     IsGpr(i.grd), IsGpr(i.grs1), IsGpr(i.grs2)
              PROVE  Ran(s, ExecRegReg(s, i), i)
  <2> DEFINE r == Reading(s, {i.grs1, i.grs2})
             v == RegRegResult(i.op, G(s, i.grs1), G(s, i.grs2))
  <2>1. v \in Nat
    BY <1>RanRegReg, GNat, <1>RegRegResultNat, Zenon
  <2>2. Quiet(s, r) /\ r \in States
    BY <1>RanRegReg, ReadingQuiet DEF Quiet
  <2> HIDE DEF r, v
  <2>3. Quiet(s, PutG(r, i.grd, v))
    BY <1>RanRegReg, <2>1, <2>2, PutGQuiet, QuietTrans, Zenon
  <2>4. ~ReadsRnd(i)
    BY <1>RanRegReg, Zenon DEF ReadsRnd, RegRegOps
  <2> QED
    BY <1>RanRegReg, <2>3, <2>4, QuietRan DEF ExecRegReg, r, v
(* The register-immediate instructions run. *)
<1>RanRegImm. ASSUME NEW s \in States, NEW i, i.op \in DOMAIN RegImmOps,
                     IsGpr(i.grd), IsGpr(i.grs1), i.imm \in -2^GW .. 2^GW
              PROVE  Ran(s, ExecRegImm(s, i), i)
  <2> DEFINE r == Reading(s, {i.grs1})
             v == RegRegResult(RegImmOps[i.op], G(s, i.grs1), ToUnsigned(i.imm, GW))
  <2>1. v \in Nat
    <3>1. RegImmOps[i.op] \in RegRegOps
      BY <1>RanRegImm DEF RegImmOps, RegRegOps
    <3>2. 2^GW \in Nat
      BY <1>RanRegImm, Widths
    <3>3. i.imm \in Int /\ i.imm >= -(2^GW)
      BY <1>RanRegImm
    <3>4. ToUnsigned(i.imm, GW) \in Nat
      BY <1>RanRegImm, <1>ToUnsignedNat, SMTT(20)
    <3> QED
      BY <1>RanRegImm, <3>1, <3>4, GNat, <1>RegRegResultNat, Zenon
  <2>2. Quiet(s, r) /\ r \in States
    BY <1>RanRegImm, ReadingQuiet DEF Quiet
  <2> HIDE DEF r, v
  <2>3. Quiet(s, PutG(r, i.grd, v))
    BY <1>RanRegImm, <2>1, <2>2, PutGQuiet, QuietTrans, Zenon
  <2>4. ~ReadsRnd(i)
    BY <1>RanRegImm DEF ReadsRnd, RegImmOps
  <2> QED
    BY <1>RanRegImm, <2>3, <2>4, QuietRan DEF ExecRegImm, r, v
(* LUI runs. *)
<1>RanLui. ASSUME NEW s \in States, NEW i, i.op = "LUI", IsGpr(i.grd), i.imm \in Nat
           PROVE  Ran(s, ExecLui(s, i), i)
  <2>1. 2^LuiShift \in Nat
    BY <1>RanLui, WidthAssumption, Powers
  <2>2. i.imm * 2^LuiShift \in Nat
    BY <1>RanLui, <2>1
  <2>3. ~ReadsRnd(i)
    BY <1>RanLui DEF ReadsRnd
  <2> QED
    BY <1>RanLui, <2>2, <2>3, PutGQuiet, QuietRan, Zenon DEF ExecLui
(* A narrow load gives a natural. *)
<1>LoadU32Nat. ASSUME NEW d \in DmemStates, NEW a \in Nat PROVE LoadU32(d, a) \in Nat
  <2>1. CASE BadNarrow(a)
    BY <2>1 DEF LoadU32
  <2>2. CASE ~BadNarrow(a)
    <3>1. d.data[a \div WBytes] \in Int
      BY <2>2, NarrowAddress DEF DmemStates, Addresses
    <3>2. GetField((a \div GBytes) % NPerW, GW, d.data[a \div WBytes]) \in Nat
      BY <3>1, WordIndex, Widths, GetFieldNat, Zenon
    <3> QED
      BY <3>2 DEF LoadU32, GetU32
  <2> QED
    BY <2>1, <2>2
(* LW runs. *)
<1>RanLw. ASSUME NEW s \in States, NEW i, i.op = "LW", IsGpr(i.grd), IsGpr(i.grs1), i.offset \in Int
          PROVE  Ran(s, ExecLw(s, i), i)
  <2> DEFINE a == NarrowAddr(s, i)
             q == Reading(s, {i.grs1})
             r == [q EXCEPT !.dmem = NoteAccess(@, BadNarrow(a))]
  <2>1. a \in Nat
    BY <1>RanLw, NarrowAddrNat
  <2>2. Quiet(s, q) /\ q \in States
    BY <1>RanLw, ReadingQuiet DEF Quiet
  <2>3. BadNarrow(a) \in BOOLEAN
    BY <1>RanLw DEF BadNarrow
  <2> HIDE DEF a, q
  <2>4. Quiet(s, r) /\ r \in States
    BY <1>RanLw, <2>2, <2>3, NoteAccessQuiet, QuietTrans, Zenon DEF Quiet
  <2>5. LoadU32(s.dmem, a) \in Nat
    BY <1>RanLw, <2>1, <1>LoadU32Nat, Zenon DEF States
  <2> HIDE DEF r
  <2>6. Quiet(s, PutG(r, i.grd, LoadU32(s.dmem, a)))
    BY <1>RanLw, <2>4, <2>5, PutGQuiet, QuietTrans, Zenon
  <2>7. ~ReadsRnd(i)
    BY <1>RanLw DEF ReadsRnd
  <2> QED
    BY <1>RanLw, <2>6, <2>7, QuietRan DEF ExecLw, r, q, a
(* SW runs. *)
<1>RanSw. ASSUME NEW s \in States, NEW i, i.op = "SW", IsGpr(i.grs1), IsGpr(i.grs2),
                 i.offset \in Int
          PROVE  Ran(s, ExecSw(s, i), i)
  <2> DEFINE r == Reading(s, {i.grs1, i.grs2})
  <2>1. NarrowAddr(s, i) \in Nat /\ G(s, i.grs2) \in Int
    BY <1>RanSw, NarrowAddrNat, GNat, SMTT(20)
  <2>2. Quiet(s, r) /\ r \in States
    BY <1>RanSw, ReadingQuiet DEF Quiet
  <2> HIDE DEF r
  <2>3. Quiet(s, [r EXCEPT !.dmem = Store(@, NarrowAddr(s, i), G(s, i.grs2), FALSE)])
    BY <1>RanSw, <2>1, <2>2, StoreQuiet, QuietTrans, Zenon
  <2>4. ~ReadsRnd(i)
    BY <1>RanSw, Zenon DEF ReadsRnd
  <2> QED
    BY <1>RanSw, <2>3, <2>4, QuietRan DEF ExecSw, r
(* A quiet step and a jump: set_next_pc only raises for a target below
   zero. *)
<1>JumpRan. ASSUME NEW s \in States, NEW r, NEW i, Quiet(s, r), NEW to \in Int,
                   ~ReadsRnd(i), AssertFree(i) => to \in Nat
            PROVE  Ran(s, SetNextPc(r, to), i)
  <2>1. r \in States
    BY <1>JumpRan DEF Quiet
  <2>2. SetNextPc(r, to) \in States
    BY <1>JumpRan, <2>1 DEF SetNextPc, States
  <2>3. Same(r, SetNextPc(r, to))
    BY <1>JumpRan DEF SetNextPc, Same
  <2>4. /\ SetNextPc(r, to).over = to
        /\ SetNextPc(r, to).loops = r.loops /\ SetNextPc(r, to).raised = r.raised
        /\ SetNextPc(r, to).wsrs = r.wsrs
    BY <1>JumpRan, SMTT(20) DEF SetNextPc
  <2>5. Same(s, SetNextPc(r, to))
    BY <1>JumpRan, <2>3, Zenon DEF Same, Quiet
  <2>6. s.wsrs.rndRead \in BOOLEAN
    BY <1>JumpRan, Zenon DEF States, WsrStates
  <2> HIDE DEF SetNextPc
  <2> QED
    BY <1>JumpRan, <2>2, <2>4, <2>5, <2>6 DEF Ran, Quiet, Control
(* BEQ and BNE run. *)
<1>RanBranch. ASSUME NEW s \in States, NEW i, i.op \in {"BEQ", "BNE"}, IsGpr(i.grs1), IsGpr(i.grs2),
                     i.offset \in Int
              PROVE  Ran(s, ExecBranch(s, i), i)
  <2> DEFINE r == Reading(s, {i.grs1, i.grs2})
  <2>1. Quiet(s, r)
    BY <1>RanBranch, ReadingQuiet
  <2>2. ~ReadsRnd(i)
    BY <1>RanBranch DEF ReadsRnd
  <2>3. AssertFree(i) => i.offset \in Nat
    BY <1>RanBranch, SMTT(20) DEF AssertFree
  <2> HIDE DEF r
  <2>4. Ran(s, r, i) /\ Ran(s, SetNextPc(r, i.offset), i)
    BY <1>RanBranch, <2>1, <2>2, <2>3, QuietRan, <1>JumpRan, Zenon
  <2> QED
    BY <1>RanBranch, <2>4, Zenon DEF ExecBranch, r
(* Writing the link register is quiet. *)
<1>LinkQuiet. ASSUME NEW s \in States, NEW r, IsGpr(r) PROVE Quiet(s, Link(s, r))
  <2>1. s.pc + 4 \in Int
    BY <1>LinkQuiet DEF States
  <2> QED
    BY <1>LinkQuiet, <2>1, MaskNat, Widths, PutGQuiet, Zenon DEF Link
(* JAL runs. *)
<1>RanJal. ASSUME NEW s \in States, NEW i, i.op = "JAL", IsGpr(i.grd), i.offset \in Int
           PROVE  Ran(s, ExecJal(s, i), i)
  <2>1. Mask(i.offset, GW) \in Nat
    BY <1>RanJal, MaskNat, Widths
  <2>2. ~ReadsRnd(i)
    BY <1>RanJal, Zenon DEF ReadsRnd
  <2> QED
    BY <1>RanJal, <2>1, <2>2, <1>LinkQuiet, <1>JumpRan, SMTT(20) DEF ExecJal
(* JALR runs. *)
<1>RanJalr. ASSUME NEW s \in States, NEW i, i.op = "JALR", IsGpr(i.grd), IsGpr(i.grs1),
                   i.offset \in Int
            PROVE  Ran(s, ExecJalr(s, i), i)
  <2> DEFINE r == Reading(s, {i.grs1})
  <2>1. NarrowAddr(s, i) \in Nat
    BY <1>RanJalr, NarrowAddrNat, Zenon
  <2>2. Quiet(s, r) /\ r \in States
    BY <1>RanJalr, ReadingQuiet DEF Quiet
  <2>3. ~ReadsRnd(i)
    BY <1>RanJalr DEF ReadsRnd
  <2> HIDE DEF r
  <2>4. Quiet(s, Link(r, i.grd))
    BY <1>RanJalr, <2>2, <1>LinkQuiet, QuietTrans, Zenon
  <2> QED
    BY <1>RanJalr, <2>1, <2>3, <2>4, <1>JumpRan, SMTT(20) DEF ExecJalr, r
(* The flags read as a CSR are a natural. *)
<1>FlagGroupsNat. ASSUME NEW f \in RegFiles(0 .. 1, FlagSets) PROVE ReadFlagGroups(f) \in Nat
  <2>1. f.val[0] \in FlagSets /\ f.val[1] \in FlagSets
    BY DEF RegFiles
  <2> QED
    BY <2>1 DEF ReadFlagGroups, FlagBits, FlagSets
(* Writing the flags as a CSR stages both groups. *)
<1>WriteFlagGroupsType. ASSUME NEW f \in RegFiles(0 .. 1, FlagSets), NEW v \in Int
                        PROVE  /\ WriteFlagGroups(f, v) \in RegFiles(0 .. 1, FlagSets)
                               /\ WriteFlagGroups(f, v).val = f.val
  <2> DEFINE n == [i \in 0 .. 1 |-> FlagsFromBits(IF i = 0 THEN v % 16 ELSE (v \div 16) % 16)]
  <2>1. v % 16 \in Int /\ (v \div 16) % 16 \in Int
    OBVIOUS
  <2>2. n \in [0 .. 1 -> FlagSets]
    BY FlagsFromBitsType
  <2>3. n \in Staged(0 .. 1, FlagSets)
    BY <2>2 DEF Staged
  <2> HIDE DEF n
  <2>4. [f EXCEPT !.next = n] \in RegFiles(0 .. 1, FlagSets) /\ [f EXCEPT !.next = n].val = f.val
    BY <2>3 DEF RegFiles
  <2> QED
    BY <2>4 DEF WriteFlagGroups, n
(* A CSR that exists reads as a natural, RND once its word has arrived. *)
<1>ReadCsrNat. ASSUME NEW s \in States, NEW csr, KnownCsr(csr), IsCsr(csr),
                      csr[1] = "RND" => s.wsrs.rnd \in Int
               PROVE  ReadCsr(s.flags, s.wsrs, csr) \in Nat
  <2>1. s.flags \in RegFiles(0 .. 1, FlagSets) /\ s.wsrs.mod \in Int
    BY <1>ReadCsrNat DEF States, WsrStates
  <2>2. ReadFlagGroups(s.flags) \in Nat
    BY <1>ReadCsrNat, <2>1, <1>FlagGroupsNat
  <2>3. CASE csr[1] = "FG"
    <3>1. 4 \in 0 .. WW /\ 4 * csr[2] \in 0 .. WW
      BY <1>ReadCsrNat, <2>3, Widths, SMTT(20) DEF IsCsr, IsGroup
    <3>2. GetField(csr[2], 4, ReadFlagGroups(s.flags)) \in Nat
      BY <1>ReadCsrNat, <2>2, <3>1, GetFieldNat
    <3> QED
      BY <1>ReadCsrNat, <2>3, <3>2 DEF ReadCsr
  <2>4. CASE csr[1] = "MOD"
    <3>1. GW * csr[2] \in 0 .. WW
      BY <1>ReadCsrNat, <2>4, WidthAssumption, Zenon DEF IsCsr
    <3>2. GetField(csr[2], GW, s.wsrs.mod) \in Nat
      BY <1>ReadCsrNat, <2>1, <3>1, Widths, GetFieldNat, Zenon
    <3> QED
      BY <1>ReadCsrNat, <2>4, <3>2, Zenon DEF ReadCsr
  <2>5. CASE csr[1] = "RND"
    <3>1. Mask(s.wsrs.rnd, GW) \in Nat
      BY <1>ReadCsrNat, <2>5, MaskNat, Widths, Zenon
    <3> QED
      BY <1>ReadCsrNat, <2>5, <3>1 DEF ReadCsr
  <2>6. CASE csr[1] = "FLAGS"
    BY <1>ReadCsrNat, <2>2, <2>6 DEF ReadCsr
  <2>7. CASE csr[1] = "RND_PREFETCH"
    BY <1>ReadCsrNat, <2>7 DEF ReadCsr
  <2> QED
    BY <1>ReadCsrNat, <2>3, <2>4, <2>5, <2>6, <2>7, Zenon DEF KnownCsr
(* Writing a CSR is quiet. *)
<1>WriteCsrQuiet. ASSUME NEW s \in States, NEW csr, IsCsr(csr), NEW v \in Nat
                  PROVE  Quiet(s, WriteCsr(s, csr, v))
  <2> DEFINE f == WriteCsrFlags(s.flags, csr, v)
             w == WriteCsrWsrs(s.wsrs, csr, v)
  <2>1. s.flags \in RegFiles(0 .. 1, FlagSets) /\ s.wsrs \in WsrStates /\ s.wsrs.mod \in Int
    BY <1>WriteCsrQuiet, Zenon DEF States, WsrStates
  <2>2. f \in RegFiles(0 .. 1, FlagSets) /\ f.val = s.flags.val
    <3>1. CASE csr[1] = "FG"
      <4>1. 4 \in 0 .. WW /\ 4 * csr[2] \in 0 .. WW /\ v % 16 \in Int
        BY <1>WriteCsrQuiet, <3>1, Widths, SMTT(20) DEF IsCsr, IsGroup
      <4>2. ReadFlagGroups(s.flags) \in Int
        BY <1>WriteCsrQuiet, <2>1, <1>FlagGroupsNat
      <4>3. SetField(csr[2], 4, v % 16, ReadFlagGroups(s.flags)) \in Int
        BY <1>WriteCsrQuiet, <4>1, <4>2, SetFieldInt
      <4> QED
        BY <1>WriteCsrQuiet, <2>1, <3>1, <4>3, <1>WriteFlagGroupsType, Zenon DEF WriteCsrFlags
    <3>2. CASE csr[1] = "FLAGS"
      BY <1>WriteCsrQuiet, <2>1, <3>2, <1>WriteFlagGroupsType DEF WriteCsrFlags
    <3>3. CASE csr[1] \notin {"FG", "FLAGS"}
      BY <1>WriteCsrQuiet, <2>1, <3>3, ZenonT(60) DEF WriteCsrFlags
    <3> QED
      BY <1>WriteCsrQuiet, <3>1, <3>2, <3>3
  <2>3. /\ w \in WsrStates /\ w.mod = s.wsrs.mod /\ w.acc = s.wsrs.acc
        /\ w.rnd = s.wsrs.rnd /\ w.rndPending = s.wsrs.rndPending /\ w.rndRead = s.wsrs.rndRead
    <3>1. CASE csr[1] = "MOD"
      <4>1. GW * csr[2] \in 0 .. WW
        BY <1>WriteCsrQuiet, <3>1, WidthAssumption, Zenon DEF IsCsr
      <4>2. GW \in 0 .. WW /\ v \in Int
        BY <1>WriteCsrQuiet, Widths
      <4>3. SetField(csr[2], GW, v, s.wsrs.mod) \in Int
        BY <2>1, <4>1, <4>2, SetFieldInt, Zenon
      <4> QED
        BY <1>WriteCsrQuiet, <2>1, <4>3, Zenon DEF WriteCsrWsrs, WriteWsr, WsrStates
    <3>2. CASE csr[1] # "MOD"
      BY <1>WriteCsrQuiet, <2>1, <3>2 DEF WriteCsrWsrs
    <3> QED
      BY <1>WriteCsrQuiet, <3>1, <3>2
  <2> HIDE DEF f, w
  <2> DEFINE r == [s EXCEPT !.flags = f]
  <2>4. Quiet(s, r) /\ r \in States /\ r.wsrs = s.wsrs
    BY <1>WriteCsrQuiet, <2>2, PutFlags DEF States
  <2>5. [s EXCEPT !.flags = f, !.wsrs = w] = [r EXCEPT !.wsrs = w]
    BY <1>WriteCsrQuiet
  <2> HIDE DEF r
  <2>6. Quiet(s, [r EXCEPT !.wsrs = w])
    BY <1>WriteCsrQuiet, <2>3, <2>4, PutWsrs, QuietTrans, Zenon
  <2> QED
    BY <1>WriteCsrQuiet, <2>5, <2>6 DEF WriteCsr, f, w
(* CSRRS runs. *)
<1>RanCsrrs. ASSUME NEW s \in States, s.raised = None, NEW i, i.op = "CSRRS", IsGpr(i.grd),
                    IsGpr(i.grs1), IsCsr(i.csr), ReadsRnd(i) => s.wsrs.rnd \in Int
             PROVE  Ran(s, ExecCsrrs(s, i), i)
  <2> DEFINE old == ReadCsr(s.flags, s.wsrs, i.csr)
             n == NoteCsrRead(s, i.csr)
             q == Reading(n, {i.grs1})
             r == PutG(q, i.grd, old)
             v == BitwiseOp(OrBit, old, G(s, i.grs1), GW)
             t == IF i.grs1 = 0 THEN r ELSE WriteCsr(r, i.csr, v)
  <2>1. CASE ~KnownCsr(i.csr)
    <3>0. "unknown CSR" \in Exceptions /\ "unknown CSR" # s.raised /\ ~AssertFree(i)
      BY <1>RanCsrrs, <2>1, NoneAssumption, Zenon DEF Exceptions, AssertFree
    <3>1. Ran(s, Raise(s, "unknown CSR"), i)
      BY <1>RanCsrrs, <3>0, QuietRefl, RaiseRan, ZenonT(30)
    <3>2. ExecCsrrs(s, i) = Raise(s, "unknown CSR")
      BY <1>RanCsrrs, <2>1, Zenon DEF ExecCsrrs
    <3> QED
      BY <1>RanCsrrs, <3>1, <3>2, Zenon
  <2>2. CASE KnownCsr(i.csr)
    <3>1. ReadsRnd(i) <=> i.csr[1] = "RND"
      BY <1>RanCsrrs, Zenon DEF ReadsRnd
    <3>2. old \in Nat
      BY <1>RanCsrrs, <2>2, <3>1, <1>ReadCsrNat, ZenonT(60)
    <3>3. v \in Nat
      BY <1>RanCsrrs, <3>2, GNat, BitTables, BitwiseNat, Widths, SMTT(20)
    <3> HIDE DEF old, v
    <3>4. /\ n \in States
          /\ IF ReadsRnd(i) THEN Marked(s, n) ELSE Quiet(s, n)
      BY <1>RanCsrrs, <3>1, NoteRead, Zenon DEF NoteCsrRead, Marked, Quiet
    <3> HIDE DEF n
    <3>5. Quiet(n, q) /\ q \in States
      BY <1>RanCsrrs, <3>4, ReadingQuiet, ZenonT(60) DEF Quiet
    <3> HIDE DEF q
    <3>6. Quiet(n, r) /\ r \in States
      BY <1>RanCsrrs, <3>2, <3>5, PutGQuiet, QuietTrans, SMTT(20) DEF Quiet
    <3> HIDE DEF r
    <3>7. Quiet(n, t)
      BY <1>RanCsrrs, <3>3, <3>6, <1>WriteCsrQuiet, QuietTrans, Zenon
    <3> HIDE DEF t
    <3>8. IF ReadsRnd(i) THEN Marked(s, t) ELSE Quiet(s, t)
      BY <1>RanCsrrs, <3>4, <3>7, MarkedQuiet, QuietTrans, Zenon
    <3>9. Ran(s, t, i)
      BY <1>RanCsrrs, <3>8, MarkedRan, Zenon
    <3> QED
      BY <1>RanCsrrs, <2>2, <3>9, Zenon DEF ExecCsrrs, t, r, q, n, old, v
  <2> QED
    BY <1>RanCsrrs, <2>1, <2>2
(* CSRRW runs. *)
<1>RanCsrrw. ASSUME NEW s \in States, s.raised = None, NEW i, i.op = "CSRRW", IsGpr(i.grd),
                    IsGpr(i.grs1), IsCsr(i.csr), ReadsRnd(i) => s.wsrs.rnd \in Int
             PROVE  Ran(s, ExecCsrrw(s, i), i)
  <2> DEFINE old == ReadCsr(s.flags, s.wsrs, i.csr)
             r == Reading(s, {i.grs1})
             n == NoteCsrRead(r, i.csr)
             p == PutG(n, i.grd, old)
             v == G(s, i.grs1)
  <2>1. CASE ~KnownCsr(i.csr)
    <3>0. "unknown CSR" \in Exceptions /\ "unknown CSR" # s.raised /\ ~AssertFree(i)
      BY <1>RanCsrrw, <2>1, NoneAssumption, Zenon DEF Exceptions, AssertFree
    <3>1. Ran(s, Raise(s, "unknown CSR"), i)
      BY <1>RanCsrrw, <3>0, QuietRefl, RaiseRan, ZenonT(30)
    <3>2. ExecCsrrw(s, i) = Raise(s, "unknown CSR")
      BY <1>RanCsrrw, <2>1, Zenon DEF ExecCsrrw
    <3> QED
      BY <1>RanCsrrw, <3>1, <3>2, Zenon
  <2>2. Quiet(s, r) /\ r \in States
    BY <1>RanCsrrw, ReadingQuiet DEF Quiet
  <2>3. v \in Nat
    BY <1>RanCsrrw, GNat, Zenon
  <2> HIDE DEF v
  <2>4. CASE KnownCsr(i.csr) /\ i.grd = 0
    <3>1. ~ReadsRnd(i)
      BY <1>RanCsrrw, <2>4, Zenon DEF ReadsRnd
    <3> HIDE DEF r
    <3>2. Quiet(s, WriteCsr(r, i.csr, v))
      BY <1>RanCsrrw, <2>2, <2>3, <1>WriteCsrQuiet, QuietTrans, Zenon
    <3>3. ExecCsrrw(s, i) = WriteCsr(r, i.csr, v)
      BY <2>4, Zenon DEF ExecCsrrw, r, v
    <3> QED
      BY <1>RanCsrrw, <3>1, <3>2, <3>3, QuietRan, Zenon
  <2>5. CASE KnownCsr(i.csr) /\ i.grd # 0
    <3>1. ReadsRnd(i) <=> i.csr[1] = "RND"
      BY <1>RanCsrrw, <2>5, Zenon DEF ReadsRnd
    <3>2. old \in Nat
      BY <1>RanCsrrw, <2>5, <3>1, <1>ReadCsrNat
    <3> HIDE DEF old, r
    <3>3. /\ n \in States
          /\ IF ReadsRnd(i) THEN Marked(r, n) ELSE Quiet(r, n)
      BY <1>RanCsrrw, <2>2, <3>1, NoteRead, ZenonT(30) DEF NoteCsrRead, Marked, Quiet
    <3> HIDE DEF n
    <3>4. Quiet(n, p) /\ p \in States
      BY <1>RanCsrrw, <3>2, <3>3, PutGQuiet, Zenon DEF Quiet
    <3> HIDE DEF p
    <3>5. Quiet(n, WriteCsr(p, i.csr, v))
      BY <1>RanCsrrw, <2>3, <3>4, <1>WriteCsrQuiet, QuietTrans, Zenon
    <3>6. IF ReadsRnd(i) THEN Marked(s, WriteCsr(p, i.csr, v)) ELSE Quiet(s, WriteCsr(p, i.csr, v))
      BY <1>RanCsrrw, <2>2, <3>3, <3>5, MarkedQuiet, QuietTrans, Zenon
    <3> QED
      BY <1>RanCsrrw, <2>5, <3>6, MarkedRan, Zenon DEF ExecCsrrw, p, n, r, old, v
  <2> QED
    BY <1>RanCsrrw, <2>1, <2>4, <2>5
(* All of them *)
<1>Execute. ASSUME NEW s \in States, s.raised = None, NEW i, IsNarrowInsn(i),
                   ReadsRnd(i) => s.wsrs.rnd \in Int
            PROVE  Ran(s, Execute(s, i), i)
  <2>1. CASE i.op \in RegRegOps
    <3>1. IsGpr(i.grd) /\ IsGpr(i.grs1) /\ IsGpr(i.grs2)
      BY <1>Execute, <2>1, Zenon DEF IsNarrowInsn, RegRegOps, RegImmOps
    <3>2. Execute(s, i) = ExecRegReg(s, i)
      BY <2>1, Zenon DEF Execute, RegRegOps, RegImmOps
    <3> QED
      BY <2>1, <3>1, <3>2, <1>RanRegReg, Zenon
  <2>2. CASE i.op \in DOMAIN RegImmOps
    <3>1. IsGpr(i.grd) /\ IsGpr(i.grs1) /\ i.imm \in -2^GW .. 2^GW
      BY <1>Execute, <2>2 DEF IsNarrowInsn, RegRegOps, RegImmOps
    <3>2. Execute(s, i) = ExecRegImm(s, i)
      BY <2>2, Zenon DEF Execute, RegRegOps, RegImmOps
    <3> QED
      BY <2>2, <3>1, <3>2, <1>RanRegImm, Zenon
  <2>3. CASE i.op = "LUI"
    <3>1. IsGpr(i.grd) /\ i.imm \in Nat
      BY <1>Execute, <2>3, Zenon DEF IsNarrowInsn, RegRegOps, RegImmOps
    <3>2. Execute(s, i) = ExecLui(s, i)
      BY <2>3, SMTT(20) DEF Execute
    <3> QED
      BY <2>3, <3>1, <3>2, <1>RanLui, Zenon
  <2>4. CASE i.op = "LW"
    <3>1. IsGpr(i.grd) /\ IsGpr(i.grs1) /\ i.offset \in Int
      BY <1>Execute, <2>4 DEF IsNarrowInsn, RegRegOps, RegImmOps
    <3>2. Execute(s, i) = ExecLw(s, i)
      BY <2>4, SMTT(20) DEF Execute
    <3> QED
      BY <2>4, <3>1, <3>2, <1>RanLw, Zenon
  <2>5. CASE i.op = "SW"
    <3>1. IsGpr(i.grs1) /\ IsGpr(i.grs2) /\ i.offset \in Int
      BY <1>Execute, <2>5 DEF IsNarrowInsn, RegRegOps, RegImmOps
    <3>2. Execute(s, i) = ExecSw(s, i)
      BY <2>5, SMTT(20) DEF Execute
    <3> QED
      BY <2>5, <3>1, <3>2, <1>RanSw, Zenon
  <2>6. CASE i.op \in {"BEQ", "BNE"}
    <3>1. IsGpr(i.grs1) /\ IsGpr(i.grs2) /\ i.offset \in Int
      BY <1>Execute, <2>6 DEF IsNarrowInsn, RegRegOps, RegImmOps
    <3>2. Execute(s, i) = ExecBranch(s, i)
      BY <2>6, Zenon DEF Execute, RegRegOps, RegImmOps
    <3>3. Ran(s, ExecBranch(s, i), i)
      BY <2>6, <3>1, <1>RanBranch
    <3> QED
      BY <3>2, <3>3, Zenon
  <2>7. CASE i.op = "JAL"
    <3>1. IsGpr(i.grd) /\ i.offset \in Int
      BY <1>Execute, <2>7 DEF IsNarrowInsn, RegRegOps, RegImmOps
    <3>2. Execute(s, i) = ExecJal(s, i)
      BY <2>7, SMTT(20) DEF Execute
    <3> QED
      BY <2>7, <3>1, <3>2, <1>RanJal, ZenonT(60)
  <2>8. CASE i.op = "JALR"
    <3>1. IsGpr(i.grd) /\ IsGpr(i.grs1) /\ i.offset \in Int
      BY <1>Execute, <2>8 DEF IsNarrowInsn, RegRegOps, RegImmOps
    <3>2. Execute(s, i) = ExecJalr(s, i)
      BY <2>8, SMTT(20) DEF Execute
    <3> QED
      BY <2>8, <3>1, <3>2, <1>RanJalr, Zenon
  <2>9. CASE i.op = "CSRRS"
    <3>1. IsGpr(i.grd) /\ IsGpr(i.grs1) /\ IsCsr(i.csr)
      BY <1>Execute, <2>9 DEF IsNarrowInsn, RegRegOps, RegImmOps
    <3>2. Execute(s, i) = ExecCsrrs(s, i)
      BY <2>9, SMTT(20) DEF Execute
    <3> QED
      BY <2>9, <3>1, <3>2, <1>Execute, <1>RanCsrrs, ZenonT(60)
  <2>10. CASE i.op = "CSRRW"
    <3>1. IsGpr(i.grd) /\ IsGpr(i.grs1) /\ IsCsr(i.csr)
      BY <1>Execute, <2>10 DEF IsNarrowInsn, RegRegOps, RegImmOps
    <3>2. Execute(s, i) = ExecCsrrw(s, i)
      BY <2>10, SMTT(20) DEF Execute
    <3> QED
      BY <2>10, <3>1, <3>2, <1>Execute, <1>RanCsrrw, ZenonT(60)
  <2>11. CASE i.op = "LOOP"
    <3>1. IsGpr(i.grs) /\ i.bodysize \in Nat
      BY <1>Execute, <2>11 DEF IsNarrowInsn, RegRegOps, RegImmOps
    <3>2. Execute(s, i) = ExecLoop(s, i)
      BY <2>11, SMTT(20) DEF Execute
    <3> QED
      BY <2>11, <3>1, <3>2, <1>Execute, RanLoop, ZenonT(60)
  <2>12. CASE i.op = "LOOPI"
    <3>1. i.iterations \in Nat /\ i.bodysize \in Nat
      BY <1>Execute, <2>12 DEF IsNarrowInsn, RegRegOps, RegImmOps
    <3>2. Execute(s, i) = ExecLoopi(s, i)
      BY <2>12 DEF Execute
    <3> QED
      BY <2>12, <3>1, <3>2, <1>Execute, RanLoopi, ZenonT(60)
  <2>13. CASE i.op = "ECALL"
    <3>1. ~ReadsRnd(i)
      BY <2>13 DEF ReadsRnd
    <3>2. Execute(s, i) = StopAtEndOfCycle(s, {})
      BY <2>13 DEF Execute, ExecEcall
    <3> QED
      BY <3>1, <3>2, QuietRefl, StopRan, Zenon
  <2>14. CASE i.op = "ILLEGAL"
    <3>1. ~ReadsRnd(i)
      BY <2>14 DEF ReadsRnd
    <3>2. Execute(s, i) = StopAtEndOfCycle(s, {"ILLEGAL_INSN"})
      BY <2>14 DEF Execute
    <3> QED
      BY <3>1, <3>2, QuietRefl, IllegalBit, StopRan, Zenon
  <2> QED
    BY <1>Execute, <2>1, <2>2, <2>3, <2>4, <2>5, <2>6, <2>7, <2>8, <2>9, <2>10, <2>11, <2>12, <2>13,
       <2>14, Zenon DEF IsNarrowInsn
<1> QED
  BY <1>Execute
=============================================================================
