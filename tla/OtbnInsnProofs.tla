--------------------------- MODULE OtbnInsnProofs ---------------------------
(***************************************************************************)
(* What an instruction of OTBN can do, continued: the wide instructions,   *)
(* and with them every instruction (ExecuteRan). post_insn() then finds    *)
(* every error (PostInsnDone).                                             *)
(***************************************************************************)
EXTENDS OtbnBaseProofs

(***************************************************************************)
(* The wide instructions                                                   *)
(***************************************************************************)
(* The wide instructions, WSRs included, run. *)
LEMMA WideRan ==
  \A s \in States : \A i :
    IsWideInsn(i) /\ s.raised = None /\ (ReadsRnd(i) => s.wsrs.rnd \in Int)
    => Ran(s, Execute(s, i), i)
(* BN.WSRR runs. *)
<1>RanWsrr. ASSUME NEW s \in States, NEW i, i.op = "BN.WSRR", IsWdr(i.wrd),
                   i.wsr \in {"MOD", "ACC", "RND"},
                   ReadsRnd(i) => s.wsrs.rnd \in Int
            PROVE  Ran(s, ExecBnWsrr(s, i), i)
  <2> DEFINE v == ReadWsr(s.wsrs, i.wsr)
             p == PutW(s, i.wrd, v)
             t == [p EXCEPT !.wsrs = NoteWsrRead(@, i.wsr)]
  <2>1. ReadsRnd(i) <=> i.wsr = "RND"
    BY <1>RanWsrr DEF ReadsRnd
  <2>2. v \in Int
    BY <1>RanWsrr, <2>1 DEF ReadWsr, States, WsrStates
  <2> HIDE DEF v
  <2>3. Quiet(s, p) /\ p \in States
    BY <1>RanWsrr, <2>2, PutWQuiet DEF Quiet
  <2> HIDE DEF p
  <2>4. IF ReadsRnd(i) THEN Marked(p, t) ELSE Quiet(p, t)
    BY <1>RanWsrr, <2>1, <2>3, NoteRead
  <2> HIDE DEF t
  <2>5. IF ReadsRnd(i) THEN Marked(s, t) ELSE Quiet(s, t)
    BY <1>RanWsrr, <2>3, <2>4, MarkedQuiet, QuietTrans
  <2> QED
    BY <1>RanWsrr, <2>5, MarkedRan DEF ExecBnWsrr, t, p, v
(* BN.WSRW runs. *)
<1>RanWsrw. ASSUME NEW s \in States, NEW i, i.op = "BN.WSRW", IsWdr(i.wrs),
                   i.wsr \in {"MOD", "ACC", "RND"}
            PROVE  Ran(s, ExecBnWsrw(s, i), i)
  <2>1. W(s, i.wrs) \in Int /\ ~ReadsRnd(i)
    BY <1>RanWsrw, WInt DEF ReadsRnd
  <2> QED
    BY <1>RanWsrw, <2>1, WriteWsrQuiet, QuietRan DEF ExecBnWsrw
(* The second operand of a wide instruction, shifted, is an integer. *)
<1>SecondOperandInt. ASSUME NEW s \in States, NEW i, IsWdr(i.wrs2), IsShift(i)
                     PROVE  SecondOperand(s, i) \in Int
  <2> DEFINE v == W(s, i.wrs2)
             n == ByteBits * i.shift_bytes
  <2>1. v \in Int /\ n \in 0 .. WW /\ WW - n \in 0 .. WW
    BY <1>SecondOperandInt, WInt, Widths DEF IsShift
  <2> HIDE DEF v, n
  <2>2. 2^n \in Nat /\ 2^n # 0
    BY <1>SecondOperandInt, <2>1, Powers
  <2>3. v \div 2^n \in Int
    BY <1>SecondOperandInt, <2>1, <2>2
  <2>4. Mask(v, WW - n) * 2^n \in Int
    BY <1>SecondOperandInt, <2>1, MaskNat
  <2>5. Mask(Mask(v, WW - n) * 2^n, WW) \in Int
    BY <1>SecondOperandInt, <2>4, MaskNat, Widths
  <2> QED
    BY <1>SecondOperandInt, <2>3, <2>5 DEF SecondOperand, LogicalByteShift, v, n
(* The carry a wide instruction adds is a natural. *)
<1>CarryNat. ASSUME NEW s \in States, NEW i, IsGroup(i.flag_group) PROVE CarryIn(s, i) \in Nat
    BY <1>CarryNat, FlagType DEF CarryIn, FlagSets
(* The flags of a sum are a flag group. *)
<1>ArithFlagsType. ASSUME NEW full \in Int PROVE ArithFlags(full) \in FlagSets
  <2>1. Mask(full, WW) \in Int
    BY MaskNat, Widths
  <2> QED
    BY <2>1, MlzType DEF ArithFlags
(* Writing the result and the flags of a sum is quiet. *)
<1>PutArithQuiet. ASSUME NEW s \in States, NEW i, IsWdr(i.wrd), IsGroup(i.flag_group),
                         NEW full \in Int
                  PROVE  Quiet(s, PutArith(s, i, full))
  <2> DEFINE r == PutW(s, i.wrd, Mask(full, WW))
  <2>1. Mask(full, WW) \in Int
    BY <1>PutArithQuiet, MaskNat, Widths
  <2>2. Quiet(s, r) /\ r \in States
    BY <1>PutArithQuiet, <2>1, PutWQuiet DEF Quiet
  <2> HIDE DEF r
  <2>3. Quiet(s, SetFlags(r, i.flag_group, ArithFlags(full)))
    BY <1>PutArithQuiet, <2>2, <1>ArithFlagsType, SetFlagsQuiet, QuietTrans
  <2> QED
    BY <1>PutArithQuiet, <2>3 DEF PutArith, r
(* BN.ADD, BN.ADDC and BN.ADDI run. *)
<1>RanBnAdd. ASSUME NEW s \in States, NEW i, i.op \in {"BN.ADD", "BN.ADDC", "BN.ADDI"},
                    IsWideInsn(i)
             PROVE  Ran(s, ExecBnAdd(s, i), i)
  <2> DEFINE full == CASE i.op = "BN.ADD"  -> W(s, i.wrs1) + SecondOperand(s, i)
                       [] i.op = "BN.ADDC" -> W(s, i.wrs1) + SecondOperand(s, i) + CarryIn(s, i)
                       [] i.op = "BN.ADDI" -> W(s, i.wrs) + i.imm
  <2>1. IsWdr(i.wrd) /\ IsGroup(i.flag_group) /\ ~ReadsRnd(i)
    BY <1>RanBnAdd DEF IsWideInsn, ReadsRnd
  <2>2. full \in Int
    <3>1. CASE i.op \in {"BN.ADD", "BN.ADDC"}
      <4>1. IsWdr(i.wrs1) /\ IsWdr(i.wrs2) /\ IsShift(i)
        BY <1>RanBnAdd, <3>1 DEF IsWideInsn
      <4>2. W(s, i.wrs1) \in Int /\ SecondOperand(s, i) \in Int /\ CarryIn(s, i) \in Int
        BY <1>RanBnAdd, <2>1, <4>1, WInt, <1>SecondOperandInt, <1>CarryNat
      <4> QED
        BY <1>RanBnAdd, <3>1, <4>2
    <3>2. CASE i.op = "BN.ADDI"
      <4>1. IsWdr(i.wrs) /\ i.imm \in Int
        BY <1>RanBnAdd, <3>2 DEF IsWideInsn
      <4> QED
        BY <1>RanBnAdd, <3>2, <4>1, WInt
    <3> QED
      BY <1>RanBnAdd, <3>1, <3>2
  <2> HIDE DEF full
  <2> QED
    BY <1>RanBnAdd, <2>1, <2>2, <1>PutArithQuiet, QuietRan DEF ExecBnAdd, full
(* BN.SUB, BN.SUBB and BN.SUBI run. *)
<1>RanBnSub. ASSUME NEW s \in States, NEW i, i.op \in {"BN.SUB", "BN.SUBB", "BN.SUBI"},
                    IsWideInsn(i)
             PROVE  Ran(s, ExecBnSub(s, i), i)
  <2> DEFINE full == CASE i.op = "BN.SUB"  -> W(s, i.wrs1) - SecondOperand(s, i)
                       [] i.op = "BN.SUBB" -> W(s, i.wrs1) - SecondOperand(s, i) - CarryIn(s, i)
                       [] i.op = "BN.SUBI" -> W(s, i.wrs) - i.imm
  <2>1. IsWdr(i.wrd) /\ IsGroup(i.flag_group) /\ ~ReadsRnd(i)
    BY <1>RanBnSub DEF IsWideInsn, ReadsRnd
  <2>2. full \in Int
    <3>1. CASE i.op \in {"BN.SUB", "BN.SUBB"}
      <4>1. IsWdr(i.wrs1) /\ IsWdr(i.wrs2) /\ IsShift(i)
        BY <1>RanBnSub, <3>1 DEF IsWideInsn
      <4>2. W(s, i.wrs1) \in Int /\ SecondOperand(s, i) \in Int /\ CarryIn(s, i) \in Int
        BY <1>RanBnSub, <2>1, <4>1, WInt, <1>SecondOperandInt, <1>CarryNat
      <4> QED
        BY <1>RanBnSub, <3>1, <4>2
    <3>2. CASE i.op = "BN.SUBI"
      <4>1. IsWdr(i.wrs) /\ i.imm \in Int
        BY <1>RanBnSub, <3>2 DEF IsWideInsn
      <4> QED
        BY <1>RanBnSub, <3>2, <4>1, WInt
    <3> QED
      BY <1>RanBnSub, <3>1, <3>2
  <2> HIDE DEF full
  <2> QED
    BY <1>RanBnSub, <2>1, <2>2, <1>PutArithQuiet, QuietRan, Zenon DEF ExecBnSub, full
(* BN.CMP and BN.CMPB run. *)
<1>RanBnCmp. ASSUME NEW s \in States, NEW i, i.op \in {"BN.CMP", "BN.CMPB"}, IsWideInsn(i)
             PROVE  Ran(s, ExecBnCmp(s, i), i)
  <2> DEFINE borrow == IF i.op = "BN.CMPB" THEN CarryIn(s, i) ELSE 0
             full == W(s, i.wrs1) - SecondOperand(s, i) - borrow
  <2>1. IsWdr(i.wrs1) /\ IsWdr(i.wrs2) /\ IsShift(i) /\ IsGroup(i.flag_group) /\ ~ReadsRnd(i)
    BY <1>RanBnCmp DEF IsWideInsn, ReadsRnd
  <2>2. W(s, i.wrs1) \in Int /\ SecondOperand(s, i) \in Int /\ CarryIn(s, i) \in Int
    BY <1>RanBnCmp, <2>1, WInt, <1>SecondOperandInt, <1>CarryNat
  <2>3. full \in Int
    BY <1>RanBnCmp, <2>2
  <2> HIDE DEF full
  <2> QED
    BY <1>RanBnCmp, <2>1, <2>3, <1>ArithFlagsType, SetFlagsQuiet, QuietRan, Zenon DEF ExecBnCmp, full
(* BN.ADDM runs. *)
<1>RanBnAddm. ASSUME NEW s \in States, NEW i, i.op = "BN.ADDM", IsWideInsn(i)
              PROVE  Ran(s, ExecBnAddm(s, i), i)
  <2> DEFINE sum == W(s, i.wrs1) + W(s, i.wrs2)
             v == IF sum >= s.wsrs.mod THEN sum - s.wsrs.mod ELSE sum
  <2>1. IsWdr(i.wrd) /\ IsWdr(i.wrs1) /\ IsWdr(i.wrs2) /\ ~ReadsRnd(i)
    BY <1>RanBnAddm DEF IsWideInsn, ReadsRnd
  <2>2. W(s, i.wrs1) \in Int /\ W(s, i.wrs2) \in Int /\ s.wsrs.mod \in Int
    BY <1>RanBnAddm, <2>1, WInt DEF States, WsrStates
  <2>3. v \in Int
    BY <1>RanBnAddm, <2>2
  <2> HIDE DEF v
  <2>4. Mask(v, WW) \in Int
    BY <1>RanBnAddm, <2>3, MaskNat, Widths
  <2> QED
    BY <1>RanBnAddm, <2>1, <2>4, PutWQuiet, QuietRan, Zenon DEF ExecBnAddm, v
(* BN.SUBM runs. *)
<1>RanBnSubm. ASSUME NEW s \in States, NEW i, i.op = "BN.SUBM", IsWideInsn(i)
              PROVE  Ran(s, ExecBnSubm(s, i), i)
  <2> DEFINE diff == W(s, i.wrs1) - W(s, i.wrs2)
             v == IF diff < 0 THEN diff + s.wsrs.mod ELSE diff
  <2>1. IsWdr(i.wrd) /\ IsWdr(i.wrs1) /\ IsWdr(i.wrs2) /\ ~ReadsRnd(i)
    BY <1>RanBnSubm DEF IsWideInsn, ReadsRnd
  <2>2. W(s, i.wrs1) \in Int /\ W(s, i.wrs2) \in Int /\ s.wsrs.mod \in Int
    BY <1>RanBnSubm, <2>1, WInt DEF States, WsrStates
  <2>3. v \in Int
    BY <1>RanBnSubm, <2>2
  <2> HIDE DEF v
  <2>4. Mask(v, WW) \in Int
    BY <1>RanBnSubm, <2>3, MaskNat, Widths
  <2> QED
    BY <1>RanBnSubm, <2>1, <2>4, PutWQuiet, QuietRan, Zenon DEF ExecBnSubm, v
(* The new accumulator of a quarter-word product is an integer. *)
<1>MulqAccInt. ASSUME NEW s \in States, NEW i, IsQuarterProduct(i)
               PROVE  MulqAcc(s, i) \in Int
  <2> DEFINE a == QuarterWord(W(s, i.wrs1), i.wrs1_qwsel)
             b == QuarterWord(W(s, i.wrs2), i.wrs2_qwsel)
             c == IF i.zero_acc THEN 0 ELSE s.wsrs.acc
  <2>1. W(s, i.wrs1) \in Int /\ W(s, i.wrs2) \in Int
    BY <1>MulqAccInt, WInt DEF IsQuarterProduct
  <2>2. /\ WW \div 4 \in 0 .. WW
        /\ (WW \div 4) * i.wrs1_qwsel \in 0 .. WW /\ (WW \div 4) * i.wrs2_qwsel \in 0 .. WW
    <3>1. WW \div 4 \in Nat /\ 4 * (WW \div 4) <= WW
      BY <1>MulqAccInt, Widths
    <3>2. \A n \in 0 .. 3 : (WW \div 4) * n \in 0 .. WW
      BY <1>MulqAccInt, Widths
    <3> QED
      BY <1>MulqAccInt, Widths DEF IsQuarterProduct
  <2>3. a \in Int /\ b \in Int
    BY <1>MulqAccInt, <2>1, <2>2, GetFieldNat DEF QuarterWord
  <2>4. c \in Int
    BY <1>MulqAccInt DEF States, WsrStates
  <2>5. 2^(i.acc_shift_imm) \in Int
    BY <1>MulqAccInt DEF IsQuarterProduct
  <2> HIDE DEF a, b, c
  <2>6. c + a * b * 2^(i.acc_shift_imm) \in Int
    BY <1>MulqAccInt, <2>3, <2>4, <2>5
  <2>7. Mask(c + a * b * 2^(i.acc_shift_imm), WW) \in Int
    BY <1>MulqAccInt, <2>6, MaskNat, Widths
  <2> QED
    BY <1>MulqAccInt, <2>7 DEF MulqAcc, a, b, c
(* BN.MULQACC runs. *)
<1>RanMulqAcc. ASSUME NEW s \in States, NEW i, i.op = "BN.MULQACC", IsWideInsn(i)
               PROVE  Ran(s, ExecMulqAcc(s, i), i)
  <2>1. IsQuarterProduct(i) /\ ~ReadsRnd(i)
    BY <1>RanMulqAcc DEF IsWideInsn, ReadsRnd
  <2> QED
    BY <1>RanMulqAcc, <2>1, <1>MulqAccInt, WriteWsrQuiet, QuietRan, Zenon DEF ExecMulqAcc
(* BN.MULQACC.WO runs. *)
<1>RanMulqAccWo. ASSUME NEW s \in States, NEW i, i.op = "BN.MULQACC.WO", IsWideInsn(i)
                 PROVE  Ran(s, ExecMulqAccWo(s, i), i)
  <2> DEFINE r == MulqAcc(s, i)
             p == PutW(s, i.wrd, r)
             q == [p EXCEPT !.wsrs = WriteWsr(@, "ACC", r)]
  <2>1. IsQuarterProduct(i) /\ IsWdr(i.wrd) /\ IsGroup(i.flag_group) /\ ~ReadsRnd(i)
    BY <1>RanMulqAccWo DEF IsWideInsn, ReadsRnd
  <2>2. r \in Int
    BY <1>RanMulqAccWo, <2>1, <1>MulqAccInt, Zenon
  <2> HIDE DEF r
  <2>3. Quiet(s, p) /\ p \in States
    BY <1>RanMulqAccWo, <2>1, <2>2, PutWQuiet DEF Quiet
  <2> HIDE DEF p
  <2>4. Quiet(s, q) /\ q \in States
    BY <1>RanMulqAccWo, <2>2, <2>3, WriteWsrQuiet, QuietTrans DEF Quiet
  <2> HIDE DEF q
  <2>5. Quiet(s, SetMlzFlags(q, i.flag_group, r))
    BY <1>RanMulqAccWo, <2>1, <2>2, <2>4, SetMlzQuiet, QuietTrans, Zenon
  <2> QED
    BY <1>RanMulqAccWo, <2>1, <2>5, QuietRan, Zenon DEF ExecMulqAccWo, q, p, r
(* BN.MULQACC.SO runs. *)
<1>RanMulqAccSo. ASSUME NEW s \in States, NEW i, i.op = "BN.MULQACC.SO", IsWideInsn(i)
                 PROVE  Ran(s, ExecMulqAccSo(s, i), i)
  <2> DEFINE half == WW \div 2
             r == MulqAcc(s, i)
             lo == Mask(r, half)
             old == s.flags.val[i.flag_group]
             zero == IF lo = 0 THEN 1 ELSE 0
             new == IF i.wrd_hwsel = 1
                    THEN [old EXCEPT !.M = Bit(lo, half - 1), !.Z = old.Z * zero]
                    ELSE [old EXCEPT !.L = lo % 2, !.Z = zero]
             v == SetField(i.wrd_hwsel, half, lo, W(s, i.wrd))
             p == PutW(s, i.wrd, v)
             q == [p EXCEPT !.wsrs = WriteWsr(@, "ACC", r \div 2^half)]
  <2>1. /\ IsQuarterProduct(i) /\ IsWdr(i.wrd) /\ i.wrd_hwsel \in 0 .. 1 /\ IsGroup(i.flag_group)
        /\ ~ReadsRnd(i)
    BY <1>RanMulqAccSo DEF IsWideInsn, ReadsRnd
  <2>2. r \in Int
    BY <1>RanMulqAccSo, <2>1, <1>MulqAccInt
  <2>3. half \in 0 .. WW /\ half - 1 \in 0 .. WW /\ half * i.wrd_hwsel \in 0 .. WW
    <3>1. half \in 0 .. WW /\ half - 1 \in 0 .. WW
      BY <1>RanMulqAccSo, Widths
    <3> HIDE DEF half
    <3>2. half * 0 = 0 /\ half * 1 = half
      BY <1>RanMulqAccSo, <3>1
    <3> QED
      BY <1>RanMulqAccSo, <2>1, <3>1, Widths
  <2> HIDE DEF half, r
  <2>4. lo \in Nat
    BY <1>RanMulqAccSo, <2>2, <2>3, MaskNat, Zenon
  <2>5. r \div 2^half \in Int
    BY <1>RanMulqAccSo, <2>2, <2>3, Powers
  <2> HIDE DEF lo
  <2>6. v \in Int
    BY <1>RanMulqAccSo, <2>1, <2>3, <2>4, WInt, SetFieldInt
  <2>7. old \in FlagSets
    BY <1>RanMulqAccSo, <2>1, FlagType
  <2> HIDE DEF v, old
  <2>8. new \in FlagSets
    <3>1. zero \in Nat /\ lo % 2 \in Nat /\ Bit(lo, half - 1) \in Nat
      BY <1>RanMulqAccSo, <2>3, <2>4, BitType
    <3> HIDE DEF zero
    <3>2. old.Z \in Nat
      BY <1>RanMulqAccSo, <2>7 DEF FlagSets
    <3>3. old.Z * zero \in Nat
      BY <1>RanMulqAccSo, <3>1, <3>2
    <3> QED
      BY <1>RanMulqAccSo, <2>7, <3>1, <3>3, Zenon DEF FlagSets
  <2> HIDE DEF new
  <2>9. Quiet(s, p) /\ p \in States
    BY <1>RanMulqAccSo, <2>1, <2>6, PutWQuiet DEF Quiet
  <2> HIDE DEF p
  <2>10. Quiet(s, q) /\ q \in States
    BY <1>RanMulqAccSo, <2>5, <2>9, WriteWsrQuiet, QuietTrans, Zenon DEF Quiet
  <2> HIDE DEF q
  <2>11. Quiet(s, SetFlags(q, i.flag_group, new))
    BY <1>RanMulqAccSo, <2>1, <2>8, <2>10, SetFlagsQuiet, QuietTrans, Zenon
  <2> QED
    BY <1>RanMulqAccSo, <2>1, <2>11, QuietRan, Zenon DEF ExecMulqAccSo, q, p, v, new, old, lo, half, r
(* BN.AND, BN.OR, BN.XOR and BN.NOT run. *)
<1>RanBnLogic. ASSUME NEW s \in States, NEW i, i.op \in {"BN.AND", "BN.OR", "BN.XOR", "BN.NOT"},
                      IsWideInsn(i)
               PROVE  Ran(s, ExecBnLogic(s, i), i)
  <2> DEFINE b == SecondOperand(s, i)
             r == CASE i.op = "BN.AND" -> BitwiseOp(AndBit, W(s, i.wrs1), b, WW)
                    [] i.op = "BN.OR"  -> BitwiseOp(OrBit, W(s, i.wrs1), b, WW)
                    [] i.op = "BN.XOR" -> BitwiseOp(XorBit, W(s, i.wrs1), b, WW)
                    [] i.op = "BN.NOT" -> 2^WW - 1 - b
             p == PutW(s, i.wrd, r)
  <2>1. IsWdr(i.wrd) /\ IsWdr(i.wrs2) /\ IsShift(i) /\ IsGroup(i.flag_group) /\ ~ReadsRnd(i)
    BY <1>RanBnLogic DEF IsWideInsn, ReadsRnd
  <2>2. b \in Int
    BY <1>RanBnLogic, <2>1, <1>SecondOperandInt
  <2> HIDE DEF b
  <2>3. r \in Int
    <3>1. CASE i.op = "BN.NOT"
      <4>1. 2^WW \in Int
        BY <1>RanBnLogic, Widths
      <4> QED
        BY <1>RanBnLogic, <2>2, <3>1, <4>1
    <3>2. CASE i.op \in {"BN.AND", "BN.OR", "BN.XOR"}
      <4>1. IsWdr(i.wrs1)
        BY <1>RanBnLogic, <3>2 DEF IsWideInsn
      <4>2. W(s, i.wrs1) \in Int
        BY <1>RanBnLogic, <4>1, WInt
      <4>3. /\ BitwiseOp(AndBit, W(s, i.wrs1), b, WW) \in Int
            /\ BitwiseOp(OrBit, W(s, i.wrs1), b, WW) \in Int
            /\ BitwiseOp(XorBit, W(s, i.wrs1), b, WW) \in Int
        BY <1>RanBnLogic, <2>2, <4>2, BitTables, BitwiseNat, Widths
      <4> QED
        BY <1>RanBnLogic, <3>2, <4>3, Zenon
    <3> QED
      BY <1>RanBnLogic, <3>1, <3>2
  <2> HIDE DEF r
  <2>4. Quiet(s, p) /\ p \in States
    BY <1>RanBnLogic, <2>1, <2>3, PutWQuiet, Zenon DEF Quiet
  <2> HIDE DEF p
  <2>5. Quiet(s, SetMlzFlags(p, i.flag_group, r))
    BY <1>RanBnLogic, <2>1, <2>3, <2>4, SetMlzQuiet, QuietTrans, Zenon
  <2> QED
    BY <1>RanBnLogic, <2>1, <2>5, QuietRan, Zenon DEF ExecBnLogic, p, r, b
(* BN.RSHI runs. *)
<1>RanBnRshi. ASSUME NEW s \in States, NEW i, i.op = "BN.RSHI", IsWideInsn(i)
              PROVE  Ran(s, ExecBnRshi(s, i), i)
  <2> DEFINE v == Mask(W(s, i.wrs1), i.imm) * 2^(WW - i.imm) + W(s, i.wrs2) \div 2^(i.imm)
  <2>1. IsWdr(i.wrd) /\ IsWdr(i.wrs1) /\ IsWdr(i.wrs2) /\ i.imm \in 0 .. WW /\ ~ReadsRnd(i)
    BY <1>RanBnRshi DEF IsWideInsn, ReadsRnd
  <2>2. W(s, i.wrs1) \in Int /\ W(s, i.wrs2) \in Int /\ WW - i.imm \in 0 .. WW
    BY <1>RanBnRshi, <2>1, WInt, Widths
  <2>3. Mask(W(s, i.wrs1), i.imm) \in Int /\ 2^(WW - i.imm) \in Int
    BY <1>RanBnRshi, <2>1, <2>2, MaskNat
  <2>4. W(s, i.wrs2) \div 2^(i.imm) \in Int
    BY <1>RanBnRshi, <2>1, <2>2, Powers
  <2>5. v \in Int
    BY <1>RanBnRshi, <2>3, <2>4
  <2> HIDE DEF v
  <2> QED
    BY <1>RanBnRshi, <2>1, <2>5, PutWQuiet, QuietRan, Zenon DEF ExecBnRshi, v
(* BN.SEL runs. *)
<1>RanBnSel. ASSUME NEW s \in States, NEW i, i.op = "BN.SEL", IsWideInsn(i)
             PROVE  Ran(s, ExecBnSel(s, i), i)
  <2>1. IsWdr(i.wrd) /\ IsWdr(i.wrs1) /\ IsWdr(i.wrs2) /\ ~ReadsRnd(i)
    BY <1>RanBnSel DEF IsWideInsn, ReadsRnd
  <2>2. W(s, i.wrs1) \in Int /\ W(s, i.wrs2) \in Int
    BY <1>RanBnSel, <2>1, WInt, Zenon
  <2> QED
    BY <1>RanBnSel, <2>1, <2>2, PutWQuiet, QuietRan, Zenon DEF ExecBnSel
(* BN.MOV runs. *)
<1>RanBnMov. ASSUME NEW s \in States, NEW i, i.op = "BN.MOV", IsWideInsn(i)
             PROVE  Ran(s, ExecBnMov(s, i), i)
  <2>1. IsWdr(i.wrd) /\ IsWdr(i.wrs) /\ ~ReadsRnd(i)
    BY <1>RanBnMov DEF IsWideInsn, ReadsRnd
  <2> QED
    BY <1>RanBnMov, <2>1, WInt, PutWQuiet, QuietRan, Zenon DEF ExecBnMov
(* Incrementing an index register is quiet. *)
<1>IncIdxQuiet. ASSUME NEW s \in States, NEW r, IsGpr(r), NEW inc \in BOOLEAN
                PROVE  Quiet(s, IncIdx(s, r, inc))
  <2>1. G(s, r) + 1 \in Nat
    BY <1>IncIdxQuiet, GNat
  <2> QED
    BY <1>IncIdxQuiet, <2>1, PutGQuiet, QuietRefl DEF IncIdx
(* Incrementing an address register is quiet. *)
<1>IncAddrQuiet. ASSUME NEW s \in States, NEW r, IsGpr(r), NEW inc \in BOOLEAN
                 PROVE  Quiet(s, IncAddr(s, r, inc))
  <2>1. G(s, r) + WBytes \in Int
    BY <1>IncAddrQuiet, GNat, WidthAssumption
  <2>2. Mask(G(s, r) + WBytes, GW) \in Nat
    BY <1>IncAddrQuiet, <2>1, MaskNat, Widths
  <2> QED
    BY <1>IncAddrQuiet, <2>2, PutGQuiet, QuietRefl DEF IncAddr
(* A wide load gives an integer. *)
<1>LoadU256Int. ASSUME NEW d \in DmemStates, NEW a \in Nat PROVE LoadU256(d, a) \in Int
    BY WideAddress DEF LoadU256, DmemStates, Addresses
(* BN.LID runs. *)
<1>RanBnLid. ASSUME NEW s \in States, NEW i, i.op = "BN.LID", IsWideInsn(i)
             PROVE  Ran(s, ExecBnLid(s, i), i)
  <2> DEFINE a == NarrowAddr(s, i)
             r == Reading(s, {i.grs1, i.grd})
             p == PutW(r, G(s, i.grd), LoadU256(s.dmem, a))
             loaded == [p EXCEPT !.dmem = NoteAccess(@, BadWide(a))]
             q == IncIdx(loaded, i.grd, i.grd_inc)
  <2>1. /\ IsGpr(i.grd) /\ IsGpr(i.grs1) /\ i.offset \in Int
        /\ i.grd_inc \in BOOLEAN /\ i.grs1_inc \in BOOLEAN /\ ~ReadsRnd(i)
    BY <1>RanBnLid DEF IsWideInsn, ReadsRnd
  <2>2. a \in Nat /\ BadWide(a) \in BOOLEAN /\ G(s, i.grd) \in Nat
    BY <1>RanBnLid, <2>1, NarrowAddrNat, GNat, Zenon DEF BadWide
  <2> HIDE DEF a
  <2>3. Quiet(s, r) /\ r \in States
    BY <1>RanBnLid, ReadingQuiet DEF Quiet
  <2>4. LoadU256(s.dmem, a) \in Int
    BY <1>RanBnLid, <2>2, <1>LoadU256Int DEF States
  <2> HIDE DEF r
  <2>5. CASE G(s, i.grd) >= NWdr
    <3>1. Ran(s, StopAtEndOfCycle(r, {"ILLEGAL_INSN"}), i)
      BY <1>RanBnLid, <2>1, <2>3, IllegalBit, StopRan, SMTT(30)
    <3> QED
      BY <1>RanBnLid, <2>5, <3>1 DEF ExecBnLid, r
  <2>6. CASE ~(G(s, i.grd) >= NWdr)
    <3>1. IsWdr(G(s, i.grd))
      BY <1>RanBnLid, <2>2, <2>6, WidthAssumption DEF IsWdr
    <3>2. Quiet(s, p) /\ p \in States
      BY <1>RanBnLid, <2>3, <2>4, <3>1, PutWQuiet, QuietTrans DEF Quiet
    <3> HIDE DEF p
    <3>3. Quiet(s, loaded) /\ loaded \in States
      BY <1>RanBnLid, <2>2, <3>2, NoteAccessQuiet, QuietTrans, ZenonT(60) DEF Quiet
    <3> HIDE DEF loaded
    <3>4. Quiet(s, q) /\ q \in States
      BY <1>RanBnLid, <2>1, <3>3, <1>IncIdxQuiet, QuietTrans DEF Quiet
    <3> HIDE DEF q
    <3>5. Quiet(s, IncAddr(q, i.grs1, i.grs1_inc))
      BY <1>RanBnLid, <2>1, <3>4, <1>IncAddrQuiet, QuietTrans
    <3> QED
      BY <1>RanBnLid, <2>1, <2>6, <3>5, QuietRan, Zenon DEF ExecBnLid, q, loaded, p, r, a
  <2> QED
    BY <1>RanBnLid, <2>5, <2>6, Zenon
(* BN.SID runs. *)
<1>RanBnSid. ASSUME NEW s \in States, NEW i, i.op = "BN.SID", IsWideInsn(i)
             PROVE  Ran(s, ExecBnSid(s, i), i)
  <2> DEFINE r == Reading(s, {i.grs1, i.grs2})
             stored == [r EXCEPT !.dmem = Store(@, NarrowAddr(s, i), W(s, G(s, i.grs2)), TRUE)]
             q == IncAddr(stored, i.grs1, i.grs1_inc)
  <2>1. /\ IsGpr(i.grs1) /\ IsGpr(i.grs2) /\ i.offset \in Int
        /\ i.grs1_inc \in BOOLEAN /\ i.grs2_inc \in BOOLEAN /\ ~ReadsRnd(i)
    BY <1>RanBnSid DEF IsWideInsn, ReadsRnd
  <2>2. NarrowAddr(s, i) \in Nat /\ G(s, i.grs2) \in Nat
    BY <1>RanBnSid, <2>1, NarrowAddrNat, GNat, Zenon
  <2>3. Quiet(s, r) /\ r \in States
    BY <1>RanBnSid, ReadingQuiet DEF Quiet
  <2> HIDE DEF r
  <2>4. CASE G(s, i.grs2) >= NWdr
    <3>1. Ran(s, StopAtEndOfCycle(r, {"ILLEGAL_INSN"}), i)
      BY <1>RanBnSid, <2>1, <2>3, IllegalBit, StopRan, Zenon
    <3> QED
      BY <1>RanBnSid, <2>4, <3>1 DEF ExecBnSid, r
  <2>5. CASE ~(G(s, i.grs2) >= NWdr)
    <3>0. IsWdr(G(s, i.grs2))
      BY <1>RanBnSid, <2>2, <2>5, WidthAssumption DEF IsWdr
    <3>1. W(s, G(s, i.grs2)) \in Int
      BY <1>RanBnSid, <3>0, WInt
    <3>2. Quiet(s, stored) /\ stored \in States
      <4>1. Quiet(r, stored)
        BY <1>RanBnSid, <2>2, <2>3, <3>1, StoreQuiet, Zenon
      <4>2. Quiet(s, stored)
        BY <1>RanBnSid, <2>3, <4>1, QuietTrans, Zenon
      <4> QED
        BY <1>RanBnSid, <4>2 DEF Quiet
    <3> HIDE DEF stored
    <3>3. Quiet(s, q) /\ q \in States
      BY <1>RanBnSid, <2>1, <3>2, <1>IncAddrQuiet, QuietTrans DEF Quiet
    <3> HIDE DEF q
    <3>4. Quiet(s, IncIdx(q, i.grs2, i.grs2_inc))
      BY <1>RanBnSid, <2>1, <3>3, <1>IncIdxQuiet, QuietTrans, Zenon
    <3> QED
      BY <1>RanBnSid, <2>1, <2>5, <3>4, QuietRan, Zenon DEF ExecBnSid, q, stored, r
  <2> QED
    BY <1>RanBnSid, <2>4, <2>5, Zenon
(* BN.MOVR runs. *)
<1>RanBnMovr. ASSUME NEW s \in States, NEW i, i.op = "BN.MOVR", IsWideInsn(i)
              PROVE  Ran(s, ExecBnMovr(s, i), i)
  <2> DEFINE r == Reading(s, {i.grd, i.grs})
             p == PutW(r, G(s, i.grd), W(s, G(s, i.grs)))
             q == IncIdx(p, i.grd, i.grd_inc)
  <2>1. /\ IsGpr(i.grd) /\ IsGpr(i.grs) /\ i.grd_inc \in BOOLEAN /\ i.grs_inc \in BOOLEAN
        /\ ~ReadsRnd(i)
    BY <1>RanBnMovr, Zenon DEF IsWideInsn, ReadsRnd
  <2>2. G(s, i.grd) \in Nat /\ G(s, i.grs) \in Nat
    BY <1>RanBnMovr, <2>1, GNat
  <2>3. Quiet(s, r) /\ r \in States
    BY <1>RanBnMovr, ReadingQuiet DEF Quiet
  <2> HIDE DEF r
  <2>4. CASE G(s, i.grd) >= NWdr \/ G(s, i.grs) >= NWdr
    <3>1. Ran(s, StopAtEndOfCycle(r, {"ILLEGAL_INSN"}), i)
      BY <1>RanBnMovr, <2>1, <2>3, IllegalBit, StopRan, Zenon
    <3> QED
      BY <1>RanBnMovr, <2>4, <3>1, Zenon DEF ExecBnMovr, r
  <2>5. CASE ~(G(s, i.grd) >= NWdr \/ G(s, i.grs) >= NWdr)
    <3>1. IsWdr(G(s, i.grd)) /\ IsWdr(G(s, i.grs))
      BY <1>RanBnMovr, <2>2, <2>5, WidthAssumption DEF IsWdr
    <3>2. W(s, G(s, i.grs)) \in Int
      BY <1>RanBnMovr, <3>1, WInt, Zenon
    <3>3. Quiet(s, p) /\ p \in States
      <4>1. Quiet(r, p)
        BY <1>RanBnMovr, <2>3, <3>1, <3>2, PutWQuiet, Zenon
      <4>2. Quiet(s, p)
        BY <1>RanBnMovr, <2>3, <4>1, QuietTrans, Zenon
      <4> QED
        BY <1>RanBnMovr, <4>2, Zenon DEF Quiet
    <3> HIDE DEF p
    <3>4. Quiet(s, q) /\ q \in States
      <4>1. Quiet(p, q)
        BY <1>RanBnMovr, <2>1, <3>3, <1>IncIdxQuiet, Zenon
      <4>2. Quiet(s, q)
        BY <1>RanBnMovr, <3>3, <4>1, QuietTrans, Zenon
      <4> QED
        BY <1>RanBnMovr, <4>2 DEF Quiet
    <3> HIDE DEF q
    <3>5. Quiet(s, IncIdx(q, i.grs, i.grs_inc))
      BY <1>RanBnMovr, <2>1, <3>4, <1>IncIdxQuiet, QuietTrans, Zenon
    <3> QED
      BY <1>RanBnMovr, <2>1, <2>5, <3>5, QuietRan, Zenon DEF ExecBnMovr, q, p, r
  <2> QED
    BY <1>RanBnMovr, <2>4, <2>5, Zenon
(* All of them *)
<1>Execute. ASSUME NEW s \in States, s.raised = None, NEW i, IsWideInsn(i),
                   ReadsRnd(i) => s.wsrs.rnd \in Int
            PROVE  Ran(s, Execute(s, i), i)
  <2>1. CASE i.op \in {"BN.ADD", "BN.ADDC", "BN.ADDI"}
    <3>1. i.op \notin RegRegOps /\ i.op \notin DOMAIN RegImmOps
      BY <2>1 DEF RegRegOps, RegImmOps
    <3>2. Execute(s, i) = ExecBnAdd(s, i)
      BY <2>1 DEF Execute
    <3> QED
      BY <1>Execute, <2>1, <3>2, <1>RanBnAdd
  <2>2. CASE i.op \in {"BN.SUB", "BN.SUBB", "BN.SUBI"}
    <3>1. Execute(s, i) = ExecBnSub(s, i)
      BY <2>2 DEF Execute
    <3> QED
      BY <1>Execute, <2>2, <3>1, <1>RanBnSub
  <2>3. CASE i.op \in {"BN.CMP", "BN.CMPB"}
    <3>1. Execute(s, i) = ExecBnCmp(s, i)
      BY <2>3 DEF Execute
    <3> QED
      BY <1>Execute, <2>3, <3>1, <1>RanBnCmp
  <2>4. CASE i.op = "BN.ADDM"
    <3>1. Execute(s, i) = ExecBnAddm(s, i)
      BY <2>4 DEF Execute
    <3> QED
      BY <1>Execute, <2>4, <3>1, <1>RanBnAddm
  <2>5. CASE i.op = "BN.SUBM"
    <3>1. Execute(s, i) = ExecBnSubm(s, i)
      BY <2>5 DEF Execute
    <3> QED
      BY <1>Execute, <2>5, <3>1, <1>RanBnSubm, Zenon
  <2>6. CASE i.op = "BN.MULQACC"
    <3>1. Execute(s, i) = ExecMulqAcc(s, i)
      BY <2>6 DEF Execute
    <3> QED
      BY <1>Execute, <2>6, <3>1, <1>RanMulqAcc
  <2>7. CASE i.op = "BN.MULQACC.WO"
    <3>1. Execute(s, i) = ExecMulqAccWo(s, i)
      BY <2>7 DEF Execute
    <3> QED
      BY <1>Execute, <2>7, <3>1, <1>RanMulqAccWo
  <2>8. CASE i.op = "BN.MULQACC.SO"
    <3>1. Execute(s, i) = ExecMulqAccSo(s, i)
      BY <2>8 DEF Execute
    <3> QED
      BY <1>Execute, <2>8, <3>1, <1>RanMulqAccSo
  <2>9. CASE i.op \in {"BN.AND", "BN.OR", "BN.XOR", "BN.NOT"}
    <3>1. Execute(s, i) = ExecBnLogic(s, i)
      BY <2>9 DEF Execute
    <3> QED
      BY <1>Execute, <2>9, <3>1, <1>RanBnLogic
  <2>10. CASE i.op = "BN.RSHI"
    <3>1. Execute(s, i) = ExecBnRshi(s, i)
      BY <2>10 DEF Execute
    <3> QED
      BY <1>Execute, <2>10, <3>1, <1>RanBnRshi, Zenon
  <2>11. CASE i.op = "BN.SEL"
    <3>1. Execute(s, i) = ExecBnSel(s, i)
      BY <2>11 DEF Execute
    <3> QED
      BY <1>Execute, <2>11, <3>1, <1>RanBnSel
  <2>12. CASE i.op = "BN.LID"
    <3>1. Execute(s, i) = ExecBnLid(s, i)
      BY <2>12 DEF Execute
    <3> QED
      BY <1>Execute, <2>12, <3>1, <1>RanBnLid
  <2>13. CASE i.op = "BN.SID"
    <3>1. Execute(s, i) = ExecBnSid(s, i)
      BY <2>13 DEF Execute
    <3> QED
      BY <1>Execute, <2>13, <3>1, <1>RanBnSid
  <2>14. CASE i.op = "BN.MOV"
    <3>1. Execute(s, i) = ExecBnMov(s, i)
      BY <2>14 DEF Execute
    <3> QED
      BY <1>Execute, <2>14, <3>1, <1>RanBnMov
  <2>15. CASE i.op = "BN.MOVR"
    <3>1. Execute(s, i) = ExecBnMovr(s, i)
      BY <2>15 DEF Execute
    <3> QED
      BY <1>Execute, <2>15, <3>1, <1>RanBnMovr
  <2>16. CASE i.op = "BN.WSRR"
    <3>1. IsWdr(i.wrd) /\ i.wsr \in {"MOD", "ACC", "RND"}
      BY <1>Execute, <2>16, Zenon DEF IsWideInsn
    <3>2. Execute(s, i) = ExecBnWsrr(s, i)
      BY <2>16 DEF Execute
    <3> QED
      BY <2>16, <3>1, <3>2, <1>Execute, <1>RanWsrr, Zenon
  <2>17. CASE i.op = "BN.WSRW"
    <3>1. IsWdr(i.wrs) /\ i.wsr \in {"MOD", "ACC", "RND"}
      BY <1>Execute, <2>17, Zenon DEF IsWideInsn
    <3>2. Execute(s, i) = ExecBnWsrw(s, i)
      BY <2>17 DEF Execute
    <3> QED
      BY <2>17, <3>1, <3>2, <1>RanWsrw, Zenon
  <2> QED
    BY <1>Execute, <2>1, <2>2, <2>3, <2>4, <2>5, <2>6, <2>7, <2>8, <2>9, <2>10, <2>11, <2>12, <2>13,
       <2>14, <2>15, <2>16, <2>17, Zenon DEF IsWideInsn
<1> QED
  BY <1>Execute

(* Every instruction of the ISA runs. *)
LEMMA ExecuteRan ==
  ASSUME NEW s \in States, s.raised = None, NEW i, IsInsn(i), ReadsRnd(i) => s.wsrs.rnd \in Int
  PROVE  Ran(s, Execute(s, i), i)
  BY NarrowRan, WideRan DEF IsInsn

(***************************************************************************)
(* A step                                                                  *)
(***************************************************************************)
(* The addresses of instructions. *)
Pcs == {a \in 0 .. ImemSize - 1 : a % 4 = 0}

(* Every loop goes back to an address of an instruction. *)
LoopsGood(l) == \A k \in 1 .. Len(l.stack) : l.stack[k].start \in Pcs

(* No part of the state has noted an error. *)
NoErrors(s) == ~s.gprs.err /\ ~s.dmem.err /\ ~s.loops.err /\ s.errBits = {}

(* An instruction that is ready to execute asks for nothing more. *)
LEMMA ReadyPreExecute ==
  ASSUME NEW s \in States, NEW i, Ready(s, i) PROVE PreExecute(s, i) = s
<1>1. CASE i.op \in LoadOps
  <2>1. ~ReadsRnd(i)
    BY <1>1 DEF LoadOps, ReadsRnd
  <2> QED
    BY <2>1 DEF Ready, PreExecute
<1>2. CASE i.op \notin LoadOps /\ ReadsRnd(i)
  <2>1. RequestRnd(s.wsrs) = s.wsrs
    BY <1>2 DEF Ready, RequestRnd
  <2>2. [s EXCEPT !.wsrs = RequestRnd(@)] = s
    BY <2>1 DEF States
  <2> QED
    BY <1>2, <2>2 DEF PreExecute
<1>3. CASE i.op \notin LoadOps /\ ~ReadsRnd(i)
  BY <1>3 DEF PreExecute
<1> QED
  BY <1>1, <1>2, <1>3

(* pre_insn only prepares the loop stack. *)
LEMMA PreInsnType ==
  ASSUME NEW s \in States, NEW i
  PROVE  LET t == PreInsn(s, i)
         IN /\ t \in States /\ Same(s, t) /\ t.over = s.over /\ t.raised = s.raised
            /\ t.loops.stack = s.loops.stack /\ t.wsrs = s.wsrs /\ t.errBits = s.errBits
            /\ t.halt = s.halt /\ t.dmem = s.dmem
<1> DEFINE l == CheckInsn(s.loops, s.pc, i.op \in ControlOps)
           t == [s EXCEPT !.loops = l]
<1>1. s.loops \in LoopStates
  BY DEF States
<1>2. l \in LoopStates /\ l.stack = s.loops.stack
  <2>1. (s.loops.err \/ ((i.op \in ControlOps) /\ IsLastInsn(s.loops, s.pc))) \in BOOLEAN
    OBVIOUS
  <2> QED
    BY <1>1, Zenon DEF CheckInsn, LoopStates
<1> HIDE DEF l
<1>3. t \in States /\ Same(s, t)
  BY <1>2 DEF States, Same
<1>4. /\ t.over = s.over /\ t.raised = s.raised /\ t.loops = l /\ t.wsrs = s.wsrs
      /\ t.errBits = s.errBits /\ t.halt = s.halt /\ t.dmem = s.dmem
  OBVIOUS
<1> HIDE DEF t
<1>5. PreInsn(s, i) = t
  BY DEF PreInsn, t, l
<1> QED
  BY <1>2, <1>3, <1>4, <1>5

(* The step of the loop stack keeps its depth and the starts of its
   levels; a jump back is to the start of the innermost one. *)
LEMMA StepLoopType ==
  ASSUME NEW l \in LoopStates, NEW pc \in Nat
  PROVE  LET m == StepLoop(l, pc)
         IN /\ m \in LoopStates /\ m.err = l.err
            /\ Len(m.stack) = Len(l.stack)
            /\ \A k \in 1 .. Len(l.stack) : m.stack[k].start = l.stack[k].start
            /\ LoopBack(l, pc) \in Int \cup {None}
            /\ LoopBack(l, pc) # None =>
                  Len(l.stack) > 0 /\ LoopBack(l, pc) = l.stack[Len(l.stack)].start
<1>1. l.stack \in Seq(Levels) /\ l.err \in BOOLEAN
  BY DEF LoopStates
<1> DEFINE n == Len(l.stack)
           q == [l.stack EXCEPT ![Len(l.stack)].left = @ - 1]
<1>2. n \in Nat
  OBVIOUS
<1>3. n > 0 => l.stack[n] \in Levels
  BY <1>1
<1>4. LoopBack(l, pc) # None => n > 0 /\ LoopBack(l, pc) = l.stack[n].start
  BY DEF LoopBack, IsLastInsn, Top
<1>5. LoopBack(l, pc) \in Int \cup {None}
  BY <1>3, <1>4 DEF Levels
<1>6. ASSUME n > 0
      PROVE  /\ q \in Seq(Levels) /\ Len(q) = n
             /\ \A k \in 1 .. n : q[k].start = l.stack[k].start
  <2> DEFINE x == [l.stack[n] EXCEPT !.left = @ - 1]
  <2>1. x \in Levels /\ x.start = l.stack[n].start
    BY <1>3, <1>6 DEF Levels
  <2>2. q = [l.stack EXCEPT ![n] = x]
    OBVIOUS
  <2> HIDE DEF x
  <2> QED
    BY <1>1, <1>6, <2>1, <2>2
<1> DEFINE stack == IF LoopBack(l, pc) = None THEN l.stack ELSE q
           pop == IsLastInsn(l, pc) /\ Top(l).left = 0
<1>7. /\ stack \in Seq(Levels) /\ Len(stack) = n
      /\ \A k \in 1 .. n : stack[k].start = l.stack[k].start
  BY <1>1, <1>4, <1>6
<1>8. pop \in BOOLEAN
  OBVIOUS
<1>9. StepLoop(l, pc) = [l EXCEPT !.pop = pop, !.stack = stack]
  BY DEF StepLoop
<1> HIDE DEF stack, pop, q
<1>10. StepLoop(l, pc) \in LoopStates /\ StepLoop(l, pc).err = l.err
       /\ StepLoop(l, pc).stack = stack
  BY <1>7, <1>8, <1>9, Zenon DEF LoopStates
<1> QED
  BY <1>4, <1>5, <1>7, <1>10

(* The next PC is an integer. *)
LEMMA NextPcInt ==
  ASSUME NEW s \in States PROVE NextPc(s) \in Int
  BY DEF NextPc, States

(* What execute() and post_insn() give: an instruction that has not asked
   to stop has noted no error, and its next PC can be fetched from. *)
Done(s, d, i) ==
    /\ d \in States /\ Same(s, d)
    /\ AssertFree(i) => d.raised = None
    /\ d.raised = None =>
          /\ d.wsrs.rndRead = (s.wsrs.rndRead \/ ReadsRnd(i))
          /\ d.errBits # {} => d.halt
          /\ ~d.halt => NoErrors(d) /\ NextPc(d) \in Pcs /\ LoopsGood(d.loops)

(* post_insn() finds every error: what it lets pass is done. *)
LEMMA PostInsnDone ==
  ASSUME NEW s \in States, s.over = None, s.raised = None, LoopsGood(s.loops),
         NEW i, NEW t, Ran(s, t, i)
  PROVE  Done(s, PostInsn(t), i)
(* post_insn of the GPRs settles whether the call stack failed. *)
<1>PostInsnGprsType. ASSUME NEW g \in GprStates
                     PROVE  /\ PostInsnGprs(g) \in GprStates
                            /\ PostInsnGprs(g).regs = g.regs /\ PostInsnGprs(g).stack = g.stack
    BY Zenon DEF PostInsnGprs, GprStates
(* A next PC that post_insn accepts is the address of an instruction. *)
<1>GoodPc. ASSUME NEW a \in Int, a >= 0, ~BadPc(a) PROVE a \in Pcs
    BY <1>GoodPc, WidthAssumption, SMTT(30) DEF BadPc, Pcs
<1> DEFINE back == LoopBack(t.loops, t.pc)
           next == NextPc(t)
           bad == IF BadPc(next) THEN {"BAD_INSN_ADDR"} ELSE {}
           l == StepLoop(t.loops, t.pc)
           g == PostInsnGprs(t.gprs)
           over == IF back = None THEN t.over ELSE back
           p == [t EXCEPT !.errBits = @ \cup bad, !.loops = l, !.over = over, !.gprs = g]
           errs == p.errBits \cup (IF p.gprs.err THEN {"CALL_STACK"} ELSE {})
                             \cup (IF p.dmem.err THEN {"BAD_DATA_ADDR"} ELSE {})
                             \cup (IF p.loops.err THEN {"LOOP"} ELSE {})
           d == [p EXCEPT !.errBits = errs, !.halt = @ \/ errs # {}]
           f == Raise(t, "assert 0 <= next_pc")
<1>1. /\ t \in States /\ Same(s, t) /\ t.loops \in LoopStates /\ t.gprs \in GprStates
         /\ t.pc \in Nat
      /\ t.pc = s.pc /\ t.over \in Int \cup {None} /\ t.errBits \in SUBSET ErrNames
      /\ t.halt \in BOOLEAN
  BY DEF Ran, States, Same
<1>2. PostInsn(t) = IF next < 0 THEN f ELSE d
  BY Zenon DEF PostInsn
<1>3. next \in Int
  BY <1>1, NextPcInt
<1>4. /\ f \in States /\ Same(t, f) /\ f.raised # None
  <2>1. "assert 0 <= next_pc" \in Exceptions
    BY Zenon DEF Exceptions
  <2> QED
    BY <1>1, <2>1, NoneAssumption, Zenon DEF Raise, States, Same
<1>5. AssertFree(i) => ~(next < 0)
  <2>1. AssertFree(i) => t.over = None \/ t.over \in Nat
    BY Zenon DEF Ran
  <2> QED
    BY <1>1, <2>1 DEF NextPc
<1>6. bad \in SUBSET ErrNames
  BY DEF ErrNames
<1>7. /\ l \in LoopStates /\ l.err = t.loops.err /\ Len(l.stack) = Len(t.loops.stack)
      /\ \A k \in 1 .. Len(t.loops.stack) : l.stack[k].start = t.loops.stack[k].start
      /\ back \in Int \cup {None}
      /\ back # None => Len(t.loops.stack) > 0 /\ back = t.loops.stack[Len(t.loops.stack)].start
  BY <1>1, StepLoopType, Zenon
<1>8. g \in GprStates /\ g.regs = t.gprs.regs /\ g.stack = t.gprs.stack
  BY <1>1, <1>PostInsnGprsType, Zenon
<1>9. over \in Int \cup {None}
  BY <1>1, <1>7
<1> HIDE DEF back, next, bad, l, g, over, f
<1>10. /\ p \in States /\ p.gprs = g /\ p.loops = l /\ p.over = over /\ p.dmem = t.dmem
       /\ p.errBits = t.errBits \cup bad /\ p.halt = t.halt /\ p.raised = t.raised
       /\ p.wsrs = t.wsrs /\ p.pc = t.pc
  BY <1>1, <1>6, <1>7, <1>8, <1>9, Zenon DEF States
<1>11. Same(t, p)
  BY <1>8 DEF Same
<1> HIDE DEF p
<1>12. errs \in SUBSET ErrNames
  BY <1>1, <1>6, <1>10, Zenon DEF ErrNames
<1>13. errs = {} => bad = {} /\ ~p.gprs.err /\ ~p.dmem.err /\ ~p.loops.err
  BY <1>10
<1> HIDE DEF errs
<1> DEFINE h == p.halt \/ errs # {}
<1>14. h \in BOOLEAN
  OBVIOUS
<1> HIDE DEF h
<1>15. d = [p EXCEPT !.errBits = errs, !.halt = h]
  BY DEF h
<1> HIDE DEF d
<1>16. /\ d \in States /\ Same(p, d) /\ d.gprs = p.gprs /\ d.loops = p.loops /\ d.over = p.over
       /\ d.dmem = p.dmem /\ d.errBits = errs /\ d.halt = h
       /\ d.raised = p.raised /\ d.wsrs = p.wsrs /\ d.pc = p.pc
  BY <1>10, <1>12, <1>14, <1>15, Zenon DEF States, Same
<1>17. Same(s, f) /\ Same(s, d)
  <2>1. Same(s, f)
    BY <1>1, <1>4, Zenon DEF Same
  <2>2. Same(s, p)
    BY <1>1, <1>11, Zenon DEF Same
  <2>3. Same(s, d)
    BY <2>2, <1>16, Zenon DEF Same
  <2> QED
    BY <2>1, <2>3, Zenon
<1>18. CASE next < 0
  BY <1>2, <1>4, <1>5, <1>17, <1>18, Zenon DEF Done
<1>19. CASE ~(next < 0)
  <2>1. AssertFree(i) => d.raised = None
    BY <1>10, <1>16, Zenon DEF Ran
  <2>2. d.raised = None => d.wsrs.rndRead = (s.wsrs.rndRead \/ ReadsRnd(i))
    BY <1>10, <1>16 DEF Ran
  <2>3. d.errBits # {} => d.halt
    BY <1>16, Zenon DEF h
  <2>4. ASSUME ~d.halt PROVE NoErrors(d) /\ NextPc(d) \in Pcs /\ LoopsGood(d.loops)
    <3>1. errs = {} /\ bad = {} /\ NoErrors(d)
      BY <1>13, <1>16, <2>4, Zenon DEF NoErrors, h
    <3>2. next \in Pcs
      BY <1>3, <1>19, <3>1, <1>GoodPc, SMTT(30) DEF bad
    <3>3. LoopsGood(t.loops)
      <4>1. CASE t.loops.stack = s.loops.stack
        BY <4>1 DEF LoopsGood
      <4>2. CASE t.loops.stack # s.loops.stack
        <5>1. t.over = None
          BY <4>2, Zenon DEF Ran
        <5>2. PICK v \in Levels : v.start = s.pc + 4
                                  /\ t.loops.stack = Append(s.loops.stack, v)
          BY <4>2 DEF Ran
        <5>3. next = s.pc + 4
          BY <1>1, <5>1 DEF next, NextPc
        <5>4. s.loops.stack \in Seq(Levels)
          BY Zenon DEF States, LoopStates
        <5> QED
          BY <3>2, <5>2, <5>3 DEF LoopsGood
      <4> QED
        BY <4>1, <4>2
    <3>4. LoopsGood(d.loops)
      BY <1>7, <1>10, <1>16, <3>3, Zenon DEF LoopsGood
    <3>5. NextPc(d) \in Pcs
      <4>1. CASE back = None
        BY <1>10, <1>16, <3>2, <4>1, Zenon DEF NextPc, next, over
      <4>2. CASE back # None
        <5>1. back \in Pcs
          <6>1. Len(t.loops.stack) \in 1 .. Len(t.loops.stack)
                /\ back = t.loops.stack[Len(t.loops.stack)].start
            BY <1>7, <4>2
          <6> QED
            BY <3>3, <6>1, Zenon DEF LoopsGood
        <5> QED
          BY <1>10, <1>16, <4>2, <5>1, Zenon DEF NextPc, over
      <4> QED
        BY <4>1, <4>2, Zenon
    <3> QED
      BY <3>1, <3>4, <3>5
  <2> QED
    BY <1>2, <1>16, <1>17, <1>19, <2>1, <2>2, <2>3, <2>4, Zenon DEF Done
<1> QED
  BY <1>18, <1>19

(* The state between two steps of a simulator that has not raised:
   nothing is staged but what start() has put in the external registers,
   no error is pending, and no loop goes back outside the program. *)
Settled(s) ==
    /\ s \in States /\ s.over = None /\ s.dmem.trace = << >>
    /\ ~s.gprs.err /\ ~s.dmem.err
    /\ s.startStall = s.insnStall /\ (s.urndStall => s.startStall) /\ (s.startStall => s.running)
    /\ s.ext.next.INTR_STATE = s.ext.val.INTR_STATE
    /\ s.ext.next.ERR_BITS = s.ext.val.ERR_BITS
    /\ s.ext.next.STATUS = IF s.startStall THEN 1 ELSE s.ext.val.STATUS
    /\ s.running => ~s.halt /\ ~s.loops.err /\ s.errBits = {} /\ LoopsGood(s.loops)

(* Fetch, execute and post_insn of an instruction that is ready. *)
LEMMA ExecutedDone ==
  ASSUME NEW s, Settled(s), s.running, s.raised = None, IsInsn(Fetch(s)), Ready(s, Fetch(s))
  PROVE  Done(s, Executed(s), Fetch(s))
<1> DEFINE i == Fetch(s)
           u == PreInsn(s, i)
           t == Execute(u, i)
<1>1. s \in States /\ s.over = None /\ LoopsGood(s.loops)
  BY DEF Settled
<1>2. Executed(s) = PostInsn(t)
  <2>1. PreExecute(s, i) = s
    BY <1>1, ReadyPreExecute, Zenon
  <2> QED
    BY <2>1 DEF Executed
<1>3. /\ u \in States /\ Same(s, u) /\ u.over = s.over /\ u.raised = s.raised
      /\ u.loops.stack = s.loops.stack /\ u.wsrs = s.wsrs
  BY <1>1, PreInsnType, Zenon
<1>4. ReadsRnd(i) => s.wsrs.rnd \in Int
  <2> SUFFICES ASSUME ReadsRnd(i) PROVE s.wsrs.rnd \in Int
    OBVIOUS
  <2>1. i.op \notin LoadOps
    BY DEF LoadOps, ReadsRnd
  <2>2. RndReady(s.wsrs)
    BY <2>1, Zenon DEF Ready
  <2>3. s.wsrs.rnd \in Int \cup {None}
    BY <1>1 DEF States, WsrStates
  <2> QED
    BY <2>2, <2>3 DEF RndReady
<1>5. IsInsn(i)
  BY Zenon
<1> HIDE DEF i, u
<1>6. Ran(u, t, i)
  BY <1>3, <1>4, <1>5, ExecuteRan, Zenon
<1> HIDE DEF t
<1>7. LoopsGood(u.loops)
  BY <1>1, <1>3, Zenon DEF LoopsGood
<1>8. Done(u, PostInsn(t), i)
  BY <1>1, <1>3, <1>6, <1>7, PostInsnDone, Zenon
<1>9. Done(s, PostInsn(t), i)
  <2>1. Same(s, PostInsn(t))
    BY <1>3, <1>8, ZenonT(60) DEF Done, Same
  <2> QED
    BY <1>3, <1>8, <2>1, Zenon DEF Done
<1> QED
  BY <1>2, <1>9, Zenon DEF i

(* post_insn never empties the loop stack: a level that ends is popped by
   the commit. *)
LEMMA PostInsnDepth ==
  ASSUME NEW t \in States, Len(t.loops.stack) > 0
  PROVE  PostInsn(t).loops.stack # << >>
<1> DEFINE l == StepLoop(t.loops, t.pc)
<1>1. t.loops \in LoopStates /\ t.pc \in Nat
  BY DEF States
<1>2. l \in LoopStates /\ Len(l.stack) = Len(t.loops.stack)
  BY <1>1, StepLoopType, Zenon
<1>3. PostInsn(t).loops = t.loops \/ PostInsn(t).loops = l
  <2>1. CASE NextPc(t) < 0
    BY <2>1 DEF PostInsn, Raise, States
  <2>2. CASE ~(NextPc(t) < 0)
    BY <2>2 DEF PostInsn, States
  <2> QED
    BY <2>1, <2>2
<1>4. Len(<< >>) = 0
  OBVIOUS
<1> HIDE DEF l
<1> QED
  BY <1>2, <1>3, <1>4

(* A loop that starts is on the stack. *)
LEMMA LoopStartDepth ==
  ASSUME NEW s \in States, NEW count \in Nat \ {0}, NEW insns \in Nat
  PROVE  Len(LoopStart(s, count, insns).loops.stack) > 0
<1> DEFINE lv == LoopLevel(s.pc + 4, insns, count)
           l == StartLoop(s.loops, s.pc + 4, count, insns)
<1>1. s.loops \in LoopStates /\ s.loops.stack \in Seq(Levels) /\ s.pc \in Nat
  BY DEF States, LoopStates
<1>2. lv \in Levels
  BY <1>1 DEF LoopLevel, Levels
<1>3. l.stack = Append(s.loops.stack, lv)
  BY <1>1 DEF StartLoop, LoopStates
<1> HIDE DEF lv, l
<1>4. Len(l.stack) = Len(s.loops.stack) + 1 /\ Len(s.loops.stack) \in Nat
  BY <1>1, <1>2, <1>3
<1>5. LoopStart(s, count, insns).loops = l
  BY DEF LoopStart, States, l
<1> QED
  BY <1>4, <1>5, SMTT(30)

(* A LOOP or LOOPI with iterations leaves a loop on the stack. *)
LEMMA LoopPushes ==
  ASSUME NEW s, Settled(s), s.running, s.raised = None, IsInsn(Fetch(s)), Ready(s, Fetch(s)),
         Fetch(s).op \in {"LOOP", "LOOPI"}, AssertFree(Fetch(s)),
         Fetch(s).op = "LOOP" => G(s, Fetch(s).grs) # 0
  PROVE  Executed(s).loops.stack # << >>
<1> DEFINE i == Fetch(s)
           u == PreInsn(s, i)
           t == Execute(u, i)
<1>1. s \in States /\ IsInsn(i)
  BY DEF Settled
<1>2. Executed(s) = PostInsn(t)
  <2>1. PreExecute(s, i) = s
    BY <1>1, ReadyPreExecute
  <2> QED
    BY <2>1 DEF Executed
<1>3. u \in States /\ Same(s, u) /\ u.raised = None
  BY <1>1, PreInsnType
<1>4. i.op \in {"LOOP", "LOOPI"} /\ AssertFree(i) /\ (i.op = "LOOP" => G(s, i.grs) # 0)
  BY Zenon
<1>5. /\ i.op = "LOOP" => IsGpr(i.grs)
      /\ i.op = "LOOPI" => i.iterations \in Nat
      /\ i.bodysize \in Nat
  BY <1>1, <1>4, Zenon DEF IsInsn, IsNarrowInsn, IsWideInsn, RegRegOps, RegImmOps
<1> HIDE DEF i, u, t
<1>6. t \in States /\ Len(t.loops.stack) > 0
  <2>1. CASE i.op = "LOOP"
    <3> DEFINE r == Reading(u, {i.grs})
    <3>1. G(u, i.grs) = G(s, i.grs)
      BY <1>3 DEF G, ReadGpr, Same
    <3>2. G(u, i.grs) \in Nat \ {0}
      BY <1>3, <1>4, <1>5, <2>1, <3>1, GNat, Zenon
    <3>3. r \in States
      BY <1>3, ReadingQuiet DEF Quiet
    <3>4. t = ExecLoop(u, i)
      BY <2>1, Zenon DEF t, Execute, RegRegOps, RegImmOps
    <3>5. t = LoopStart(r, G(u, i.grs), i.bodysize)
      BY <3>2, <3>4, Zenon DEF ExecLoop
    <3>6. t \in States
      BY <1>3, <1>5, <2>1, <3>4, RanLoop, Zenon DEF Ran
    <3> HIDE DEF r
    <3> QED
      BY <1>5, <3>2, <3>3, <3>5, <3>6, LoopStartDepth, Zenon
  <2>2. CASE i.op = "LOOPI"
    <3>1. t = ExecLoopi(u, i)
      BY <2>2, Zenon DEF t, Execute, RegRegOps, RegImmOps
    <3>2. i.iterations \in Nat \ {0}
      BY <1>4, <1>5, <2>2, Zenon DEF AssertFree
    <3>3. t \in States
      BY <1>3, <1>5, <2>2, <3>1, RanLoopi DEF Ran
    <3> QED
      BY <1>3, <1>5, <3>1, <3>2, <3>3, LoopStartDepth, Zenon DEF ExecLoopi
  <2> QED
    BY <1>4, <2>1, <2>2, Zenon
<1> QED
  BY <1>2, <1>6, PostInsnDepth, Zenon
=============================================================================
