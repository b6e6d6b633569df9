------------------------------ MODULE OtbnInsn ------------------------------
(***************************************************************************)
(* The instructions of the OTBN simulator (sim/insn.py, on the base classes *)
(* of sim/isa.py): what pre_execute and execute of each instruction class   *)
(* do to the simulator state s (the record of OtbnSim).  An instruction is  *)
(* a record: its mnemonic op and its operand values, named as in insns.yml. *)
(***************************************************************************)
EXTENDS OtbnState

CONSTANT LuiShift      \* 12: the immediate of LUI is the upper part of a GPR

(* Mnemonics of instructions that affect control flow (affects_control). *)
ControlOps == {"BEQ", "BNE", "JAL", "JALR", "LOOP", "LOOPI"}
LoadOps == {"LW", "BN.LID"}

-----------------------------------------------------------------------------
(* State access, as the methods of sim/state.py give it to instructions.    *)

G(s, r) == ReadGpr(s.gprs, r)
W(s, r) == s.wdrs.val[r]
Reading(s, R) == [s EXCEPT !.gprs = NoteReads(@, R)]
PutG(s, r, v) == [s EXCEPT !.gprs = WriteGpr(@, r, v)]
PutW(s, r, v) == [s EXCEPT !.wdrs = WriteReg(@, r, v)]
SetNextPc(s, v) == [s EXCEPT !.over = v]
SetFlags(s, fg, f) == [s EXCEPT !.flags = WriteReg(@, fg, f)]
SetMlzFlags(s, fg, r) == SetFlags(s, fg, MlzForResult(s.flags.val[fg].C, r))
StopAtEndOfCycle(s, bits) == [s EXCEPT !.errBits = @ \cup bits, !.halt = TRUE]
(* An exception of the simulator's own (assert, RuntimeError) leaves step(). *)
Raise(s, why) == [s EXCEPT !.raised = why]

-----------------------------------------------------------------------------
(* The narrow side.                                                        *)

ShiftedRight(a, n) == a \div 2^n

RegRegResult(op, a, b) ==
    CASE op = "ADD" -> Mask(a + b, GW)
      [] op = "SUB" -> Mask(a - b, GW)
      [] op = "SLL" -> Mask(a * 2^(b % GW), GW)
      [] op = "SRL" -> ShiftedRight(a, b % GW)
      [] op = "SRA" -> ToUnsigned(ShiftedRight(ToSigned(a, GW), b % GW), GW)
      [] op = "AND" -> BitwiseOp(AndBit, a, b, GW)
      [] op = "OR"  -> BitwiseOp(OrBit, a, b, GW)
      [] op = "XOR" -> BitwiseOp(XorBit, a, b, GW)

RegRegOps == {"ADD", "SUB", "SLL", "SRL", "SRA", "AND", "OR", "XOR"}

ExecRegReg(s, i) ==
    PutG(Reading(s, {i.grs1, i.grs2}), i.grd, RegRegResult(i.op, G(s, i.grs1), G(s, i.grs2)))

RegImmOps == [ADDI |-> "ADD", SLLI |-> "SLL", SRLI |-> "SRL", SRAI |-> "SRA",
              ANDI |-> "AND", ORI |-> "OR", XORI |-> "XOR"]

ExecRegImm(s, i) ==
    PutG(Reading(s, {i.grs1}), i.grd,
         RegRegResult(RegImmOps[i.op], G(s, i.grs1), ToUnsigned(i.imm, GW)))

ExecLui(s, i) == PutG(s, i.grd, i.imm * 2^LuiShift)

NarrowAddr(s, i) == Mask(G(s, i.grs1) + i.offset, GW)

ExecLw(s, i) ==
    LET a == NarrowAddr(s, i)
        r == [Reading(s, {i.grs1}) EXCEPT !.dmem = NoteAccess(@, BadNarrow(a))]
    IN PutG(r, i.grd, LoadU32(s.dmem, a))

ExecSw(s, i) ==
    [Reading(s, {i.grs1, i.grs2}) EXCEPT
        !.dmem = Store(@, NarrowAddr(s, i), G(s, i.grs2), FALSE)]

(* The offset operand of a branch is the absolute target: decoding has added
   the PC.  A taken branch does not reduce it modulo 2^32, a jump does. *)
ExecBranch(s, i) ==
    LET r == Reading(s, {i.grs1, i.grs2})
        equal == G(s, i.grs1) = G(s, i.grs2)
    IN IF equal = (i.op = "BEQ") THEN SetNextPc(r, i.offset) ELSE r

Link(s, r) == PutG(s, r, Mask(s.pc + 4, GW))
ExecJal(s, i) == SetNextPc(Link(s, i.grd), Mask(i.offset, GW))
ExecJalr(s, i) == SetNextPc(Link(Reading(s, {i.grs1}), i.grd), NarrowAddr(s, i))

WriteCsr(s, csr, v) ==
    [s EXCEPT !.flags = WriteCsrFlags(@, csr, v), !.wsrs = WriteCsrWsrs(@, csr, v)]
NoteCsrRead(s, csr) == [s EXCEPT !.wsrs = NoteWsrRead(@, csr[1])]

ExecCsrrs(s, i) ==
    LET old == ReadCsr(s.flags, s.wsrs, i.csr)
        r == PutG(Reading(NoteCsrRead(s, i.csr), {i.grs1}), i.grd, old)
    IN IF ~KnownCsr(i.csr) THEN Raise(s, "unknown CSR")
       ELSE IF i.grs1 = 0 THEN r ELSE WriteCsr(r, i.csr, BitwiseOp(OrBit, old, G(s, i.grs1), GW))

ExecCsrrw(s, i) ==
    LET old == ReadCsr(s.flags, s.wsrs, i.csr)
        r == Reading(s, {i.grs1})
    IN IF ~KnownCsr(i.csr) THEN Raise(s, "unknown CSR")
       ELSE WriteCsr(IF i.grd = 0 THEN r ELSE PutG(NoteCsrRead(r, i.csr), i.grd, old),
                     i.csr, G(s, i.grs1))

ExecEcall(s) == StopAtEndOfCycle(s, {})

(* Only LOOP checks its count; start_loop asserts that a count is positive. *)
LoopStart(s, count, insns) ==
    IF count = 0 THEN Raise(s, "assert 0 < loop_count")
    ELSE [s EXCEPT !.loops = StartLoop(@, s.pc + 4, count, insns)]

ExecLoop(s, i) ==
    LET r == Reading(s, {i.grs})
    IN IF G(s, i.grs) = 0 THEN StopAtEndOfCycle(r, {"LOOP"})
       ELSE LoopStart(r, G(s, i.grs), i.bodysize)

ExecLoopi(s, i) == LoopStart(s, i.iterations, i.bodysize)

-----------------------------------------------------------------------------
(* The wide side.                                                          *)

LogicalByteShift(v, right, bytes) ==
    IF right = 1 THEN v \div 2^(ByteBits * bytes)
    ELSE Mask(Mask(v, WW - ByteBits * bytes) * 2^(ByteBits * bytes), WW)

SecondOperand(s, i) == LogicalByteShift(W(s, i.wrs2), i.shift_type, i.shift_bytes)
CarryIn(s, i) == s.flags.val[i.flag_group].C

(* Result and flags of a wide addition or subtraction: C is the bit above the
   top one, a carry or a borrow. *)
ArithFlags(full) == MlzForResult(IF full \in 0 .. 2^WW - 1 THEN 0 ELSE 1, Mask(full, WW))
PutArith(s, i, full) ==
    SetFlags(PutW(s, i.wrd, Mask(full, WW)), i.flag_group, ArithFlags(full))

(* Seeded fault: the carry comes from the other flag group. *)
ExecBnAddWrongGroup(s, i) ==
    PutArith(s, i, CASE i.op = "BN.ADD"  -> W(s, i.wrs1) + SecondOperand(s, i)
                     [] i.op = "BN.ADDC" -> W(s, i.wrs1) + SecondOperand(s, i)
                                              + s.flags.val[1 - i.flag_group].C
                     [] i.op = "BN.ADDI" -> W(s, i.wrs) + i.imm)

ExecBnAdd(s, i) ==
    PutArith(s, i, CASE i.op = "BN.ADD"  -> W(s, i.wrs1) + SecondOperand(s, i)
                     [] i.op = "BN.ADDC" -> W(s, i.wrs1) + SecondOperand(s, i) + CarryIn(s, i)
                     [] i.op = "BN.ADDI" -> W(s, i.wrs) + i.imm)

ExecBnSub(s, i) ==
    PutArith(s, i, CASE i.op = "BN.SUB"  -> W(s, i.wrs1) - SecondOperand(s, i)
                     [] i.op = "BN.SUBB" -> W(s, i.wrs1) - SecondOperand(s, i) - CarryIn(s, i)
                     [] i.op = "BN.SUBI" -> W(s, i.wrs) - i.imm)

ExecBnCmp(s, i) ==
    LET borrow == IF i.op = "BN.CMPB" THEN CarryIn(s, i) ELSE 0
    IN SetFlags(s, i.flag_group, ArithFlags(W(s, i.wrs1) - SecondOperand(s, i) - borrow))

ExecBnAddm(s, i) ==
    LET sum == W(s, i.wrs1) + W(s, i.wrs2)
    IN PutW(s, i.wrd, Mask(IF sum >= s.wsrs.mod THEN sum - s.wsrs.mod ELSE sum, WW))

ExecBnSubm(s, i) ==
    LET diff == W(s, i.wrs1) - W(s, i.wrs2)
    IN PutW(s, i.wrd, Mask(IF diff < 0 THEN diff + s.wsrs.mod ELSE diff, WW))

QuarterWord(v, n) == GetField(n, WW \div 4, v)

(* The accumulator after adding a product of quarter words. *)
MulqAcc(s, i) ==
    LET product == QuarterWord(W(s, i.wrs1), i.wrs1_qwsel) * QuarterWord(W(s, i.wrs2), i.wrs2_qwsel)
    IN Mask((IF i.zero_acc THEN 0 ELSE s.wsrs.acc) + product * 2^(i.acc_shift_imm), WW)

ExecMulqAcc(s, i) == [s EXCEPT !.wsrs = WriteWsr(@, "ACC", MulqAcc(s, i))]

ExecMulqAccWo(s, i) ==
    LET r == MulqAcc(s, i)
    IN SetMlzFlags([PutW(s, i.wrd, r) EXCEPT !.wsrs = WriteWsr(@, "ACC", r)], i.flag_group, r)

(* Shift out the low half; the flags of a word written in two halves build up:
   L and Z from the low one, M and Z from the high one. *)
ExecMulqAccSo(s, i) ==
    LET half == WW \div 2
        r == MulqAcc(s, i)
        lo == Mask(r, half)
        old == s.flags.val[i.flag_group]
        zero == IF lo = 0 THEN 1 ELSE 0
        new == IF i.wrd_hwsel = 1
               THEN [old EXCEPT !.M = Bit(lo, half - 1), !.Z = old.Z * zero]
               ELSE [old EXCEPT !.L = lo % 2, !.Z = zero]
    IN SetFlags([PutW(s, i.wrd, SetField(i.wrd_hwsel, half, lo, W(s, i.wrd)))
                    EXCEPT !.wsrs = WriteWsr(@, "ACC", r \div 2^half)], i.flag_group, new)

ExecBnLogic(s, i) ==
    LET b == SecondOperand(s, i)
        r == CASE i.op = "BN.AND" -> BitwiseOp(AndBit, W(s, i.wrs1), b, WW)
               [] i.op = "BN.OR"  -> BitwiseOp(OrBit, W(s, i.wrs1), b, WW)
               [] i.op = "BN.XOR" -> BitwiseOp(XorBit, W(s, i.wrs1), b, WW)
               [] i.op = "BN.NOT" -> 2^WW - 1 - b
    IN SetMlzFlags(PutW(s, i.wrd, r), i.flag_group, r)

ExecBnRshi(s, i) ==
    PutW(s, i.wrd, Mask(W(s, i.wrs1), i.imm) * 2^(WW - i.imm) + W(s, i.wrs2) \div 2^(i.imm))

ExecBnSel(s, i) ==
    PutW(s, i.wrd, IF s.flags.val[i.flag_group][FlagNames[i.flag + 1]] = 1
                   THEN W(s, i.wrs1) ELSE W(s, i.wrs2))

(* The indirect instructions: a GPR holds the number of a WDR, and one GPR may
   be stepped on to the next WDR, or the next wide word of memory. *)
IncIdx(s, r, inc) == IF inc THEN PutG(s, r, G(s, r) + 1) ELSE s
IncAddr(s, r, inc) == IF inc THEN PutG(s, r, Mask(G(s, r) + WBytes, GW)) ELSE s

ExecBnLid(s, i) ==
    LET a == NarrowAddr(s, i)
        r == Reading(s, {i.grs1, i.grd})
        loaded == [PutW(r, G(s, i.grd), LoadU256(s.dmem, a))
                      EXCEPT !.dmem = NoteAccess(@, BadWide(a))]
    IN IF G(s, i.grd) >= NWdr THEN StopAtEndOfCycle(r, {"ILLEGAL_INSN"})
       ELSE IncAddr(IncIdx(loaded, i.grd, i.grd_inc), i.grs1, i.grs1_inc)

ExecBnSid(s, i) ==
    LET r == Reading(s, {i.grs1, i.grs2})
        stored == [r EXCEPT !.dmem = Store(@, NarrowAddr(s, i), W(s, G(s, i.grs2)), TRUE)]
    IN IF G(s, i.grs2) >= NWdr THEN StopAtEndOfCycle(r, {"ILLEGAL_INSN"})
       ELSE IncIdx(IncAddr(stored, i.grs1, i.grs1_inc), i.grs2, i.grs2_inc)

ExecBnMov(s, i) == PutW(s, i.wrd, W(s, i.wrs))

ExecBnMovr(s, i) ==
    LET r == Reading(s, {i.grd, i.grs})
    IN IF G(s, i.grd) >= NWdr \/ G(s, i.grs) >= NWdr THEN StopAtEndOfCycle(r, {"ILLEGAL_INSN"})
       ELSE IncIdx(IncIdx(PutW(r, G(s, i.grd), W(s, G(s, i.grs))), i.grd, i.grd_inc),
                   i.grs, i.grs_inc)

ExecBnWsrr(s, i) ==
    [PutW(s, i.wrd, ReadWsr(s.wsrs, i.wsr)) EXCEPT !.wsrs = NoteWsrRead(@, i.wsr)]
ExecBnWsrw(s, i) == [s EXCEPT !.wsrs = WriteWsr(@, i.wsr, W(s, i.wrs))]

-----------------------------------------------------------------------------
(* pre_execute: may the instruction run in this cycle, and what has asking
   left behind?  A load begins and waits for the next cycle; a read of RND
   waits until a word of entropy is there. *)
ReadsRnd(i) ==
    \/ i.op = "BN.WSRR" /\ i.wsr = "RND"
    \/ i.op = "CSRRS" /\ i.csr[1] = "RND"
    \/ i.op = "CSRRW" /\ i.csr[1] = "RND" /\ i.grd # 0

Ready(s, i) ==
    CASE i.op \in LoadOps -> s.dmem.ready
      [] ReadsRnd(i)      -> RndReady(s.wsrs)
      [] OTHER            -> TRUE

PreExecute(s, i) ==
    CASE i.op \in LoadOps /\ ~s.dmem.ready -> [s EXCEPT !.dmem = BeginLoad(@)]
      [] ReadsRnd(i)                       -> [s EXCEPT !.wsrs = RequestRnd(@)]
      [] OTHER                             -> s

(* INSN_CLASSES; an undecodable word is an IllegalInsn. *)
Execute(s, i) ==
    CASE i.op \in RegRegOps -> ExecRegReg(s, i)
      [] i.op \in DOMAIN RegImmOps -> ExecRegImm(s, i)
      [] i.op = "LUI" -> ExecLui(s, i)
      [] i.op = "LW" -> ExecLw(s, i)
      [] i.op = "SW" -> ExecSw(s, i)
      [] i.op \in {"BEQ", "BNE"} -> ExecBranch(s, i)
      [] i.op = "JAL" -> ExecJal(s, i)
      [] i.op = "JALR" -> ExecJalr(s, i)
      [] i.op = "CSRRS" -> ExecCsrrs(s, i)
      [] i.op = "CSRRW" -> ExecCsrrw(s, i)
      [] i.op = "ECALL" -> ExecEcall(s)
      [] i.op = "LOOP" -> ExecLoop(s, i)
      [] i.op = "LOOPI" -> ExecLoopi(s, i)
      [] i.op \in {"BN.ADD", "BN.ADDC", "BN.ADDI"} -> ExecBnAdd(s, i)
      [] i.op \in {"BN.SUB", "BN.SUBB", "BN.SUBI"} -> ExecBnSub(s, i)
      [] i.op \in {"BN.CMP", "BN.CMPB"} -> ExecBnCmp(s, i)
      [] i.op = "BN.ADDM" -> ExecBnAddm(s, i)
      [] i.op = "BN.SUBM" -> ExecBnSubm(s, i)
      [] i.op = "BN.MULQACC" -> ExecMulqAcc(s, i)
      [] i.op = "BN.MULQACC.WO" -> ExecMulqAccWo(s, i)
      [] i.op = "BN.MULQACC.SO" -> ExecMulqAccSo(s, i)
      [] i.op \in {"BN.AND", "BN.OR", "BN.XOR", "BN.NOT"} -> ExecBnLogic(s, i)
      [] i.op = "BN.RSHI" -> ExecBnRshi(s, i)
      [] i.op = "BN.SEL" -> ExecBnSel(s, i)
      [] i.op = "BN.LID" -> ExecBnLid(s, i)
      [] i.op = "BN.SID" -> ExecBnSid(s, i)
      [] i.op = "BN.MOV" -> ExecBnMov(s, i)
      [] i.op = "BN.MOVR" -> ExecBnMovr(s, i)
      [] i.op = "BN.WSRR" -> ExecBnWsrr(s, i)
      [] i.op = "BN.WSRW" -> ExecBnWsrw(s, i)
      [] i.op = "ILLEGAL" -> StopAtEndOfCycle(s, {"ILLEGAL_INSN"})

-----------------------------------------------------------------------------
(* The operand values an instruction can have once decoded: registers that   *)
(* exist, immediates and selectors within their bit ranges (insns.yml).      *)

IsGpr(r) == r \in 0 .. NGpr - 1
IsWdr(r) == r \in 0 .. NWdr - 1
IsGroup(fg) == fg \in 0 .. 1
IsCsr(csr) ==
    /\ csr[1] = "FG" => IsGroup(csr[2])
    /\ csr[1] = "MOD" => csr[2] \in 0 .. NPerW - 1

IsNarrowInsn(i) ==
    \/ i.op \in RegRegOps /\ IsGpr(i.grd) /\ IsGpr(i.grs1) /\ IsGpr(i.grs2)
    \/ i.op \in DOMAIN RegImmOps /\ IsGpr(i.grd) /\ IsGpr(i.grs1) /\ i.imm \in -2^GW .. 2^GW
    \/ i.op = "LUI" /\ IsGpr(i.grd) /\ i.imm \in Nat
    \/ i.op = "LW" /\ IsGpr(i.grd) /\ IsGpr(i.grs1) /\ i.offset \in Int
    \/ i.op = "SW" /\ IsGpr(i.grs1) /\ IsGpr(i.grs2) /\ i.offset \in Int
    \/ i.op \in {"BEQ", "BNE"} /\ IsGpr(i.grs1) /\ IsGpr(i.grs2) /\ i.offset \in Int
    \/ i.op = "JAL" /\ IsGpr(i.grd) /\ i.offset \in Int
    \/ i.op = "JALR" /\ IsGpr(i.grd) /\ IsGpr(i.grs1) /\ i.offset \in Int
    \/ i.op \in {"CSRRS", "CSRRW"} /\ IsGpr(i.grd) /\ IsGpr(i.grs1) /\ IsCsr(i.csr)
    \/ i.op = "LOOP" /\ IsGpr(i.grs) /\ i.bodysize \in Nat
    \/ i.op = "LOOPI" /\ i.iterations \in Nat /\ i.bodysize \in Nat
    \/ i.op \in {"ECALL", "ILLEGAL"}

IsShift(i) == ByteBits * i.shift_bytes \in 0 .. WW
IsQuarterProduct(i) ==
    /\ IsWdr(i.wrs1) /\ IsWdr(i.wrs2)
    /\ i.wrs1_qwsel \in 0 .. 3 /\ i.wrs2_qwsel \in 0 .. 3
    /\ i.acc_shift_imm \in 0 .. WW

IsWideInsn(i) ==
    \/ /\ i.op \in {"BN.ADD", "BN.ADDC", "BN.SUB", "BN.SUBB", "BN.AND", "BN.OR", "BN.XOR"}
       /\ IsWdr(i.wrd) /\ IsWdr(i.wrs1) /\ IsWdr(i.wrs2) /\ IsGroup(i.flag_group) /\ IsShift(i)
    \/ i.op = "BN.NOT" /\ IsWdr(i.wrd) /\ IsWdr(i.wrs2) /\ IsGroup(i.flag_group) /\ IsShift(i)
    \/ /\ i.op \in {"BN.CMP", "BN.CMPB"}
       /\ IsWdr(i.wrs1) /\ IsWdr(i.wrs2) /\ IsGroup(i.flag_group) /\ IsShift(i)
    \/ /\ i.op \in {"BN.ADDI", "BN.SUBI"}
       /\ IsWdr(i.wrd) /\ IsWdr(i.wrs) /\ i.imm \in Nat /\ IsGroup(i.flag_group)
    \/ i.op \in {"BN.ADDM", "BN.SUBM"} /\ IsWdr(i.wrd) /\ IsWdr(i.wrs1) /\ IsWdr(i.wrs2)
    \/ i.op = "BN.MULQACC" /\ IsQuarterProduct(i)
    \/ i.op = "BN.MULQACC.WO" /\ IsQuarterProduct(i) /\ IsWdr(i.wrd) /\ IsGroup(i.flag_group)
    \/ /\ i.op = "BN.MULQACC.SO" /\ IsQuarterProduct(i)
       /\ IsWdr(i.wrd) /\ i.wrd_hwsel \in 0 .. 1 /\ IsGroup(i.flag_group)
    \/ i.op = "BN.RSHI" /\ IsWdr(i.wrd) /\ IsWdr(i.wrs1) /\ IsWdr(i.wrs2) /\ i.imm \in 0 .. WW
    \/ /\ i.op = "BN.SEL" /\ IsWdr(i.wrd) /\ IsWdr(i.wrs1) /\ IsWdr(i.wrs2)
       /\ IsGroup(i.flag_group) /\ i.flag \in 0 .. 3
    \/ /\ i.op = "BN.LID" /\ IsGpr(i.grd) /\ IsGpr(i.grs1) /\ i.offset \in Int
       /\ {i.grd_inc, i.grs1_inc} \subseteq BOOLEAN
    \/ /\ i.op = "BN.SID" /\ IsGpr(i.grs1) /\ IsGpr(i.grs2) /\ i.offset \in Int
       /\ {i.grs1_inc, i.grs2_inc} \subseteq BOOLEAN
    \/ /\ i.op = "BN.MOVR" /\ IsGpr(i.grd) /\ IsGpr(i.grs)
       /\ {i.grd_inc, i.grs_inc} \subseteq BOOLEAN
    \/ i.op = "BN.MOV" /\ IsWdr(i.wrd) /\ IsWdr(i.wrs)
    \/ i.op = "BN.WSRR" /\ IsWdr(i.wrd) /\ i.wsr \in {"MOD", "ACC", "RND"}
    \/ i.op = "BN.WSRW" /\ IsWdr(i.wrs) /\ i.wsr \in {"MOD", "ACC", "RND"}

IsInsn(i) == IsNarrowInsn(i) \/ IsWideInsn(i)
=============================================================================
