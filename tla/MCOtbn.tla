------------------------------- MODULE MCOtbn -------------------------------
(***************************************************************************)
(* Small instance of the OTBN simulator: 8-bit narrow and 16-bit wide words *)
(* (2-bit bytes), six GPRs, four WDRs, stacks of depth two, six wide words  *)
(* of data memory, and a library of programs: routines whose results are    *)
(* compared with reference arithmetic, programs that fault in every way     *)
(* ERR_BITS can report, calls, loops and reads of RND.                      *)
(***************************************************************************)
EXTENDS OtbnSim, Functions

RR(op, d, a, b) == [op |-> op, grd |-> d, grs1 |-> a, grs2 |-> b]
RI(op, d, a, v) == [op |-> op, grd |-> d, grs1 |-> a, imm |-> v]
Li(d, v) == RI("ADDI", d, 0, v)
Lui(d, v) == [op |-> "LUI", grd |-> d, imm |-> v]
Lw(d, off, a) == [op |-> "LW", grd |-> d, offset |-> off, grs1 |-> a]
Sw(b, off, a) == [op |-> "SW", grs2 |-> b, offset |-> off, grs1 |-> a]
Br(op, a, b, to) == [op |-> op, grs1 |-> a, grs2 |-> b, offset |-> to]
Jal(d, to) == [op |-> "JAL", grd |-> d, offset |-> to]
Jalr(d, a, off) == [op |-> "JALR", grd |-> d, grs1 |-> a, offset |-> off]
Csr(op, d, c, a) == [op |-> op, grd |-> d, csr |-> c, grs1 |-> a]
Ecall == [op |-> "ECALL"]
Loop(r, n) == [op |-> "LOOP", grs |-> r, bodysize |-> n]
Loopi(k, n) == [op |-> "LOOPI", iterations |-> k, bodysize |-> n]
(* Wide arithmetic and logic, without and with a shift of the second operand. *)
BnS(op, d, a, b, fg, right, bytes) ==
    [op |-> op, wrd |-> d, wrs1 |-> a, wrs2 |-> b, flag_group |-> fg,
     shift_type |-> right, shift_bytes |-> bytes]
Bn(op, d, a, b, fg) == BnS(op, d, a, b, fg, 0, 0)
BnI(op, d, a, v, fg) == [op |-> op, wrd |-> d, wrs |-> a, imm |-> v, flag_group |-> fg]
Mulq(op, z, d, hw, a, qa, b, qb, sh) ==
    [op |-> op, zero_acc |-> z, wrd |-> d, wrd_hwsel |-> hw, wrs1 |-> a, wrs1_qwsel |-> qa,
     wrs2 |-> b, wrs2_qwsel |-> qb, acc_shift_imm |-> sh, flag_group |-> 0]
Lid(d, dinc, off, a, ainc) ==
    [op |-> "BN.LID", grd |-> d, grd_inc |-> dinc, offset |-> off, grs1 |-> a, grs1_inc |-> ainc]
Sid(b, binc, off, a, ainc) ==
    [op |-> "BN.SID", grs2 |-> b, grs2_inc |-> binc, offset |-> off, grs1 |-> a, grs1_inc |-> ainc]
Movr(d, dinc, a, ainc) ==
    [op |-> "BN.MOVR", grd |-> d, grd_inc |-> dinc, grs |-> a, grs_inc |-> ainc]
Wsrr(d, w) == [op |-> "BN.WSRR", wrd |-> d, wsr |-> w]
Wsrw(w, a) == [op |-> "BN.WSRW", wsr |-> w, wrs |-> a]

-----------------------------------------------------------------------------
(* Routines with a reference result.  They load wide words 0 to 3 of memory  *)
(* into w0 to w3 with a loop, and store their result in words 4 and 5.       *)

LoadAll == <<Li(2, 0), Li(3, 0), Loopi(4, 2), Lid(2, TRUE, 0, 3, FALSE), RI("ADDI", 3, 3, 8)>>
StoreTwo == <<Li(2, 0), Sid(2, TRUE, 0, 3, FALSE), Sid(2, FALSE, 8, 3, FALSE), Ecall>>

AddWide == LoadAll \o <<Bn("BN.ADD", 0, 0, 2, 1), Bn("BN.ADDC", 1, 1, 3, 1)>> \o StoreTwo
SubWide == LoadAll \o <<Bn("BN.SUB", 0, 0, 2, 0), Bn("BN.SUBB", 1, 1, 3, 0)>> \o StoreTwo
(* w0 = min(w0, w1); w1 = (w2 * w3) on bytes of four quarter words each. *)
MulMin == LoadAll \o
    <<Bn("BN.CMP", 0, 0, 1, 1),
      [op |-> "BN.SEL", wrd |-> 0, wrs1 |-> 0, wrs2 |-> 1, flag_group |-> 1, flag |-> 0],
      Mulq("BN.MULQACC", TRUE, 0, 0, 2, 0, 3, 0, 0), Mulq("BN.MULQACC", FALSE, 0, 0, 2, 1, 3, 0, 4),
      Mulq("BN.MULQACC", FALSE, 0, 0, 2, 0, 3, 1, 4), Mulq("BN.MULQACC.WO", FALSE, 1, 0, 2, 1, 3, 1, 8)>>
    \o StoreTwo
(* MOD = w3; w0 = w0 + w1 and w1 = w1 - w2 modulo MOD. *)
ModArith == LoadAll \o
    <<Wsrw("MOD", 3), [op |-> "BN.ADDM", wrd |-> 0, wrs1 |-> 0, wrs2 |-> 1],
      [op |-> "BN.SUBM", wrd |-> 1, wrs1 |-> 1, wrs2 |-> 2]>> \o StoreTwo

-----------------------------------------------------------------------------
(* The rest of the library.                                                 *)

Narrow == <<Lui(2, 3), RI("ORI", 2, 2, 5), RI("SRAI", 3, 2, 1), RR("SUB", 4, 0, 2), RR("SRA", 4, 4, 3),
            RR("SLL", 5, 2, 3), RR("XOR", 5, 5, 4), RI("ANDI", 5, 5, -2), RI("SLLI", 4, 4, 1),
            RR("SRL", 3, 5, 2), RR("AND", 2, 2, 3), RR("OR", 3, 2, 4), RI("XORI", 2, 2, -1),
            Sw(3, 4, 0), Lw(4, 4, 0), Ecall>>
Wide == <<Lid(0, FALSE, 0, 0, FALSE), BnI("BN.ADDI", 1, 0, 3, 0), BnI("BN.SUBI", 2, 0, 9, 1),
          BnS("BN.AND", 3, 0, 1, 0, 1, 1), BnS("BN.OR", 3, 3, 2, 0, 0, 2), Bn("BN.XOR", 3, 3, 1, 1),
          Bn("BN.NOT", 2, 0, 3, 1), [op |-> "BN.RSHI", wrd |-> 1, wrs1 |-> 1, wrs2 |-> 2, imm |-> 5],
          Bn("BN.CMPB", 0, 1, 2, 0), Mulq("BN.MULQACC.SO", TRUE, 2, 0, 1, 0, 3, 1, 4),
          Mulq("BN.MULQACC.SO", FALSE, 2, 1, 1, 2, 3, 3, 0),
          [op |-> "BN.MOV", wrd |-> 3, wrs |-> 2], Wsrr(1, "ACC"), Csr("CSRRS", 2, <<"FLAGS", 0>>, 0),
          Csr("CSRRW", 3, <<"FG", 1>>, 2), Ecall>>
Csrs == <<Li(2, 90), Csr("CSRRW", 0, <<"MOD", 1>>, 2), Csr("CSRRS", 3, <<"MOD", 0>>, 2),
          Csr("CSRRS", 3, <<"FG", 0>>, 2), Csr("CSRRW", 4, <<"FLAGS", 0>>, 2),
          Csr("CSRRW", 4, <<"RND_PREFETCH", 0>>, 2), Ecall>>
Rnd == <<Wsrr(0, "RND"), Csr("CSRRS", 2, <<"RND", 0>>, 0), Csr("CSRRW", 0, <<"RND", 0>>, 2),
         Csr("CSRRW", 3, <<"RND", 0>>, 2), Ecall>>
(* A call of a function that calls another; both return through x1. *)
Calls == <<Jal(1, 12), Br("BEQ", 0, 0, 40), Ecall, Jal(1, 20), Jalr(0, 1, 0), Lw(2, 0, 0), Jalr(0, 1, 0),
           Ecall, Ecall, Ecall, Ecall>>
Loops == <<Li(2, 2), Loop(2, 4), Loopi(2, 2), Lw(3, 0, 0), Lw(4, 4, 0), RI("ADDI", 5, 5, 1), Ecall>>
(* The body of the loop is the last instruction of memory. *)
AtTheEnd == <<Jal(0, 56), Ecall>> \o [k \in 1 .. 12 |-> Ecall] \o <<Loopi(2, 1), Li(2, 1)>>
Copy == <<Li(2, 1), Li(3, 3), Lid(0, FALSE, 0, 0, TRUE), Movr(3, FALSE, 2, TRUE), Movr(2, TRUE, 3, FALSE),
          Sid(3, FALSE, 40, 0, TRUE), Ecall>>

(* One fault each, after or together with a write the fault must undo. *)
Faults ==
    {<<Li(2, 1), Lid(0, FALSE, 0, 2, FALSE)>>,                          \* unaligned wide load
     <<Li(2, 1), Lw(3, 0, 2), Ecall>>,                                   \* unaligned load
     <<Li(2, 48), Sid(0, TRUE, 0, 2, FALSE), Ecall>>,                    \* store above memory
     <<Li(2, 4), Lid(2, FALSE, 0, 0, TRUE), Ecall>>,                     \* no such WDR
     <<Li(2, 3), Movr(2, TRUE, 2, FALSE), Movr(2, TRUE, 0, FALSE)>>,     \* stepped past the last WDR
     <<Li(2, 6), Jalr(1, 2, 0), Ecall>>,                                 \* jump to an unaligned address
     <<RR("ADD", 2, 1, 1), Ecall>>,                                      \* empty call stack
     <<Li(1, 4), Li(1, 8), Li(1, 12), Ecall>>,                           \* full call stack
     <<Li(1, 4), Li(1, 8), RI("ADDI", 1, 1, 4), Lw(1, 0, 1), Ecall>>,    \* pop and push when full
     <<Loopi(2, 3), Loopi(2, 2), Loopi(2, 1), Ecall>>,                   \* full loop stack
     <<Loopi(2, 1), Jal(1, 0), Ecall>>,                                  \* jump ends a loop body
     <<Loop(0, 1), Ecall>>,                                              \* no iterations
     <<Sw(0, 0, 0), [op |-> "ILLEGAL"]>>}

(* Statistics are not collected of the zero-iteration LOOP (StatsAssertFails). *)
MCStatPrograms == {AddWide, SubWide, MulMin, ModArith, Narrow, Wide, Csrs, Rnd, Calls, Loops,
                   AtTheEnd, Copy}
MCPrograms == {AddWide, Rnd, Loops, Copy} \cup Faults
MCDatas == {<<255, 255, 254, 255, 1, 0, 0, 255>>, <<7, 0, 9, 0, 250, 0, 30, 0>>, <<128, 3, 129>>}

-----------------------------------------------------------------------------
(* What the routines compute, in terms of memory words 0 to 3.              *)

Carries(a, b) == (a + b) \div 2^WW
Min2(a, b) == IF a < b THEN a ELSE b

(* A run that ended with an ECALL, undisturbed, from the first instruction. *)
RanToEnd(p) ==
    /\ clean /\ ~st.running /\ Alive /\ program = p
    /\ last.op = "ECALL" /\ st.ext.val.START_ADDR = 0

(* Registers and data memory stay within their widths, as Reg.write_unsigned and
   Dmem assert. Chains of wide instructions compute what multi-word arithmetic
   says: carry and borrow propagate through the flag group named (BN.ADDC,
   BN.SUBB), BN.SEL after BN.CMP selects the minimum, four BN.MULQACC make a
   product, BN.ADDM and BN.SUBM reduce once - whatever ran before and whatever the
   registers held. *)
WideResults ==
    LET m == st.dmem.data
        narrow == Range(st.gprs.regs.val) \cup Range(st.gprs.stack)
        wide == Range(st.wdrs.val) \cup Range(m) \cup {st.wsrs.mod, st.wsrs.acc}
    IN /\ narrow \subseteq 0 .. 2^GW - 1 /\ wide \subseteq 0 .. 2^WW - 1
       /\ RanToEnd(AddWide) =>
             /\ m[4] = Mask(m[0] + m[2], WW)
             /\ m[5] = Mask(m[1] + m[3] + Carries(m[0], m[2]), WW)
       /\ RanToEnd(SubWide) =>
             /\ Mask(m[4] + m[2], WW) = m[0]
             /\ Mask(m[5] + m[3] + Carries(m[4], m[2]), WW) = m[1]
       /\ RanToEnd(MulMin) =>
             /\ m[4] = Min2(m[0], m[1])
             /\ m[5] = Mask(m[2], 8) * Mask(m[3], 8)
       /\ RanToEnd(ModArith) /\ m[0] < m[3] /\ m[1] < m[3] /\ m[2] < m[3] =>
             /\ m[4] = (m[0] + m[1]) % m[3]
             /\ m[5] = (m[1] - m[2]) % m[3]
=============================================================================
