------------------------------ MODULE OtbnState -----------------------------
(***************************************************************************)
(* The register files of the OTBN instruction-set simulator                *)
(* (hw/ip/otbn/dv/otbnsim/sim): reg.py, gpr.py, flags.py, wsr.py, csr.py.  *)
(* Every object of the simulator is a record; every method is an operator  *)
(* from the object to the object it leaves.  All writes are staged ("next")*)
(* and only a commit makes them architectural.                             *)
(*                                                                         *)
(* Widths are parameters, so that TLC can enumerate values: the program    *)
(* has ByteBits = 8, GBytes = 4, WBytes = 32, NGpr = NWdr = 32,            *)
(* StackDepth = 8.                                                         *)
(***************************************************************************)
EXTENDS Integers, Sequences, FiniteSets

CONSTANTS ByteBits,    \* bits in a byte
          GBytes,      \* bytes in a narrow word (a GPR, a CSR)
          WBytes,      \* bytes in a wide word (a WDR, a WSR)
          NGpr, NWdr,  \* number of narrow and of wide registers
          StackDepth,  \* depth of the call stack and of the loop stack
          None         \* Python's None

GW == ByteBits * GBytes
WW == ByteBits * WBytes
NPerW == WBytes \div GBytes

Mask(v, w) == v % 2^w
Bit(v, n) == (v \div 2^n) % 2
(* Two's complement of a signed value, and back. *)
ToUnsigned(v, w) == IF v < 0 THEN 2^w + v ELSE v
ToSigned(v, w) == IF v >= 2^(w - 1) THEN v - 2^w ELSE v

SumTo(g, n) == LET sum[k \in 0 .. n] == IF k = 0 THEN 0 ELSE sum[k - 1] + g[k] IN sum[n]

(* Python's &, | and ^ on words of w bits, from what they do to one bit. *)
AndBit == [x \in 0 .. 1 |-> [y \in 0 .. 1 |-> x * y]]
OrBit == [x \in 0 .. 1 |-> [y \in 0 .. 1 |-> IF x = 1 THEN 1 ELSE y]]
XorBit == [x \in 0 .. 1 |-> [y \in 0 .. 1 |-> IF x = y THEN 0 ELSE 1]]
BitwiseOp(op, a, b, w) ==
    SumTo([k \in 1 .. w |-> op[Bit(a, k - 1)][Bit(b, k - 1)] * 2^(k - 1)], w)

-----------------------------------------------------------------------------
(* reg.py: a file of registers, each with a value and a staged value.      *)

NoneStaged == [i \in {} |-> 0]
Stage(next, i, v) ==
    [j \in DOMAIN next \cup {i} |-> IF j = i THEN v ELSE next[j]]

RegFile(Idx) == [val |-> [i \in Idx |-> 0], next |-> NoneStaged]

WriteReg(f, i, v) == [f EXCEPT !.next = Stage(@, i, v)]

CommitRegs(f) ==
    [val |-> [i \in DOMAIN f.val |->
                 IF i \in DOMAIN f.next THEN f.next[i] ELSE f.val[i]],
     next |-> NoneStaged]

AbortRegs(f) == [f EXCEPT !.next = NoneStaged]

-----------------------------------------------------------------------------
(* gpr.py: x0 reads as zero, x1 is the call stack.                         *)

InitGprs == [regs |-> RegFile(2 .. NGpr - 1), stack |-> << >>,
             push |-> None, sawRead |-> FALSE, err |-> FALSE]

ReadGpr(g, i) ==
    CASE i = 0 -> 0
      [] i = 1 -> IF g.stack = << >> THEN 0 ELSE g.stack[Len(g.stack)]
      [] OTHER -> g.regs.val[i]

(* What reading the registers of R leaves behind: reading x1 asks for a pop,
   or, when there is nothing to pop, flags an error. *)
NoteReads(g, R) ==
    IF 1 \notin R THEN g
    ELSE IF g.stack = << >> THEN [g EXCEPT !.err = TRUE] ELSE [g EXCEPT !.sawRead = TRUE]

WriteGpr(g, i, v) ==
    CASE i = 0 -> g
      [] i = 1 -> [g EXCEPT !.push = v]
      [] OTHER -> [g EXCEPT !.regs = WriteReg(@, i, v)]

PostInsnGprs(g) ==
    IF g.push # None /\ ~g.sawRead /\ Len(g.stack) = StackDepth
    THEN [g EXCEPT !.err = TRUE] ELSE g

CommitGprs(g) ==
    LET popped == IF g.sawRead THEN SubSeq(g.stack, 1, Len(g.stack) - 1) ELSE g.stack
    IN [regs |-> CommitRegs(g.regs),
        stack |-> IF g.push = None THEN popped ELSE Append(popped, g.push),
        push |-> None, sawRead |-> FALSE, err |-> g.err]

AbortGprs(g) ==
    [g EXCEPT !.regs = AbortRegs(@), !.push = None, !.sawRead = FALSE, !.err = FALSE]

-----------------------------------------------------------------------------
(* flags.py: two groups of the flags C, M, L and Z.                        *)

FlagNames == <<"C", "M", "L", "Z">>

MlzForResult(c, r) ==
    [C |-> c, M |-> Bit(r, WW - 1), L |-> r % 2, Z |-> IF r = 0 THEN 1 ELSE 0]

FlagBits(f) == f.C + 2 * f.M + 4 * f.L + 8 * f.Z
FlagsFromBits(v) == [C |-> Bit(v, 0), M |-> Bit(v, 1), L |-> Bit(v, 2), Z |-> Bit(v, 3)]

InitFlags == [val |-> [i \in 0 .. 1 |-> FlagsFromBits(0)], next |-> NoneStaged]

ReadFlagGroups(f) == FlagBits(f.val[0]) + 16 * FlagBits(f.val[1])
WriteFlagGroups(f, v) ==
    [f EXCEPT !.next = [i \in 0 .. 1 |-> FlagsFromBits(IF i = 0 THEN v % 16 ELSE (v \div 16) % 16)]]

-----------------------------------------------------------------------------
(* wsr.py: MOD and ACC hold a value; RND caches one word of entropy, and a  *)
(* read takes it out of the cache when the reading instruction commits.    *)

InitWsrs == [mod |-> 0, modNext |-> None, acc |-> 0, accNext |-> None,
             rnd |-> None, rndRead |-> FALSE, rndPending |-> FALSE]

ReadWsr(w, name) ==
    CASE name = "MOD" -> w.mod [] name = "ACC" -> w.acc [] name = "RND" -> w.rnd

NoteWsrRead(w, name) == IF name = "RND" THEN [w EXCEPT !.rndRead = TRUE] ELSE w

WriteWsr(w, name, v) ==
    CASE name = "MOD" -> [w EXCEPT !.modNext = v]
      [] name = "ACC" -> [w EXCEPT !.accNext = v]
      [] name = "RND" -> w

(* A cached zero is not recognised as a value: "if self._random_value:". *)
RndReady(w) == w.rnd \notin {None, 0}
(* Seeded fault: waiting for RND asks for nothing. *)
RequestRndSilently(w) == w

RequestRnd(w) == IF RndReady(w) THEN w ELSE [w EXCEPT !.rndPending = TRUE]

(* Seeded fault: a read leaves the word in the cache. *)
CommitRndKeepsWord(w) ==
    IF w.rndRead THEN [w EXCEPT !.rndPending = FALSE, !.rndRead = FALSE] ELSE w

CommitRnd(w) ==
    IF w.rndRead THEN [w EXCEPT !.rnd = None, !.rndPending = FALSE, !.rndRead = FALSE] ELSE w

CommitWsrs(w) ==
    [CommitRnd(w) EXCEPT !.mod = IF w.modNext = None THEN @ ELSE w.modNext,
                         !.acc = IF w.accNext = None THEN @ ELSE w.accNext,
                         !.modNext = None, !.accNext = None]

(* RandWSR inherits an abort that does nothing. *)
AbortWsrs(w) == [w EXCEPT !.modNext = None, !.accNext = None]

-----------------------------------------------------------------------------
(* csr.py: the narrow view of the flags, of MOD and of RND.  A CSR is named  *)
(* <<"FG", group>>, <<"MOD", n>>, <<"FLAGS", 0>>, <<"RND", 0>> or           *)
(* <<"RND_PREFETCH", 0>>; any other index raises a RuntimeError.            *)

GetField(n, w, v) == (v \div 2^(w * n)) % 2^w
SetField(n, w, new, old) == old + (new - GetField(n, w, old)) * 2^(w * n)

KnownCsr(csr) == csr[1] \in {"FG", "FLAGS", "MOD", "RND", "RND_PREFETCH"}

ReadCsr(flags, w, csr) ==
    CASE csr[1] = "FG"    -> GetField(csr[2], 4, ReadFlagGroups(flags))
      [] csr[1] = "FLAGS" -> ReadFlagGroups(flags)
      [] csr[1] = "MOD"   -> GetField(csr[2], GW, w.mod)
      [] csr[1] = "RND"   -> Mask(w.rnd, GW)
      [] csr[1] = "RND_PREFETCH" -> 0

WriteCsrFlags(flags, csr, v) ==
    CASE csr[1] = "FG" ->
            WriteFlagGroups(flags, SetField(csr[2], 4, v % 16, ReadFlagGroups(flags)))
      [] csr[1] = "FLAGS" -> WriteFlagGroups(flags, v)
      [] OTHER -> flags

WriteCsrWsrs(w, csr, v) ==
    IF csr[1] = "MOD"
    THEN WriteWsr(w, "MOD", SetField(csr[2], GW, v, w.mod)) ELSE w

-----------------------------------------------------------------------------
(***************************************************************************)
(* The other stateful objects of the OTBN simulator: data memory (dmem.py), *)
(* the loop stack (loop.py) and the registers the host sees (ext_regs.py).  *)
(***************************************************************************)
CONSTANTS DmemWords,   \* wide words of data memory
          DeadBeef,    \* the "bad" wide constant memory is initialised with
          PadByte      \* the byte load_le_words pads with: b'0', which is 0x30

-----------------------------------------------------------------------------
(* dmem.py.  Memory is an array of wide words; narrow accesses take one word *)
(* apart.  Stores are traced and only happen at commit; a load takes a cycle *)
(* to begin (begun) and is ready in the next.                               *)

InitDmem == [data |-> [i \in 0 .. DmemWords - 1 |-> DeadBeef], trace |-> << >>,
             err |-> FALSE, begun |-> FALSE, ready |-> FALSE]

GetU32(word, n) == GetField(n, GW, word)
SetU32(word, n, v) == SetField(n, GW, v, word)

PadWord == SumTo([n \in 1 .. GBytes |-> PadByte * 2^(ByteBits * (n - 1))], GBytes)

(* Too much data raises a ValueError. *)
DataFits(ws) == Len(ws) <= NPerW * DmemWords

LoadLeWords(d, ws) ==
    LET word(k) == IF k <= Len(ws) THEN ws[k] ELSE PadWord
        wide(i) == SumTo([n \in 1 .. NPerW |-> word(NPerW * i + n) * 2^(GW * (n - 1))], NPerW)
    IN [d EXCEPT !.data = [i \in DOMAIN @ |->
                              IF NPerW * i < Len(ws) THEN wide(i) ELSE @[i]]]

BadWide(a) == a % WBytes # 0 \/ a \div WBytes >= DmemWords
BadNarrow(a) == a % GBytes # 0 \/ (a + GBytes - 1) \div WBytes >= DmemWords

(* Out of range or unaligned: the flag is set, a load returns 0. *)
NoteAccess(d, bad) == IF bad THEN [d EXCEPT !.err = TRUE] ELSE d
LoadU256(d, a) == IF BadWide(a) THEN 0 ELSE d.data[a \div WBytes]
LoadU32(d, a) ==
    IF BadNarrow(a) THEN 0
    ELSE GetU32(d.data[a \div WBytes], (a \div GBytes) % NPerW)

Store(d, a, v, wide) ==
    IF (wide /\ BadWide(a)) \/ (~wide /\ BadNarrow(a)) THEN [d EXCEPT !.err = TRUE]
    ELSE [d EXCEPT !.trace = Append(@, [addr |-> a, val |-> v, wide |-> wide])]

CommitStore(data, t) ==
    LET i == t.addr \div WBytes
    IN [data EXCEPT ![i] = IF t.wide THEN t.val
                           ELSE SetU32(@, (t.addr \div GBytes) % NPerW, t.val)]

(* Seeded fault: the commit of a stalled cycle leaves a finished load in place. *)
CommitDmemKeepsReady(d) ==
    [d EXCEPT !.data = IF d.trace = << >> THEN @ ELSE CommitStore(@, d.trace[1]),
              !.trace = << >>, !.begun = FALSE, !.ready = @ \/ d.begun]

(* An instruction stores at most once, so the trace has at most one item. *)
CommitDmem(d) ==
    [d EXCEPT !.data = IF d.trace = << >> THEN @ ELSE CommitStore(@, d.trace[1]),
              !.trace = << >>, !.begun = FALSE, !.ready = d.begun]

AbortDmem(d) == [d EXCEPT !.trace = << >>, !.err = FALSE]
BeginLoad(d) == [d EXCEPT !.begun = TRUE]

-----------------------------------------------------------------------------
(* loop.py.  Starting a loop pushes at once, and counting an iteration      *)
(* decrements at once; only the pop waits for the commit.                   *)

LoopLevel(start, insns, count) ==
    [start |-> start, last |-> start + 4 * insns - 4, left |-> count - 1, count |-> count]

InitLoops == [stack |-> << >>, err |-> FALSE, pop |-> FALSE]

Top(l) == l.stack[Len(l.stack)]
IsLastInsn(l, pc) == l.stack # << >> /\ pc = Top(l).last

StartLoop(l, start, count, insns) ==
    [l EXCEPT !.err = @ \/ Len(l.stack) = StackDepth,
              !.stack = Append(@, LoopLevel(start, insns, count))]

CheckInsn(l, pc, control) == [l EXCEPT !.err = @ \/ (control /\ IsLastInsn(l, pc))]

LoopBack(l, pc) == IF IsLastInsn(l, pc) /\ Top(l).left # 0 THEN Top(l).start ELSE None
StepLoop(l, pc) ==
    [l EXCEPT !.pop = IsLastInsn(l, pc) /\ Top(l).left = 0,
              !.stack = IF LoopBack(l, pc) = None THEN @
                        ELSE [l.stack EXCEPT ![Len(l.stack)].left = @ - 1]]

CommitLoops(l) ==
    [l EXCEPT !.stack = IF l.pop THEN SubSeq(@, 1, Len(@) - 1) ELSE @]
AbortLoops(l) == [l EXCEPT !.err = FALSE]

-----------------------------------------------------------------------------
(* ext_regs.py: the registers the simulator uses, with their software       *)
(* access.  A register has a value and a next value; a write by software     *)
(* respects the access, a write by the hardware (set_bits, clear_bits) does  *)
(* not, and reading a write-only register returns zero to software.          *)

SwAccess == [INTR_STATE |-> "rw1c", STATUS |-> "ro", ERR_BITS |-> "ro", START_ADDR |-> "wo"]

ExtFields(done, busy, err, start) ==
    [INTR_STATE |-> done, STATUS |-> busy, ERR_BITS |-> err, START_ADDR |-> start]
InitExt == [val |-> ExtFields(0, 0, {}, 0), next |-> ExtFields(0, 0, {}, 0)]

WriteExt(x, reg, v, fromHw) ==
    CASE ~fromHw /\ SwAccess[reg] = "ro"   -> x
      [] ~fromHw /\ SwAccess[reg] = "rw1c" -> [x EXCEPT !.next[reg] = IF v = 1 THEN 0 ELSE @]
      [] OTHER                             -> [x EXCEPT !.next[reg] = v]
ReadExt(x, reg, fromHw) ==
    IF ~fromHw /\ SwAccess[reg] = "wo" THEN 0 ELSE x.val[reg]
CommitExt(x) == [x EXCEPT !.val = x.next]
AbortExt(x) == [x EXCEPT !.next = x.val]
=============================================================================
