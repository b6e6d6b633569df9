------------------------------- MODULE RigGen -------------------------------
(***************************************************************************)
(* The random instruction generator of OTBN and the simulator that runs    *)
(* what it generates.  SnippetGens._gens calls generators until fuel or    *)
(* space runs out; Branch and Loop call it again for the code below them.  *)
(* The Python call stack is the sequence frames; a generator that fails    *)
(* drops its frames, and another is tried.  A finished program is loaded   *)
(* into the simulator of OtbnSim and run to its end.                       *)
(***************************************************************************)
EXTENDS RigModel

CONSTANTS Files,        \* the configuration files, by name
          Requests,     \* what can be asked for: config, fuel and, as bounds, blobs, the data
                        \* drawn, gprs and imms, the registers and ADDI immediates drawn from,
                        \* and imem, the bytes of instruction memory the generator is told of
          WdrPool, LuiImms,                  \* bounds: wide registers, LUI immediates drawn from
          LoadRange, WideRange, JalrRange,   \* <<lo, hi>> of the offset immediates
          MaxIters      \* 10: "never generate more than 10 iterations"

VARIABLES cfg,       \* the request, with the generators and instructions enabled
          frames,    \* the calls of _gens in progress, innermost last
          phase,     \* "gen", "run", "error"
          st,        \* the simulator
          program,   \* the program it runs: a sequence, gaps are illegal words
          claims,    \* *history* address -> what the model knew there
          written,   \* *history* registers and bytes written since reset
          retired    \* *history* instructions executed

gvars == <<cfg, frames, phase, st, program, claims, written, retired>>

Sim == INSTANCE OtbnSim WITH
    ImemSize <- ImemBytes, Programs <- {}, StatPrograms <- {}, Datas <- {}, StartAddrs <- {},
    TestRnd <- 0, MaxLoads <- 0, MaxStarts <- 0, MaxWords <- 0,
    stats <- 0, mode <- "run", loads <- 0, starts <- 0, words <- 0, reads <- 0,
    last <- 0, clean <- FALSE

-----------------------------------------------------------------------------
(* gens/straight_line_insn.py: the ways to fill in an instruction.          *)

Dest(m) == DestRegs(m) \cap cfg.gprs
Src(m) == SrcRegs(m) \cap cfg.gprs
Known(m) == RegsWithKnownVals(m) \cap cfg.gprs

FillNonLsu(m, op) ==
    CASE op = "ADDI" -> [op : {op}, grd : Dest(m), grs1 : Src(m), imm : cfg.imms]
      [] op = "LUI"  -> [op : {op}, grd : Dest(m), imm : LuiImms]
      [] op = "ADD"  -> [op : {op}, grd : Dest(m), grs1 : Src(m), grs2 : Src(m)]
      [] op = "BN.MOV" -> [op : {op}, wrd : WdrPool, wrs : m.wdr]
      [] op = "BN.WSRR" -> [op : {op}, wrd : WdrPool, wsr : {"MOD", "ACC"}]
      [] OTHER -> {}

FillLsu(m, op) ==
    LET t == {t \in PickModelTarget(m, op = "LW", LoadRange[1], LoadRange[2], 1, GBytes) : t.grs1 \in cfg.gprs}
        lsu(x) == [grs1 |-> x.grs1, offset |-> x.offset, lsu |-> <<x.addr, GBytes>>]
    IN CASE op = "LW" -> {[op |-> op, grd |-> d] @@ lsu(x) : <<d, x>> \in Dest(m) \X t}
         [] op = "SW" -> {[op |-> op, grs2 |-> s] @@ lsu(x) : <<s, x>> \in Src(m) \X t}
         [] OTHER -> {}

(* A GPR whose value names a wide register, one with a value if it is read. *)
GprForWdr(m, isSrc) ==
    {r \in Known(m) : GetReg(m, r) < NWdr /\ (isSrc => GetReg(m, r) \in m.wdr)}

IncVals(m, r0, r1) ==
    {<<FALSE, FALSE>>} \cup (IF r0 \in m.const THEN {} ELSE {<<TRUE, FALSE>>})
                       \cup (IF r1 \in m.const THEN {} ELSE {<<FALSE, TRUE>>})

FillXid(m, op) ==
    LET loads == op = "BN.LID"
        t == {t \in PickModelTarget(m, loads, WideRange[1], WideRange[2], WBytes, WBytes) : t.grs1 \in cfg.gprs}
        fill(w, x, inc) ==
            [op |-> op, grs1 |-> x.grs1, offset |-> x.offset, grs1_inc |-> inc[1], lsu |-> <<x.addr, WBytes>>]
              @@ (IF loads THEN [grd |-> w, grd_inc |-> inc[2]] ELSE [grs2 |-> w, grs2_inc |-> inc[2]])
    IN UNION {{fill(w, x, inc) : inc \in IncVals(m, x.grs1, w)} : <<w, x>> \in GprForWdr(m, ~loads) \X t}

FillMovr(m) ==
    UNION {{[op |-> "BN.MOVR", grd |-> d, grs |-> s, grd_inc |-> inc[1], grs_inc |-> inc[2]] :
               inc \in IncVals(m, d, s)} : <<d, s>> \in GprForWdr(m, FALSE) \X GprForWdr(m, TRUE)}

FillInsn(m, op) ==
    CASE op \in {"BN.LID", "BN.SID"} -> FillXid(m, op)
      [] op = "BN.MOVR" -> FillMovr(m)
      [] op \in {"LW", "SW"} -> FillLsu(m, op)
      [] OTHER -> FillNonLsu(m, op)

StraightLines(m) == UNION {FillInsn(m, op) : op \in cfg.ops \cap StraightOps}

-----------------------------------------------------------------------------
(* Snippets map addresses to instructions, with the model's knowledge.      *)

Claim(m) == [gpr |-> m.gpr, wdr |-> m.wdr, cs |-> m.cs, mem |-> m.mem]
Snip(m, i) == m.pc :> [insn |-> i, claim |-> Claim(m)]
AtPc(m, pc) == [m EXCEPT !.pc = pc]

(* gens/jump.py.  gen_tgt: to is the address to reach, or None for any.  A JALR
   that cannot be made is replaced by a JAL, whatever the weight of JAL; without
   weights, Branch and Loop still draw either. *)
Jumps(m, p, to) ==
    LET tgts(lo, hi) == BranchTargets(p, m.pc, IF to = None THEN lo ELSE MaxOf(lo, to),
                                               IF to = None THEN hi ELSE MinOf(hi, to))
        jal == {<<[op |-> "JAL", grd |-> d, offset |-> t], t>> :
                   <<d, t>> \in Dest(m) \X tgts(0, p.size)}
        jalr == UNION {{<<[op |-> "JALR", grd |-> d, grs1 |-> b, offset |-> t - GetReg(m, b)], t>> :
                           <<d, t>> \in Dest(m) \X tgts(GetReg(m, b) + JalrRange[1], GetReg(m, b) + JalrRange[2])} :
                       b \in Known(m)}
    IN jal \cup (IF "JALR" \in cfg.ops \/ "JAL" \notin cfg.ops THEN jalr ELSE {})

(* Seeded fault: the model takes the address of the jump for the link. *)
AfterJumpLinksSelf(m, j) == AtPc(WriteModelReg(UpdateForInsn(m, j[1]), j[1].grd, m.pc, TRUE), j[2])

(* The model knows that the link register was written; it is told the value. *)
AfterJump(m, j) == AtPc(WriteModelReg(UpdateForInsn(m, j[1]), j[1].grd, m.pc + 4, TRUE), j[2])

-----------------------------------------------------------------------------
(* snippet_gens.py                                                         *)

(* An ECALL ends the program, and code below a branch or a loop must not. *)
GensOf(kind) == IF kind = "rest" THEN cfg.gens ELSE cfg.gens \ {"ECall"}
Frame(kind, m, p, up) ==
    [kind |-> kind, model |-> m, prog |-> p, snip |-> << >>, left |-> GensOf(kind), up |-> up]

top == frames[Len(frames)]
m0 == top.model
p0 == top.prog
Below(n) == SubSeq(frames, 1, Len(frames) - n)
SetTop(f) == frames' = Append(Below(1), f)
(* An assertion has failed and the generator is gone, or it tries for ever. *)
Crashed == m0.bad # None \/ p0.bad # None
Generating == phase = "gen" /\ ~Crashed /\ UNCHANGED <<cfg, phase, st, program, claims, written, retired>>

(* A snippet has been generated in frame f: "assert next_model.fuel < old_fuel". *)
Emit(f, s, prog, m) ==
    [f EXCEPT !.prog = prog, !.snip = s @@ @, !.left = GensOf(f.kind),
              !.model = Assert1(m, m.fuel < f.model.fuel, "fuel does not decrease")]
Failed(f, g) == [f EXCEPT !.left = @ \ {g}]

MayTry(g) ==
    /\ Generating
    /\ top.kind # "tail" /\ g \in top.left
    /\ m0.fuel > 0 /\ p0.space > 0

(* Seeded fault: no room is left for the instruction after it. *)
NoLineTight == SpaceAt(p0, m0.pc) < 1

(* There is no room for an instruction and one after it. *)
NoLine == SpaceAt(p0, m0.pc) <= 1

(* No instruction can be filled in.  A failure clears the weight of one instruction in a
   fresh copy of the weights: with one instruction "assert weights[idx] > 0" fails, with
   more they are tried in turn for ever. *)
Stuck == SetTop([top EXCEPT !.model.bad = "nothing to fill in"])

TryStraightLine ==
    /\ MayTry("StraightLineInsn")
    /\ IF NoLine THEN SetTop(Failed(top, "StraightLineInsn"))
       ELSE IF StraightLines(m0) = {} THEN Stuck
       ELSE \E i \in StraightLines(m0) :
              SetTop(Emit(top, Snip(m0, i), AddInsns(p0, Snip(m0, i)),
                          AtPc(UpdateForInsn(m0, i), m0.pc + 4)))

TryJump ==
    /\ MayTry("Jump")
    /\ \/ /\ Jumps(m0, p0, None) = {}
          /\ SetTop(Failed(top, "Jump"))
       \/ \E j \in Jumps(m0, p0, None) :
            SetTop(Emit(top, Snip(m0, j[1]), AddInsns(p0, Snip(m0, j[1])), AfterJump(m0, j)))

(* gens/branch.py.  A branch to the next address is a straight-line
   instruction; otherwise each side is generated by a call of its own. *)
BranchInsns(to) == [op : cfg.ops \cap {"BEQ", "BNE"}, grs1 : Src(m0), grs2 : Src(m0), offset : {to}]

Side(m, pc, fuel) == [AtPc(m, pc) EXCEPT !.fuel = fuel]

TryBranch ==
    /\ MayTry("Branch")
    /\ \/ /\ SpaceAt(p0, m0.pc) <= 1 \/ (p0.space >= 4 /\ BranchTargets(p0, m0.pc, 0, p0.size) = {})
          /\ SetTop(Failed(top, "Branch"))
       \/ /\ SpaceAt(p0, m0.pc) > 1
          /\ \E i \in BranchInsns(m0.pc + 4) :
               SetTop(Emit(top, Snip(m0, i), AddInsns(p0, Snip(m0, i)),
                           AtPc(UpdateForInsn(m0, i), m0.pc + 4)))
       \/ /\ SpaceAt(p0, m0.pc) > 1 /\ p0.space >= 4
          /\ \E to \in BranchTargets(p0, m0.pc, 0, p0.size) \ {m0.pc + 4} :
             \E i \in BranchInsns(to), fuel \in 1 .. m0.fuel, space \in 0 .. (p0.space - 2) \div 2 - 1 :
               LET b == Snip(m0, i)
                   bogus == to :> [insn |-> i, claim |-> None]
                   prog == AddInsns(AddInsns(p0, b), bogus)
               IN frames' = Append(frames,
                    Frame("side0", Side(UpdateForInsn(m0, i), m0.pc + 4, fuel - 1),
                          [prog EXCEPT !.space = space],
                          [insn |-> b, to |-> to, fuel |-> fuel, space |-> space]))

(* gens/loop.py.  The body is a head, which may be anything that ends at the
   tail, and a tail of straight-line instructions. *)
LoopHeads(op, fuel, size) ==
    LET max == MinOf((fuel - 2) \div (IF size = 1 THEN 1 ELSE 2), MaxIters)
    IN IF op = "LOOPI" THEN {<<[op |-> op, iterations |-> n, bodysize |-> size], n>> : n \in 1 .. max}
       ELSE {<<[op |-> op, grs |-> r, bodysize |-> size], GetReg(m0, r)>> :
                r \in {r \in Known(m0) : GetReg(m0, r) \in 1 .. max}}

(* Seeded fault: a register the body relies on may be changed in it. *)
LoopModelsUnguarded(m, single) ==
    IF single THEN {PushConst(m)} ELSE {MarkConst(PushConst(m), {1})}

(* Unless it runs once, the body may rely only on registers it does not change:
   each known register is kept constant, or its value is forgotten. *)
LoopModels(m, single) ==
    IF single THEN {PushConst(m)}
    ELSE {MarkConst(ForgetValues(MarkConst(PushConst(m), C), RegsWithKnownVals(m) \ C), {1}) :
             C \in SUBSET (RegsWithKnownVals(m) \ {0})}

(* <<instruction, iterations, body size>>: no more than the space at hand, which
   also holds what follows the loop. *)
LoopShapes(op, sizes) == UNION {{<<h[1], h[2], n>> : h \in LoopHeads(op, m0.fuel, n)} : n \in sizes}
BodySizes == 1 .. (IF p0.space = 2 THEN MinOf(SpaceAt(p0, m0.pc) - 2, 1) ELSE SpaceAt(p0, m0.pc) - 2)

(* A tail shorter than the body leaves fuel and space for a jump to it. *)
TailLengths(size, fuel, space) ==
    1 .. MinOf(IF size <= fuel THEN size ELSE fuel - 1, IF size <= space THEN space ELSE space - 1)

TryLoop ==
    /\ MayTry("Loop")
    /\ LET ops == cfg.ops \cap {"LOOP", "LOOPI"}
           fails == SpaceAt(p0, m0.pc) < 3 \/ p0.space < 2 \/ m0.depth = MaxLoopDepth
       IN \/ /\ fails \/ \E op \in ops, n \in BodySizes : LoopShapes(op, {n}) = {}
             /\ SetTop(Failed(top, "Loop"))
          \/ /\ ~fails
             /\ \E shape \in UNION {LoopShapes(op, BodySizes) : op \in ops} :
                LET n == shape[2]
                    size == shape[3]
                    hd == Snip(m0, shape[1])
                    prog == AddInsns(p0, hd)
                    after == [AtPc(UpdateForInsn(m0, shape[1]), m0.pc + 4) EXCEPT !.depth = @ + 1]
                IN \E fuel \in (IF size = 1 THEN 1 ELSE 2) .. (after.fuel - 1) \div n :
                   \E tail \in TailLengths(size, fuel, prog.space), m \in LoopModels(after, n = 1) :
                     LET start == m0.pc + 4 * (1 + size - tail)
                         bogus == [a \in {start + 4 * k : k \in 0 .. tail} |-> [insn |-> shape[1], claim |-> None]]
                         up == [insn |-> hd, iters |-> n, size |-> size, fuel |-> fuel, tail |-> tail,
                                start |-> start, prog |-> prog]
                         inHead == fuel - tail - 1
                     IN frames' = Append(frames,
                          IF tail = size THEN Frame("tail", [m EXCEPT !.fuel = fuel], prog, up)
                          ELSE Frame("head", [m EXCEPT !.fuel = inHead],
                                     IF inHead > 0 THEN AddInsns(prog, bogus) ELSE prog, up))

-----------------------------------------------------------------------------
(* A call of _gens ends: out of fuel, out of space or out of generators.    *)

Exhausted == top.kind # "tail" /\ (m0.fuel = 0 \/ p0.space = 0 \/ top.left = {})

(* The generator g of the frame below gives up. *)
GiveUp(g) == frames' = Append(Below(2), Failed(frames[Len(frames) - 1], g))

(* The second side must avoid the first, and the address where it goes on.  No
   address is kept free for a first side that is empty. *)
Side1Program(f, parent) ==
    LET p == AddInsns(AddInsns(parent.prog, f.up.insn), f.snip)
    IN [(IF f.snip = << >> THEN p
         ELSE AddInsns(p, f.model.pc :> [insn |-> f.up.insn, claim |-> None])) EXCEPT !.space = f.up.space]

SecondSide ==
    /\ Generating /\ Exhausted /\ top.kind = "side0"
    /\ LET parent == frames[Len(frames) - 1]
           i == top.up.insn[parent.model.pc].insn
           first == [model |-> top.model, prog |-> top.prog, snip |-> top.snip]
       IN SetTop(Frame("side1", Side(UpdateForInsn(parent.model, i), top.up.to, top.up.fuel - 1),
                       Side1Program(top, parent), [insn |-> top.up.insn, first |-> first]))

(* One side jumps to the end of the other; then the two are merged.  The second may have
   used the address at which the first, being empty, is to jump. *)
OneMore(m) == [m EXCEPT !.fuel = @ + 1]

JoinSides ==
    /\ Generating /\ Exhausted /\ top.kind = "side1"
    /\ LET f == top.up.first
           parent == frames[Len(frames) - 1]
           jumps(m, p, to) == Jumps(OneMore(m), [p EXCEPT !.space = @ + 1], to)
           joined(s0, s1) ==
               LET p == AddInsns(AddInsns(AddInsns(parent.prog, top.up.insn), s0), s1)
               IN IF f.snip = << >> /\ f.model.pc \in DOMAIN top.snip /\ p.bad = "overlap"
                  THEN [p EXCEPT !.bad = "overlap with an empty side"] ELSE p
           done(s0, s1, m) ==
               frames' = Append(Below(2), Emit(parent, s1 @@ s0 @@ top.up.insn, joined(s0, s1), m))
           jump01 == jumps(f.model, f.prog, m0.pc)
           jump10 == jumps(m0, p0, f.model.pc)
       IN \/ (jump01 = {} \/ jump10 = {}) /\ GiveUp("Branch")
          \/ \E j \in jump01 :
               done(Snip(f.model, j[1]) @@ f.snip, top.snip,
                    MergeModels(AfterJump(OneMore(f.model), j), m0))
          \/ \E j \in jump10 :
               done(f.snip, Snip(m0, j[1]) @@ top.snip,
                    MergeModels(f.model, AfterJump(OneMore(m0), j)))

(* The head has ended; unless it has reached the tail, it jumps there. *)
HeadToTail ==
    /\ Generating /\ Exhausted /\ top.kind = "head"
    /\ LET prog == AddInsns(top.up.prog, top.snip)
           m == OneMore(m0)
           jumps == Jumps(m, prog, top.up.start)
           tail(s, p, n) == SetTop([top EXCEPT !.kind = "tail", !.snip = s, !.prog = p,
                                               !.model = [n EXCEPT !.fuel = @ + top.up.tail]])
       IN CASE m.pc = top.up.start -> tail(top.snip, prog, m)
            [] m.pc # top.up.start /\ jumps = {} -> GiveUp("Loop")
            [] OTHER -> \E j \in jumps : tail(Snip(m, j[1]) @@ top.snip,
                                              AddInsns(prog, Snip(m, j[1])), AfterJump(m, j))

TailLeft == top.up.start + 4 * top.up.tail - m0.pc

Tail1 ==
    /\ Generating /\ top.kind = "tail" /\ TailLeft > 0
    /\ IF NoLine THEN GiveUp("Loop")
       ELSE IF StraightLines(m0) = {} THEN Stuck
       ELSE \E i \in StraightLines(m0) :
              SetTop([top EXCEPT !.snip = Snip(m0, i) @@ @, !.prog = AddInsns(@, Snip(m0, i)),
                                 !.model = AtPc(UpdateForInsn(m0, i), m0.pc + 4)])

(* After two iterations or more, the model knows what holds both before the loop
   and after its body. *)
LoopDone ==
    /\ Generating /\ top.kind = "tail" /\ TailLeft = 0
    /\ LET parent == frames[Len(frames) - 1]
           hd == top.up.insn
           body == [PopConst(m0) EXCEPT !.depth = @ - 1]
           used == top.up.fuel - body.fuel
           before == AtPc(UpdateForInsn(parent.model, hd[parent.model.pc].insn), body.pc)
           m == IF top.up.iters = 1 THEN body
                ELSE [MergeModels(before, body) EXCEPT !.fuel = parent.model.fuel - top.up.iters * used]
       IN frames' = Append(Below(2),
              Emit(parent, top.snip @@ hd, AddInsns(AddInsns(parent.prog, hd), top.snip), m))

-----------------------------------------------------------------------------
(* The program ends with an ECALL, chosen or forced; then it is run.        *)

Image(s) ==
    [k \in 1 .. ImemBytes \div 4 |->
        IF 4 * (k - 1) \in DOMAIN s THEN s[4 * (k - 1)].insn ELSE [op |-> "ILLEGAL"]]

Ecall ==
    /\ phase = "gen" /\ ~Crashed /\ Len(frames) = 1
    /\ Exhausted \/ ("ECall" \in top.left /\ m0.fuel > 0 /\ p0.space > 0)
    /\ LET e == Snip(m0, [op |-> "ECALL"])
           s == e @@ top.snip
       IN /\ frames' = <<[top EXCEPT !.prog = AddInsns(@, e), !.snip = << >>]>>
          /\ program' = Image(s)
          /\ claims' = [a \in DOMAIN s |-> s[a].claim]
    /\ phase' = "run"
    /\ st' = [Sim!StartState(Sim!InitState) EXCEPT !.reseed = TRUE]
    /\ UNCHANGED <<cfg, written, retired>>

(* What the instruction about to retire writes. *)
Incremented(i) ==
    {i[f] : f \in {f \in DOMAIN i \cap {"grd", "grs", "grs1", "grs2"} :
                       LET inc == CASE f = "grd" -> "grd_inc" [] f = "grs" -> "grs_inc"
                                    [] f = "grs1" -> "grs1_inc" [] OTHER -> "grs2_inc"
                       IN inc \in DOMAIN i /\ i[inc]}}
Touches(i) ==
    [gpr |-> written.gpr \cup GprWrites(i) \cup Incremented(i),
     wdr |-> written.wdr \cup {i[f] : f \in DOMAIN i \cap {"wrd"}}
                         \cup (IF i.op \in {"BN.LID", "BN.MOVR"} THEN {G(st, i.grd)} ELSE {}),
     mem |-> written.mem \cup (CASE i.op = "SW" -> {NarrowAddr(st, i) + k : k \in 0 .. GBytes - 1}
                                 [] i.op = "BN.SID" -> {NarrowAddr(st, i) + k : k \in 0 .. WBytes - 1}
                                 [] OTHER -> {})]

Retiring == st.running /\ ~Sim!OutOfProgram(st) /\ ~Sim!Stalls(st)

Run ==
    /\ phase = "run" /\ st.running /\ st.raised = None
    /\ st' = Sim!StepState(st)
    /\ IF Retiring
       THEN written' = Touches(Sim!Fetch(st)) /\ retired' = retired + 1
       ELSE UNCHANGED <<written, retired>>
    /\ UNCHANGED <<cfg, frames, phase, program, claims>>

Ended ==
    /\ phase = "error" \/ (phase = "gen" /\ Crashed) \/ (phase = "run" /\ (~st.running \/ st.raised # None))
    /\ UNCHANGED gvars

(* gen_program: a configuration that cannot be used ends in an error. *)
GenInit ==
    \E r \in Requests : \E c \in LoadConfig(Files, r.config, {}) :
      LET enabled == SnippetGens(c)
          ranges == InitRanges(r.blobs)
      IN /\ phase = IF enabled = Broken THEN "error" ELSE "gen"
         /\ cfg = IF enabled = Broken THEN r ELSE enabled @@ r
         /\ frames = IF enabled = Broken THEN << >>
                     ELSE <<Frame("rest", InitModel(0, r.fuel, ranges), EmptyProgram(r.imem), None)>>
         /\ st = Sim!InitState /\ program = << >> /\ claims = << >>
         /\ written = [gpr |-> {0}, wdr |-> {}, mem |-> KnownBytes(AsSegs(InitKeys(r.blobs)))]
         /\ retired = 0

GenNext == \/ TryStraightLine \/ TryJump \/ TryBranch \/ TryLoop
           \/ SecondSide \/ JoinSides \/ HeadToTail \/ Tail1 \/ LoopDone
           \/ Ecall \/ Run \/ Ended

GenSpec == GenInit /\ [][GenNext]_gvars

-----------------------------------------------------------------------------
(* Properties                                                              *)

(* No assertion of the generator fails: no two snippets claim an address, there
   is always room for the ECALL, no constant register is written, the call stack
   neither under- nor overflows and fuel decreases - also when a branch or a loop
   fails half-way and another generator is tried (snippet_gens.py, program.py).
   With two exceptions.  Without an instruction that can always be filled in, such as
   ADDI (straight_line_insn.py:105), the generator may be left with none.  Without the
   generator of jumps, the first side of a branch may stay empty where there is room for
   one instruction only; no address is kept free for it (branch.py:203), and the second
   side, with a branch of its own, may take it. *)
GeneratorAsserts ==
    \A k \in 1 .. Len(frames) :
        /\ frames[k].model.bad \in {None} \cup (IF "ADDI" \in cfg.ops THEN {} ELSE {"nothing to fill in"})
        /\ frames[k].prog.bad \in {None} \cup (IF "Jump" \in cfg.gens THEN {} ELSE {"overlap with an empty side"})

(* What the model claims at an address holds whenever the simulator gets there,
   in every iteration and by every path: values of registers, the depth and the
   top of the call stack, and what has a value at all (model.py: "guaranteed have
   defined values after following the instruction stream to this point"). *)
ModelSound ==
    (phase = "run" /\ Retiring /\ st.pc \in DOMAIN claims) =>
        LET c == claims[st.pc]
            stack == st.gprs.stack
        IN /\ \A r \in DOMAIN c.gpr : r \in written.gpr /\ c.gpr[r] \in {None, G(st, r)}
           /\ c.wdr \subseteq written.wdr
           /\ KnownBytes(c.mem) \subseteq written.mem
           /\ Len(stack) \in c.cs.lo .. c.cs.hi
           /\ \A k \in 0 .. MinOf(Len(stack), Len(c.cs.top)) - 1 :
                 c.cs.top[Len(c.cs.top) - k] \in {None, stack[Len(stack) - k]}

(* A generated program runs to its ECALL without an error, inside the code that
   was generated, and executes no more than its fuel allows, up to the jumps and
   loop heads that are not charged (rig.py: "a rough upper bound").  An ECALL in
   the last word of memory does end with an error: the simulator checks the
   address after it (state.py, check_next_pc). *)
RunsClean ==
    phase = "run" =>
        /\ st.raised = None
        /\ st.ext.val["ERR_BITS"] \subseteq (IF st.pc = ImemBytes - 4 THEN {"BAD_INSN_ADDR"} ELSE {})
        /\ retired <= 2 * cfg.fuel + 1
        /\ ~st.running => program[st.pc \div 4 + 1].op = "ECALL"
=============================================================================
