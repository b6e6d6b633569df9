------------------------------- MODULE OtbnSim -------------------------------
(***************************************************************************)
(* The OTBN simulator as its users drive it: OTBNState (sim/state.py), the  *)
(* step and run loops (sim/sim.py), the execution statistics (sim/stats.py),*)
(* the command interpreter (stepped.py) and the stand-alone run             *)
(* (standalone.py).  One action per command; the loop of the run command is *)
(* taken one iteration at a time, during which no command is read.          *)
(***************************************************************************)
EXTENDS OtbnInsn

CONSTANTS ImemSize,      \* bytes of instruction memory
          Programs,      \* decoded programs that can be loaded (sequences)
          StatPrograms,  \* those run stand-alone, with statistics
          Datas,         \* data images that can be loaded
          StartAddrs,    \* arguments of the start command
          TestRnd,       \* _TEST_RND_DATA, what run() feeds RND with
          MaxLoads, MaxStarts, MaxWords   \* bounds: loads, starts, EDN words

(* Words have at least eight bits, a wide word holds whole narrow words, and
   every power of two that the simulator shifts by is a positive integer. *)
ASSUME WidthAssumption ==
    /\ ByteBits \in Nat \ {0} /\ GBytes \in Nat \ {0} /\ WBytes \in Nat \ {0}
    /\ NGpr \in Nat /\ NWdr \in Nat /\ DmemWords \in Nat /\ StackDepth \in Nat
    /\ 8 <= GW /\ GW <= WW /\ NPerW \in Nat \ {0}
    /\ LuiShift \in 0 .. WW /\ ImemSize \in Nat
    /\ \A n \in 0 .. NPerW - 1 : GW * n \in 0 .. WW
    /\ \A n \in 0 .. GBytes - 1 : ByteBits * n \in 0 .. WW
ASSUME PowersAssumption == \A n \in 0 .. WW : 2^n > 0
(* What step() can raise. *)
Exceptions ==
    {"unknown CSR", "assert 0 < loop_count", "assert 0 <= next_pc", "assert err_bits == 0",
     "assert not dmem.err_flag", "assert not err_flag", "assert in_loop()",
     "RuntimeError: out of program", "ValueError: too much data"}
ASSUME NoneAssumption == None \notin Int /\ None \notin Exceptions \cup LoadOps
ASSUME InputsAssumption ==
    /\ DeadBeef \in Int /\ PadByte \in Int /\ TestRnd \in Int
    /\ StartAddrs \subseteq Nat /\ Datas \subseteq Seq(Int)
    /\ \A p \in Programs \cup StatPrograms :
          Len(p) \in Nat /\ \A k \in 1 .. Len(p) : IsInsn(p[k])

VARIABLES st,        \* OTBNState
          program,   \* OTBNSim.program
          stats,     \* OTBNSim.stats
          mode,      \* "repl": reading commands; "run", "stats": inside run();
                     \* "loaded": standalone, before its start; "exit": finished
          loads, starts,   \* commands issued (bounded)
          words,     \* *history* words delivered by the EDN so far
          reads,     \* *history* EDN words read from RND, oldest first
          last,      \* *history* last retired mnemonic and the stalls before it
          clean      \* *history* nothing was loaded since the last start

vars == <<st, program, stats, mode, loads, starts, words, reads, last, clean>>

-----------------------------------------------------------------------------
(* sim/state.py                                                            *)

InitState ==
    [gprs |-> InitGprs, wdrs |-> RegFile(0 .. NWdr - 1), wsrs |-> InitWsrs,
     flags |-> InitFlags, dmem |-> InitDmem, loops |-> InitLoops, ext |-> InitExt,
     pc |-> 0, over |-> None, insnStall |-> FALSE, startStall |-> FALSE,
     urndStall |-> FALSE, running |-> FALSE, errBits |-> {}, halt |-> FALSE,
     newRnd |-> None, reseed |-> FALSE, raised |-> None]

NextPc(s) == IF s.over # None THEN s.over ELSE s.pc + 4

(* Start: registers, memory, call stack and an undelivered EDN word survive. *)
StartState(s) ==
    [s EXCEPT !.ext = WriteExt(@, "STATUS", 1, TRUE),
              !.running = TRUE, !.startStall = TRUE, !.urndStall = TRUE,
              !.insnStall = TRUE, !.halt = FALSE, !.errBits = {}, !.reseed = FALSE,
              !.pc = ReadExt(s.ext, "START_ADDR", TRUE),
              !.flags = InitFlags, !.wsrs = InitWsrs, !.loops = InitLoops]

(* Seeded fault: the wide registers are not rolled back. *)
AbortForgetsWdrs(s) ==
    [s EXCEPT !.gprs = AbortGprs(@), !.over = None, !.dmem = AbortDmem(@),
              !.loops = AbortLoops(@), !.ext = AbortExt(@), !.wsrs = AbortWsrs(@),
              !.flags = AbortRegs(@), !.wdrs = CommitRegs(@)]

Abort(s) ==
    [s EXCEPT !.gprs = AbortGprs(@), !.over = None, !.dmem = AbortDmem(@),
              !.loops = AbortLoops(@), !.ext = AbortExt(@), !.wsrs = AbortWsrs(@),
              !.flags = AbortRegs(@), !.wdrs = AbortRegs(@)]

Stop(s) ==
    LET a == Abort(s)
        x == WriteExt(WriteExt(a.ext, "INTR_STATE", 1, TRUE), "STATUS", 0, TRUE)
    IN [a EXCEPT !.ext = WriteExt(x, "ERR_BITS", s.errBits, TRUE), !.running = FALSE]

PreInsn(s, i) == [s EXCEPT !.loops = CheckInsn(@, s.pc, i.op \in ControlOps)]

BadPc(pc) == pc % 4 # 0 \/ pc >= ImemSize

(* Seeded fault: an error is noted, but only a bad access to memory halts. *)
PostInsnForgetsHalt(s) ==
    LET p == [s EXCEPT !.loops = StepLoop(@, s.pc),
                       !.over = IF LoopBack(s.loops, s.pc) = None THEN @ ELSE LoopBack(s.loops, s.pc),
                       !.gprs = PostInsnGprs(@)]
    IN [p EXCEPT !.halt = @ \/ p.dmem.err, !.errBits = IF p.dmem.err THEN {"BAD_DATA_ADDR"} ELSE @]

PostInsn(s) ==
    LET back == LoopBack(s.loops, s.pc)
        p == [s EXCEPT !.errBits = @ \cup (IF BadPc(NextPc(s)) THEN {"BAD_INSN_ADDR"} ELSE {}),
                       !.loops = StepLoop(@, s.pc),
                       !.over = IF back = None THEN @ ELSE back,
                       !.gprs = PostInsnGprs(@)]
        errs == p.errBits \cup (IF p.gprs.err THEN {"CALL_STACK"} ELSE {})
                          \cup (IF p.dmem.err THEN {"BAD_DATA_ADDR"} ELSE {})
                          \cup (IF p.loops.err THEN {"LOOP"} ELSE {})
    IN IF NextPc(s) < 0 THEN Raise(s, "assert 0 <= next_pc")
       ELSE [p EXCEPT !.errBits = errs, !.halt = @ \/ errs # {}]

CommitInsn(s) ==
    [s EXCEPT !.gprs = CommitGprs(@), !.pc = NextPc(s), !.over = None,
              !.loops = CommitLoops(@), !.ext = CommitExt(@), !.wsrs = CommitWsrs(@),
              !.flags = CommitRegs(@), !.wdrs = CommitRegs(@)]

(* "if self._new_rnd_data:" - a zero word is kept back, not delivered. *)
TakeRnd(s) ==
    IF s.newRnd \in {None, 0} THEN s ELSE [s EXCEPT !.wsrs.rnd = s.newRnd, !.newRnd = None]

Commit(s, stalled) ==
    LET r == TakeRnd(s)
        begun == IF r.startStall
                 THEN [r EXCEPT !.startStall = FALSE, !.insnStall = FALSE, !.ext = CommitExt(@)]
                 ELSE r
        settled == [begun EXCEPT !.dmem = CommitDmem(@)]
    IN IF s.halt THEN [s EXCEPT !.ext = CommitExt(@)]
       ELSE IF s.errBits # {} THEN Raise(s, "assert err_bits == 0")
       ELSE IF r.urndStall THEN [r EXCEPT !.urndStall = ~r.reseed]
       ELSE IF begun.dmem.err THEN Raise(s, "assert not dmem.err_flag")
       ELSE IF stalled THEN settled
       ELSE IF s.gprs.err \/ s.loops.err THEN Raise(s, "assert not err_flag")
       ELSE CommitInsn(settled)

-----------------------------------------------------------------------------
(* sim/stats.py.  The histograms are kept as the number of instructions they *)
(* hold: bb and ebb sum the lengths of the finished (extended) basic blocks. *)

InitStats == [insns |-> 0, stalls |-> 0, calls |-> << >>, loops |-> << >>,
              bb |-> 0, curBb |-> 0, ebb |-> 0, curEbb |-> 0]

EndsLoop(s, p) ==
    IsLastInsn(s.loops, s.pc) /\ p[(Top(s.loops).start - 4) \div 4 + 1].op = "LOOP"

(* s is the state before the commit; p the program.  A LOOP whose count is zero
   has pushed nothing: the assertion on in_loop() fails. *)
RecordInsn(t, s, i, p) ==
    LET jump == i.op \in {"JAL", "JALR"}
        branch == i.op \in {"BEQ", "BNE"}
        caller == IF s.gprs.stack = << >> THEN ReadExt(s.ext, "START_ADDR", TRUE)
                  ELSE s.gprs.stack[1]
        endsBb == jump \/ branch \/ IsLastInsn(s.loops, s.pc) \/ i.op = "ECALL"
        endsEbb == branch \/ EndsLoop(s, p) \/ i.op = "ECALL"
    IN [insns |-> t.insns + 1, stalls |-> t.stalls,
        calls |-> IF jump /\ i.grd = 1
                  THEN Append(t.calls, [site |-> s.pc, caller |-> caller, callee |-> NextPc(s)])
                  ELSE t.calls,
        loops |-> IF i.op \in {"LOOP", "LOOPI"}
                  THEN Append(t.loops, [addr |-> s.pc, len |-> i.bodysize,
                                        iterations |-> Top(s.loops).count])
                  ELSE t.loops,
        bb |-> IF endsBb THEN t.bb + t.curBb + 1 ELSE t.bb,
        curBb |-> IF endsBb THEN 0 ELSE t.curBb + 1,
        ebb |-> IF endsEbb THEN t.ebb + t.curEbb + 1 ELSE t.ebb,
        curEbb |-> IF endsEbb THEN 0 ELSE t.curEbb + 1]

RecordStall(t) == [t EXCEPT !.stalls = @ + 1]

-----------------------------------------------------------------------------
(* sim/sim.py: step().                                                     *)

OutOfProgram(s) == s.pc \div 4 >= Len(program)
Fetch(s) == program[s.pc \div 4 + 1]
Stalls(s) == s.insnStall \/ ~Ready(s, Fetch(s))

Executed(s) == PostInsn(Execute(PreInsn(PreExecute(s, Fetch(s)), Fetch(s)), Fetch(s)))

StepState(s) ==
    LET begin == IF s.insnStall THEN s ELSE PreExecute(s, Fetch(s))
        done == Executed(s)
    IN IF ~s.running THEN s
       ELSE IF OutOfProgram(s) THEN Raise(s, "RuntimeError: out of program")
       ELSE IF Stalls(s) THEN Commit(begin, TRUE)
       ELSE IF done.raised # None THEN done
       ELSE Commit(IF done.halt THEN Stop(done) ELSE done, FALSE)

StepStats(s, collect) ==
    IF ~collect \/ ~s.running \/ OutOfProgram(s) THEN stats
    ELSE IF Stalls(s) THEN RecordStall(stats)
    ELSE RecordInsn(stats, Executed(s), Fetch(s), program)

(* record_insn asserts that a LOOP or LOOPI has put a loop on the stack. *)
StatsAssertFails(s, collect) ==
    /\ collect /\ s.running /\ ~OutOfProgram(s) /\ ~Stalls(s)
    /\ Fetch(s).op \in {"LOOP", "LOOPI"}
    /\ Executed(s).loops.stack = << >>

(* The history variables of a step. *)
StepHistory ==
    LET retires == st.running /\ ~OutOfProgram(st) /\ ~Stalls(st)
    IN /\ last' = IF retires THEN [op |-> Fetch(st).op, waited |-> last.now, now |-> 0]
                  ELSE IF st.running /\ ~st.insnStall
                  THEN [last EXCEPT !.now = IF @ = 2 THEN 2 ELSE @ + 1]
                  ELSE [last EXCEPT !.now = 0]
       /\ reads' = IF retires /\ ReadsRnd(Fetch(st)) /\ st.wsrs.rnd # TestRnd
                   THEN Append(reads, st.wsrs.rnd) ELSE reads

-----------------------------------------------------------------------------
(* The commands.                                                           *)

Alive == st.raised = None
Repl == Alive /\ mode = "repl"

on_step ==
    /\ Repl
    /\ st' = StepState(st)
    /\ StepHistory
    /\ UNCHANGED <<program, stats, mode, loads, starts, words, clean>>

on_start ==
    /\ Repl /\ starts < MaxStarts
    /\ \E a \in StartAddrs :
          st' = StartState([st EXCEPT !.ext = CommitExt(WriteExt(@, "START_ADDR", a, FALSE))])
    /\ stats' = InitStats
    /\ starts' = starts + 1
    /\ last' = [last EXCEPT !.now = 0]
    /\ clean' = TRUE
    /\ UNCHANGED <<program, mode, loads, words, reads>>

(* The driver replaces the program only while OTBN is idle; data memory may be
   written at any time. *)
on_load_i ==
    /\ Repl /\ loads < MaxLoads /\ ~st.running
    /\ program' \in Programs
    /\ loads' = loads + 1
    /\ clean' = FALSE
    /\ UNCHANGED <<st, stats, mode, starts, words, reads, last>>

LoadData(s, d) ==
    IF DataFits(d) THEN [s EXCEPT !.dmem = LoadLeWords(@, d)]
    ELSE Raise(s, "ValueError: too much data")

on_load_d ==
    /\ Repl /\ loads < MaxLoads
    /\ \E d \in Datas : st' = LoadData(st, d)
    /\ loads' = loads + 1
    /\ clean' = FALSE
    /\ UNCHANGED <<program, stats, mode, starts, words, reads, last>>

on_load_elf ==
    /\ Repl /\ loads < MaxLoads /\ ~st.running
    /\ program' \in Programs
    /\ \E d \in Datas : st' = LoadData(st, d)
    /\ loads' = loads + 1
    /\ clean' = FALSE
    /\ UNCHANGED <<stats, mode, starts, words, reads, last>>

(* The EDN answers a request: the environment sends a word only when RND has
   asked for one and none is on its way.  Words are numbered, so that two are
   never equal; zero is not among them (see RndReady and TakeRnd). *)
on_edn_rnd_data ==
    /\ Repl /\ words < MaxWords
    /\ st.wsrs.rndPending /\ st.wsrs.rnd = None /\ st.newRnd = None
    /\ st' = [st EXCEPT !.newRnd = words + 1]
    /\ words' = words + 1
    /\ UNCHANGED <<program, stats, mode, loads, starts, reads, last, clean>>

on_edn_urnd_reseed_complete ==
    /\ Repl
    /\ st' = [st EXCEPT !.reseed = TRUE]
    /\ UNCHANGED <<program, stats, mode, loads, starts, words, reads, last, clean>>

on_run ==
    /\ Repl
    /\ mode' = "run"
    /\ st' = [st EXCEPT !.reseed = TRUE]
    /\ UNCHANGED <<program, stats, loads, starts, words, reads, last, clean>>

(* standalone.py, in a process of its own: load, then start at 0 and run. *)
StandaloneLoad ==
    /\ Repl /\ loads = 0 /\ starts = 0
    /\ program' \in StatPrograms
    /\ \E d \in Datas : st' = LoadData(st, d)
    /\ mode' = "loaded"
    /\ loads' = MaxLoads /\ starts' = MaxStarts
    /\ UNCHANGED <<stats, words, reads, last, clean>>

StandaloneStart ==
    /\ Alive /\ mode = "loaded"
    /\ st' = [StartState([st EXCEPT !.ext = CommitExt(WriteExt(@, "START_ADDR", 0, FALSE))])
                EXCEPT !.reseed = TRUE]
    /\ stats' = InitStats
    /\ mode' = "stats"
    /\ clean' = TRUE
    /\ UNCHANGED <<program, loads, starts, words, reads, last>>

(* One iteration of the loop of run(); a pending request is served at once. *)
RunStep ==
    /\ Alive /\ mode \in {"run", "stats"} /\ st.running
    /\ LET s == StepState(st)
           fed == IF s.wsrs.rndPending /\ s.raised = None
                  THEN [s EXCEPT !.wsrs.rnd = TestRnd] ELSE s
       IN st' = IF StatsAssertFails(st, mode = "stats")
                THEN Raise(st, "assert in_loop()") ELSE fed
    /\ stats' = IF StatsAssertFails(st, mode = "stats") THEN stats
                ELSE StepStats(st, mode = "stats")
    /\ StepHistory
    /\ UNCHANGED <<program, mode, loads, starts, words, clean>>

RunEnds ==
    /\ Alive /\ mode \in {"run", "stats"} /\ ~st.running
    /\ mode' = IF mode = "run" THEN "repl" ELSE "exit"
    /\ UNCHANGED <<st, program, stats, loads, starts, words, reads, last, clean>>

(* A process that has raised, or has finished, is gone. *)
Exited == (~Alive \/ mode = "exit") /\ UNCHANGED vars

Init ==
    /\ st = InitState
    /\ program = << >>
    /\ stats = InitStats
    /\ mode = "repl"
    /\ loads = 0 /\ starts = 0 /\ words = 0
    /\ reads = << >>
    /\ last = [op |-> None, waited |-> 0, now |-> 0]
    /\ clean = FALSE

Next == \/ on_step \/ on_start \/ on_load_i \/ on_load_d \/ on_load_elf
        \/ on_edn_rnd_data \/ on_edn_urnd_reseed_complete
        \/ on_run \/ RunStep \/ RunEnds
        \/ StandaloneLoad \/ StandaloneStart \/ Exited

(* The driver keeps stepping, the EDN answers, and a run loop keeps looping.
   StepDue and RunDue are the enabling conditions, spelled out: TLC evaluates
   them much faster than ENABLED. *)
StepDue == Repl /\ StepState(st) # st
RunDue == Alive /\ mode \in {"run", "stats"} /\ st.running

Fairness == /\ <>[]StepDue => []<><<on_step>>_vars
            /\ <>[]RunDue => []<><<RunStep>>_vars
            /\ WF_vars(RunEnds) /\ WF_vars(StandaloneStart)
            /\ WF_vars(on_edn_rnd_data) /\ WF_vars(on_edn_urnd_reseed_complete)

Spec == Init /\ [][Next]_vars
FairSpec == Spec /\ Fairness

-----------------------------------------------------------------------------
(* Properties                                                              *)

ErrNames == {"BAD_DATA_ADDR", "BAD_INSN_ADDR", "CALL_STACK", "ILLEGAL_INSN", "LOOP"}

Host == INSTANCE OtbnHost WITH
    Pcs <- {a \in 0 .. ImemSize - 1 : a % 4 = 0},
    ErrBits <- ErrNames,
    Status0 <- <<InitFlags.val, 0, 0>>,
    phase <- IF ~st.running THEN "idle" ELSE IF st.startStall THEN "starting" ELSE "busy",
    busy <- st.ext.val["STATUS"],
    done <- st.ext.val["INTR_STATE"],
    err <- st.ext.val["ERR_BITS"],
    pc <- st.pc,
    mem <- st.dmem.data,
    regs <- <<st.gprs.regs.val, st.gprs.stack, st.wdrs.val>>,
    status <- <<st.flags.val, st.wsrs.mod, st.wsrs.acc>>

(* The simulator implements the host's view of OTBN: a faulting instruction
   (and an ECALL) leaves registers, memory and status alone, done, busy and
   ERR_BITS change together and only at a halt, and every instruction that
   retires leaves a fetchable PC (sim.py: "ensuring that a faulting instruction
   doesn't actually do anything"). *)
HostView == Host!Spec

(* The simulator's own assertions about the course of a step hold (loops, jumps,
   CSRs, errors found before a commit): the only exceptions that end it are
   running off the end of the program and loading too much data. *)
AssertsHold ==
    st.raised \in {None, "RuntimeError: out of program", "ValueError: too much data"}

(* Every cycle is accounted for. A load stalls for exactly one cycle of its own,
   also directly after another load or after a fault in the middle of one, and
   nothing but a load or a read of RND stalls (isa.py: OTBNLDInsn.pre_execute);
   the basic blocks and extended basic blocks of the statistics add up to the
   instructions executed (stats.py: record_insn). *)
CyclesAccounted ==
    /\ CASE last.op \in LoadOps -> last.waited = 1
         [] last.op \in {"BN.WSRR", "CSRRS", "CSRRW"} -> TRUE
         [] OTHER -> last.waited = 0
    /\ stats.bb + stats.curBb = stats.insns /\ stats.ebb + stats.curEbb = stats.insns

(* No word of entropy is read twice: reading RND takes the word out of the
   cache, across restarts, stalls and faults (wsr.py: RandWSR). *)
RndFresh == \A j, k \in 1 .. Len(reads) : reads[j] = reads[k] => j = k

(* Every run of a program that can end does end: no stall, of start-up, of a
   load or of RND, lasts for ever. *)
RunsEnd == st.running ~> (~st.running \/ ~Alive)
=============================================================================
