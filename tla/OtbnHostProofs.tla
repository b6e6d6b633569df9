--------------------------- MODULE OtbnHostProofs ---------------------------
(***************************************************************************)
(* The simulator of OTBN implements what the host relies on (OtbnHost), for*)
(* every program, every width and every sequence of commands.              *)
(*                                                                         *)
(* A step crashes, stalls, ends the run or retires an instruction, and in  *)
(* each case the state is settled again (SimInv). The views of OtbnHost    *)
(* follow from what each of these changes.                                 *)
(***************************************************************************)
EXTENDS OtbnInsnProofs

(***************************************************************************)
(* Commit and abort                                                        *)
(***************************************************************************)
(* commit and abort of the external registers. *)
LEMMA ExtType ==
  ASSUME NEW x \in ExtStates
  PROVE  /\ CommitExt(x) \in ExtStates /\ CommitExt(x).val = x.next /\ CommitExt(x).next = x.next
         /\ AbortExt(x) \in ExtStates /\ AbortExt(x).val = x.val /\ AbortExt(x).next = x.val
  BY DEF CommitExt, AbortExt, ExtStates

(***************************************************************************)
(* Between two steps                                                       *)
(***************************************************************************)
(* What pre_execute may do: begin a load, ask for a word of RND. *)
Asked(s, b) ==
    /\ b \in States
    /\ b.gprs = s.gprs /\ b.wdrs = s.wdrs /\ b.flags = s.flags /\ b.loops = s.loops
    /\ b.ext = s.ext /\ b.pc = s.pc /\ b.over = s.over /\ b.insnStall = s.insnStall
    /\ b.startStall = s.startStall /\ b.urndStall = s.urndStall /\ b.running = s.running
    /\ b.errBits = s.errBits /\ b.halt = s.halt /\ b.newRnd = s.newRnd /\ b.reseed = s.reseed
    /\ b.raised = s.raised
    /\ b.dmem.data = s.dmem.data /\ b.dmem.trace = s.dmem.trace /\ b.dmem.err = s.dmem.err
    /\ b.dmem.ready = s.dmem.ready
    /\ b.wsrs.mod = s.wsrs.mod /\ b.wsrs.acc = s.wsrs.acc /\ b.wsrs.rnd = s.wsrs.rnd
    /\ b.wsrs.rndRead = s.wsrs.rndRead

(* Asking for nothing. *)
LEMMA AskedSame == ASSUME NEW s \in States PROVE Asked(s, s)
  BY DEF Asked

(* pre_execute begins a load if the instruction is one and none is ready. *)
LEMMA PreExecuteAsked ==
  ASSUME NEW s \in States, NEW i
  PROVE  /\ Asked(s, PreExecute(s, i))
         /\ PreExecute(s, i).dmem.begun = (s.dmem.begun \/ (i.op \in LoadOps /\ ~s.dmem.ready))
<1>1. s.dmem \in DmemStates /\ s.wsrs \in WsrStates
  BY DEF States
<1>2. CASE i.op \in LoadOps /\ ~s.dmem.ready
  <2> DEFINE d == BeginLoad(s.dmem)
  <2>1. d \in DmemStates /\ d.data = s.dmem.data /\ d.trace = s.dmem.trace /\ d.err = s.dmem.err
        /\ d.ready = s.dmem.ready /\ d.begun = TRUE
    BY <1>1, Zenon DEF BeginLoad, DmemStates
  <2> HIDE DEF d
  <2>2. Asked(s, [s EXCEPT !.dmem = d]) /\ [s EXCEPT !.dmem = d].dmem = d
    BY <2>1 DEF Asked, States
  <2>3. PreExecute(s, i) = [s EXCEPT !.dmem = d]
    BY <1>2 DEF PreExecute, d, LoadOps, ReadsRnd
  <2>4. PreExecute(s, i).dmem.begun = TRUE
    BY <2>1, <2>3
  <2>5. (s.dmem.begun \/ (i.op \in LoadOps /\ ~s.dmem.ready)) = TRUE
    BY <1>2
  <2> QED
    BY <2>2, <2>3, <2>4, <2>5, Zenon
<1>3. CASE ~(i.op \in LoadOps /\ ~s.dmem.ready) /\ ReadsRnd(i)
  <2> DEFINE w == RequestRnd(s.wsrs)
  <2>1. w \in WsrStates /\ w.mod = s.wsrs.mod /\ w.acc = s.wsrs.acc /\ w.rnd = s.wsrs.rnd
        /\ w.rndRead = s.wsrs.rndRead
    BY <1>1, Zenon DEF RequestRnd, WsrStates
  <2> HIDE DEF w
  <2>2. Asked(s, [s EXCEPT !.wsrs = w]) /\ [s EXCEPT !.wsrs = w].dmem = s.dmem
    BY <2>1 DEF Asked, States
  <2>3. PreExecute(s, i) = [s EXCEPT !.wsrs = w]
    BY <1>3 DEF PreExecute, w
  <2>4. s.dmem.begun \in BOOLEAN
    BY <1>1 DEF DmemStates
  <2> QED
    BY <1>3, <2>2, <2>3, <2>4
<1>4. CASE ~(i.op \in LoadOps /\ ~s.dmem.ready) /\ ~ReadsRnd(i)
  <2>1. PreExecute(s, i) = s
    BY <1>4 DEF PreExecute
  <2>2. s.dmem.begun \in BOOLEAN
    BY <1>1 DEF DmemStates
  <2> QED
    BY <1>4, <2>1, <2>2, AskedSame
<1> QED
  BY <1>2, <1>3, <1>4

(* The word of RND that the host has sent is taken, unless it is zero. *)
Taken(s, t) ==
    IF s.newRnd \in {None, 0} THEN t.newRnd = s.newRnd /\ t.wsrs.rnd = s.wsrs.rnd
                              ELSE t.newRnd = None /\ t.wsrs.rnd = s.newRnd

(* Taking the word changes nothing else. *)
LEMMA TakeRndAsked ==
  ASSUME NEW b \in States
  PROVE  LET r == TakeRnd(b)
         IN /\ r \in States /\ Taken(b, r)
            /\ r = [b EXCEPT !.wsrs = r.wsrs, !.newRnd = r.newRnd]
            /\ r.wsrs.mod = b.wsrs.mod /\ r.wsrs.acc = b.wsrs.acc /\ r.wsrs.rndRead = b.wsrs.rndRead
<1>1. b.wsrs \in WsrStates /\ b.newRnd \in Int \cup {None}
  BY DEF States
<1>2. CASE b.newRnd \in {None, 0}
  BY <1>2, ZenonT(60) DEF TakeRnd, Taken, States
<1>3. CASE b.newRnd \notin {None, 0}
  <2> DEFINE w == [b.wsrs EXCEPT !.rnd = b.newRnd]
  <2>1. w \in WsrStates /\ w.rnd = b.newRnd /\ w.mod = b.wsrs.mod /\ w.acc = b.wsrs.acc
        /\ w.rndRead = b.wsrs.rndRead
    BY <1>1 DEF WsrStates
  <2> HIDE DEF w
  <2>2. TakeRnd(b) = [b EXCEPT !.wsrs = w, !.newRnd = None]
    BY <1>3 DEF TakeRnd, w
  <2>3. TakeRnd(b) \in States /\ TakeRnd(b).wsrs = w /\ TakeRnd(b).newRnd = None
    BY <2>1, <2>2, Zenon DEF States
  <2> QED
    BY <1>3, <2>1, <2>2, <2>3 DEF Taken
<1> QED
  BY <1>2, <1>3

(* A cycle of a stall: nothing an instruction can see changes, except
   that the start-up ends or a load becomes ready. *)
Waited(s, b, t) ==
    /\ Settled(t) /\ t.raised = None /\ t.running
    /\ t.pc = s.pc /\ t.gprs = s.gprs /\ t.wdrs = s.wdrs /\ t.flags = s.flags
    /\ t.wsrs.mod = s.wsrs.mod /\ t.wsrs.acc = s.wsrs.acc /\ t.dmem.data = s.dmem.data
    /\ \/ t.startStall = s.startStall /\ t.ext = s.ext
       \/ s.startStall /\ ~t.startStall /\ t.ext.val = s.ext.next
    /\ Taken(s, t) /\ t.wsrs.rndRead = s.wsrs.rndRead
    /\ IF s.urndStall THEN t.dmem = b.dmem /\ t.startStall
       ELSE ~t.dmem.begun /\ t.dmem.ready = b.dmem.begun /\ ~t.startStall

(* The commit of a stalled cycle is a cycle of a stall. *)
LEMMA CommitStalled ==
  ASSUME NEW s, Settled(s), s.running, s.raised = None, NEW b, Asked(s, b)
  PROVE  Waited(s, b, Commit(b, TRUE))
<1> DEFINE r == TakeRnd(b)
           x == CommitExt(r.ext)
           begun == IF r.startStall
                    THEN [r EXCEPT !.startStall = FALSE, !.insnStall = FALSE, !.ext = x]
                    ELSE r
           m == CommitDmem(begun.dmem)
           settled == [begun EXCEPT !.dmem = m]
           u == ~r.reseed
           waiting == [r EXCEPT !.urndStall = u]
<1>1. /\ b \in States /\ ~b.halt /\ b.errBits = {} /\ ~b.gprs.err /\ ~b.dmem.err /\ ~b.loops.err
      /\ b.ext \in ExtStates /\ b.dmem \in DmemStates /\ b.reseed \in BOOLEAN
      /\ b.startStall \in BOOLEAN /\ b.dmem.trace = << >>
  BY DEF Settled, Asked, States
<1>2. /\ r.urndStall => Commit(b, TRUE) = waiting
      /\ ~r.urndStall /\ ~begun.dmem.err => Commit(b, TRUE) = settled
  <2>1. ~b.halt /\ ~(b.errBits # {})
    BY <1>1
  <2>2. CASE r.urndStall
    BY <2>1, <2>2 DEF Commit
  <2>3. CASE ~r.urndStall /\ ~begun.dmem.err
    BY <2>1, <2>3 DEF Commit
  <2> QED
    BY <2>2, <2>3, Zenon
<1>3. /\ r \in States /\ Taken(b, r) /\ r = [b EXCEPT !.wsrs = r.wsrs, !.newRnd = r.newRnd]
      /\ r.wsrs.mod = b.wsrs.mod /\ r.wsrs.acc = b.wsrs.acc /\ r.wsrs.rndRead = b.wsrs.rndRead
  BY <1>1, TakeRndAsked, Zenon
<1> HIDE DEF r
<1>4. /\ r.gprs = b.gprs /\ r.wdrs = b.wdrs /\ r.flags = b.flags /\ r.loops = b.loops
      /\ r.ext = b.ext /\ r.pc = b.pc /\ r.over = b.over /\ r.insnStall = b.insnStall
      /\ r.startStall = b.startStall /\ r.urndStall = b.urndStall /\ r.running = b.running
      /\ r.errBits = b.errBits /\ r.halt = b.halt /\ r.reseed = b.reseed
      /\ r.raised = b.raised /\ r.dmem = b.dmem
  BY <1>3, ZenonT(60) DEF States
<1>5. x \in ExtStates /\ x.val = r.ext.next /\ x.next = r.ext.next
  BY <1>1, <1>4, ExtType
<1> HIDE DEF x
<1>6. CASE s.urndStall
  <2>0. u \in BOOLEAN
    OBVIOUS
  <2> HIDE DEF u
  <2>1. waiting \in States /\ waiting.wsrs = r.wsrs /\ waiting.newRnd = r.newRnd
    BY <1>3, <2>0 DEF States
  <2>2. /\ waiting.gprs = b.gprs /\ waiting.wdrs = b.wdrs /\ waiting.flags = b.flags
        /\ waiting.loops = b.loops /\ waiting.ext = b.ext /\ waiting.pc = b.pc
        /\ waiting.over = b.over /\ waiting.insnStall = b.insnStall
        /\ waiting.startStall = b.startStall /\ waiting.running = b.running
        /\ waiting.errBits = b.errBits /\ waiting.halt = b.halt
        /\ waiting.raised = b.raised /\ waiting.dmem = b.dmem /\ waiting.wsrs = r.wsrs
    BY <1>4
  <2>3. Commit(b, TRUE) = waiting
    BY <1>4, <1>2, <1>6, ZenonT(60) DEF Asked
  <2> HIDE DEF waiting
  <2>4. Settled(waiting)
    BY <1>6, <2>1, <2>2, SMTT(30) DEF Settled, Asked
  <2>5. Taken(s, waiting)
    BY <1>3, <2>1 DEF Taken, Asked
  <2>6. waiting.dmem = b.dmem /\ waiting.startStall
    BY <1>6, <2>2 DEF Asked, Settled
  <2>7. waiting.startStall = s.startStall /\ waiting.ext = s.ext
    BY <2>2 DEF Asked
  <2> QED
    BY <1>3, <1>6, <2>2, <2>3, <2>4, <2>5, <2>6, ZenonT(60) DEF Waited, Asked
<1>7. CASE ~s.urndStall
  <2>1. /\ begun \in States /\ begun.gprs = b.gprs /\ begun.wdrs = b.wdrs /\ begun.flags = b.flags
        /\ begun.loops = b.loops /\ begun.pc = b.pc /\ begun.over = b.over
        /\ begun.running = b.running /\ begun.errBits = b.errBits /\ begun.halt = b.halt
        /\ begun.raised = b.raised /\ begun.dmem = b.dmem /\ begun.wsrs = r.wsrs
        /\ begun.urndStall = b.urndStall /\ begun.newRnd = r.newRnd
    <3>1. CASE r.startStall
      <4>1. begun = [r EXCEPT !.startStall = FALSE, !.insnStall = FALSE, !.ext = x]
        BY <3>1
      <4> HIDE DEF begun
      <4>2. begun \in States
        BY <1>3, <1>5, <4>1, ZenonT(60) DEF States
      <4> QED
        BY <1>4, <4>1, <4>2, SMTT(20)
    <3>2. CASE ~r.startStall
      BY <1>3, <1>4, <3>2
    <3> QED
      BY <3>1, <3>2
  <2>2. /\ ~begun.startStall /\ ~begun.insnStall
        /\ begun.ext = IF b.startStall THEN x ELSE b.ext
    <3>1. b.startStall = b.insnStall
      BY DEF Asked, Settled
    <3>2. CASE b.startStall
      BY <1>4, <3>2
    <3>3. CASE ~b.startStall
      BY <1>4, <3>1
    <3> QED
      BY <3>2, <3>3
  <2> HIDE DEF begun
  <2>3. m \in DmemStates /\ m.data = b.dmem.data /\ m.trace = << >> /\ m.err = b.dmem.err
        /\ ~m.begun /\ m.ready = b.dmem.begun
    <3>1. m \in DmemStates
      BY <1>1, <2>1, CommitDmemType
    <3>2. m.data = b.dmem.data /\ m.trace = << >> /\ m.err = b.dmem.err
          /\ ~m.begun /\ m.ready = b.dmem.begun
      BY <1>1, <2>1 DEF CommitDmem
    <3> QED
      BY <3>1, <3>2
  <2> HIDE DEF m
  <2>4. /\ settled \in States /\ settled.gprs = b.gprs /\ settled.wdrs = b.wdrs
        /\ settled.flags = b.flags /\ settled.loops = b.loops /\ settled.pc = b.pc
        /\ settled.over = b.over /\ settled.running = b.running /\ settled.errBits = b.errBits
        /\ settled.halt = b.halt /\ settled.raised = b.raised /\ settled.dmem = m
        /\ settled.wsrs = r.wsrs /\ settled.urndStall = b.urndStall /\ settled.newRnd = r.newRnd
        /\ settled.startStall = begun.startStall /\ settled.insnStall = begun.insnStall
        /\ settled.ext = begun.ext
    BY <2>1, <2>3 DEF States
  <2>5. Commit(b, TRUE) = settled
    BY <1>1, <1>4, <1>2, <1>7, <2>1, Zenon DEF Asked
  <2> HIDE DEF settled
  <2>6. Settled(settled)
    <3>1. /\ settled.ext.next.INTR_STATE = settled.ext.val.INTR_STATE
          /\ settled.ext.next.ERR_BITS = settled.ext.val.ERR_BITS
          /\ settled.ext.next.STATUS = settled.ext.val.STATUS
      <4>1. CASE s.startStall
        BY <1>5, <2>2, <2>4, SMTT(20) DEF Settled, Asked
      <4>2. CASE ~s.startStall
        BY <2>2, <2>4, <4>2, ZenonT(60) DEF Settled, Asked
      <4> QED
        BY <4>1, <4>2, Zenon
    <3>2. /\ settled \in States /\ settled.over = None /\ settled.dmem.trace = << >>
          /\ ~settled.gprs.err /\ ~settled.dmem.err
      BY <2>3, <2>4 DEF Settled, Asked
    <3>3. settled.startStall = FALSE /\ settled.insnStall = FALSE /\ settled.urndStall = FALSE
      <4>1. ~settled.startStall /\ ~settled.insnStall /\ ~settled.urndStall
        BY <1>7, <2>2, <2>4, Zenon DEF Asked
      <4> QED
        BY <4>1
    <3>4. ~settled.halt /\ ~settled.loops.err /\ settled.errBits = {} /\ LoopsGood(settled.loops)
      BY <2>4 DEF Settled, Asked
    <3> QED
      BY <3>1, <3>2, <3>3, <3>4, Zenon DEF Settled
  <2>7. Taken(s, settled)
    BY <1>3, <2>4, Zenon DEF Taken, Asked
  <2>8. \/ settled.startStall = s.startStall /\ settled.ext = s.ext
        \/ s.startStall /\ ~settled.startStall /\ settled.ext.val = s.ext.next
    <3>1. settled.startStall \in BOOLEAN /\ s.startStall \in BOOLEAN
      BY <2>4 DEF States, Settled
    <3> QED
      BY <1>4, <1>5, <2>2, <2>4, <3>1, SMTT(20) DEF Asked
  <2> QED
    BY <1>3, <1>7, <2>2, <2>3, <2>4, <2>5, <2>6, <2>7, <2>8, ZenonT(60) DEF Waited, Asked
<1> QED
  BY <1>6, <1>7, Zenon

(* The end of a run: what the last instruction staged is gone, and the
   host is told. *)
Halted(s, t) ==
    /\ Settled(t) /\ t.raised = None /\ ~t.running /\ ~t.startStall
    /\ t.pc = s.pc /\ t.gprs.regs.val = s.gprs.regs.val /\ t.gprs.stack = s.gprs.stack
    /\ t.wdrs.val = s.wdrs.val /\ t.flags.val = s.flags.val
    /\ t.wsrs.mod = s.wsrs.mod /\ t.wsrs.acc = s.wsrs.acc /\ t.dmem.data = s.dmem.data
    /\ t.ext.val.STATUS = 0 /\ t.ext.val.INTR_STATE = 1
    /\ t.wsrs.rnd = s.wsrs.rnd /\ t.newRnd = s.newRnd /\ t.dmem.begun = s.dmem.begun

(* abort of data memory drops the trace; a load under way stays. *)
LEMMA AbortDmemType ==
  ASSUME NEW d \in DmemStates
  PROVE  LET a == AbortDmem(d)
         IN /\ a \in DmemStates /\ a.data = d.data /\ a.trace = << >> /\ ~a.err
            /\ a.begun = d.begun
<1>1. << >> \in Seq(Writes)
  OBVIOUS
<1> QED
  BY <1>1, Zenon DEF AbortDmem, DmemStates

(* stop() and the commit that follows end the run. *)
LEMMA CommitStopped ==
  ASSUME NEW s, Settled(s), ~s.startStall, NEW d \in States, Same(s, d), d.raised = None, d.halt
  PROVE  Halted(s, Commit(Stop(d), FALSE))
(* abort of the GPRs drops what is staged, pushes and pops included. *)
<1>AbortGprsType. ASSUME NEW g \in GprStates
                  PROVE  /\ AbortGprs(g) \in GprStates /\ ~AbortGprs(g).err
                         /\ AbortGprs(g).regs.val = g.regs.val /\ AbortGprs(g).stack = g.stack
  <2>1. AbortRegs(g.regs) \in RegFiles(GprIds, Nat) /\ AbortRegs(g.regs).val = g.regs.val
    BY AbortRegsType DEF GprStates
  <2> QED
    BY <2>1, Zenon DEF AbortGprs, GprStates
(* abort of the WSRs drops what is staged; a word of RND stays. *)
<1>AbortWsrsType. ASSUME NEW w \in WsrStates
                  PROVE  LET a == AbortWsrs(w)
                         IN /\ a \in WsrStates /\ a.mod = w.mod /\ a.acc = w.acc /\ a.rnd = w.rnd
                            /\ a.rndRead = w.rndRead /\ a.rndPending = w.rndPending
    BY Zenon DEF AbortWsrs, WsrStates
(* What stop() stages in the external registers. *)
<1>StopExt. ASSUME NEW x \in ExtStates, NEW errs \in SUBSET ErrNames
            PROVE  LET y == WriteExt(WriteExt(WriteExt(AbortExt(x), "INTR_STATE", 1, TRUE),
                                              "STATUS", 0, TRUE), "ERR_BITS", errs, TRUE)
                   IN /\ y \in ExtStates /\ y.next.INTR_STATE = 1 /\ y.next.STATUS = 0
                      /\ y.next.ERR_BITS = errs /\ y.next.START_ADDR = x.val.START_ADDR
  <2> DEFINE a == AbortExt(x)
             b == [a EXCEPT !.next["INTR_STATE"] = 1]
             c == [b EXCEPT !.next["STATUS"] = 0]
             y == [c EXCEPT !.next["ERR_BITS"] = errs]
  <2>1. a \in ExtStates /\ a.next = x.val
    BY ExtType
  <2> HIDE DEF a
  <2>2. b \in ExtStates /\ b.next.INTR_STATE = 1 /\ b.next.START_ADDR = a.next.START_ADDR
    BY <2>1 DEF ExtStates, ExtRegs
  <2> HIDE DEF b
  <2>3. c \in ExtStates /\ c.next.INTR_STATE = 1 /\ c.next.STATUS = 0
        /\ c.next.START_ADDR = a.next.START_ADDR
    BY <2>2 DEF ExtStates, ExtRegs
  <2> HIDE DEF c
  <2>4. y \in ExtStates /\ y.next.INTR_STATE = 1 /\ y.next.STATUS = 0
        /\ y.next.ERR_BITS = errs /\ y.next.START_ADDR = a.next.START_ADDR
    BY <2>3 DEF ExtStates, ExtRegs
  <2> QED
    BY <2>1, <2>4, Zenon DEF WriteExt, a, b, c
(* abort of the loop stack keeps its type. *)
<1>AbortLoopsType. ASSUME NEW l \in LoopStates PROVE AbortLoops(l) \in LoopStates
    BY Zenon DEF AbortLoops, LoopStates
<1> DEFINE g == AbortGprs(d.gprs)
           m == AbortDmem(d.dmem)
           l == AbortLoops(d.loops)
           w == AbortWsrs(d.wsrs)
           f == AbortRegs(d.flags)
           r == AbortRegs(d.wdrs)
           a == [d EXCEPT !.gprs = g, !.over = None, !.dmem = m, !.loops = l,
                          !.ext = AbortExt(@), !.wsrs = w, !.flags = f, !.wdrs = r]
           x == WriteExt(WriteExt(WriteExt(AbortExt(d.ext), "INTR_STATE", 1, TRUE),
                                  "STATUS", 0, TRUE), "ERR_BITS", d.errBits, TRUE)
           p == [a EXCEPT !.ext = x, !.running = FALSE]
           t == [p EXCEPT !.ext = CommitExt(@)]
<1>1. /\ d.gprs \in GprStates /\ d.dmem \in DmemStates /\ d.loops \in LoopStates
      /\ d.wsrs \in WsrStates /\ d.flags \in RegFiles(0 .. 1, FlagSets)
      /\ d.wdrs \in RegFiles(WdrIds, Int) /\ d.ext \in ExtStates /\ d.errBits \in SUBSET ErrNames
  BY DEF States
<1>2. /\ g \in GprStates /\ ~g.err /\ g.regs.val = d.gprs.regs.val /\ g.stack = d.gprs.stack
  BY <1>1, <1>AbortGprsType
<1>3. /\ m \in DmemStates /\ m.data = d.dmem.data /\ m.trace = << >> /\ ~m.err
      /\ m.begun = d.dmem.begun
  BY <1>1, AbortDmemType
<1>4. l \in LoopStates
  BY <1>1, <1>AbortLoopsType
<1>5. /\ w \in WsrStates /\ w.mod = d.wsrs.mod /\ w.acc = d.wsrs.acc /\ w.rnd = d.wsrs.rnd
  BY <1>1, <1>AbortWsrsType
<1>6. f \in RegFiles(0 .. 1, FlagSets) /\ f.val = d.flags.val
  BY <1>1, AbortRegsType, Zenon
<1>7. r \in RegFiles(WdrIds, Int) /\ r.val = d.wdrs.val
  BY <1>1, AbortRegsType
<1>8. AbortExt(d.ext) \in ExtStates
  BY <1>1, ExtType
<1>9. /\ x \in ExtStates /\ x.next.INTR_STATE = 1 /\ x.next.STATUS = 0
  BY <1>1, <1>StopExt, Zenon
<1>10. Stop(d) = p
  <2>1. Abort(d) = a
    BY DEF Abort
  <2>2. a.ext = AbortExt(d.ext)
    OBVIOUS
  <2> QED
    BY <2>1 DEF Stop
<1> HIDE DEF g, m, l, w, f, r, x
<1>11. /\ a \in States /\ a.gprs = g /\ a.over = None /\ a.dmem = m /\ a.loops = l
       /\ a.wsrs = w /\ a.flags = f /\ a.wdrs = r /\ a.pc = d.pc /\ a.insnStall = d.insnStall
       /\ a.startStall = d.startStall /\ a.urndStall = d.urndStall /\ a.halt = d.halt
       /\ a.newRnd = d.newRnd /\ a.raised = d.raised
  BY <1>2, <1>3, <1>4, <1>5, <1>6, <1>7, <1>8, ZenonT(60) DEF States
<1> HIDE DEF a
<1>12. /\ p \in States /\ p.gprs = g /\ p.over = None /\ p.dmem = m /\ p.loops = l
       /\ p.wsrs = w /\ p.flags = f /\ p.wdrs = r /\ p.pc = d.pc /\ p.insnStall = d.insnStall
       /\ p.startStall = d.startStall /\ p.urndStall = d.urndStall /\ p.halt = d.halt
       /\ p.newRnd = d.newRnd /\ p.raised = d.raised /\ p.ext = x /\ p.running = FALSE
  BY <1>9, <1>11, ZenonT(60) DEF States
<1> HIDE DEF p
<1> DEFINE y == CommitExt(x)
<1>13. y \in ExtStates /\ y.val = x.next /\ y.next = x.next
  BY <1>9, ExtType
<1>14. Commit(p, FALSE) = [p EXCEPT !.ext = y]
  BY <1>12 DEF Commit
<1> HIDE DEF y, t
<1> DEFINE u == [p EXCEPT !.ext = y]
<1>15. /\ u \in States /\ u.gprs = g /\ u.over = None /\ u.dmem = m /\ u.loops = l
       /\ u.wsrs = w /\ u.flags = f /\ u.wdrs = r /\ u.pc = d.pc /\ u.insnStall = d.insnStall
       /\ u.startStall = d.startStall /\ u.urndStall = d.urndStall /\ u.newRnd = d.newRnd
       /\ u.raised = d.raised /\ u.ext = y /\ u.running = FALSE
  BY <1>12, <1>13, Zenon DEF States
<1> HIDE DEF u
<1>16. Settled(u)
  BY <1>2, <1>3, <1>13, <1>15, ZenonT(60) DEF Settled, Same
<1>17. Commit(Stop(d), FALSE) = u
  BY <1>10, <1>14, Zenon DEF u
<1> QED
  <2>1. /\ u.raised = None /\ ~u.running /\ ~u.startStall
        /\ u.ext.val.STATUS = 0 /\ u.ext.val.INTR_STATE = 1
    BY <1>9, <1>13, <1>15, ZenonT(60) DEF Same
  <2>2. /\ u.pc = s.pc /\ u.gprs.regs.val = s.gprs.regs.val /\ u.gprs.stack = s.gprs.stack
        /\ u.wdrs.val = s.wdrs.val /\ u.flags.val = s.flags.val
        /\ u.wsrs.mod = s.wsrs.mod /\ u.wsrs.acc = s.wsrs.acc /\ u.dmem.data = s.dmem.data
        /\ u.wsrs.rnd = s.wsrs.rnd /\ u.newRnd = s.newRnd /\ u.dmem.begun = s.dmem.begun
    BY <1>2, <1>3, <1>5, <1>6, <1>7, <1>15, SMTT(20) DEF Same
  <2> QED
    BY <1>16, <1>17, <2>1, <2>2, Zenon DEF Halted

(* An instruction without an error takes effect. *)
Retired(s, t) ==
    /\ Settled(t) /\ t.raised = None /\ t.running /\ ~t.startStall
    /\ t.pc \in Pcs /\ t.ext.val = s.ext.next
    /\ ~t.dmem.begun /\ t.dmem.ready = s.dmem.begun /\ ~t.wsrs.rndRead

(* The commit of an instruction without an error. *)
LEMMA CommitRetired ==
  ASSUME NEW s, Settled(s), s.running, ~s.startStall,
         NEW d \in States, Same(s, d), d.raised = None, ~d.halt, NoErrors(d),
         NextPc(d) \in Pcs, LoopsGood(d.loops)
  PROVE  LET t == Commit(d, FALSE)
         IN /\ Retired(s, t)
            /\ IF d.wsrs.rndRead THEN t.wsrs.rnd = None ELSE Taken(s, t)
            /\ t.newRnd = IF s.newRnd = 0 THEN 0 ELSE None
(* A sequence without its last element. *)
<1>ShorterSeq. ASSUME NEW V, NEW q \in Seq(V)
               PROVE  LET r == SubSeq(q, 1, Len(q) - 1)
                      IN /\ r \in Seq(V) /\ Len(r) \in Nat
                         /\ \A k \in 1 .. Len(r) : k \in 1 .. Len(q) /\ r[k] = q[k]
    OBVIOUS
(* commit of the GPRs keeps their type and leaves the error flag alone. *)
<1>CommitGprsType. ASSUME NEW g \in GprStates
                   PROVE  CommitGprs(g) \in GprStates /\ CommitGprs(g).err = g.err
  <2> DEFINE short == SubSeq(g.stack, 1, Len(g.stack) - 1)
             popped == IF g.sawRead THEN short ELSE g.stack
             stack == IF g.push = None THEN popped ELSE Append(popped, g.push)
  <2>1. g.regs \in RegFiles(GprIds, Nat) /\ g.stack \in Seq(Nat) /\ g.push \in Nat \cup {None}
        /\ g.err \in BOOLEAN
    BY DEF GprStates
  <2>2. short \in Seq(Nat)
    BY <2>1, SMTT(20)
  <2> HIDE DEF short
  <2>3. popped \in Seq(Nat)
    BY <2>1, <2>2
  <2> HIDE DEF popped
  <2>4. stack \in Seq(Nat)
    BY <2>1, <2>3
  <2>5. CommitRegs(g.regs) \in RegFiles(GprIds, Nat)
    BY <2>1, CommitRegsType, Zenon
  <2>6. CommitGprs(g) = [regs |-> CommitRegs(g.regs), stack |-> stack, push |-> None,
                         sawRead |-> FALSE, err |-> g.err]
    BY DEF CommitGprs, popped, short
  <2> HIDE DEF stack
  <2> QED
    BY <2>4, <2>5, <2>6 DEF GprStates
(* commit of the WSRs drops a word of RND that was read, and the request for it. *)
<1>CommitWsrsType. ASSUME NEW w \in WsrStates
                   PROVE  LET c == CommitWsrs(w)
                          IN /\ c \in WsrStates
                             /\ c.rnd = IF w.rndRead THEN None ELSE w.rnd
                             /\ ~c.rndRead
                             /\ c.rndPending = IF w.rndRead THEN FALSE ELSE w.rndPending
  <2> DEFINE c == CommitRnd(w)
  <2>1. /\ c \in WsrStates /\ c.mod = w.mod /\ c.acc = w.acc
        /\ c.rnd = IF w.rndRead THEN None ELSE w.rnd
        /\ ~c.rndRead
        /\ c.rndPending = IF w.rndRead THEN FALSE ELSE w.rndPending
    BY Zenon DEF CommitRnd, WsrStates
  <2> HIDE DEF c
  <2> DEFINE mod == IF w.modNext = None THEN c.mod ELSE w.modNext
             acc == IF w.accNext = None THEN c.acc ELSE w.accNext
  <2>2. mod \in Int /\ acc \in Int
    BY <2>1 DEF WsrStates
  <2>3. CommitWsrs(w) = [c EXCEPT !.mod = mod, !.acc = acc, !.modNext = None, !.accNext = None]
    BY DEF CommitWsrs, c
  <2> HIDE DEF mod, acc
  <2> QED
    BY <2>1, <2>2, <2>3, Zenon DEF WsrStates
(* commit of the loop stack pops the level that ended. *)
<1>CommitLoopsType. ASSUME NEW l \in LoopStates
                    PROVE  /\ CommitLoops(l) \in LoopStates /\ CommitLoops(l).err = l.err
                           /\ LoopsGood(l) => LoopsGood(CommitLoops(l))
  <2> DEFINE q == SubSeq(l.stack, 1, Len(l.stack) - 1)
             stack == IF l.pop THEN q ELSE l.stack
  <2>1. l.stack \in Seq(Levels)
    BY DEF LoopStates
  <2>2. q \in Seq(Levels) /\ \A k \in 1 .. Len(q) : k \in 1 .. Len(l.stack) /\ q[k] = l.stack[k]
    BY <2>1
  <2>3. CommitLoops(l) = [l EXCEPT !.stack = stack]
    BY DEF CommitLoops
  <2> HIDE DEF q
  <2>4. /\ stack \in Seq(Levels)
        /\ \A k \in 1 .. Len(stack) : k \in 1 .. Len(l.stack) /\ stack[k] = l.stack[k]
    BY <2>1, <2>2
  <2> HIDE DEF stack
  <2>5. CommitLoops(l) \in LoopStates /\ CommitLoops(l).err = l.err /\ CommitLoops(l).stack = stack
    BY <2>3, <2>4, Zenon DEF LoopStates
  <2> QED
    BY <2>4, <2>5 DEF LoopsGood
(* The registers that the commit of an instruction replaces. *)
<1>PutAll. ASSUME NEW c \in States, NEW g \in GprStates, NEW n \in Nat, NEW l \in LoopStates,
                  NEW x \in ExtStates, NEW w \in WsrStates, NEW f \in RegFiles(0 .. 1, FlagSets),
                  NEW v \in RegFiles(WdrIds, Int)
           PROVE  [c EXCEPT !.gprs = g, !.pc = n, !.over = None, !.loops = l, !.ext = x,
                            !.wsrs = w, !.flags = f, !.wdrs = v] \in States
  <2> DEFINE a == [c EXCEPT !.gprs = g, !.pc = n, !.over = None, !.loops = l]
  <2>1. None \in Int \cup {None}
    OBVIOUS
  <2>2. a \in States
    BY <2>1, ZenonT(60) DEF States
  <2> HIDE DEF a
  <2>3. [a EXCEPT !.ext = x, !.wsrs = w, !.flags = f, !.wdrs = v] \in States
    BY <2>2, ZenonT(60) DEF States
  <2> QED
    BY <2>3, Zenon DEF a
<1> DEFINE r == TakeRnd(d)
           m == CommitDmem(r.dmem)
           c == [r EXCEPT !.dmem = m]
           g == CommitGprs(c.gprs)
           l == CommitLoops(c.loops)
           x == CommitExt(c.ext)
           w == CommitWsrs(c.wsrs)
           f == CommitRegs(c.flags)
           v == CommitRegs(c.wdrs)
           n == NextPc(c)
           t == [c EXCEPT !.gprs = g, !.pc = n, !.over = None, !.loops = l, !.ext = x,
                          !.wsrs = w, !.flags = f, !.wdrs = v]
<1>1. /\ ~d.startStall /\ ~d.insnStall /\ ~d.urndStall /\ d.running /\ ~s.urndStall
      /\ d.dmem \in DmemStates /\ d.gprs \in GprStates /\ d.loops \in LoopStates
      /\ d.ext \in ExtStates /\ d.flags \in RegFiles(0 .. 1, FlagSets)
      /\ d.wdrs \in RegFiles(WdrIds, Int)
  <2>1. ~s.insnStall /\ ~s.urndStall
    BY DEF Settled
  <2> QED
    BY <2>1 DEF Same, States
<1>2. /\ r \in States /\ Taken(d, r) /\ r = [d EXCEPT !.wsrs = r.wsrs, !.newRnd = r.newRnd]
      /\ r.wsrs.rndRead = d.wsrs.rndRead
  BY TakeRndAsked, Zenon
<1>3. /\ r.gprs = d.gprs /\ r.wdrs = d.wdrs /\ r.flags = d.flags /\ r.loops = d.loops
      /\ r.ext = d.ext /\ r.pc = d.pc /\ r.over = d.over /\ r.insnStall = d.insnStall
      /\ r.startStall = d.startStall /\ r.urndStall = d.urndStall /\ r.running = d.running
      /\ r.errBits = d.errBits /\ r.halt = d.halt /\ r.raised = d.raised /\ r.dmem = d.dmem
      /\ r.wsrs \in WsrStates
  BY <1>2, ZenonT(60) DEF States
<1>4. Commit(d, FALSE) = t
  <2>1. ~d.halt /\ ~(d.errBits # {}) /\ ~(d.gprs.err \/ d.loops.err)
    BY DEF NoErrors
  <2>2. ~r.urndStall /\ ~r.startStall /\ ~r.dmem.err
    BY <1>1, <1>3 DEF NoErrors
  <2>3. Commit(d, FALSE) = CommitInsn(c)
    BY <2>1, <2>2, Zenon DEF Commit
  <2> QED
    BY <2>3, Zenon DEF CommitInsn
<1> HIDE DEF r
<1>5. m \in DmemStates /\ m.trace = << >> /\ m.err = d.dmem.err /\ ~m.begun
      /\ m.ready = d.dmem.begun
  <2>1. m \in DmemStates
    BY <1>1, <1>3, CommitDmemType
  <2>2. m.trace = << >> /\ m.err = d.dmem.err /\ ~m.begun /\ m.ready = d.dmem.begun
    BY <1>3 DEF CommitDmem
  <2> QED
    BY <2>1, <2>2, Zenon
<1> HIDE DEF m
<1>6. /\ c \in States /\ c.gprs = d.gprs /\ c.wdrs = d.wdrs /\ c.flags = d.flags
      /\ c.loops = d.loops /\ c.ext = d.ext /\ c.pc = d.pc /\ c.over = d.over
      /\ c.insnStall = d.insnStall /\ c.startStall = d.startStall /\ c.urndStall = d.urndStall
      /\ c.running = d.running /\ c.errBits = d.errBits /\ c.halt = d.halt /\ c.raised = d.raised
      /\ c.dmem = m /\ c.wsrs = r.wsrs /\ c.newRnd = r.newRnd
  BY <1>2, <1>3, <1>5, ZenonT(60) DEF States
<1> HIDE DEF c
<1>7. g \in GprStates /\ g.err = d.gprs.err
  BY <1>1, <1>6, <1>CommitGprsType, Zenon
<1>8. l \in LoopStates /\ l.err = d.loops.err /\ LoopsGood(l)
  BY <1>1, <1>6, <1>CommitLoopsType, Zenon
<1>9. x \in ExtStates /\ x.val = d.ext.next /\ x.next = d.ext.next
  BY <1>1, <1>6, ExtType
<1>10. w \in WsrStates /\ ~w.rndRead /\ w.rnd = IF d.wsrs.rndRead THEN None ELSE r.wsrs.rnd
  BY <1>2, <1>3, <1>6, <1>CommitWsrsType, ZenonT(30)
<1>11. f \in RegFiles(0 .. 1, FlagSets) /\ v \in RegFiles(WdrIds, Int)
  BY <1>1, <1>6, CommitRegsType
<1>12. n \in Pcs /\ n \in Nat
  <2>1. n \in Pcs
    BY <1>6, Zenon DEF NextPc
  <2> QED
    BY <2>1 DEF Pcs
<1> HIDE DEF g, l, x, w, f, v, n
<1>13. /\ t \in States /\ t.gprs = g /\ t.pc = n /\ t.over = None /\ t.loops = l /\ t.ext = x
       /\ t.wsrs = w /\ t.dmem = m /\ t.insnStall = d.insnStall /\ t.startStall = d.startStall
       /\ t.urndStall = d.urndStall /\ t.running = d.running /\ t.errBits = d.errBits
       /\ t.halt = d.halt /\ t.raised = d.raised /\ t.newRnd = r.newRnd
  <2>1. t \in States
    <3>1. c \in States
      BY <1>6
    <3>2. g \in GprStates /\ l \in LoopStates /\ x \in ExtStates /\ w \in WsrStates /\ n \in Nat
      BY <1>7, <1>8, <1>9, <1>10, <1>12
    <3> QED
      BY <1>11, <3>1, <3>2, <1>PutAll, ZenonT(60)
  <2>2. /\ t.gprs = g /\ t.pc = n /\ t.over = None /\ t.loops = l /\ t.ext = x /\ t.wsrs = w
    OBVIOUS
  <2>3. /\ t.dmem = c.dmem /\ t.insnStall = c.insnStall /\ t.startStall = c.startStall
        /\ t.urndStall = c.urndStall /\ t.running = c.running /\ t.errBits = c.errBits
        /\ t.halt = c.halt /\ t.raised = c.raised /\ t.newRnd = c.newRnd
    OBVIOUS
  <2> HIDE DEF t
  <2> QED
    BY <1>6, <2>1, <2>2, <2>3, Zenon
<1> HIDE DEF t
<1>14. Settled(t)
  <2>1. /\ t.ext.next.INTR_STATE = t.ext.val.INTR_STATE
        /\ t.ext.next.ERR_BITS = t.ext.val.ERR_BITS
        /\ t.ext.next.STATUS = t.ext.val.STATUS
    BY <1>9, <1>13, Zenon
  <2>2. /\ t \in States /\ t.over = None /\ t.dmem.trace = << >> /\ ~t.gprs.err /\ ~t.dmem.err
    BY <1>5, <1>7, <1>13, Zenon DEF NoErrors
  <2>3. t.startStall = FALSE /\ t.insnStall = FALSE /\ t.urndStall = FALSE
    <3>1. ~t.startStall /\ ~t.insnStall /\ ~t.urndStall
      BY <1>1, <1>13, Zenon
    <3> QED
      BY <3>1, SMTT(20)
  <2>4. ~t.halt /\ ~t.loops.err /\ t.errBits = {} /\ LoopsGood(t.loops)
    BY <1>8, <1>13, Zenon DEF NoErrors
  <2> QED
    BY <2>1, <2>2, <2>3, <2>4, Zenon DEF Settled
<1>15. Retired(s, t)
  BY <1>5, <1>9, <1>10, <1>12, <1>13, <1>14, Zenon DEF Retired, Same
<1>16. /\ IF d.wsrs.rndRead THEN t.wsrs.rnd = None ELSE Taken(s, t)
       /\ t.newRnd = IF s.newRnd = 0 THEN 0 ELSE None
  BY <1>2, <1>10, <1>13, Zenon DEF Taken, Same
<1> QED
  BY <1>4, <1>15, <1>16, Zenon

(* The simulator raises; everything committed stays. *)
Crashed(s, t) == t \in States /\ Same(s, t) /\ t.raised # None

(* The state after pre_execute, which a stalled cycle leaves out. *)
Begin(s) == IF s.insnStall THEN s ELSE PreExecute(s, Fetch(s))

(* A raised exception is a crash. *)
LEMMA RaiseCrashed ==
  ASSUME NEW s \in States, NEW why \in Exceptions
  PROVE  Crashed(s, Raise(s, why)) /\ Raise(s, why).raised = why
<1>1. why # None
  BY NoneAssumption
<1>2. Raise(s, why) \in States /\ Raise(s, why).raised = why
  BY DEF Raise, States
<1>3. Same(s, Raise(s, why))
  BY DEF Raise, Same
<1> QED
  BY <1>1, <1>2, <1>3 DEF Crashed

(* A step past the end of the program raises. *)
LEMMA OutStep ==
  ASSUME NEW s, Settled(s), s.running, s.raised = None, OutOfProgram(s)
  PROVE  /\ Crashed(s, StepState(s)) /\ StepState(s).raised = "RuntimeError: out of program"
<1>1. "RuntimeError: out of program" \in Exceptions
  BY DEF Exceptions
<1>2. StepState(s) = Raise(s, "RuntimeError: out of program")
  BY DEF StepState
<1> QED
  BY <1>1, <1>2, RaiseCrashed, Zenon DEF Settled

(* A step that stalls is a cycle of a stall. *)
LEMMA StallStep ==
  ASSUME NEW s, Settled(s), s.running, s.raised = None, ~OutOfProgram(s), Stalls(s)
  PROVE  Asked(s, Begin(s)) /\ Waited(s, Begin(s), StepState(s))
<1>1. s \in States
  BY DEF Settled
<1>2. Asked(s, Begin(s))
  BY <1>1, AskedSame, PreExecuteAsked, Zenon DEF Begin
<1>3. StepState(s) = Commit(Begin(s), TRUE)
  BY Zenon DEF StepState, Begin
<1> QED
  BY <1>2, <1>3, CommitStalled, Zenon

(* A step that executes an instruction crashes, ends the run or retires
   it. *)
LEMMA InsnStep ==
  ASSUME NEW s, Settled(s), s.running, s.raised = None, ~OutOfProgram(s), ~Stalls(s),
         IsInsn(Fetch(s))
  PROVE  LET d == Executed(s)
             t == StepState(s)
         IN /\ ~s.startStall /\ Ready(s, Fetch(s)) /\ Done(s, d, Fetch(s))
            /\ d.raised # None => t = d /\ Crashed(s, t)
            /\ d.raised = None /\ d.halt => Halted(s, t)
            /\ d.raised = None /\ ~d.halt =>
                  /\ Retired(s, t)
                  /\ IF d.wsrs.rndRead THEN t.wsrs.rnd = None ELSE Taken(s, t)
                  /\ t.newRnd = IF s.newRnd = 0 THEN 0 ELSE None
<1> DEFINE d == Executed(s)
           t == StepState(s)
<1>1. ~s.startStall /\ Ready(s, Fetch(s))
  BY DEF Stalls, Settled
<1>2. Done(s, d, Fetch(s))
  BY <1>1, ExecutedDone
<1>3. t = IF d.raised # None THEN d ELSE Commit(IF d.halt THEN Stop(d) ELSE d, FALSE)
  BY DEF StepState
<1> HIDE DEF d, t
<1>4. d \in States /\ Same(s, d)
  BY <1>2, Zenon DEF Done
<1>5. CASE d.raised # None
  BY <1>1, <1>2, <1>3, <1>4, <1>5, Zenon DEF Crashed, d, t
<1>6. CASE d.raised = None /\ d.halt
  <2>1. Halted(s, t)
    BY <1>1, <1>3, <1>4, <1>6, CommitStopped, ZenonT(30)
  <2> QED
    BY <1>1, <1>2, <1>6, <2>1, Zenon DEF d, t
<1>7. CASE d.raised = None /\ ~d.halt
  <2>1. NoErrors(d) /\ NextPc(d) \in Pcs /\ LoopsGood(d.loops)
    BY <1>2, <1>7 DEF Done
  <2>2. t = Commit(d, FALSE)
    BY <1>3, <1>7
  <2>3. /\ Retired(s, t)
        /\ IF d.wsrs.rndRead THEN t.wsrs.rnd = None ELSE Taken(s, t)
        /\ t.newRnd = IF s.newRnd = 0 THEN 0 ELSE None
    BY <1>1, <1>4, <1>7, <2>1, <2>2, CommitRetired, Zenon
  <2> QED
    BY <1>1, <1>2, <1>7, <2>3, Zenon DEF d, t
<1> QED
  BY <1>5, <1>6, <1>7, Zenon

(***************************************************************************)
(* The commands                                                            *)
(***************************************************************************)
(* The flags after a reset are well typed. *)
LEMMA InitFlagsType == InitFlags \in RegFiles(0 .. 1, FlagSets)
<1>1. FlagsFromBits(0) \in FlagSets
  BY FlagsFromBitsType
<1>2. NoneStaged \in Staged(0 .. 1, FlagSets)
  BY NoneStagedType
<1> QED
  BY <1>1, <1>2 DEF InitFlags, RegFiles

(* The WSRs after a reset are well typed. *)
LEMMA InitWsrsType == InitWsrs \in WsrStates
  BY DEF InitWsrs, WsrStates

(* The loop stack after a reset is empty. *)
LEMMA InitLoopsType == InitLoops \in LoopStates /\ LoopsGood(InitLoops) /\ ~InitLoops.err
<1>1. << >> \in Seq(Levels) /\ Len(<< >>) = 0
  OBVIOUS
<1> QED
  BY DEF InitLoops, LoopStates, LoopsGood

(* A new simulator is between two steps. *)
LEMMA InitStateSettled == Settled(InitState) /\ InitState.raised = None
<1>1. RegFile(GprIds) \in RegFiles(GprIds, Nat) /\ RegFile(WdrIds) \in RegFiles(WdrIds, Int)
  BY NoneStagedType DEF RegFile, RegFiles
<1>2. InitGprs \in GprStates /\ ~InitGprs.err
  <2>1. << >> \in Seq(Nat)
    OBVIOUS
  <2> QED
    BY <1>1 DEF InitGprs, GprStates, GprIds
<1>3. InitDmem \in DmemStates /\ InitDmem.trace = << >> /\ ~InitDmem.err
  <2>1. << >> \in Seq(Writes)
    OBVIOUS
  <2> QED
    BY InputsAssumption DEF InitDmem, DmemStates, MemIds
<1>4. /\ InitExt \in ExtStates /\ InitExt.next = InitExt.val
  BY SMTT(20) DEF InitExt, ExtFields, ExtStates, ExtRegs
<1>5. InitState \in States
  BY <1>1, <1>2, <1>3, <1>4, InitFlagsType, InitWsrsType, InitLoopsType, Zenon
     DEF InitState, States, WdrIds
<1>6. /\ InitState.over = None /\ InitState.dmem = InitDmem /\ InitState.gprs = InitGprs
      /\ InitState.ext = InitExt /\ ~InitState.startStall /\ ~InitState.insnStall
      /\ ~InitState.urndStall /\ ~InitState.running /\ InitState.raised = None
      /\ InitState.startStall = InitState.insnStall
  BY DEF InitState
<1> QED
  BY <1>2, <1>3, <1>4, <1>5, <1>6, Zenon DEF Settled

(* What start() does: registers and memory survive, flags, WSRs and loops
   do not. *)
Started(s, t) ==
    /\ Settled(t) /\ t.raised = None /\ t.running /\ t.startStall
    /\ t.gprs = s.gprs /\ t.wdrs = s.wdrs /\ t.dmem = s.dmem /\ t.newRnd = s.newRnd
    /\ t.flags = InitFlags /\ t.wsrs = InitWsrs
    /\ t.ext.val.INTR_STATE = s.ext.val.INTR_STATE /\ t.ext.val.ERR_BITS = s.ext.val.ERR_BITS
    /\ t.ext.val.STATUS = IF s.startStall THEN 1 ELSE s.ext.val.STATUS

(* start() from between two steps, in whatever state the last run has
   ended. *)
LEMMA StartStarted ==
  ASSUME NEW s, Settled(s), s.raised = None, NEW a \in Nat
  PROVE  Started(s, StartState([s EXCEPT !.ext = CommitExt(WriteExt(@, "START_ADDR", a, FALSE))]))
<1> DEFINE x == [s.ext EXCEPT !.next["START_ADDR"] = a]
           y == CommitExt(x)
           p == [s EXCEPT !.ext = y]
           z == [y EXCEPT !.next["STATUS"] = 1]
           n == ReadExt(p.ext, "START_ADDR", TRUE)
           t == [p EXCEPT !.ext = z,
              !.running = TRUE, !.startStall = TRUE, !.urndStall = TRUE,
              !.insnStall = TRUE, !.halt = FALSE, !.errBits = {}, !.reseed = FALSE,
              !.pc = n, !.flags = InitFlags, !.wsrs = InitWsrs, !.loops = InitLoops]
<1>1. s \in States /\ s.ext \in ExtStates
  BY DEF Settled, States
<1>2. /\ x \in ExtStates /\ x.next.START_ADDR = a
      /\ x.next.INTR_STATE = s.ext.next.INTR_STATE /\ x.next.ERR_BITS = s.ext.next.ERR_BITS
      /\ x.next.STATUS = s.ext.next.STATUS
  BY <1>1 DEF ExtStates, ExtRegs
<1>3. WriteExt(s.ext, "START_ADDR", a, FALSE) = x
  BY DEF WriteExt, SwAccess
<1> HIDE DEF x
<1>4. y \in ExtStates /\ y.val = x.next /\ y.next = x.next
  BY <1>2, ExtType
<1>5. [s EXCEPT !.ext = CommitExt(WriteExt(@, "START_ADDR", a, FALSE))] = p
  BY <1>3, Zenon
<1> HIDE DEF y
<1>6. /\ p \in States /\ p.ext = y /\ p.gprs = s.gprs /\ p.wdrs = s.wdrs /\ p.dmem = s.dmem
      /\ p.newRnd = s.newRnd /\ p.over = s.over /\ p.raised = s.raised
  BY <1>1, <1>4 DEF States
<1>7. n \in Nat
  BY <1>2, <1>4 DEF ReadExt
<1>8. z \in ExtStates /\ z.val = y.val /\ z.next.STATUS = 1
      /\ z.next.INTR_STATE = y.next.INTR_STATE /\ z.next.ERR_BITS = y.next.ERR_BITS
  BY <1>4 DEF ExtStates, ExtRegs
<1>9. WriteExt(y, "STATUS", 1, TRUE) = z
  BY DEF WriteExt
<1> HIDE DEF p, n, z
<1>10. StartState(p) = t
  BY <1>6, <1>9, Zenon DEF StartState, n
<1>11. t \in States
  <2> DEFINE c == [p EXCEPT !.ext = z, !.running = TRUE, !.startStall = TRUE, !.urndStall = TRUE,
                            !.insnStall = TRUE, !.halt = FALSE]
  <2>1. c \in States
    BY <1>6, <1>8, ZenonT(60) DEF States
  <2> HIDE DEF c
  <2>2. [c EXCEPT !.errBits = {}, !.reseed = FALSE, !.pc = n, !.flags = InitFlags,
                  !.wsrs = InitWsrs, !.loops = InitLoops] \in States
    BY <1>7, <2>1, InitFlagsType, InitWsrsType, InitLoopsType, ZenonT(60) DEF States
  <2> QED
    BY <2>2, Zenon DEF c
<1>12. /\ t.ext = z /\ t.running = TRUE /\ t.startStall = TRUE /\ t.urndStall = TRUE
       /\ t.insnStall = TRUE /\ t.halt = FALSE /\ t.errBits = {} /\ t.flags = InitFlags
       /\ t.wsrs = InitWsrs /\ t.loops = InitLoops
  OBVIOUS
<1>13. /\ t.gprs = p.gprs /\ t.wdrs = p.wdrs /\ t.dmem = p.dmem /\ t.newRnd = p.newRnd
       /\ t.over = p.over /\ t.raised = p.raised
  OBVIOUS
<1> HIDE DEF t
<1>14. /\ t.ext.next.INTR_STATE = t.ext.val.INTR_STATE
       /\ t.ext.next.ERR_BITS = t.ext.val.ERR_BITS /\ t.ext.next.STATUS = 1
  BY <1>4, <1>8, <1>12
<1>15. Settled(t)
  BY <1>6, <1>11, <1>12, <1>13, <1>14, InitLoopsType, Zenon DEF Settled
<1>16. /\ t.ext.val.INTR_STATE = s.ext.val.INTR_STATE /\ t.ext.val.ERR_BITS = s.ext.val.ERR_BITS
       /\ t.ext.val.STATUS = IF s.startStall THEN 1 ELSE s.ext.val.STATUS
  BY <1>2, <1>4, <1>8, <1>12, Zenon DEF Settled
<1> QED
  BY <1>5, <1>6, <1>10, <1>12, <1>13, <1>15, <1>16, ZenonT(60) DEF Started

(* Loading data changes data memory alone, or raises. *)
LEMMA LoadDataSettled ==
  ASSUME NEW s, Settled(s), s.raised = None, NEW d \in Datas
  PROVE  LET t == LoadData(s, d)
         IN \/ t.raised = "ValueError: too much data" /\ Crashed(s, t)
            \/ /\ Settled(t) /\ t = [s EXCEPT !.dmem = t.dmem]
               /\ t.dmem.begun = s.dmem.begun /\ t.dmem.ready = s.dmem.ready
<1>1. s \in States /\ s.dmem \in DmemStates
  BY DEF Settled, States
<1>2. CASE ~DataFits(d)
  <2>1. "ValueError: too much data" \in Exceptions
    BY DEF Exceptions
  <2> QED
    BY <1>1, <1>2, <2>1, RaiseCrashed, Zenon DEF LoadData
<1>3. CASE DataFits(d)
  <2> DEFINE m == LoadLeWords(s.dmem, d)
             t == [s EXCEPT !.dmem = m]
  <2>1. /\ m \in DmemStates /\ m.begun = s.dmem.begun /\ m.ready = s.dmem.ready
        /\ m.trace = s.dmem.trace /\ m.err = s.dmem.err
    BY <1>1, LoadLeWordsType, InputsAssumption, Zenon
  <2>2. LoadData(s, d) = t
    BY <1>3 DEF LoadData
  <2> HIDE DEF m
  <2>3. t \in States /\ t.dmem = m
    BY <1>1, <2>1 DEF States
  <2>4. /\ t.over = s.over /\ t.gprs = s.gprs /\ t.startStall = s.startStall
        /\ t.insnStall = s.insnStall /\ t.urndStall = s.urndStall /\ t.running = s.running
        /\ t.ext = s.ext /\ t.halt = s.halt /\ t.loops = s.loops /\ t.errBits = s.errBits
    OBVIOUS
  <2>5. t = [s EXCEPT !.dmem = t.dmem]
    BY Zenon
  <2> HIDE DEF t
  <2>6. Settled(t)
    BY <2>1, <2>3, <2>4, Zenon DEF Settled
  <2> QED
    BY <2>1, <2>2, <2>3, <2>5, <2>6, ZenonT(30)
<1> QED
  BY <1>2, <1>3, ZenonT(30)

(***************************************************************************)
(* The host's view                                                         *)
(***************************************************************************)
(* The mapping to OtbnHost, as an operator on states. *)
Phase(s) == IF ~s.running THEN "idle" ELSE IF s.startStall THEN "starting" ELSE "busy"

Regs(s) == <<s.gprs.regs.val, s.gprs.stack, s.wdrs.val>>

Status(s) == <<s.flags.val, s.wsrs.mod, s.wsrs.acc>>

View(s) ==
    [phase |-> Phase(s), busy |-> s.ext.val["STATUS"], done |-> s.ext.val["INTR_STATE"],
     err |-> s.ext.val["ERR_BITS"], pc |-> s.pc, mem |-> s.dmem.data,
     regs |-> Regs(s), status |-> Status(s)]

(* The actions of OtbnHost, as relations on views. *)
Writes1(v, w) ==
    /\ w.phase = v.phase /\ w.busy = v.busy /\ w.done = v.done /\ w.err = v.err /\ w.pc = v.pc
    /\ w.regs = v.regs /\ w.status = v.status

Starts1(v, w) ==
    /\ w.phase = "starting" /\ w.busy = IF v.phase = "starting" THEN 1 ELSE v.busy
    /\ w.status = <<InitFlags.val, 0, 0>> /\ w.pc \in Int
    /\ w.done = v.done /\ w.err = v.err /\ w.mem = v.mem /\ w.regs = v.regs

Begins1(v, w) ==
    /\ v.phase = "starting" /\ w.phase = "busy" /\ w.busy = 1
    /\ w.done = v.done /\ w.err = v.err /\ w.pc = v.pc /\ w.mem = v.mem
    /\ w.regs = v.regs /\ w.status = v.status

Retires1(v, w) ==
    /\ v.phase = "busy" /\ w.pc \in Pcs
    /\ w.phase = v.phase /\ w.busy = v.busy /\ w.done = v.done /\ w.err = v.err

Halts1(v, w) ==
    /\ v.phase = "busy" /\ w.phase = "idle" /\ w.busy = 0 /\ w.done = 1
    /\ w.err \in SUBSET ErrNames
    /\ w.pc = v.pc /\ w.mem = v.mem /\ w.regs = v.regs /\ w.status = v.status

HostStep(v, w) == Writes1(v, w) \/ Starts1(v, w) \/ Begins1(v, w) \/ Retires1(v, w) \/ Halts1(v, w)

(* A step between views is a step of OtbnHost. *)
LEMMA HostNext == HostStep(View(st), View(st')) => Host!Next
<1>1. Writes1(View(st), View(st')) => Host!HostWrite
  BY Zenon DEF Writes1, View, Phase, Regs, Status, Host!HostWrite
<1>2. Starts1(View(st), View(st')) => Host!Start
  BY Zenon DEF Starts1, View, Phase, Regs, Status, Host!Start
<1>3. Begins1(View(st), View(st')) => Host!Begin
  BY Zenon DEF Begins1, View, Phase, Regs, Status, Host!Begin
<1>4. Retires1(View(st), View(st')) => Host!Retire
  BY Zenon DEF Retires1, View, Phase, Host!Retire, Pcs
<1>5. Halts1(View(st), View(st')) => Host!Halt
  BY Zenon DEF Halts1, View, Phase, Regs, Status, Host!Halt
<1> QED
  BY <1>1, <1>2, <1>3, <1>4, <1>5, Zenon DEF HostStep, Host!Next

(* A crash shows the host nothing. *)
LEMMA CrashedView ==
  ASSUME NEW s, NEW t, Crashed(s, t) PROVE View(t) = View(s)
  BY DEF Crashed, Same, View, Phase, Regs, Status

(* A step the host cannot see is allowed. *)
LEMMA SameViewStep == ASSUME NEW s, NEW t, View(t) = View(s) PROVE HostStep(View(s), View(t))
  BY DEF HostStep, Writes1

(***************************************************************************)
(* The invariant                                                           *)
(***************************************************************************)
(* The inductive invariant. A simulator that has not raised is between
   two steps. *)
SimInv ==
    /\ st \in States
    /\ Alive => Settled(st)
    /\ program \in Programs \cup StatPrograms \cup {<< >>}
    /\ words \in Nat

(* The part of the invariant about one state. *)
Good(t) == t \in States /\ (t.raised = None => Settled(t))

(* What is fetched is an instruction of the program. *)
LEMMA Fetched ==
  ASSUME SimInv, ~OutOfProgram(st)
  PROVE  \E p \in Programs \cup StatPrograms :
            \E k \in 1 .. Len(p) : p = program /\ Fetch(st) = p[k]
<1> DEFINE n == st.pc \div 4
<1>1. st.pc \in Nat
  BY DEF SimInv, States
<1>2. n \in Nat
  BY <1>1
<1>3. Len(program) \in Nat
  <2>1. Len(<< >>) \in Nat
    OBVIOUS
  <2> QED
    OBVIOUS
<1> HIDE DEF n
<1>4. n < Len(program)
  BY <1>2 DEF OutOfProgram, n
<1>5. n + 1 \in 1 .. Len(program)
  BY <1>2, <1>4
<1>6. program \in Programs \cup StatPrograms
  <2>1. Len(<< >>) = 0
    OBVIOUS
  <2> QED
    BY <1>2, <1>4 DEF SimInv
<1> QED
  BY <1>5, <1>6, Zenon DEF Fetch, n

(* What is fetched is an instruction of the ISA (InputsAssumption). *)
LEMMA FetchInsn ==
  ASSUME SimInv, ~OutOfProgram(st) PROVE IsInsn(Fetch(st))
  BY Fetched, InputsAssumption, Zenon

(* A step keeps the invariant and is one OtbnHost allows. *)
LEMMA StepKeeps ==
  ASSUME SimInv, Alive
  PROVE  Good(StepState(st)) /\ HostStep(View(st), View(StepState(st)))
(* A cycle of a stall is invisible, or the start of the run. *)
<1>WaitedStep. ASSUME NEW s, Settled(s), s.running, NEW b, NEW t, Waited(s, b, t)
               PROVE  HostStep(View(s), View(t))
  <2>1. /\ t.pc = s.pc /\ t.gprs = s.gprs /\ t.wdrs = s.wdrs /\ t.flags = s.flags
        /\ t.wsrs.mod = s.wsrs.mod /\ t.wsrs.acc = s.wsrs.acc /\ t.dmem.data = s.dmem.data
        /\ t.running
    BY <1>WaitedStep DEF Waited
  <2>2. Regs(t) = Regs(s) /\ Status(t) = Status(s)
    BY <2>1, Zenon DEF Regs, Status
  <2>3. CASE t.startStall = s.startStall /\ t.ext = s.ext
    <3>1. Phase(t) = Phase(s)
      BY <1>WaitedStep, <2>1, <2>3, Zenon DEF Phase
    <3>2. View(t) = View(s)
      BY <2>1, <2>2, <2>3, <3>1, Zenon DEF View
    <3> QED
      BY <3>2, SameViewStep, Zenon
  <2>4. CASE s.startStall /\ ~t.startStall /\ t.ext.val = s.ext.next
    <3>1. Phase(s) = "starting" /\ Phase(t) = "busy"
      BY <1>WaitedStep, <2>1, <2>4, Zenon DEF Phase
    <3>2. /\ t.ext.val["STATUS"] = 1 /\ t.ext.val["INTR_STATE"] = s.ext.val["INTR_STATE"]
          /\ t.ext.val["ERR_BITS"] = s.ext.val["ERR_BITS"]
      BY <1>WaitedStep, <2>4, Zenon DEF Settled
    <3>3. Begins1(View(s), View(t))
      BY <2>1, <2>2, <3>1, <3>2, Zenon DEF Begins1, View
    <3> QED
      BY <3>3, Zenon DEF HostStep
  <2> QED
    BY <1>WaitedStep, <2>3, <2>4, Zenon DEF Waited
(* An instruction that retires is one of OtbnHost. *)
<1>RetiredStep. ASSUME NEW s, Settled(s), s.running, ~s.startStall, NEW t, Retired(s, t)
                PROVE  HostStep(View(s), View(t))
  <2>1. Phase(s) = "busy" /\ Phase(t) = "busy" /\ t.pc \in Pcs
    BY <1>RetiredStep, Zenon DEF Phase, Retired
  <2>2. /\ t.ext.val["STATUS"] = s.ext.val["STATUS"]
        /\ t.ext.val["INTR_STATE"] = s.ext.val["INTR_STATE"]
        /\ t.ext.val["ERR_BITS"] = s.ext.val["ERR_BITS"]
    BY <1>RetiredStep, Zenon DEF Retired, Settled
  <2>3. Retires1(View(s), View(t))
    BY <2>1, <2>2, Zenon DEF Retires1, View
  <2> QED
    BY <2>3 DEF HostStep
(* The end of a run is one of OtbnHost. *)
<1>HaltedStep. ASSUME NEW s, s.running, ~s.startStall, NEW t, Halted(s, t)
               PROVE  HostStep(View(s), View(t))
  <2>1. Phase(s) = "busy" /\ Phase(t) = "idle"
    BY <1>HaltedStep, Zenon DEF Phase, Halted
  <2>2. Regs(t) = Regs(s) /\ Status(t) = Status(s)
    BY <1>HaltedStep, Zenon DEF Regs, Status, Halted
  <2>3. /\ t.ext.val["STATUS"] = 0 /\ t.ext.val["INTR_STATE"] = 1 /\ t.pc = s.pc
        /\ t.dmem.data = s.dmem.data
    BY <1>HaltedStep, Zenon DEF Halted
  <2>4. t.ext.val["ERR_BITS"] \in SUBSET ErrNames
    BY <1>HaltedStep, Zenon DEF Halted, Settled, States, ExtStates, ExtRegs
  <2>5. Halts1(View(s), View(t))
    BY <2>1, <2>2, <2>3, <2>4, Zenon DEF Halts1, View
  <2> QED
    BY <2>5, Zenon DEF HostStep
<1> DEFINE t == StepState(st)
<1>1. Settled(st) /\ st.raised = None
  BY DEF SimInv, Alive
<1>2. CASE ~st.running
  <2>1. t = st
    BY <1>2 DEF StepState
  <2> QED
    BY <2>1, SameViewStep, Zenon DEF SimInv, Good
<1>3. CASE st.running /\ OutOfProgram(st)
  <2>1. Crashed(st, t)
    BY <1>1, <1>3, OutStep, ZenonT(30)
  <2> QED
    BY <2>1, CrashedView, SameViewStep, Zenon DEF Crashed, Good
<1>4. CASE st.running /\ ~OutOfProgram(st) /\ Stalls(st)
  <2>1. Waited(st, Begin(st), t)
    BY <1>1, <1>4, StallStep, Zenon
  <2>2. HostStep(View(st), View(t))
    BY <1>1, <1>4, <2>1, <1>WaitedStep, Zenon
  <2>3. Settled(t)
    BY <2>1, Zenon DEF Waited
  <2> QED
    BY <2>2, <2>3, Zenon DEF Settled, Good
<1>5. CASE st.running /\ ~OutOfProgram(st) /\ ~Stalls(st)
  <2> DEFINE d == Executed(st)
  <2>1. IsInsn(Fetch(st))
    BY <1>5, FetchInsn, Zenon
  <2>2. /\ ~st.startStall
        /\ d.raised # None => Crashed(st, t)
        /\ d.raised = None /\ d.halt => Halted(st, t)
        /\ d.raised = None /\ ~d.halt => Retired(st, t)
    BY <1>1, <1>5, <2>1, InsnStep, Zenon
  <2> HIDE DEF d, t
  <2>3. CASE Crashed(st, t)
    BY <2>3, CrashedView, SameViewStep, Zenon DEF Crashed, Good, t
  <2>4. CASE Halted(st, t)
    <3>1. HostStep(View(st), View(t))
      BY <1>5, <2>2, <2>4, <1>HaltedStep, Zenon
    <3> QED
      BY <2>4, <3>1, Zenon DEF Halted, Settled, Good, t
  <2>5. CASE Retired(st, t)
    <3>1. HostStep(View(st), View(t))
      BY <1>1, <1>5, <2>2, <2>5, <1>RetiredStep, Zenon
    <3> QED
      BY <2>5, <3>1, Zenon DEF Retired, Settled, Good, t
  <2> QED
    BY <2>2, <2>3, <2>4, <2>5, Zenon
<1> QED
  BY <1>2, <1>3, <1>4, <1>5, Zenon

(* The run loop serves a request for RND at once. *)
Fed(s) == IF s.wsrs.rndPending /\ s.raised = None THEN [s EXCEPT !.wsrs.rnd = TestRnd] ELSE s

(* Serving a request for RND shows the host nothing. *)
LEMMA FedKeeps ==
  ASSUME NEW s, Good(s)
  PROVE  /\ Good(Fed(s)) /\ View(Fed(s)) = View(s) /\ Fed(s).raised = s.raised
         /\ Fed(s).dmem = s.dmem /\ Fed(s).insnStall = s.insnStall /\ Fed(s).running = s.running
<1> DEFINE w == [s.wsrs EXCEPT !.rnd = TestRnd]
           t == [s EXCEPT !.wsrs = w]
<1>1. s \in States /\ s.wsrs \in WsrStates
  BY DEF Good, States
<1>2. w \in WsrStates /\ w.mod = s.wsrs.mod /\ w.acc = s.wsrs.acc
  BY <1>1, InputsAssumption, Zenon DEF WsrStates
<1>3. Fed(s) = t \/ Fed(s) = s
  BY DEF Fed
<1> HIDE DEF w
<1>4. /\ t \in States /\ t.wsrs = w /\ t.over = s.over /\ t.gprs = s.gprs /\ t.dmem = s.dmem
      /\ t.startStall = s.startStall /\ t.insnStall = s.insnStall /\ t.urndStall = s.urndStall
      /\ t.running = s.running /\ t.ext = s.ext /\ t.halt = s.halt /\ t.loops = s.loops
      /\ t.errBits = s.errBits /\ t.raised = s.raised /\ t.pc = s.pc /\ t.wdrs = s.wdrs
      /\ t.flags = s.flags
  BY <1>1, <1>2, Zenon DEF States
<1> HIDE DEF t
<1>5. Good(t)
  BY <1>4, Zenon DEF Good, Settled
<1>6. View(t) = View(s)
  BY <1>2, <1>4 DEF View, Phase, Regs, Status
<1> QED
  BY <1>3, <1>4, <1>5, <1>6, Zenon

(* The end of the reseed shows the host nothing. *)
LEMMA ReseedKeeps ==
  ASSUME NEW s, Good(s)
  PROVE  LET t == [s EXCEPT !.reseed = TRUE]
         IN /\ Good(t) /\ View(t) = View(s) /\ t.raised = s.raised /\ t.wsrs = s.wsrs
            /\ t.newRnd = s.newRnd /\ t.dmem = s.dmem /\ t.insnStall = s.insnStall
            /\ t.running = s.running
<1> DEFINE t == [s EXCEPT !.reseed = TRUE]
<1>1. s \in States
  BY DEF Good
<1>2. t \in States
  BY <1>1, Zenon DEF States
<1>3. /\ t.wsrs = s.wsrs /\ t.over = s.over /\ t.gprs = s.gprs /\ t.dmem = s.dmem
      /\ t.startStall = s.startStall /\ t.insnStall = s.insnStall /\ t.urndStall = s.urndStall
      /\ t.running = s.running /\ t.ext = s.ext /\ t.halt = s.halt /\ t.loops = s.loops
      /\ t.errBits = s.errBits /\ t.raised = s.raised /\ t.pc = s.pc /\ t.wdrs = s.wdrs
      /\ t.flags = s.flags /\ t.newRnd = s.newRnd
  BY SMTT(20)
<1> HIDE DEF t
<1>4. Good(t)
  BY <1>2, <1>3, ZenonT(60) DEF Good, Settled
<1>5. View(t) = View(s)
  BY <1>3 DEF View, Phase, Regs, Status
<1> QED
  BY <1>4, <1>5 DEF t

(* A word for RND shows the host nothing. *)
LEMMA NewRndKeeps ==
  ASSUME NEW s, Good(s), NEW n \in Int
  PROVE  LET t == [s EXCEPT !.newRnd = n]
         IN /\ Good(t) /\ View(t) = View(s) /\ t.raised = s.raised /\ t.wsrs = s.wsrs
            /\ t.newRnd = n /\ t.dmem = s.dmem /\ t.insnStall = s.insnStall
            /\ t.running = s.running
<1> DEFINE t == [s EXCEPT !.newRnd = n]
<1>1. s \in States
  BY DEF Good
<1>2. t \in States
  BY <1>1 DEF States
<1>3. /\ t.wsrs = s.wsrs /\ t.over = s.over /\ t.gprs = s.gprs /\ t.dmem = s.dmem
      /\ t.startStall = s.startStall /\ t.insnStall = s.insnStall /\ t.urndStall = s.urndStall
      /\ t.running = s.running /\ t.ext = s.ext /\ t.halt = s.halt /\ t.loops = s.loops
      /\ t.errBits = s.errBits /\ t.raised = s.raised /\ t.pc = s.pc /\ t.wdrs = s.wdrs
      /\ t.flags = s.flags /\ t.newRnd = n
  BY SMTT(20)
<1> HIDE DEF t
<1>4. Good(t)
  BY <1>2, <1>3, ZenonT(60) DEF Good, Settled
<1>5. View(t) = View(s)
  BY <1>3 DEF View, Phase, Regs, Status
<1> QED
  BY <1>4, <1>5 DEF t

(* A start keeps the invariant and is one OtbnHost allows. *)
LEMMA StartKeeps ==
  ASSUME SimInv, Alive, NEW a \in Nat
  PROVE  LET t == StartState([st EXCEPT !.ext = CommitExt(WriteExt(@, "START_ADDR", a, FALSE))])
         IN Good(t) /\ HostStep(View(st), View(t)) /\ Started(st, t)
(* A start is one of OtbnHost. *)
<1>StartedStep. ASSUME NEW s, Settled(s), NEW t, Started(s, t)
                PROVE  HostStep(View(s), View(t))
  <2>1. Phase(t) = "starting" /\ (Phase(s) = "starting") = s.startStall
    <3>1. s.startStall \in BOOLEAN /\ (s.startStall => s.running)
      BY <1>StartedStep, Zenon DEF Settled, States
    <3> QED
      BY <1>StartedStep, <3>1, Zenon DEF Phase, Started
  <2>2. Regs(t) = Regs(s) /\ Status(t) = <<InitFlags.val, 0, 0>>
    <3>1. Regs(t) = Regs(s)
      BY <1>StartedStep, Zenon DEF Regs, Started
    <3>2. t.flags = InitFlags /\ t.wsrs = InitWsrs
      BY <1>StartedStep, Zenon DEF Started
    <3>3. t.flags.val = InitFlags.val /\ t.wsrs.mod = 0 /\ t.wsrs.acc = 0
      BY <3>2 DEF InitWsrs
    <3>4. Status(t) = <<t.flags.val, t.wsrs.mod, t.wsrs.acc>>
      BY DEF Status
    <3> QED
      BY <3>1, <3>3, <3>4, Zenon
  <2>3. t.pc \in Int
    <3>1. t \in States
      BY <1>StartedStep, Zenon DEF Started, Settled
    <3> QED
      BY <3>1 DEF States
  <2>4. /\ t.ext.val["STATUS"] = IF s.startStall THEN 1 ELSE s.ext.val["STATUS"]
        /\ t.ext.val["INTR_STATE"] = s.ext.val["INTR_STATE"]
        /\ t.ext.val["ERR_BITS"] = s.ext.val["ERR_BITS"] /\ t.dmem = s.dmem
    BY <1>StartedStep DEF Started
  <2>5. Starts1(View(s), View(t))
    BY <2>1, <2>2, <2>3, <2>4, Zenon DEF Starts1, View
  <2> QED
    BY <2>5, Zenon DEF HostStep
<1> DEFINE t == StartState([st EXCEPT !.ext = CommitExt(WriteExt(@, "START_ADDR", a, FALSE))])
<1>1. Settled(st) /\ st.raised = None
  BY DEF SimInv, Alive
<1>2. Started(st, t)
  BY <1>1, StartStarted, Zenon
<1> HIDE DEF t
<1>3. HostStep(View(st), View(t))
  BY <1>1, <1>2, <1>StartedStep, Zenon
<1>4. Good(t)
  BY <1>2, Zenon DEF Started, Settled, Good
<1> QED
  BY <1>2, <1>3, <1>4, Zenon DEF t

(* Loading data keeps the invariant and is one OtbnHost allows. *)
LEMMA LoadKeeps ==
  ASSUME SimInv, Alive, NEW d \in Datas
  PROVE  Good(LoadData(st, d)) /\ HostStep(View(st), View(LoadData(st, d)))
<1> DEFINE t == LoadData(st, d)
<1>1. Settled(st) /\ st.raised = None /\ st \in States
  BY DEF SimInv, Alive
<1>2. \/ Crashed(st, t)
      \/ Settled(t) /\ t = [st EXCEPT !.dmem = t.dmem]
  BY <1>1, LoadDataSettled, Zenon
<1> HIDE DEF t
<1>3. CASE Crashed(st, t)
  BY <1>3, CrashedView, SameViewStep, Zenon DEF Crashed, Good, t
<1>4. CASE Settled(t) /\ t = [st EXCEPT !.dmem = t.dmem]
  <2>1. /\ t.running = st.running /\ t.startStall = st.startStall /\ t.ext = st.ext
        /\ t.pc = st.pc /\ t.gprs = st.gprs /\ t.wdrs = st.wdrs /\ t.flags = st.flags
        /\ t.wsrs = st.wsrs
    BY <1>1, <1>4, Zenon DEF States
  <2>2. Phase(t) = Phase(st) /\ Regs(t) = Regs(st) /\ Status(t) = Status(st)
    BY <2>1, Zenon DEF Phase, Regs, Status
  <2>3. Writes1(View(st), View(t))
    BY <2>1, <2>2, Zenon DEF View, Writes1
  <2>4. Good(t)
    BY <1>4 DEF Good, Settled
  <2> QED
    BY <2>3, <2>4 DEF HostStep, t
<1> QED
  BY <1>2, <1>3, <1>4, Zenon

(* The invariant holds at first, and the first view is one of OtbnHost. *)
LEMMA InitInv == Init => SimInv /\ Host!Init
<1> SUFFICES ASSUME Init PROVE SimInv /\ Host!Init
  BY Zenon
<1>1. SimInv
  BY InitStateSettled, Zenon DEF Init, SimInv, Settled
<1>2. Host!Init
  BY Zenon DEF Init, Host!Init, InitState, InitExt, ExtFields, InitWsrs
<1> QED
  BY <1>1, <1>2

(* Every command keeps the invariant and is one OtbnHost allows. *)
LEMMA NextInv ==
  ASSUME SimInv, [Next]_vars
  PROVE  SimInv' /\ HostStep(View(st), View(st'))
<1> DEFINE P == Programs \cup StatPrograms \cup {<< >>}
<1>1. SUFFICES Good(st') /\ program' \in P /\ words' \in Nat /\ HostStep(View(st), View(st'))
  BY DEF Good, SimInv, Alive
<1>2. Good(st) /\ program \in P /\ words \in Nat
  BY DEF SimInv, Alive, Good
<1>3. ASSUME st' = st, program' \in P, words' = words
      PROVE  Good(st') /\ program' \in P /\ words' \in Nat /\ HostStep(View(st), View(st'))
  BY <1>2, <1>3, SameViewStep, Zenon
<1>4. CASE on_step
  <2>1. Alive /\ st' = StepState(st) /\ program' = program /\ words' = words
    BY <1>4 DEF on_step, Repl
  <2> QED
    BY <1>2, <2>1, StepKeeps, Zenon
<1>5. CASE on_start
  <2>1. PICK a \in StartAddrs :
          st' = StartState([st EXCEPT !.ext = CommitExt(WriteExt(@, "START_ADDR", a, FALSE))])
    BY <1>5, Zenon DEF on_start
  <2>2. Alive /\ program' = program /\ words' = words /\ a \in Nat
    BY <1>5, InputsAssumption, Zenon DEF on_start, Repl
  <2> QED
    BY <1>2, <2>1, <2>2, StartKeeps, Zenon
<1>6. CASE on_load_i
  BY <1>3, <1>6, Zenon DEF on_load_i
<1>7. CASE on_load_d \/ on_load_elf \/ StandaloneLoad
  <2>1. Alive /\ program' \in P /\ words' = words
    BY <1>2, <1>7, Zenon DEF on_load_d, on_load_elf, StandaloneLoad, Repl
  <2>2. PICK d \in Datas : st' = LoadData(st, d)
    BY <1>7 DEF on_load_d, on_load_elf, StandaloneLoad
  <2> QED
    BY <1>2, <2>1, <2>2, LoadKeeps, Zenon
<1>8. CASE on_edn_rnd_data
  <2>1. st' = [st EXCEPT !.newRnd = words + 1] /\ program' = program /\ words' = words + 1
    BY <1>8 DEF on_edn_rnd_data
  <2>2. words + 1 \in Int /\ words + 1 \in Nat
    BY <1>2
  <2>3. Good(st') /\ View(st') = View(st)
    BY <1>2, <2>1, <2>2, NewRndKeeps, Zenon
  <2> QED
    BY <1>2, <2>1, <2>3, SameViewStep, SMTT(20)
<1>9. CASE on_edn_urnd_reseed_complete \/ on_run
  <2>1. st' = [st EXCEPT !.reseed = TRUE] /\ program' = program /\ words' = words
    BY <1>9 DEF on_edn_urnd_reseed_complete, on_run
  <2>2. Good(st') /\ View(st') = View(st)
    BY <1>2, <2>1, ReseedKeeps, Zenon
  <2> QED
    BY <1>2, <2>1, <2>2, SameViewStep, Zenon
<1>10. CASE RunStep
  <2>1. Alive /\ program' = program /\ words' = words
        /\ (st' = Raise(st, "assert in_loop()") \/ st' = Fed(StepState(st)))
    BY <1>10, Zenon DEF RunStep, Fed
  <2>2. CASE st' = Raise(st, "assert in_loop()")
    <3>1. "assert in_loop()" \in Exceptions /\ st \in States
      BY DEF Exceptions, SimInv
    <3>2. Crashed(st, st')
      BY <2>2, <3>1, RaiseCrashed, Zenon
    <3> QED
      BY <1>2, <2>1, <3>2, CrashedView, SameViewStep, Zenon DEF Crashed, Good
  <2>3. CASE st' = Fed(StepState(st))
    <3>1. Good(StepState(st)) /\ HostStep(View(st), View(StepState(st)))
      BY <2>1, StepKeeps, Zenon
    <3>2. Good(st') /\ View(st') = View(StepState(st))
      BY <2>3, <3>1, FedKeeps, Zenon
    <3> QED
      BY <1>2, <2>1, <3>1, <3>2, Zenon
  <2> QED
    BY <2>1, <2>2, <2>3, Zenon
<1>11. CASE RunEnds \/ Exited
  BY <1>2, <1>3, <1>11, Zenon DEF RunEnds, Exited, vars
<1>12. CASE StandaloneStart
  <2> DEFINE t == StartState([st EXCEPT !.ext = CommitExt(WriteExt(@, "START_ADDR", 0, FALSE))])
  <2>1. Alive /\ program' = program /\ words' = words /\ st' = [t EXCEPT !.reseed = TRUE]
    BY <1>12 DEF StandaloneStart
  <2>2. 0 \in Nat
    OBVIOUS
  <2>3. Good(t) /\ HostStep(View(st), View(t))
    BY <2>1, StartKeeps, Zenon
  <2> HIDE DEF t
  <2>4. Good(st') /\ View(st') = View(t)
    BY <2>1, <2>3, ReseedKeeps, Zenon
  <2> QED
    BY <1>2, <2>1, <2>3, <2>4, Zenon
<1>13. CASE UNCHANGED vars
  BY <1>2, <1>3, <1>13, Zenon DEF vars
<1> QED
  BY <1>4, <1>5, <1>6, <1>7, <1>8, <1>9, <1>10, <1>11, <1>12, <1>13, Zenon DEF Next

(* The simulator implements the host's view of OTBN: the busy bit, the
   interrupt, the error bits, the PC, memory and registers change
   together as OtbnHost says, whatever the program and the order of the
   commands. *)
THEOREM HostViewImplemented == Spec => HostView
<1>1. Init => SimInv /\ Host!Init
  BY InitInv
<1>2. SimInv /\ [Next]_vars => SimInv' /\ [Host!Next]_(Host!vars)
  BY NextInv, HostNext
<1> QED
  BY <1>1, <1>2, PTL DEF Spec, HostView, Host!Spec
=============================================================================
