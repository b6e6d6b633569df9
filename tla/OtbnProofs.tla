----------------------------- MODULE OtbnProofs -----------------------------
(***************************************************************************)
(* Three more invariants of the simulator of OTBN, for every program, every*)
(* width and every sequence of commands. They rest on SimInv: which        *)
(* exceptions end the simulator (AssertInv), which words of RND wait to be *)
(* read (RndInv), and how long the instruction at the PC has waited        *)
(* (CycInv).                                                               *)
(***************************************************************************)
EXTENDS OtbnHostProofs

(***************************************************************************)
(* The assertions of the simulator                                         *)
(***************************************************************************)
(* The one assertion that a program of the ISA can make fail: the
   statistics take the last loop of the stack after every LOOP, and a
   LOOP of zero iterations pushes none. *)
ZeroLoop ==
    /\ st.raised = "assert in_loop()" /\ mode = "stats" /\ ~OutOfProgram(st)
    /\ Fetch(st).op = "LOOP" /\ G(st, Fetch(st).grs) = 0

(* The exceptions that end the simulator, and the programs that are run
   with statistics. *)
AssertInv ==
    /\ SimInv /\ (AssertsHold \/ ZeroLoop)
    /\ mode \in {"loaded", "stats"} => program \in StatPrograms

(* No instruction of the programs can make an assertion of its own fail. *)
SafeInsns == \A p \in Programs \cup StatPrograms : \A k \in 1 .. Len(p) : AssertFree(p[k])

(* Every command keeps AssertInv. *)
LEMMA NextAsserts ==
  ASSUME AssertInv, [Next]_vars, SafeInsns
  PROVE  AssertInv'
(* step() raises only at the end of the program. *)
<1>StepAsserts. ASSUME SimInv, Alive,
                       \A p \in Programs \cup StatPrograms : \A k \in 1 .. Len(p) : AssertFree(p[k])
                PROVE  StepState(st).raised \in {None, "RuntimeError: out of program"}
  <2>1. Settled(st) /\ st.raised = None
    BY <1>StepAsserts DEF SimInv, Alive
  <2>2. CASE ~st.running
    BY <2>1, <2>2, Zenon DEF StepState
  <2>3. CASE st.running /\ OutOfProgram(st)
    BY <2>1, <2>3, OutStep, Zenon
  <2>4. CASE st.running /\ ~OutOfProgram(st) /\ Stalls(st)
    BY <2>1, <2>4, StallStep, Zenon DEF Waited
  <2>5. CASE st.running /\ ~OutOfProgram(st) /\ ~Stalls(st)
    <3>1. IsInsn(Fetch(st)) /\ AssertFree(Fetch(st))
      BY <1>StepAsserts, <2>5, FetchInsn, Fetched, Zenon
    <3>2. Executed(st).raised = None
      BY <2>1, <2>5, <3>1, InsnStep, Zenon DEF Done
    <3>3. Halted(st, StepState(st)) \/ Retired(st, StepState(st))
      BY <2>1, <2>5, <3>1, <3>2, InsnStep, Zenon
    <3> QED
      BY <3>3, Zenon DEF Halted, Retired
  <2> QED
    BY <2>2, <2>3, <2>4, <2>5, Zenon
(* The assertion of the statistics fails for a LOOP of zero iterations alone. *)
<1>StatsAsserts. ASSUME SimInv, Alive, SafeInsns, StatsAssertFails(st, TRUE)
                 PROVE  ~OutOfProgram(st) /\ Fetch(st).op = "LOOP" /\ G(st, Fetch(st).grs) = 0
  <2>1. Settled(st) /\ st.raised = None
    BY <1>StatsAsserts DEF SimInv, Alive
  <2>2. /\ st.running /\ ~OutOfProgram(st) /\ ~Stalls(st) /\ Fetch(st).op \in {"LOOP", "LOOPI"}
        /\ Executed(st).loops.stack = << >>
    BY <1>StatsAsserts DEF StatsAssertFails
  <2>3. IsInsn(Fetch(st)) /\ AssertFree(Fetch(st))
    BY <1>StatsAsserts, <2>2, FetchInsn, Fetched, Zenon DEF SafeInsns
  <2>4. Ready(st, Fetch(st))
    BY <2>2 DEF Stalls
  <2>5. ~(Fetch(st).op = "LOOP" => G(st, Fetch(st).grs) # 0)
    BY <2>1, <2>2, <2>3, <2>4, LoopPushes, Zenon
  <2> QED
    BY <2>2, <2>5
(* Loading data raises only for too much of it. *)
<1>LoadAsserts. ASSUME SimInv, Alive, NEW d \in Datas
                PROVE  LoadData(st, d).raised \in {None, "ValueError: too much data"}
  <2> DEFINE t == LoadData(st, d)
  <2>1. Settled(st) /\ st.raised = None /\ st \in States
    BY <1>LoadAsserts DEF SimInv, Alive
  <2>2. \/ t.raised = "ValueError: too much data"
        \/ t = [st EXCEPT !.dmem = t.dmem]
    BY <2>1, LoadDataSettled, Zenon
  <2> HIDE DEF t
  <2>3. ASSUME t = [st EXCEPT !.dmem = t.dmem] PROVE t.raised = None
    BY <2>1, <2>3 DEF States
  <2> QED
    BY <2>2, <2>3, Zenon DEF t
<1> DEFINE M == mode \in {"loaded", "stats"} => program \in StatPrograms
<1>1. SimInv /\ M /\ SimInv'
  BY NextInv DEF AssertInv
<1>2. SUFFICES (AssertsHold' \/ ZeroLoop') /\ M'
  BY <1>1 DEF AssertInv
<1>3. ASSUME st' = st, program' = program, mode' = mode PROVE (AssertsHold' \/ ZeroLoop') /\ M'
  BY <1>3, Zenon DEF AssertInv, AssertsHold, ZeroLoop, Fetch, OutOfProgram
<1>4. ASSUME st'.raised \in {None, "RuntimeError: out of program", "ValueError: too much data"}
      PROVE  AssertsHold'
  BY <1>4, Zenon DEF AssertsHold
<1>5. ASSUME Alive PROVE Good(st) /\ st.raised = None
  BY <1>1, <1>5 DEF SimInv, Alive, Good
<1>6. CASE on_step
  <2>1. Alive /\ st' = StepState(st) /\ program' = program /\ mode' = mode
    BY <1>6 DEF on_step, Repl
  <2>2. st'.raised \in {None, "RuntimeError: out of program"}
    BY <1>1, <2>1, <1>StepAsserts, Zenon DEF SafeInsns
  <2> QED
    BY <1>1, <1>4, <2>1, <2>2, Zenon
<1>7. CASE on_start
  <2>1. PICK a \in StartAddrs :
          st' = StartState([st EXCEPT !.ext = CommitExt(WriteExt(@, "START_ADDR", a, FALSE))])
    BY <1>7, Zenon DEF on_start
  <2>2. Alive /\ program' = program /\ mode' = mode /\ a \in Nat
    BY <1>7, InputsAssumption DEF on_start, Repl
  <2>3. st'.raised = None
    BY <1>1, <2>1, <2>2, StartKeeps, Zenon DEF Started
  <2> QED
    BY <1>1, <1>4, <2>2, <2>3, Zenon
<1>8. CASE on_load_i
  <2>1. Alive /\ mode = "repl" /\ mode' = mode /\ st' = st
    BY <1>8 DEF on_load_i, Repl
  <2>2. AssertsHold'
    BY <1>4, <1>5, <2>1, Zenon
  <2> QED
    BY <2>1, <2>2
<1>9. CASE on_load_d \/ on_load_elf \/ StandaloneLoad
  <2>1. PICK d \in Datas : st' = LoadData(st, d)
    BY <1>9 DEF on_load_d, on_load_elf, StandaloneLoad
  <2>2. Alive /\ M'
    BY <1>9 DEF on_load_d, on_load_elf, StandaloneLoad, Repl
  <2>3. st'.raised \in {None, "ValueError: too much data"}
    BY <1>1, <2>1, <2>2, <1>LoadAsserts, Zenon
  <2> QED
    BY <1>4, <2>2, <2>3, Zenon
<1>10. CASE on_edn_rnd_data
  <2>1. Alive /\ st' = [st EXCEPT !.newRnd = words + 1] /\ program' = program /\ mode' = mode
    BY <1>10 DEF on_edn_rnd_data, Repl
  <2>2. words + 1 \in Int
    BY <1>1 DEF SimInv
  <2>3. st'.raised = None
    BY <1>5, <2>1
  <2> QED
    BY <1>1, <1>4, <2>1, <2>3, Zenon
<1>11. CASE on_edn_urnd_reseed_complete \/ on_run
  <2>1. /\ Alive /\ st' = [st EXCEPT !.reseed = TRUE] /\ program' = program
        /\ mode' = mode \/ mode' = "run"
    BY <1>11 DEF on_edn_urnd_reseed_complete, on_run, Repl
  <2>2. st'.raised = None
    BY <1>5, <2>1
  <2> QED
    BY <1>1, <1>4, <2>1, <2>2, Zenon
<1>12. CASE RunStep
  <2>1. Alive /\ program' = program /\ mode' = mode
    BY <1>12, Zenon DEF RunStep
  <2>2. CASE StatsAssertFails(st, mode = "stats")
    <3>1. mode = "stats" /\ StatsAssertFails(st, TRUE)
      BY <2>2 DEF StatsAssertFails
    <3>2. ~OutOfProgram(st) /\ Fetch(st).op = "LOOP" /\ G(st, Fetch(st).grs) = 0
      BY <1>1, <2>1, <3>1, <1>StatsAsserts, SMTT(30)
    <3>3. st' = Raise(st, "assert in_loop()")
      BY <1>12, <2>2, Zenon DEF RunStep
    <3>4. st'.raised = "assert in_loop()" /\ st'.pc = st.pc /\ st'.gprs = st.gprs
      BY <1>1, <3>3, Zenon DEF Raise, SimInv, States
    <3>5. ZeroLoop'
      BY <2>1, <3>1, <3>2, <3>4, Zenon DEF ZeroLoop, Fetch, G, OutOfProgram
    <3> QED
      BY <1>1, <2>1, <3>5
  <2>3. CASE ~StatsAssertFails(st, mode = "stats")
    <3>1. st' = Fed(StepState(st))
      BY <1>12, <2>3 DEF RunStep, Fed
    <3>2. StepState(st).raised \in {None, "RuntimeError: out of program"}
      BY <1>1, <2>1, <1>StepAsserts, Zenon DEF SafeInsns
    <3>3. st'.raised = StepState(st).raised
      BY <1>1, <2>1, <3>1, StepKeeps, FedKeeps, Zenon
    <3> QED
      BY <1>1, <1>4, <2>1, <3>2, <3>3, Zenon
  <2> QED
    BY <2>2, <2>3
<1>13. CASE RunEnds
  <2>1. Alive /\ st' = st /\ mode' \in {"repl", "exit"}
    BY <1>13 DEF RunEnds
  <2> QED
    BY <1>4, <1>5, <2>1, Zenon
<1>14. CASE StandaloneStart
  <2> DEFINE t == StartState([st EXCEPT !.ext = CommitExt(WriteExt(@, "START_ADDR", 0, FALSE))])
  <2>1. Alive /\ program' = program /\ mode = "loaded" /\ st' = [t EXCEPT !.reseed = TRUE]
    BY <1>14 DEF StandaloneStart
  <2>2. 0 \in Nat
    OBVIOUS
  <2>3. Good(t) /\ t.raised = None
    BY <1>1, <2>1, StartKeeps, Zenon DEF Started
  <2> HIDE DEF t
  <2>4. st'.raised = None
    BY <2>1, <2>3
  <2> QED
    BY <1>1, <1>4, <2>1, <2>4, Zenon
<1>15. CASE Exited \/ UNCHANGED vars
  BY <1>3, <1>15 DEF Exited, vars
<1> QED
  BY <1>6, <1>7, <1>8, <1>9, <1>10, <1>11, <1>12, <1>13, <1>14, <1>15, Zenon DEF Next

(* For programs whose branch targets are not negative, whose CSRs exist
   and whose LOOPIs have iterations, no assertion of the simulator fails
   but one: in_loop(), when statistics are collected on a LOOP of zero
   iterations. *)
THEOREM OnlyZeroLoopsAssert ==
  ASSUME SafeInsns
  PROVE  Spec => [](AssertsHold \/ ZeroLoop)
<1>1. Init => AssertInv
  BY InitInv, InitStateSettled, Zenon DEF Init, AssertInv, AssertsHold
<1>2. AssertInv /\ [Next]_vars => AssertInv'
  BY NextAsserts
<1>3. AssertInv => AssertsHold \/ ZeroLoop
  BY DEF AssertInv
<1> QED
  BY <1>1, <1>2, <1>3, PTL DEF Spec

(* If moreover the programs run with statistics use no LOOP, the
   simulator's own assertions hold in every step. *)
THEOREM AssertsNeverFail ==
  ASSUME SafeInsns, \A p \in StatPrograms : \A k \in 1 .. Len(p) : p[k].op # "LOOP"
  PROVE  Spec => []AssertsHold
<1>1. Init => AssertInv
  BY InitInv, InitStateSettled, Zenon DEF Init, AssertInv, AssertsHold
<1>2. AssertInv /\ [Next]_vars => AssertInv'
  BY NextAsserts
<1>3. AssertInv => AssertsHold
  <2> SUFFICES ASSUME AssertInv, ZeroLoop PROVE FALSE
    BY DEF AssertInv
  <2>1. program \in StatPrograms /\ SimInv /\ ~OutOfProgram(st) /\ Fetch(st).op = "LOOP"
    BY Zenon DEF AssertInv, ZeroLoop
  <2> QED
    BY <2>1, Fetched
<1> QED
  BY <1>1, <1>2, <1>3, PTL DEF Spec

(***************************************************************************)
(* Entropy                                                                 *)
(***************************************************************************)
(* A word of RND that has been sent and not read. *)
Unread(v, q, n) == v \in 1 .. n /\ \A k \in 1 .. Len(q) : q[k] # v

(* The words read so far, all different. *)
Distinct(q, n) ==
    /\ q \in Seq(Int) /\ \A k \in 1 .. Len(q) : q[k] \in 1 .. n
    /\ \A j, k \in 1 .. Len(q) : q[j] = q[k] => j = k

(* The words that wait to be read have not been read, and are different. *)
RndGood(s, q, n) ==
    /\ Distinct(q, n)
    /\ s.raised = None =>
          /\ s.running /\ s.wsrs.rnd \notin {None, TestRnd} => Unread(s.wsrs.rnd, q, n)
          /\ s.newRnd # None =>
                /\ Unread(s.newRnd, q, n)
                /\ s.running /\ s.wsrs.rnd # TestRnd => s.newRnd # s.wsrs.rnd

(* The inductive invariant about RND. *)
RndInv == SimInv /\ RndGood(st, reads, words)

(* The words read after a step. *)
NewReads == IF /\ st.running /\ ~OutOfProgram(st) /\ ~Stalls(st)
               /\ ReadsRnd(Fetch(st)) /\ st.wsrs.rnd # TestRnd
            THEN Append(reads, st.wsrs.rnd) ELSE reads

(* Every command keeps the words apart. *)
LEMMA NextRnd ==
  ASSUME RndInv, [Next]_vars
  PROVE  RndInv'
(* Reading a word that was not read. *)
<1>ReadOne. ASSUME NEW n \in Nat, NEW q, Distinct(q, n), NEW v, Unread(v, q, n)
            PROVE  /\ Distinct(Append(q, v), n)
                   /\ \A w : Unread(w, q, n) /\ w # v => Unread(w, Append(q, v), n)
  <2> DEFINE r == Append(q, v)
  <2>1. q \in Seq(Int) /\ v \in Int /\ v \in 1 .. n
    BY <1>ReadOne DEF Distinct, Unread
  <2>2. /\ r \in Seq(Int) /\ Len(r) = Len(q) + 1 /\ Len(q) \in Nat /\ r[Len(q) + 1] = v
        /\ \A k \in 1 .. Len(q) : r[k] = q[k]
    BY <2>1
  <2> HIDE DEF r
  <2>3. \A k \in 1 .. Len(r) : k \in 1 .. Len(q) \/ k = Len(q) + 1
    BY <2>2
  <2>4. Distinct(r, n)
    <3>1. \A k \in 1 .. Len(r) : r[k] \in 1 .. n
      BY <1>ReadOne, <2>1, <2>2, <2>3, Zenon DEF Distinct
    <3>2. ASSUME NEW j \in 1 .. Len(r), NEW k \in 1 .. Len(r), r[j] = r[k] PROVE j = k
      BY <1>ReadOne, <2>2, <2>3, <3>2, Zenon DEF Distinct, Unread
    <3> QED
      BY <2>2, <3>1, <3>2 DEF Distinct
  <2>5. ASSUME NEW w, Unread(w, q, n), w # v PROVE Unread(w, r, n)
    BY <2>2, <2>3, <2>5, Zenon DEF Unread
  <2> QED
    BY <2>4, <2>5 DEF r
(* Taking the word the host has sent keeps the words apart. *)
<1>TakenRnd. ASSUME NEW s, NEW t, NEW q, NEW n \in Nat, RndGood(s, q, n), s.raised = None,
                    s.running, Taken(s, t)
             PROVE  RndGood(t, q, n)
  <2>1. CASE s.newRnd = None
    BY <1>TakenRnd DEF RndGood, Taken
  <2>2. CASE s.newRnd # None
    <3>1. s.newRnd # 0
      BY <1>TakenRnd, <2>2 DEF RndGood, Unread
    <3>2. t.newRnd = None /\ t.wsrs.rnd = s.newRnd
      BY <1>TakenRnd, <2>2, <3>1, Zenon DEF Taken
    <3> QED
      BY <1>TakenRnd, <3>2, Zenon DEF RndGood
  <2> QED
    BY <2>1, <2>2
(* After a crash only the words read matter. *)
<1>CrashedRnd. ASSUME NEW s, NEW q, NEW n, Distinct(q, n), s.raised # None PROVE RndGood(s, q, n)
    BY <1>CrashedRnd DEF RndGood
(* A step reads a word at most once: reading it takes it out of the cache, unless the run ends. *)
<1>StepRnd. ASSUME RndInv, Alive
            PROVE  RndGood(StepState(st), NewReads, words)
  <2> DEFINE t == StepState(st)
  <2>1. /\ Settled(st) /\ st.raised = None /\ SimInv /\ words \in Nat /\ Distinct(reads, words)
        /\ RndGood(st, reads, words)
    BY <1>StepRnd DEF RndInv, SimInv, Alive, RndGood
  <2>2. CASE ~st.running
    <3>1. t = st /\ NewReads = reads
      BY <2>2 DEF StepState, NewReads
    <3> QED
      BY <2>1, <3>1
  <2>3. CASE st.running /\ OutOfProgram(st)
    <3>1. t.raised # None
      BY <2>1, <2>3, OutStep, Zenon DEF Crashed
    <3>2. NewReads = reads
      BY <2>3 DEF NewReads
    <3> QED
      BY <2>1, <3>1, <3>2, <1>CrashedRnd, Zenon
  <2>4. CASE st.running /\ ~OutOfProgram(st) /\ Stalls(st)
    <3>1. Taken(st, t)
      BY <2>1, <2>4, StallStep, Zenon DEF Waited
    <3>2. NewReads = reads
      BY <2>4 DEF NewReads
    <3> QED
      BY <2>1, <2>4, <3>1, <3>2, <1>TakenRnd, Zenon
  <2>5. CASE st.running /\ ~OutOfProgram(st) /\ ~Stalls(st)
    <3> DEFINE d == Executed(st)
    <3>1. IsInsn(Fetch(st))
      BY <2>1, <2>5, FetchInsn, Zenon
    <3>2. /\ Ready(st, Fetch(st)) /\ Done(st, d, Fetch(st))
          /\ d.raised # None => t = d
          /\ d.raised = None /\ d.halt => Halted(st, t)
          /\ d.raised = None /\ ~d.halt =>
                /\ Retired(st, t)
                /\ IF d.wsrs.rndRead THEN t.wsrs.rnd = None ELSE Taken(st, t)
                /\ t.newRnd = IF st.newRnd = 0 THEN 0 ELSE None
      BY <2>1, <2>5, <3>1, InsnStep, Zenon
    <3>3. ReadsRnd(Fetch(st)) => st.wsrs.rnd \notin {None, 0}
      <4>1. ReadsRnd(Fetch(st)) => Fetch(st).op \notin LoadOps
        BY DEF ReadsRnd, LoadOps
      <4> QED
        BY <3>2 DEF Ready, RndReady
    <3>4. d.raised = None /\ ReadsRnd(Fetch(st)) => d.wsrs.rndRead
      BY <3>2, Zenon DEF Done
    <3> HIDE DEF d, t
    <3>5. CASE ReadsRnd(Fetch(st)) /\ st.wsrs.rnd # TestRnd
      <4>1. NewReads = Append(reads, st.wsrs.rnd)
        BY <2>5, <3>5, Zenon DEF NewReads
      <4>2. Unread(st.wsrs.rnd, reads, words)
        BY <2>1, <2>5, <3>3, <3>5, Zenon DEF RndGood
      <4>3. /\ Distinct(NewReads, words)
            /\ \A w : Unread(w, reads, words) /\ w # st.wsrs.rnd => Unread(w, NewReads, words)
        BY <2>1, <4>1, <4>2, <1>ReadOne, Zenon
      <4>4. st.newRnd # None => Unread(st.newRnd, NewReads, words)
        BY <2>1, <2>5, <3>5, <4>3, Zenon DEF RndGood
      <4>5. CASE t.raised # None
        BY <4>3, <4>5, <1>CrashedRnd, Zenon DEF t
      <4>6. CASE Halted(st, t)
        BY <4>3, <4>4, <4>6, Zenon DEF Halted, RndGood, t
      <4>7. CASE Retired(st, t) /\ d.raised = None /\ ~d.halt
        <5>1. t.wsrs.rnd = None /\ t.newRnd = IF st.newRnd = 0 THEN 0 ELSE None
          BY <3>2, <3>4, <3>5, <4>7, Zenon
        <5>2. st.newRnd # 0
          BY <2>1, NoneAssumption DEF RndGood, Unread
        <5> QED
          BY <4>3, <5>1, <5>2, Zenon DEF RndGood, t
      <4> QED
        BY <3>2, <4>5, <4>6, <4>7, Zenon
    <3>6. CASE ~(ReadsRnd(Fetch(st)) /\ st.wsrs.rnd # TestRnd)
      <4>1. NewReads = reads
        BY <3>6 DEF NewReads
      <4>2. CASE t.raised # None
        BY <2>1, <4>1, <4>2, <1>CrashedRnd, Zenon DEF t
      <4>3. CASE Halted(st, t)
        BY <2>1, <4>1, <4>3, Zenon DEF Halted, RndGood, t
      <4>4. CASE Retired(st, t) /\ d.raised = None /\ ~d.halt
        <5>1. CASE d.wsrs.rndRead
          <6>1. t.wsrs.rnd = None /\ t.newRnd = IF st.newRnd = 0 THEN 0 ELSE None
            BY <3>2, <4>4, <5>1, Zenon
          <6>2. st.newRnd # 0
            BY <2>1, NoneAssumption DEF RndGood, Unread
          <6> QED
            BY <2>1, <4>1, <6>1, Zenon DEF RndGood, t
        <5>2. CASE ~d.wsrs.rndRead
          BY <2>1, <2>5, <3>2, <4>1, <4>4, <5>2, <1>TakenRnd, Zenon DEF t
        <5> QED
          BY <5>1, <5>2, Zenon
      <4> QED
        BY <3>2, <4>2, <4>3, <4>4, Zenon
    <3> QED
      BY <3>5, <3>6
  <2> QED
    BY <2>2, <2>3, <2>4, <2>5, Zenon
(* What leaves RND alone keeps the words apart. *)
<1>SameRnd. ASSUME NEW s, NEW t, NEW q, NEW n, RndGood(s, q, n), t.raised = s.raised,
                   t.wsrs = s.wsrs,
                   t.newRnd = s.newRnd, t.running = s.running
            PROVE  RndGood(t, q, n)
    BY <1>SameRnd DEF RndGood
(* A start drops the word in the cache; the one on its way stays. *)
<1>StartedRnd. ASSUME NEW s, NEW t, NEW q, NEW n, RndGood(s, q, n), s.raised = None, Started(s, t)
               PROVE  RndGood(t, q, n)
  <2>1. t.wsrs.rnd = None /\ t.newRnd = s.newRnd
    BY <1>StartedRnd DEF Started, InitWsrs
  <2> QED
    BY <1>StartedRnd, <2>1, Zenon DEF RndGood
<1>1. SimInv /\ RndGood(st, reads, words) /\ SimInv' /\ words \in Nat
  BY NextInv DEF RndInv, SimInv
<1>2. SUFFICES RndGood(st', reads', words')
  BY <1>1 DEF RndInv
<1>3. ASSUME Alive PROVE Good(st) /\ st.raised = None
  BY <1>1, <1>3 DEF SimInv, Alive, Good
<1>4. ASSUME StepHistory PROVE reads' = NewReads
  BY <1>4 DEF StepHistory, NewReads
<1>5. CASE on_step
  <2>1. Alive /\ st' = StepState(st) /\ words' = words /\ reads' = NewReads
    BY <1>4, <1>5 DEF on_step, Repl
  <2> QED
    BY <2>1, <1>StepRnd
<1>6. CASE on_start
  <2>1. PICK a \in StartAddrs :
          st' = StartState([st EXCEPT !.ext = CommitExt(WriteExt(@, "START_ADDR", a, FALSE))])
    BY <1>6, Zenon DEF on_start
  <2>2. Alive /\ words' = words /\ reads' = reads /\ a \in Nat
    BY <1>6, InputsAssumption DEF on_start, Repl
  <2>3. Started(st, st')
    BY <1>1, <2>1, <2>2, StartKeeps, Zenon
  <2> QED
    BY <1>1, <1>3, <2>2, <2>3, <1>StartedRnd, Zenon
<1>7. CASE on_load_d \/ on_load_elf \/ StandaloneLoad
  <2>1. PICK d \in Datas : st' = LoadData(st, d)
    BY <1>7 DEF on_load_d, on_load_elf, StandaloneLoad
  <2>2. Alive /\ words' = words /\ reads' = reads
    BY <1>7 DEF on_load_d, on_load_elf, StandaloneLoad, Repl
  <2>3. Settled(st) /\ st.raised = None /\ st \in States
    BY <1>1, <2>2 DEF SimInv, Alive
  <2> DEFINE t == LoadData(st, d)
  <2>4. Crashed(st, t) \/ t = [st EXCEPT !.dmem = t.dmem]
    BY <2>3, LoadDataSettled, Zenon
  <2> HIDE DEF t
  <2>5. CASE Crashed(st, t)
    BY <1>1, <2>1, <2>2, <2>5, Zenon DEF Crashed, RndGood, t
  <2>6. CASE t = [st EXCEPT !.dmem = t.dmem]
    <3>1. t.raised = st.raised /\ t.wsrs = st.wsrs /\ t.newRnd = st.newRnd /\ t.running = st.running
      BY <2>3, <2>6 DEF States
    <3> QED
      BY <1>1, <2>1, <2>2, <3>1, <1>SameRnd, Zenon DEF t
  <2> QED
    BY <2>4, <2>5, <2>6, Zenon
<1>8. CASE on_edn_rnd_data
  <2>1. /\ Alive /\ st' = [st EXCEPT !.newRnd = words + 1] /\ words' = words + 1 /\ reads' = reads
        /\ st.wsrs.rnd = None
    BY <1>8 DEF on_edn_rnd_data, Repl
  <2>2. words + 1 \in Int
    BY <1>1
  <2>3. st'.raised = None /\ st'.wsrs = st.wsrs /\ st'.newRnd = words + 1
    BY <1>3, <2>1
  <2>4. Distinct(reads, words + 1)
    BY <1>1 DEF RndGood, Distinct
  <2>5. Unread(words + 1, reads, words + 1)
    BY <1>1 DEF RndGood, Distinct, Unread
  <2>6. words + 1 # None
    BY <2>2, NoneAssumption
  <2> QED
    BY <2>1, <2>4, <2>5 DEF RndGood
<1>9. CASE on_edn_urnd_reseed_complete \/ on_run
  <2>1. Alive /\ st' = [st EXCEPT !.reseed = TRUE] /\ words' = words /\ reads' = reads
    BY <1>9 DEF on_edn_urnd_reseed_complete, on_run, Repl
  <2>2. /\ st'.raised = st.raised /\ st'.wsrs = st.wsrs /\ st'.newRnd = st.newRnd
        /\ st'.running = st.running
    BY <2>1
  <2> QED
    BY <1>1, <2>1, <2>2, <1>SameRnd, Zenon
<1>10. CASE RunStep
  <2>1. /\ Alive /\ words' = words /\ reads' = NewReads
        /\ (st' = Raise(st, "assert in_loop()") \/ st' = Fed(StepState(st)))
    BY <1>4, <1>10, Zenon DEF RunStep, Fed
  <2>2. RndGood(StepState(st), NewReads, words)
    BY <2>1, <1>StepRnd, Zenon
  <2>3. CASE st' = Raise(st, "assert in_loop()")
    <3>1. "assert in_loop()" \in Exceptions /\ st \in States
      BY <1>1 DEF Exceptions, SimInv
    <3>2. st'.raised # None
      BY <2>3, <3>1, RaiseCrashed, Zenon DEF Crashed
    <3>3. Distinct(NewReads, words)
      BY <2>2 DEF RndGood
    <3> QED
      BY <2>1, <3>2, <3>3, <1>CrashedRnd, Zenon
  <2>4. CASE st' = Fed(StepState(st))
    <3> DEFINE t == StepState(st)
    <3>1. t \in States /\ t.wsrs \in WsrStates
      BY <1>1, <2>1, StepKeeps, Zenon DEF Good, States
    <3> HIDE DEF t
    <3>2. \/ st' = t
          \/ st'.raised = t.raised /\ st'.newRnd = t.newRnd /\ st'.wsrs.rnd = TestRnd
      BY <2>4 DEF Fed, t
    <3> QED
      BY <2>1, <2>2, <3>2, Zenon DEF RndGood, t
  <2> QED
    BY <2>1, <2>3, <2>4, Zenon
<1>11. CASE StandaloneStart
  <2> DEFINE t == StartState([st EXCEPT !.ext = CommitExt(WriteExt(@, "START_ADDR", 0, FALSE))])
  <2>1. Alive /\ words' = words /\ reads' = reads /\ st' = [t EXCEPT !.reseed = TRUE]
    BY <1>11 DEF StandaloneStart
  <2>2. 0 \in Nat
    OBVIOUS
  <2>3. Good(t) /\ Started(st, t)
    BY <1>1, <2>1, StartKeeps, Zenon
  <2> HIDE DEF t
  <2>4. st'.raised = t.raised /\ st'.wsrs = t.wsrs /\ st'.newRnd = t.newRnd
        /\ st'.running = t.running
    BY <2>1
  <2>5. RndGood(t, reads, words)
    BY <1>1, <1>3, <2>1, <2>3, <1>StartedRnd, Zenon
  <2> QED
    BY <2>1, <2>4, <2>5, <1>SameRnd, Zenon
<1>12. CASE on_load_i \/ RunEnds \/ Exited \/ UNCHANGED vars
  BY <1>1, <1>12 DEF on_load_i, RunEnds, Exited, vars
<1> QED
  BY <1>5, <1>6, <1>7, <1>8, <1>9, <1>10, <1>11, <1>12, Zenon DEF Next

(* No word of entropy is read twice, across restarts, stalls and faults,
   for every program and every number of words. *)
THEOREM EntropyReadOnce == Spec => []RndFresh
<1>1. Init => RndInv
  <2> SUFFICES ASSUME Init PROVE RndInv
    BY Zenon
  <2>1. st.newRnd = None /\ ~st.running /\ reads = << >> /\ SimInv
    BY InitInv DEF Init, InitState
  <2>2. Distinct(reads, words)
    BY <2>1 DEF Distinct
  <2> QED
    BY <2>1, <2>2 DEF RndInv, RndGood
<1>2. RndInv /\ [Next]_vars => RndInv'
  BY NextRnd
<1>3. RndInv => RndFresh
  BY DEF RndInv, RndGood, Distinct, RndFresh
<1> QED
  BY <1>1, <1>2, <1>3, PTL DEF Spec

(***************************************************************************)
(* Cycles                                                                  *)
(***************************************************************************)
(* What the history of cycles may record. *)
Mnemonics == {None} \cup UNION {{p[k].op : k \in 1 .. Len(p)} : p \in Programs \cup StatPrograms}

Lasts == [op : Mnemonics, waited : 0 .. 2, now : 0 .. 2]

(* The instruction that retired last has waited as CyclesAccounted says. *)
LastGood(l) ==
    /\ l \in Lasts
    /\ l.op \in LoadOps => l.waited = 1
    /\ l.op \notin LoadOps \cup {"BN.WSRR", "CSRRS", "CSRRW"} => l.waited = 0

(* How long the instruction at the PC has waited: not at all; one cycle,
   and its load is ready; or any time, for RND. *)
Counted(s, n) ==
    \/ ~s.dmem.ready /\ n = 0
    \/ ~OutOfProgram(s) /\ Fetch(s).op \in LoadOps /\ s.dmem.ready /\ n = 1
    \/ ~OutOfProgram(s) /\ ReadsRnd(Fetch(s)) /\ ~s.dmem.ready

(* No load is under way between two steps, and the cycles waited are
   those of Counted. *)
LoadsGood(s, n) ==
    s.raised = None => ~s.dmem.begun /\ (s.running /\ ~s.insnStall => Counted(s, n))

(* The statistics add up. *)
StatsGood(t) ==
    /\ t = [insns |-> t.insns, stalls |-> t.stalls, calls |-> t.calls, loops |-> t.loops,
            bb |-> t.bb, curBb |-> t.curBb, ebb |-> t.ebb, curEbb |-> t.curEbb]
    /\ t.insns \in Int /\ t.bb \in Int /\ t.curBb \in Int /\ t.ebb \in Int /\ t.curEbb \in Int
    /\ t.bb + t.curBb = t.insns /\ t.ebb + t.curEbb = t.insns

(* The inductive invariant about cycles. A program is replaced only while
   none runs. *)
CycInv ==
    /\ SimInv /\ LastGood(last) /\ StatsGood(stats) /\ LoadsGood(st, last.now)
    /\ mode \in {"repl", "run"} => starts \in Nat /\ (starts = 0 /\ st.raised = None => ~st.running)

(* The history of cycles after a step. *)
Retires == st.running /\ ~OutOfProgram(st) /\ ~Stalls(st)

NewLast == IF Retires THEN [op |-> Fetch(st).op, waited |-> last.now, now |-> 0]
           ELSE IF st.running /\ ~st.insnStall
           THEN [last EXCEPT !.now = IF @ = 2 THEN 2 ELSE @ + 1]
           ELSE [last EXCEPT !.now = 0]

(* New statistics add up. *)
LEMMA InitStatsGood == StatsGood(InitStats)
  BY DEF InitStats, StatsGood

(* Every command keeps the count. *)
LEMMA NextCycles ==
  ASSUME CycInv, [Next]_vars
  PROVE  CycInv'
(* Recording a stall changes no block. *)
<1>StallGood. ASSUME NEW t, StatsGood(t) PROVE StatsGood(RecordStall(t))
    BY <1>StallGood, SMTT(30) DEF StatsGood, RecordStall
(* Recording an instruction adds it to one basic block and one extended basic block. *)
<1>InsnGood. ASSUME NEW t, StatsGood(t), NEW s, NEW i, NEW p PROVE StatsGood(RecordInsn(t, s, i, p))
  <2> DEFINE jump == i.op \in {"JAL", "JALR"}
             branch == i.op \in {"BEQ", "BNE"}
             endsBb == jump \/ branch \/ IsLastInsn(s.loops, s.pc) \/ i.op = "ECALL"
             endsEbb == branch \/ EndsLoop(s, p) \/ i.op = "ECALL"
             r == RecordInsn(t, s, i, p)
  <2>1. /\ r = [insns |-> r.insns, stalls |-> r.stalls, calls |-> r.calls, loops |-> r.loops,
                bb |-> r.bb, curBb |-> r.curBb, ebb |-> r.ebb, curEbb |-> r.curEbb]
        /\ r.insns = t.insns + 1
        /\ r.bb = (IF endsBb THEN t.bb + t.curBb + 1 ELSE t.bb)
        /\ r.curBb = (IF endsBb THEN 0 ELSE t.curBb + 1)
        /\ r.ebb = (IF endsEbb THEN t.ebb + t.curEbb + 1 ELSE t.ebb)
        /\ r.curEbb = (IF endsEbb THEN 0 ELSE t.curEbb + 1)
    BY Zenon DEF RecordInsn
  <2> HIDE DEF r, endsBb, endsEbb
  <2> QED
    BY <1>InsnGood, <2>1 DEF StatsGood, r
(* The statistics add up after a step. *)
<1>StepStatsGood. ASSUME StatsGood(stats), NEW s, NEW c PROVE StatsGood(StepStats(s, c))
    BY <1>StepStatsGood, <1>StallGood, <1>InsnGood, Zenon DEF StepStats
(* What is fetched has a known mnemonic. *)
<1>FetchedOp. ASSUME SimInv, ~OutOfProgram(st) PROVE Fetch(st).op \in Mnemonics
    BY <1>FetchedOp, Fetched, SMTT(30) DEF Mnemonics
(* How the count of cycles goes on. *)
<1>NewNow. ASSUME LastGood(last)
           PROVE  /\ Retires => NewLast.now = 0
                  /\ ~Retires => /\ LastGood(NewLast)
                                 /\ st.running /\ ~st.insnStall
                                    => NewLast.now = IF last.now = 2 THEN 2 ELSE last.now + 1
                                 /\ st.insnStall => NewLast.now = 0
  <2>1. CASE Retires
    BY <2>1 DEF NewLast
  <2>2. CASE ~Retires
    <3> DEFINE n == IF st.running /\ ~st.insnStall
                      THEN (IF last.now = 2 THEN 2 ELSE last.now + 1) ELSE 0
    <3>1. NewLast = [last EXCEPT !.now = n]
      BY <2>2 DEF NewLast
    <3>2. n \in 0 .. 2
      BY <1>NewNow DEF LastGood, Lasts
    <3> HIDE DEF n
    <3>3. NewLast \in Lasts /\ NewLast.op = last.op /\ NewLast.waited = last.waited
          /\ NewLast.now = n
      BY <1>NewNow, <3>1, <3>2, Zenon DEF LastGood, Lasts
    <3>4. LastGood(NewLast)
      BY <1>NewNow, <3>3 DEF LastGood
    <3> QED
      BY <2>2, <3>3, <3>4, Zenon DEF n
  <2> QED
    BY <2>1, <2>2
(* A stalled cycle counts as Counted says: a load that begins is ready in the next cycle. *)
<1>StallLoads. ASSUME CycInv, Alive, st.running, ~OutOfProgram(st), Stalls(st)
               PROVE  LoadsGood(StepState(st), NewLast.now)
  <2> DEFINE t == StepState(st)
             b == Begin(st)
  <2>1. /\ Settled(st) /\ st.raised = None /\ LastGood(last) /\ ~st.dmem.begun /\ SimInv
        /\ ~st.insnStall => Counted(st, last.now)
    BY <1>StallLoads DEF CycInv, SimInv, Alive, LoadsGood
  <2>2. Asked(st, b) /\ Waited(st, b, t)
    BY <1>StallLoads, <2>1, StallStep, Zenon
  <2>3. ~Retires
    BY <1>StallLoads DEF Retires
  <2>4. t.insnStall = t.startStall /\ st.insnStall = st.startStall
        /\ (st.urndStall => st.startStall)
    BY <2>1, <2>2, Zenon DEF Waited, Settled
  <2>5. t.pc = st.pc /\ t.raised = None
    BY <2>2 DEF Waited
  <2>6. OutOfProgram(t) = OutOfProgram(st) /\ Fetch(t) = Fetch(st)
    BY <2>5, Zenon DEF OutOfProgram, Fetch
  <2>7. CASE st.urndStall
    <3>1. st.insnStall
      BY <2>4, <2>7
    <3>2. b = st
      BY <3>1, Zenon DEF Begin
    <3>3. t.dmem = b.dmem /\ t.startStall
      BY <2>2, <2>7, Zenon DEF Waited
    <3> QED
      BY <2>1, <2>4, <3>2, <3>3, Zenon DEF LoadsGood
  <2>8. CASE ~st.urndStall /\ st.insnStall
    <3>1. b = st
      BY <2>8, Zenon DEF Begin
    <3>2. ~t.dmem.begun /\ t.dmem.ready = b.dmem.begun
      BY <2>2, <2>8 DEF Waited
    <3>3. NewLast.now = 0
      BY <2>1, <2>8, <1>NewNow, Zenon
    <3>4. ~t.dmem.ready
      BY <2>1, <3>1, <3>2, Zenon
    <3> QED
      BY <3>2, <3>3, <3>4, Zenon DEF LoadsGood, Counted
  <2>9. CASE ~st.urndStall /\ ~st.insnStall
    <3>1. st \in States /\ b = PreExecute(st, Fetch(st))
      BY <2>1, <2>9 DEF Begin, Settled
    <3>2. b.dmem.begun = (st.dmem.begun \/ (Fetch(st).op \in LoadOps /\ ~st.dmem.ready))
      BY <3>1, PreExecuteAsked, ZenonT(60)
    <3>3. ~t.dmem.begun /\ t.dmem.ready = b.dmem.begun
      BY <2>2, <2>9 DEF Waited
    <3>4. ~Ready(st, Fetch(st))
      BY <1>StallLoads, <2>9 DEF Stalls
    <3>5. NewLast.now = IF last.now = 2 THEN 2 ELSE last.now + 1
      BY <1>StallLoads, <2>1, <2>3, <2>9, <1>NewNow, Zenon
    <3> HIDE DEF t, b
    <3>6. CASE Fetch(st).op \in LoadOps
      <4>1. ~st.dmem.ready /\ ~ReadsRnd(Fetch(st))
        BY <3>4, <3>6, Zenon DEF Ready, ReadsRnd, LoadOps
      <4>2. last.now = 0
        BY <2>1, <2>9, <4>1, Zenon DEF Counted
      <4>3. NewLast.now = 1
        BY <3>5, <4>2
      <4>4. t.dmem.ready
        BY <3>2, <3>3, <3>6, <4>1, Zenon
      <4>5. Counted(t, NewLast.now)
        BY <1>StallLoads, <2>6, <3>6, <4>3, <4>4, Zenon DEF Counted
      <4> QED
        BY <3>3, <4>5, Zenon DEF LoadsGood, t
    <3>7. CASE Fetch(st).op \notin LoadOps
      <4>1. ReadsRnd(Fetch(st))
        BY <3>4, <3>7 DEF Ready
      <4>2. ~t.dmem.ready
        BY <2>1, <3>2, <3>3, <3>7, Zenon
      <4>3. Counted(t, NewLast.now)
        BY <1>StallLoads, <2>6, <4>1, <4>2, Zenon DEF Counted
      <4> QED
        BY <3>3, <4>3 DEF LoadsGood, t
    <3> QED
      BY <3>6, <3>7, ZenonT(60)
  <2> QED
    BY <2>7, <2>8, <2>9, Zenon
(* An instruction that retires has waited as LastGood says. *)
<1>RetireLast. ASSUME CycInv, Alive, Retires
               PROVE  LastGood(NewLast)
  <2> DEFINE i == Fetch(st)
  <2>1. /\ Settled(st) /\ LastGood(last) /\ SimInv /\ st.running /\ ~OutOfProgram(st)
           /\ ~st.insnStall
        /\ Ready(st, i) /\ Counted(st, last.now)
    BY <1>RetireLast DEF CycInv, SimInv, Alive, LoadsGood, Retires, Stalls
  <2>2. NewLast = [op |-> i.op, waited |-> last.now, now |-> 0]
    BY <1>RetireLast, Zenon DEF NewLast
  <2>3. NewLast \in Lasts
    <3>1. i.op \in Mnemonics
      BY <2>1, <1>FetchedOp, Zenon
    <3>2. last.now \in 0 .. 2 /\ 0 \in 0 .. 2
      BY <2>1 DEF LastGood, Lasts
    <3> HIDE DEF i
    <3> QED
      BY <2>2, <3>1, <3>2, Zenon DEF Lasts
  <2>4. NewLast.op = i.op /\ NewLast.waited = last.now
    BY <2>2
  <2>5. i.op \in LoadOps => last.now = 1
    <3> SUFFICES ASSUME i.op \in LoadOps PROVE last.now = 1
      OBVIOUS
    <3>1. ~ReadsRnd(i)
      BY DEF ReadsRnd, LoadOps
    <3>2. st.dmem.ready
      BY <2>1, <3>1, Zenon DEF Ready
    <3> QED
      BY <2>1, <3>2 DEF Counted
  <2>6. i.op \notin LoadOps \cup {"BN.WSRR", "CSRRS", "CSRRW"} => last.now = 0
    <3> SUFFICES ASSUME i.op \notin LoadOps \cup {"BN.WSRR", "CSRRS", "CSRRW"} PROVE last.now = 0
      OBVIOUS
    <3>1. ~ReadsRnd(i)
      BY DEF ReadsRnd
    <3> QED
      BY <2>1, <3>1, Zenon DEF Counted
  <2> QED
    BY <2>3, <2>4, <2>5, <2>6, Zenon DEF LastGood
(* A step counts its cycle. *)
<1>StepCycles. ASSUME CycInv, Alive
               PROVE  LastGood(NewLast) /\ LoadsGood(StepState(st), NewLast.now)
  <2> DEFINE t == StepState(st)
  <2>1. Settled(st) /\ st.raised = None /\ LastGood(last) /\ ~st.dmem.begun /\ SimInv
    BY <1>StepCycles DEF CycInv, SimInv, Alive, LoadsGood
  <2>2. LastGood(NewLast)
    BY <1>StepCycles, <2>1, <1>NewNow, <1>RetireLast, Zenon
  <2>3. CASE ~st.running
    <3>1. t = st
      BY <2>3 DEF StepState
    <3> QED
      BY <2>1, <2>2, <2>3, <3>1, Zenon DEF LoadsGood
  <2>4. CASE st.running /\ OutOfProgram(st)
    <3>1. t.raised # None
      BY <2>1, <2>4, OutStep, Zenon DEF Crashed
    <3> QED
      BY <2>2, <3>1 DEF LoadsGood
  <2>5. CASE st.running /\ ~OutOfProgram(st) /\ Stalls(st)
    BY <1>StepCycles, <2>2, <2>5, <1>StallLoads, Zenon
  <2>6. CASE Retires
    <3> DEFINE d == Executed(st)
    <3>1. st.running /\ ~OutOfProgram(st) /\ ~Stalls(st) /\ IsInsn(Fetch(st))
      BY <2>1, <2>6, FetchInsn, Zenon DEF Retires
    <3>2. /\ d.raised # None => Crashed(st, t)
          /\ d.raised = None /\ d.halt => Halted(st, t)
          /\ d.raised = None /\ ~d.halt => Retired(st, t)
      BY <2>1, <3>1, InsnStep, Zenon
    <3> HIDE DEF d, t
    <3>3. CASE Crashed(st, t)
      BY <2>2, <3>3, Zenon DEF Crashed, LoadsGood, t
    <3>4. CASE Halted(st, t)
      BY <2>1, <2>2, <3>4, Zenon DEF Halted, LoadsGood, t
    <3>5. CASE Retired(st, t)
      <4>1. NewLast.now = 0
        BY <2>1, <2>6, <1>NewNow, Zenon
      <4> QED
        BY <2>1, <2>2, <3>5, <4>1, Zenon DEF Retired, LoadsGood, Counted, t
    <3> QED
      BY <3>2, <3>3, <3>4, <3>5, Zenon
  <2> QED
    BY <2>3, <2>4, <2>5, <2>6, Zenon DEF Retires
(* What leaves the load, the PC and the stalls alone keeps the count. *)
<1>SameLoads. ASSUME NEW s, NEW t, NEW n, LoadsGood(s, n),
                     t.raised = s.raised, t.dmem.begun = s.dmem.begun, t.dmem.ready = s.dmem.ready,
                     t.running = s.running, t.insnStall = s.insnStall, t.pc = s.pc
              PROVE  LoadsGood(t, n)
  <2>1. OutOfProgram(t) = OutOfProgram(s) /\ Fetch(t) = Fetch(s)
    BY <1>SameLoads DEF OutOfProgram, Fetch
  <2> QED
    BY <1>SameLoads, <2>1, Zenon DEF LoadsGood, Counted
(* A start begins the count anew. *)
<1>StartedLoads. ASSUME CycInv, Alive, NEW t, Started(st, t), NEW n
                 PROVE  LoadsGood(t, n)
  <2>1. ~st.dmem.begun
    BY <1>StartedLoads, Zenon DEF CycInv, LoadsGood, Alive
  <2>2. t.dmem = st.dmem /\ t.insnStall
    BY <1>StartedLoads DEF Started, Settled
  <2> QED
    BY <2>1, <2>2, Zenon DEF LoadsGood
<1>1. /\ SimInv /\ SimInv' /\ LastGood(last) /\ StatsGood(stats) /\ LoadsGood(st, last.now)
      /\ mode \in {"repl", "run"}
         => starts \in Nat /\ (starts = 0 /\ st.raised = None => ~st.running)
  BY NextInv, Zenon DEF CycInv
<1> DEFINE Moded == mode' \in {"repl", "run"}
                    => starts' \in Nat /\ (starts' = 0 /\ st'.raised = None => ~st'.running)
           Ld == st'.raised = None => ~st'.dmem.begun
                    /\ (st'.running /\ ~st'.insnStall => (Counted(st, last.now))')
<1>2. SUFFICES LastGood(last') /\ StatsGood(stats') /\ Ld /\ Moded
  BY <1>1 DEF CycInv, LoadsGood
<1>3. ASSUME program' = program, LoadsGood(st', last'.now) PROVE Ld
  <2>1. Counted(st', last'.now) = (Counted(st, last.now))'
    BY <1>3 DEF Counted, OutOfProgram, Fetch
  <2> QED
    BY <1>3, <2>1, Zenon DEF LoadsGood
<1>4. ASSUME Alive PROVE Good(st) /\ st.raised = None /\ Settled(st) /\ st \in States
  BY <1>1, <1>4 DEF SimInv, Alive, Good
<1>5. ASSUME StepHistory PROVE last' = NewLast
  BY <1>5 DEF StepHistory, NewLast, Retires
<1>6. LastGood([last EXCEPT !.now = 0]) /\ [last EXCEPT !.now = 0].now = 0
  BY <1>1 DEF LastGood, Lasts
<1> HIDE DEF Ld, Moded
<1>7. CASE on_step
  <2>1. /\ Alive /\ st' = StepState(st) /\ program' = program /\ last' = NewLast /\ stats' = stats
        /\ starts' = starts /\ mode' = mode /\ mode = "repl"
    BY <1>5, <1>7, SMTT(30) DEF on_step, Repl
  <2>2. LastGood(last') /\ LoadsGood(st', last'.now)
    BY <2>1, <1>StepCycles, Zenon
  <2>3. ~st.running => st' = st
    BY <2>1 DEF StepState
  <2>4. Moded
    BY <1>1, <2>1, <2>3, Zenon DEF Moded, Alive
  <2> QED
    BY <1>1, <1>3, <2>1, <2>2, <2>4, Zenon
<1>8. CASE on_start
  <2>1. PICK a \in StartAddrs :
          st' = StartState([st EXCEPT !.ext = CommitExt(WriteExt(@, "START_ADDR", a, FALSE))])
    BY <1>8, Zenon DEF on_start
  <2>2. /\ Alive /\ program' = program /\ a \in Nat /\ stats' = InitStats /\ starts' = starts + 1
        /\ last' = [last EXCEPT !.now = 0] /\ mode' = mode /\ mode = "repl"
    BY <1>8, InputsAssumption DEF on_start, Repl
  <2>3. Started(st, st')
    BY <1>1, <2>1, <2>2, StartKeeps, Zenon
  <2>4. LoadsGood(st', last'.now)
    BY <2>2, <2>3, <1>StartedLoads, Zenon
  <2>5. Moded
    BY <1>1, <2>2 DEF Moded
  <2> QED
    BY <1>3, <1>6, <2>2, <2>4, <2>5, InitStatsGood, Zenon
<1>9. CASE on_load_i
  <2>1. /\ st' = st /\ ~st.running /\ last' = last /\ stats' = stats /\ starts' = starts
        /\ mode' = mode
    BY <1>9, Zenon DEF on_load_i
  <2>2. Ld
    BY <1>1, <2>1, Zenon DEF Ld, LoadsGood
  <2>3. Moded
    BY <1>1, <2>1, Zenon DEF Moded
  <2> QED
    BY <1>1, <2>1, <2>2, <2>3, Zenon
<1>10. CASE on_load_d \/ on_load_elf \/ StandaloneLoad
  <2>1. PICK d \in Datas : st' = LoadData(st, d)
    BY <1>10 DEF on_load_d, on_load_elf, StandaloneLoad
  <2>2. /\ Alive /\ last' = last /\ stats' = stats
        /\ program' = program \/ ~st.running
        /\ mode' = "loaded" \/ (mode' = mode /\ starts' = starts)
    BY <1>1, <1>10 DEF on_load_d, on_load_elf, StandaloneLoad, Repl, Alive
  <2> DEFINE t == LoadData(st, d)
  <2>3. \/ Crashed(st, t)
        \/ t = [st EXCEPT !.dmem = t.dmem] /\ t.dmem.begun = st.dmem.begun
           /\ t.dmem.ready = st.dmem.ready
    BY <1>4, <2>2, LoadDataSettled, Zenon
  <2> HIDE DEF t
  <2>4. CASE Crashed(st, t)
    <3>1. st'.raised # None
      BY <2>1, <2>4, Zenon DEF Crashed, t
    <3>2. Ld
      BY <3>1, Zenon DEF Ld
    <3>3. Moded
      BY <1>1, <2>2, <3>1, Zenon DEF Moded
    <3> QED
      BY <1>1, <2>2, <3>2, <3>3, Zenon
  <2>5. CASE t = [st EXCEPT !.dmem = t.dmem] /\ t.dmem.begun = st.dmem.begun
             /\ t.dmem.ready = st.dmem.ready
    <3>1. /\ t.raised = st.raised /\ t.running = st.running /\ t.insnStall = st.insnStall
             /\ t.pc = st.pc
      BY <1>4, <2>2, <2>5, Zenon DEF States
    <3>2. LoadsGood(st', last'.now)
      BY <1>1, <2>1, <2>2, <2>5, <3>1, <1>SameLoads, Zenon DEF t
    <3>3. CASE program' = program
      <4>1. Moded
        BY <1>1, <2>1, <2>2, <3>1, Zenon DEF Moded, t
      <4> QED
        BY <1>1, <1>3, <2>2, <3>2, <3>3, <4>1, Zenon
    <3>4. CASE ~st.running
      <4>1. Ld
        BY <2>1, <3>1, <3>2, <3>4, Zenon DEF Ld, LoadsGood, t
      <4>2. Moded
        BY <1>1, <2>1, <2>2, <3>1 DEF Moded, t
      <4> QED
        BY <1>1, <2>2, <4>1, <4>2
    <3> QED
      BY <2>2, <3>3, <3>4, Zenon
  <2> QED
    BY <2>3, <2>4, <2>5, Zenon
<1>11. CASE on_edn_rnd_data \/ on_edn_urnd_reseed_complete \/ on_run
  <2>1. /\ Alive /\ program' = program /\ last' = last /\ stats' = stats /\ starts' = starts
        /\ mode = "repl"
           /\ (st' = [st EXCEPT !.newRnd = words + 1] \/ st' = [st EXCEPT !.reseed = TRUE])
    BY <1>11 DEF on_edn_rnd_data, on_edn_urnd_reseed_complete, on_run, Repl
  <2>2. words + 1 \in Int
    BY <1>1 DEF SimInv
  <2>3. /\ View(st') = View(st) /\ st'.raised = st.raised /\ st'.dmem = st.dmem
        /\ st'.insnStall = st.insnStall /\ st'.running = st.running
    <3>1. Good(st)
      BY <1>4, <2>1, Zenon
    <3>2. CASE st' = [st EXCEPT !.newRnd = words + 1]
      BY <2>2, <3>1, <3>2, NewRndKeeps, Zenon
    <3>3. CASE st' = [st EXCEPT !.reseed = TRUE]
      BY <3>1, <3>3, ReseedKeeps, Zenon
    <3> QED
      BY <2>1, <3>2, <3>3, Zenon
  <2>4. st'.pc = st.pc
    BY <2>3 DEF View
  <2>5. LoadsGood(st', last'.now)
    BY <1>1, <2>1, <2>3, <2>4, <1>SameLoads, Zenon
  <2>6. Moded
    BY <1>1, <2>1, <2>3, Zenon DEF Moded
  <2> QED
    BY <1>1, <1>3, <2>1, <2>5, <2>6, Zenon
<1>12. CASE RunStep
  <2>1. /\ Alive /\ program' = program /\ last' = NewLast /\ starts' = starts /\ mode' = mode
        /\ (st' = Raise(st, "assert in_loop()") \/ st' = Fed(StepState(st)))
        /\ mode \in {"run", "stats"} /\ st.running
    BY <1>5, <1>12, Zenon DEF RunStep, Fed
  <2>2. LastGood(last') /\ LoadsGood(StepState(st), last'.now)
    BY <2>1, <1>StepCycles, Zenon
  <2>3. StatsGood(stats')
    BY <1>1, <1>12, <1>StepStatsGood, Zenon DEF RunStep
  <2>4. Moded
    BY <1>1, <2>1, Zenon DEF Moded, Alive
  <2>5. LoadsGood(st', last'.now)
    <3>1. CASE st' = Raise(st, "assert in_loop()")
      <4>1. "assert in_loop()" \in Exceptions /\ st \in States
        BY <1>1, Zenon DEF Exceptions, SimInv
      <4>2. st'.raised # None
        BY <3>1, <4>1, RaiseCrashed, Zenon DEF Crashed
      <4> QED
        BY <4>2 DEF LoadsGood
    <3>2. CASE st' = Fed(StepState(st))
      <4> DEFINE t == StepState(st)
      <4>1. Good(t)
        BY <1>1, <2>1, StepKeeps, Zenon
      <4> HIDE DEF t
      <4>2. /\ View(st') = View(t) /\ st'.raised = t.raised /\ st'.dmem = t.dmem
            /\ st'.insnStall = t.insnStall /\ st'.running = t.running
        BY <3>2, <4>1, FedKeeps, Zenon DEF t
      <4>3. st'.pc = t.pc
        BY <4>2 DEF View
      <4> QED
        BY <2>2, <4>2, <4>3, <1>SameLoads, Zenon DEF t
    <3> QED
      BY <2>1, <3>1, <3>2, Zenon
  <2> QED
    BY <1>3, <2>1, <2>2, <2>3, <2>4, <2>5, Zenon
<1>13. CASE StandaloneStart
  <2> DEFINE t == StartState([st EXCEPT !.ext = CommitExt(WriteExt(@, "START_ADDR", 0, FALSE))])
  <2>1. /\ Alive /\ program' = program /\ last' = last /\ stats' = InitStats /\ mode' = "stats"
        /\ st' = [t EXCEPT !.reseed = TRUE]
    BY <1>13 DEF StandaloneStart
  <2>2. 0 \in Nat
    OBVIOUS
  <2>3. Good(t) /\ Started(st, t)
    BY <1>1, <2>1, StartKeeps, Zenon
  <2> HIDE DEF t
  <2>4. /\ View(st') = View(t) /\ st'.raised = t.raised /\ st'.dmem = t.dmem
        /\ st'.insnStall = t.insnStall /\ st'.running = t.running
    BY <2>1, <2>3, ReseedKeeps, Zenon
  <2>5. st'.pc = t.pc
    BY <2>4 DEF View
  <2>6. LoadsGood(t, last'.now)
    BY <2>1, <2>3, <1>StartedLoads, Zenon
  <2>7. LoadsGood(st', last'.now)
    BY <2>4, <2>5, <2>6, <1>SameLoads, Zenon
  <2>8. Moded
    BY <2>1, Zenon DEF Moded
  <2> QED
    BY <1>1, <1>3, <2>1, <2>7, <2>8, InitStatsGood, Zenon
<1>14. CASE RunEnds \/ Exited \/ UNCHANGED vars
  <2>1. /\ st' = st /\ program' = program /\ last' = last /\ stats' = stats /\ starts' = starts
        /\ mode' = mode \/ (~st.running /\ mode = "run") \/ mode' = "exit"
    <3>1. CASE RunEnds
      BY <3>1, Zenon DEF RunEnds
    <3>2. CASE UNCHANGED vars
      BY <3>2, Zenon DEF vars
    <3> QED
      BY <1>14, <3>1, <3>2, Zenon DEF Exited
  <2>2. Moded
    BY <1>1, <2>1, Zenon DEF Moded
  <2> QED
    BY <1>1, <1>3, <2>1, <2>2, Zenon
<1> QED
  BY <1>7, <1>8, <1>9, <1>10, <1>11, <1>12, <1>13, <1>14, Zenon DEF Next

(* Every cycle is accounted for: a load waits for exactly one cycle of
   its own, nothing but a load or a read of RND waits, and the blocks of
   the statistics add up to the instructions executed, for every program
   and every sequence of commands. *)
THEOREM CyclesAreAccounted == Spec => []CyclesAccounted
<1>1. Init => CycInv
  <2> SUFFICES ASSUME Init PROVE CycInv
    OBVIOUS
  <2>1. ~st.running /\ ~st.dmem.begun /\ SimInv
    BY InitInv, Zenon DEF Init, InitState, InitDmem
  <2>2. LastGood(last)
    BY NoneAssumption DEF Init, LastGood, Lasts, Mnemonics
  <2>3. StatsGood(stats)
    BY InitStatsGood, Zenon DEF Init
  <2> QED
    BY <2>1, <2>2, <2>3, Zenon DEF CycInv, LoadsGood, Init
<1>2. CycInv /\ [Next]_vars => CycInv'
  BY NextCycles
<1>3. CycInv => CyclesAccounted
  BY DEF CycInv, LastGood, StatsGood, CyclesAccounted
<1> QED
  BY <1>1, <1>2, <1>3, PTL DEF Spec
=============================================================================
