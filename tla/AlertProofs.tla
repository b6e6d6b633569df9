---------------------------- MODULE AlertProofs -----------------------------
(***************************************************************************)
(* Proofs about one alert line, for every setting of its parameters: fatal *)
(* or recoverable, whatever pairs are faulty, and with any timing of the   *)
(* alerts and pings. Then proofs about one alert class, for every          *)
(* threshold, timeout, phase length and set of configurations: no trigger  *)
(* above the threshold is missed, no escalation is without a reason, and a *)
(* locked escalation is final.                                             *)
(***************************************************************************)
EXTENDS AlertChannel, AlertClass, TLAPS

\* What the far end of a pair sees is a pair of wires.
LEMMA SeenType ==
  ASSUME NEW pair, NEW d \in Diff, NEW e \in Seen(pair, d)
  PROVE  e \in Diff
BY DEF Seen, FlipWire, Diff

\* A fault never turns one correct encoding into the other one.
LEMMA SeenLevel ==
  ASSUME NEW pair, NEW d \in Diff, NEW e \in Seen(pair, d), ~SigIntO(d), ~SigIntO(e)
  PROVE  e = d
BY DEF Seen, FlipWire, SigIntO

LEMMA DriveType ==
  ASSUME NEW q \in BOOLEAN
  PROVE  Drive(q) \in Diff /\ ~SigIntO(Drive(q)) /\ (Drive(q) = "hi" <=> q)
BY DEF Drive, Diff, SigIntO

LEMMA LevelType ==
  ASSUME NEW d \in Diff, NEW q \in BOOLEAN
  PROVE  LevelO(d, q) \in BOOLEAN
BY Zenon DEF LevelO

\* A clock edge of the sender keeps its registers in their types.
LEMMA SenderType ==
  ASSUME SenderTypeOK, NEW fatal, NEW ack_i \in Diff, NEW ping_i \in Diff,
         NEW req \in BOOLEAN, NEW test \in BOOLEAN,
         SenderStep(fatal, ack_i, ping_i, req, test)
  PROVE  SenderTypeOK'
<1>1. s_ack_level' \in BOOLEAN
  BY LevelType DEF SenderTypeOK, SenderStep, SenderRegs
<1>2. s_ping_p' \in BOOLEAN
  BY DEF SenderStep, SenderRegs, DiffP
<1>3. alert_set' \in BOOLEAN /\ alert_test_set' \in BOOLEAN /\ ping_set' \in BOOLEAN
  BY DEF SenderStep, SenderRegs
<1>4. s_state' \in SenderStates /\ alert' \in Diff
  BY DEF SenderTypeOK, SenderStep, SenderStart, SenderNothingToSend, SenderPhase1,
         SenderPhase2, SenderPause, SenderBailOut, SenderSigInt, SenderStates, Diff
<1> QED
  BY <1>1, <1>2, <1>3, <1>4 DEF SenderTypeOK

\* A clock edge of the receiver keeps its registers in their types.
LEMMA ReceiverType ==
  ASSUME ReceiverTypeOK, NEW alert_i \in Diff, NEW req \in BOOLEAN,
         ReceiverStep(alert_i, req)
  PROVE  ReceiverTypeOK'
<1>1. r_alert_level' \in BOOLEAN
  BY LevelType DEF ReceiverTypeOK, ReceiverStep, ReceiverRegs
<1>2. ping_tog' \in BOOLEAN /\ ping_req_q' \in BOOLEAN /\ ping_pending' \in BOOLEAN
  BY Zenon DEF ReceiverTypeOK, ReceiverStep, ReceiverRegs
<1>3. r_state' \in ReceiverStates /\ ack' \in BOOLEAN
  BY LevelType, Zenon DEF ReceiverTypeOK, ReceiverStep, ReceiverIdle, ReceiverHsAckWait,
         ReceiverPause, ReceiverSigInt, ReceiverStates
<1> QED
  BY <1>1, <1>2, <1>3 DEF ReceiverTypeOK

-----------------------------------------------------------------------------
LEMMA TypeInit == Init => TypeOK
<1> SUFFICES ASSUME Init PROVE TypeOK
  OBVIOUS
<1>1. SenderTypeOK
  BY Zenon DEF Init, SenderInit, SenderTypeOK, SenderStates, Diff
<1>2. ReceiverTypeOK
  BY Zenon DEF Init, ReceiverInit, ReceiverTypeOK, ReceiverStates
<1>3. /\ ping_req \in BOOLEAN /\ alert_o \in BOOLEAN /\ ping_ok_o \in BOOLEAN
      /\ integ_fail_o \in BOOLEAN /\ owed \in {"no", "yes", "crossed"}
  BY Zenon DEF Init
<1>4. ping_cnt \in 0..(IF ping_req THEN PingTimeout ELSE PingRest)
  BY PingTimeoutAssumption, PingSpacingAssumption DEF Init
<1>5. line \in Lines /\ hs_seen \in 0..2
  BY DEF Init
<1> QED
  BY <1>1, <1>2, <1>3, <1>4, <1>5 DEF TypeOK

LEMMA TypeStep ==
  ASSUME TypeOK, [Next]_vars
  PROVE  TypeOK'
<1>1. ASSUME NEW req \in BOOLEAN, NEW test \in line.tests, Tick(req, test)
      PROVE  TypeOK'
  <2>1. PICK alert_i \in Seen("alert", alert), ack_i \in Seen("ack", Drive(ack)),
             ping_i \in Seen("ping", Drive(ping_tog)) :
          /\ SenderStep(line.is_fatal, ack_i, ping_i, req, test)
          /\ ReceiverStep(alert_i, ping_req)
          /\ PingHold(PingOkO(alert_i)) \/ PingWait \/ PingStart
          /\ alert_o' = AlertO(alert_i)
          /\ ping_ok_o' = PingOkO(alert_i)
          /\ integ_fail_o' = IntegFailO(alert_i)
          /\ Account(alert_i)
          /\ HsCount(alert_i)
          /\ UNCHANGED line
    BY <1>1 DEF Tick
  <2>2. alert_i \in Diff /\ ack_i \in Diff /\ ping_i \in Diff
    BY SeenType, DriveType DEF TypeOK, SenderTypeOK, ReceiverTypeOK
  <2>3. SenderTypeOK'
    BY <1>1, <2>1, <2>2, SenderType, LinesAssumption DEF TypeOK
  <2>4. ReceiverTypeOK'
    BY <2>1, <2>2, ReceiverType DEF TypeOK
  <2>5. ping_req' \in BOOLEAN
    BY <2>1, Zenon DEF PingHold, PingWait, PingStart
  <2>cnt. ping_cnt' \in 0..(IF ping_req' THEN PingTimeout ELSE PingRest)
    <3>1. \/ ping_cnt' = 0
          \/ ping_req /\ ping_req' /\ ~(ping_cnt >= PingTimeout) /\ ping_cnt' = ping_cnt + 1
          \/ ~ping_req /\ ~ping_req' /\ ping_cnt < PingRest /\ ping_cnt' = ping_cnt + 1
          \/ ~ping_req /\ ~ping_req' /\ ping_cnt' = ping_cnt
      BY <2>1, Zenon DEF PingHold, PingWait, PingStart
    <3> QED
      BY <3>1, PingTimeoutAssumption, PingSpacingAssumption DEF TypeOK
  <2>6. alert_o' \in BOOLEAN /\ ping_ok_o' \in BOOLEAN /\ integ_fail_o' \in BOOLEAN
    BY <2>1 DEF AlertO, PingOkO, IntegFailO, HsInitiated, SigIntO
  <2>7. owed' \in {"no", "yes", "crossed"}
    BY <2>1 DEF Account, TypeOK
  <2>8. line' \in Lines
    BY <2>1 DEF TypeOK
  <2>9. hs_seen' \in 0..2
    BY <2>1 DEF HsCount, TypeOK
  <2> QED
    BY <2>3, <2>4, <2>5, <2>6, <2>7, <2>8, <2>9, <2>cnt DEF TypeOK
<1>2. CASE UNCHANGED vars
  BY <1>2 DEF vars, senderVars, receiverVars, pingVars, outVars, TypeOK, SenderTypeOK,
              ReceiverTypeOK
<1> QED
  BY <1>1, <1>2 DEF Next

\* The type invariant holds in every reachable state of the line.
THEOREM TypeCorrect == Spec => []TypeOK
<1>1. TypeOK /\ [Next]_vars => TypeOK'
  BY TypeStep
<1> QED
  BY TypeInit, <1>1, PTL DEF Spec

-----------------------------------------------------------------------------
\* What a handshake is signalled by: a correct high level on the wires, which
\* the sender drives in phase 1 only or which a fault makes of a driven sigint.
LEMMA InitiatedHigh ==
  ASSUME HandshakeInv, NEW alert_i \in Seen("alert", alert), HsInitiated(alert_i)
  PROVE  s_state \in SenderPhase1States \cup {"SigInt"}
<1>1. alert \in Diff
  BY DEF HandshakeInv, TypeOK, SenderTypeOK
<1>2. CASE ~SigIntO(alert)
  <2>1. alert_i = alert
    BY <1>1, <1>2, SeenLevel DEF HsInitiated
  <2> QED
    BY <2>1, <1>2 DEF HsInitiated, LevelO, HandshakeInv
<1>3. CASE SigIntO(alert)
  BY <1>3 DEF HandshakeInv
<1> QED
  BY <1>2, <1>3

\* The sender reads the acknowledge that the receiver drives, unless it bails out.
LEMMA AckRead ==
  ASSUME TypeOK, NEW ack_i \in Seen("ack", Drive(ack)), ~SigIntO(ack_i)
  PROVE  LevelO(ack_i, s_ack_level) <=> ack
<1>1. ack \in BOOLEAN
  BY DEF TypeOK, ReceiverTypeOK
<1>2. ack_i = Drive(ack)
  BY <1>1, DriveType, SeenLevel
<1> QED
  BY <1>1, <1>2, DriveType DEF LevelO

\* A clock edge keeps what the sender drives tied to its state.
LEMMA SenderDrives ==
  ASSUME HandshakeInv, NEW fatal, NEW ack_i, NEW ping_i, NEW req, NEW test,
         SenderStep(fatal, ack_i, ping_i, req, test)
  PROVE  /\ alert' = "hi" <=> s_state' \in SenderPhase1States
         /\ SigIntO(alert') <=> s_state' = "SigInt"
BY DEF SenderStep, SenderStart, SenderNothingToSend, SenderPhase1, SenderPhase2,
       SenderPause, SenderBailOut, SenderSigInt, SenderPhase1States, SigIntO

\* A clock edge keeps the acknowledge tied to the state of the receiver.
LEMMA ReceiverDrives ==
  ASSUME HandshakeInv, NEW alert_i \in Diff, NEW req, ReceiverStep(alert_i, req)
  PROVE  ack' <=> r_state' = "HsAckWait"
BY LevelType
   DEF ReceiverStep, ReceiverIdle, ReceiverHsAckWait, ReceiverPause, ReceiverSigInt,
       HandshakeInv, TypeOK, ReceiverTypeOK, ReceiverStates

\* The receiver raises the acknowledge by signalling the handshake, and only so.
LEMMA ReceiverRaises ==
  ASSUME HandshakeInv, NEW alert_i \in Diff, NEW req, ReceiverStep(alert_i, req)
  PROVE  ~ack => (ack' <=> HsInitiated(alert_i))
BY LevelType
   DEF ReceiverStep, ReceiverIdle, ReceiverHsAckWait, ReceiverPause, ReceiverSigInt,
       HsInitiated, HandshakeInv, TypeOK, ReceiverTypeOK, ReceiverStates

LEMMA HandshakeInit == Init => HandshakeInv
<1> SUFFICES ASSUME Init PROVE HandshakeInv
  OBVIOUS
<1>1. /\ alert = "hi" <=> s_state \in SenderPhase1States
      /\ SigIntO(alert) <=> s_state = "SigInt"
      /\ s_state \notin SenderPhase1States
      /\ HandshakeOnce
  BY DEF Init, SenderInit, SenderPhase1States, SenderPhase2States, SigIntO, HandshakeOnce
<1>2. ack <=> r_state = "HsAckWait"
  BY DEF Init, ReceiverInit
<1> QED
  BY <1>1, <1>2, TypeInit DEF HandshakeInv

LEMMA HandshakeStep ==
  ASSUME HandshakeInv, [Next]_vars
  PROVE  HandshakeInv'
<1>0. TypeOK /\ TypeOK'
  BY TypeStep DEF HandshakeInv
<1>1. ASSUME NEW req \in BOOLEAN, NEW test \in line.tests, Tick(req, test)
      PROVE  HandshakeInv'
  <2>1. PICK alert_i \in Seen("alert", alert), ack_i \in Seen("ack", Drive(ack)),
             ping_i \in Seen("ping", Drive(ping_tog)) :
          /\ SenderStep(line.is_fatal, ack_i, ping_i, req, test)
          /\ ReceiverStep(alert_i, ping_req)
          /\ HsCount(alert_i)
    BY <1>1 DEF Tick
  <2>2. alert_i \in Diff
    BY <1>0, SeenType DEF TypeOK, SenderTypeOK
  <2>3. /\ alert' = "hi" <=> s_state' \in SenderPhase1States
        /\ SigIntO(alert') <=> s_state' = "SigInt"
    BY <2>1, SenderDrives
  <2>4. ack' <=> r_state' = "HsAckWait"
    BY <2>1, <2>2, ReceiverDrives
  <2>5. s_state' \in SenderPhase1States => hs_seen' = (IF ack' THEN 1 ELSE 0)
    <3> SUFFICES ASSUME s_state' \in SenderPhase1States
                 PROVE  hs_seen' = (IF ack' THEN 1 ELSE 0)
      OBVIOUS
    \* A handshake starts: the wires are still low, so the receiver either
    \* waits or withdraws the acknowledge of an earlier, aborted handshake.
    <3>1. CASE s_state = "Idle"
      <4>1. hs_seen' = 0
        BY <2>1, <3>1 DEF HsCount
      <4>2. ~ack'
        <5>1. alert = "lo"
          BY <1>0, <3>1 DEF HandshakeInv, SenderPhase1States, SigIntO, TypeOK, SenderTypeOK, Diff
        <5>2. SigIntO(alert_i) \/ alert_i = "lo"
          BY <5>1, <2>2, SeenLevel DEF Diff, SigIntO
        <5>3. SigIntO(alert_i) \/ ~LevelO(alert_i, r_alert_level)
          BY <5>2 DEF LevelO
        <5> QED
          BY <2>1, <5>3 DEF ReceiverStep, ReceiverIdle, ReceiverHsAckWait,
             ReceiverPause, ReceiverSigInt
      <4> QED
        BY <4>1, <4>2
    \* The sender goes on waiting: the acknowledge was low in this cycle.
    <3>2. CASE s_state \in SenderPhase1States
      <4>1. ~SigIntO(ack_i) /\ ~LevelO(ack_i, s_ack_level)
        BY <2>1, <3>2 DEF SenderStep, SenderStart, SenderNothingToSend, SenderPhase1,
           SenderPhase2, SenderPause, SenderBailOut, SenderSigInt, SenderPhase1States,
           SigIntDetected
      <4>2. ~ack
        BY <4>1, <1>0, AckRead
      <4>3. hs_seen = 0
        BY <4>2, <3>2 DEF HandshakeInv
      <4>4. ack' <=> HsInitiated(alert_i)
        BY <4>2, <2>1, <2>2, ReceiverRaises, SMTT(30)
      <4> QED
        BY <2>1, <3>2, <4>3, <4>4, SMTT(30) DEF HsCount, SenderPhase1States
    <3> QED
      BY <2>1, <3>1, <3>2 DEF SenderStep, SenderStart, SenderNothingToSend, SenderPhase1,
         SenderPhase2, SenderPause, SenderBailOut, SenderSigInt, SenderPhase1States
  <2>6. HandshakeOnce'
    <3> SUFFICES ASSUME s_state' \in SenderPhase2States
                 PROVE  hs_seen' = 1
      BY DEF HandshakeOnce
    \* The acknowledge came in: the receiver signalled the handshake when it
    \* raised it, and is not in the state in which it signals another one.
    <3>1. CASE s_state \in SenderPhase1States
      <4>1. ~SigIntO(ack_i) /\ LevelO(ack_i, s_ack_level)
        BY <2>1, <3>1 DEF SenderStep, SenderStart, SenderNothingToSend, SenderPhase1,
           SenderPhase2, SenderPause, SenderBailOut, SenderSigInt, SenderPhase1States,
           SenderPhase2States, SigIntDetected
      <4>2. ack
        BY <4>1, <1>0, AckRead
      <4>3. hs_seen = 1 /\ r_state = "HsAckWait"
        BY <4>2, <3>1 DEF HandshakeInv
      <4> QED
        BY <2>1, <3>1, <4>3, SMTT(30) DEF HsCount, HsInitiated, SenderPhase1States
    \* The sender waits for the acknowledge to go: its wires are low.
    <3>2. CASE s_state \in SenderPhase2States
      <4>1. ~HsInitiated(alert_i)
        BY <3>2, InitiatedHigh DEF SenderPhase1States, SenderPhase2States
      <4>2. hs_seen = 1
        BY <3>2 DEF HandshakeInv, HandshakeOnce
      <4> QED
        BY <2>1, <3>2, <4>1, <4>2 DEF HsCount, SenderPhase2States
    <3> QED
      BY <2>1, <3>1, <3>2 DEF SenderStep, SenderStart, SenderNothingToSend, SenderPhase1,
         SenderPhase2, SenderPause, SenderBailOut, SenderSigInt, SenderPhase1States,
         SenderPhase2States
  <2> QED
    BY <1>0, <2>3, <2>4, <2>5, <2>6 DEF HandshakeInv
<1>2. CASE UNCHANGED vars
  BY <1>0, <1>2 DEF vars, senderVars, receiverVars, HandshakeInv, HandshakeOnce, SigIntO
<1> QED
  BY <1>1, <1>2 DEF Next

\* The strengthened invariant holds in every reachable state.
THEOREM HandshakeInvariant == Spec => []HandshakeInv
<1>1. HandshakeInv /\ [Next]_vars => HandshakeInv'
  BY HandshakeStep
<1> QED
  BY HandshakeInit, <1>1, PTL DEF Spec

\* Every handshake that prim_alert_sender sees acknowledged was signalled
\* exactly once by prim_alert_receiver, for every kind of alert, every set of
\* faulty pairs, and every timing of alerts, tests and pings.
THEOREM HandshakeSignalledOnce == Spec => []HandshakeOnce
<1>1. HandshakeInv => HandshakeOnce
  BY DEF HandshakeInv
<1> QED
  BY HandshakeInvariant, <1>1, PTL

-----------------------------------------------------------------------------
\* While the class is calm the accumulator counts every trigger, and none of
\* them exceeded the threshold.
CountInv ==
  /\ accu \in Nat /\ hits \in Nat
  /\ tmr.state \in Calm => hits = accu /\ hits <= AccumThresh

\* A locked escalation has closed the clear register; a write that was accepted
\* before is over by the second cycle.
LockInv ==
  /\ locked \in 0..2
  /\ locked = 1 => ~regs.clr_regwen /\ tmr.state \notin Calm
  /\ locked = 2 => ~regs.clr_regwen /\ ~regs.clr /\ tmr.state \notin Calm

\* While the timeout runs, the interrupt has been up for as many cycles as the
\* timer counts; the timer idles at zero. An escalation has its reason.
ReasonInv ==
  /\ tmr.cnt \in Nat /\ waited \in Nat
  /\ tmr.state = "Idle" => tmr.cnt = 0
  /\ tmr.state = "Timeout" => TimeoutCyc > 0 /\ (waited >= tmr.cnt \/ waited > TimeoutCyc)
  /\ NoSpuriousEscalation

\* The timer's next state: an escalation starts from a calm state, and only
\* software's clear ends it.
LEMMA TimerMoves ==
  ASSUME NEW fired, TimerStep(fired)
  PROVE  /\ EscTrig(fired) => tmr.state \in Calm /\ tmr'.state = "Phase0"
         /\ tmr.state \notin Calm /\ ~regs.clr => tmr'.state \notin Calm
<1>1. EscTrig(fired) => tmr.state \in Calm
  BY DEF EscTrig, Calm
<1>2. CASE TimerIdle(fired)
  BY <1>1, <1>2 DEF TimerIdle, Goto, Calm
<1>3. CASE TimerTimeout(fired)
  BY <1>1, <1>3 DEF TimerTimeout, Goto, Calm
<1>4. CASE \E k \in 0..3 : TimerPhase(k)
  <2>1. PICK k \in 0..3 : TimerPhase(k)
    BY <1>4
  <2>2. k \in {0, 1, 2, 3}
    OBVIOUS
  <2>3. /\ Phase(0) = "Phase0" /\ Phase(1) = "Phase1" /\ Phase(2) = "Phase2"
        /\ Phase(3) = "Phase3" /\ Phase(4) = "Terminal"
    BY DEF Phase, PhaseStates
  <2>4. tmr.state \notin Calm
    BY <2>1, <2>2, <2>3 DEF TimerPhase, Calm
  <2>5. ~regs.clr => tmr'.state = Phase(k + 1) \/ tmr'.state = Phase(k)
    BY <2>1 DEF TimerPhase, Goto
  <2>6. ~regs.clr => tmr'.state \notin Calm
    BY <2>2, <2>3, <2>5 DEF Calm
  <2> QED
    BY <1>1, <2>4, <2>6
<1>5. CASE TimerTerminal
  BY <1>1, <1>5 DEF TimerTerminal, Goto, Calm
<1> QED
  BY <1>2, <1>3, <1>4, <1>5 DEF TimerStep

\* Every cycle preserves the count of the triggers.
LEMMA CountStep ==
  ASSUME CountInv, [ClassNext]_classVars
  PROVE  CountInv'
<1> AccumThresh \in Nat /\ AccuMax \in Nat /\ TimeoutCyc \in Nat /\ AccumThresh <= AccuMax
  BY ClassAssumption, Zenon
<1>1. CASE UNCHANGED classVars
  BY <1>1 DEF CountInv, classVars, Calm
<1>2. ASSUME NEW fired \in SUBSET Alerts, NEW w \in Writes, ClassTick(fired, w)
      PROVE  CountInv'
  <2>1. AccuStep(fired) /\ TimerStep(fired) /\ History(fired)
    BY <1>2 DEF ClassTick
  <2>2. accu' \in Nat /\ hits' \in Nat
    BY <2>1 DEF CountInv, AccuStep, History
  <2>3. CASE regs.clr
    BY <2>1, <2>2, <2>3 DEF CountInv, AccuStep, History
  <2>4. CASE ~regs.clr /\ tmr.state \notin Calm
    BY <2>1, <2>2, <2>4, TimerMoves DEF CountInv
  <2>5. CASE ~regs.clr /\ tmr.state \in Calm /\ ~(ClassTrig(fired) /\ ClassEn)
    BY <2>1, <2>2, <2>5 DEF CountInv, AccuStep, History
  <2>6. CASE ~regs.clr /\ tmr.state \in Calm /\ ClassTrig(fired) /\ ClassEn
    <3>1. CASE accu >= AccumThresh
      <4>1. EscTrig(fired)
        BY <2>6, <3>1 DEF EscTrig, AccuTrig
      <4>2. tmr'.state \notin Calm
        BY <2>1, <4>1, TimerMoves DEF Calm
      <4> QED
        BY <2>2, <4>2 DEF CountInv
    <3>2. CASE accu < AccumThresh
      BY <2>1, <2>2, <2>6, <3>2 DEF CountInv, AccuStep, History
    <3> QED
      BY <3>1, <3>2 DEF CountInv
  <2> QED
    BY <2>3, <2>4, <2>5, <2>6
<1> QED
  BY <1>1, <1>2 DEF ClassNext

\* Every cycle keeps a locked escalation locked.
LEMMA LockStep ==
  ASSUME LockInv, [ClassNext]_classVars
  PROVE  LockInv'
<1>1. CASE UNCHANGED classVars
  BY <1>1 DEF LockInv, classVars, Calm
<1>2. ASSUME NEW fired \in SUBSET Alerts, NEW w \in Writes, ClassTick(fired, w)
      PROVE  LockInv'
  <2>1. TimerStep(fired) /\ RegsStep(w, fired) /\ History(fired)
    BY <1>2 DEF ClassTick
  <2> DEFINE locks == EscTrig(fired) /\ regs.ctrl.lock /\ ClassEn
  <2>2. /\ regs'.clr_regwen => regs.clr_regwen /\ ~locks
        /\ regs'.clr => regs.clr_regwen
    <3>1. PICK c : regs' = [ctrl |-> c, regwen |-> (regs.regwen /\ w # "regwen"),
                            clr_regwen |-> ClrRegwen(w, fired), clr |-> ClrWrite(w)]
      BY <2>1, Zenon DEF RegsStep
    <3>2. regs'.clr_regwen = ClrRegwen(w, fired) /\ regs'.clr = ClrWrite(w)
      BY <3>1
    <3> QED
      BY <3>2, Zenon DEF ClrRegwen, ClrWrite
  <2>3. locked' = IF locks THEN 1
                  ELSE IF locked = 0 \/ (tmr'.state \in Calm /\ locked = 1) THEN 0 ELSE 2
    BY <2>1 DEF History
  <2>4. CASE locks
    BY <2>1, <2>2, <2>3, <2>4, TimerMoves DEF LockInv, Calm
  <2>5. CASE ~locks
    BY <2>1, <2>2, <2>3, <2>5, TimerMoves DEF LockInv
  <2> QED
    BY <2>4, <2>5
<1> QED
  BY <1>1, <1>2 DEF ClassNext

\* Every cycle keeps the reason of an escalation, and the timer in step with
\* the interrupt.
LEMMA ReasonStep ==
  ASSUME CountInv, ReasonInv, [ClassNext]_classVars
  PROVE  ReasonInv'
<1> AccumThresh \in Nat /\ AccuMax \in Nat /\ TimeoutCyc \in Nat /\ AccumThresh <= AccuMax
  BY ClassAssumption, Zenon
<1>1. CASE UNCHANGED classVars
  BY <1>1 DEF ReasonInv, NoSpuriousEscalation, classVars, Calm
<1>2. ASSUME NEW fired \in SUBSET Alerts, NEW w \in Writes, ClassTick(fired, w)
      PROVE  ReasonInv'
  <2>1. TimerStep(fired) /\ History(fired)
    BY <1>2, SMTT(30) DEF ClassTick
  <2>2. waited' \in Nat
    BY <2>1, SMTT(30) DEF ReasonInv, History
  <2>3. ASSUME EscTrig(fired), Goto("Phase0", 1)
        PROVE  ReasonInv'
    <3>1. tmr'.state = "Phase0" /\ tmr'.cnt = 1
      BY <2>3 DEF Goto
    <3>2. CASE tmr.state \in Calm /\ AccuTrig(fired) /\ ClassEn /\ ~regs.clr
      <4>1. hits' = hits + 1 /\ hits + 1 > AccumThresh
        BY <2>1, <3>2 DEF CountInv, History, AccuTrig
      <4> QED
        BY <2>2, <3>1, <4>1 DEF ReasonInv, NoSpuriousEscalation
    <3>3. CASE tmr.state = "Timeout" /\ tmr.cnt >= TimeoutCyc /\ intr.irq
      <4>1. TimeoutCyc > 0 /\ waited' > TimeoutCyc
        BY <2>1, <3>1, <3>3, SMTT(30) DEF ReasonInv, History, Calm
      <4> QED
        BY <2>2, <3>1, <4>1, SMTT(30) DEF ReasonInv, NoSpuriousEscalation
    <3> QED
      BY <2>3, <3>2, <3>3 DEF EscTrig
  <2>4. ASSUME Goto("Idle", 0)
        PROVE  ReasonInv'
    <3>1. tmr'.state = "Idle" /\ tmr'.cnt = 0
      BY <2>4 DEF Goto
    <3> QED
      BY <2>2, <3>1, SMTT(30) DEF ReasonInv, NoSpuriousEscalation, Calm
  <2>5. CASE TimerIdle(fired)
    <3>1. CASE ~EscTrig(fired) /\ intr.irq /\ tmr.cnt < TimeoutCyc /\ ClassEn
      <4>1. tmr'.state = "Timeout" /\ tmr'.cnt = 1
        BY <2>5, <3>1 DEF TimerIdle, Goto
      <4>2. TimeoutCyc > 0 /\ (waited' >= 1 \/ waited' > TimeoutCyc)
        BY <2>1, <2>5, <3>1, <4>1, SMTT(30) DEF TimerIdle, ReasonInv, History, Calm
      <4> QED
        BY <2>2, <4>1, <4>2 DEF ReasonInv, NoSpuriousEscalation, Calm
    <3> QED
      BY <2>3, <2>4, <2>5, <3>1 DEF TimerIdle
  <2>6. CASE TimerTimeout(fired)
    <3>1. CASE ~EscTrig(fired) /\ intr.irq
      <4>1. tmr'.state = "Timeout" /\ tmr'.cnt = tmr.cnt + 1
        BY <2>6, <3>1 DEF TimerTimeout, Goto
      <4>2. TimeoutCyc > 0 /\ (waited' >= tmr'.cnt \/ waited' > TimeoutCyc)
        BY <2>1, <2>6, <3>1, <4>1 DEF TimerTimeout, ReasonInv, History, Calm
      <4> QED
        BY <2>2, <4>1, <4>2 DEF ReasonInv, NoSpuriousEscalation, Calm
    <3> QED
      BY <2>3, <2>4, <2>6, <3>1 DEF TimerTimeout
  <2>7. ASSUME tmr.state \notin Calm, ~regs.clr, tmr'.state \notin Calm, tmr'.cnt \in Nat
        PROVE  ReasonInv'
    <3>1. waited' = waited /\ hits' \in Nat /\ hits' >= hits
      BY <2>1, <2>7 DEF CountInv, History, Calm
    <3> QED
      BY <2>2, <2>7, <3>1 DEF CountInv, ReasonInv, NoSpuriousEscalation, Calm
  <2>8. CASE \E k \in 0..3 : TimerPhase(k)
    <3>1. PICK k \in 0..3 : TimerPhase(k)
      BY <2>8
    <3>2. tmr.state \notin Calm
      BY <3>1, SMTT(30) DEF TimerPhase, Phase, PhaseStates, Calm
    <3>3. ~regs.clr => tmr'.cnt \in Nat
      BY <3>1 DEF TimerPhase, Goto, ReasonInv
    <3>4. regs.clr => Goto("Idle", 0)
      BY <3>1, SMTT(30) DEF TimerPhase
    <3> QED
      BY <2>1, <2>4, <2>7, <3>2, <3>3, <3>4, TimerMoves
  <2>9. CASE TimerTerminal
    <3>1. tmr.state \notin Calm
      BY <2>9, SMTT(30) DEF TimerTerminal, Calm
    <3>2. ~regs.clr => tmr'.cnt \in Nat
      BY <2>9, SMTT(30) DEF TimerTerminal, Goto
    <3>3. regs.clr => Goto("Idle", 0)
      BY <2>9 DEF TimerTerminal
    <3> QED
      BY <2>1, <2>4, <2>7, <3>1, <3>2, <3>3, TimerMoves
  <2> QED
    BY <2>1, <2>5, <2>6, <2>8, <2>9, SMTT(30) DEF TimerStep
<1> QED
  BY <1>1, <1>2 DEF ClassNext

\* For every threshold, the trigger that exceeds it starts an escalation that
\* lasts until it is cleared.
THEOREM TriggerNeverMissed == ClassSpec => []NoMissedEscalation
<1>1. ClassInit => CountInv
  <2> SUFFICES ASSUME ClassInit PROVE CountInv
    OBVIOUS
  <2>1. tmr.state \in Calm /\ accu = 0 /\ hits = 0
    BY DEF ClassInit, Calm
  <2>2. AccumThresh \in Nat
    BY ClassAssumption, Zenon
  <2> QED
    BY <2>1, <2>2 DEF CountInv
<1>2. CountInv => NoMissedEscalation
  <2>1. AccumThresh \in Nat
    BY ClassAssumption, Zenon
  <2> QED
    BY <2>1 DEF CountInv, NoMissedEscalation
<1> QED
  BY <1>1, <1>2, CountStep, PTL DEF ClassSpec

\* For every configuration, an escalation with LOCK is final from its second
\* cycle on.
THEOREM LockIsFinal == ClassSpec => []LockedForGood
<1>1. ClassInit => LockInv
  BY DEF ClassInit, LockInv
<1>2. LockInv => LockedForGood
  BY DEF LockInv, LockedForGood
<1> QED
  BY <1>1, <1>2, LockStep, PTL DEF ClassSpec

\* For every threshold and timeout, an escalation follows more triggers than the
\* threshold or an interrupt that was up for the whole timeout.
THEOREM EscalationHasReason == ClassSpec => []NoSpuriousEscalation
<1>1. ClassInit => CountInv /\ ReasonInv
  <2> SUFFICES ASSUME ClassInit PROVE CountInv /\ ReasonInv
    OBVIOUS
  <2>1. tmr.state = "Idle" /\ tmr.cnt = 0 /\ accu = 0 /\ hits = 0 /\ waited = 0
    BY DEF ClassInit
  <2>2. AccumThresh \in Nat
    BY ClassAssumption, Zenon
  <2>3. tmr.state \in Calm
    BY <2>1 DEF Calm
  <2> QED
    BY <2>1, <2>2, <2>3 DEF CountInv, ReasonInv, NoSpuriousEscalation
<1>2. ReasonInv => NoSpuriousEscalation
  BY DEF ReasonInv
<1> QED
  BY <1>1, <1>2, CountStep, ReasonStep, PTL DEF ClassSpec
=============================================================================
