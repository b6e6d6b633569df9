----------------------------- MODULE EscProofs ------------------------------
(***************************************************************************)
(* Proofs about an escalation line, for every set of alerts, every wait    *)
(* and timeout of the ping timer and every choice of faulty pairs: sender  *)
(* and receiver stay in step, so that no failure is reported and no        *)
(* escalation is late on a line that is not upset.                         *)
(***************************************************************************)
EXTENDS Escalation, TLAPS

PingType ==
  pt \in [state : {"Init", "RespWait", "DoPing"}, cnt : Nat, id : PingIds, wait_cyc : Waits]

PingBusy == {"CheckPingResp0", "CheckPingResp1", "CheckPingResp2", "CheckPingResp3"}
EscBusy == {"CheckEscRespLo", "CheckEscRespHi"}

\* Where the receiver is, and what it answers, in each state of the sender
Agree ==
  /\ snd.state \in {"Idle"} \cup PingBusy \cup EscBusy
  /\ snd.state = "Idle" => rcv.state = "Idle" /\ rcv.resp = "lo"
  /\ snd.state = "CheckEscRespHi" => /\ rcv.resp = "hi"
                                     /\ rcv.state = "EscResp" \/ (rcv.state = "Check" /\ snd.esc_req_q)
  /\ snd.state = "CheckEscRespLo" => rcv.state = "EscResp" /\ rcv.resp = "lo"
  /\ snd.state = "CheckPingResp0" => rcv.state = "Check" /\ rcv.resp = "hi"
  /\ snd.state = "CheckPingResp1" => rcv.state = "PingResp" /\ rcv.resp = "lo"
  /\ snd.state = "CheckPingResp2" => rcv.state = "Idle" /\ rcv.resp = "hi"
  /\ snd.state = "CheckPingResp3" => rcv.state = "Idle" /\ rcv.resp = "lo"
  /\ snd.state \notin EscBusy => ~snd.esc_req_q

\* A ping that lasts is being answered: its first cycle, and only that, is on the
\* wire. A ping that meets an escalation ends at once.
PingInHand ==
  /\ PingReq("esc") /\ snd.ping_req_q => snd.state \in PingBusy
  /\ PingReq("esc") /\ snd.state \in PingBusy => snd.ping_req_q
  /\ PingReq("esc") /\ snd.state \in EscBusy => snd.esc_req_q \/ snd.esc_req_q1

\* The response is over before the next ping can begin: the wait has at least
\* four cycles.
PingOver ==
  pt.state = "RespWait" =>
    /\ snd.state = "CheckPingResp0" => pt.cnt <= 0
    /\ snd.state = "CheckPingResp1" => pt.cnt <= 1
    /\ snd.state = "CheckPingResp2" => pt.cnt <= 2
    /\ snd.state = "CheckPingResp3" => pt.cnt <= 3

\* The inductive invariant. Nothing is known of a line that is upset.
InStep == ~upset => Agree /\ PingInHand /\ PingOver /\ NoFalseAlarm /\ EscInTime

-----------------------------------------------------------------------------
\* The ping timer: a ping that is answered ends, a ping begins after a wait, and a
\* wait counts up from zero.
LEMMA PingMoves ==
  ASSUME PingType, NEW en, NEW ping_en, NEW oks, PingStep(en, ping_en, oks)
  PROVE  /\ PingType'
         /\ PingReq("esc")' /\ PingReq("esc") => "esc" \notin oks
         /\ PingReq("esc")' /\ ~PingReq("esc") => pt.state = "RespWait" /\ pt.cnt >= 4
         /\ pt'.state = "RespWait" => pt'.cnt = 0 \/ (pt.state = "RespWait" /\ pt'.cnt = pt.cnt + 1)
<1> USE PingAssumption DEF PingType, PingReq
<1>1. ASSUME NEW state \in {"RespWait"}, Draw(state)
      PROVE  PingType' /\ pt'.state = "RespWait" /\ pt'.cnt = 0
  BY <1>1 DEF Draw
<1>2. CASE PingIdle(en)
  BY <1>2, Zenon DEF PingIdle
<1>3. CASE PingRespWait(ping_en)
  <2>1. CASE Draw("RespWait")
    BY <1>1, <2>1
  <2>2. CASE pt.cnt >= pt.wait_cyc /\ pt' = [pt EXCEPT !.state = "DoPing", !.cnt = 0]
    <3>1. pt.cnt \in Nat /\ pt.wait_cyc \in Nat /\ pt.wait_cyc >= 4
      BY Zenon
    <3>2. pt.cnt >= 4 /\ pt.state = "RespWait"
      BY <1>3, <2>2, <3>1 DEF PingRespWait
    <3>3. PingType' /\ pt'.state = "DoPing"
      BY <2>2, Zenon
    <3> QED
      BY <3>2, <3>3
  <2>3. CASE pt' = [pt EXCEPT !.cnt = @ + 1]
    BY <1>3, <2>3 DEF PingRespWait
  <2> QED
    BY <1>3, <2>1, <2>2, <2>3 DEF PingRespWait
<1>4. CASE PingDoPing(oks)
  BY <1>1, <1>4 DEF PingDoPing
<1> QED
  BY <1>2, <1>3, <1>4 DEF PingStep

\* A cycle after which the line is not upset: both pairs arrive as driven, an
\* escalation does not clash with the third cycle of a ping response, and a line
\* that was upset is at rest.
LEMMA CleanCycle ==
  ASSUME NEW req \in BOOLEAN, Tick(req), ~upset'
  PROVE  /\ SenderStep([esc_req |-> req, ping_req |-> PingReq("esc"), rx |-> rcv.resp])
         /\ ReceiverStep(Drive(EscP(req, PingReq("esc"))))
         /\ ~(req /\ snd.state = "CheckPingResp2")
         /\ upset => AtRest(req)
<1> DEFINE tx_o == Drive(EscP(req, PingReq("esc")))
<1>1. PICK tx \in Seen("esc", tx_o), rx \in Seen("resp", rcv.resp) :
        /\ SenderStep([esc_req |-> req, ping_req |-> PingReq("esc"), rx |-> rx])
        /\ ReceiverStep(tx)
        /\ fault' = {p \in FaultyPairs : IF p = "esc" THEN tx # tx_o ELSE rx # rcv.resp}
        /\ upset' = \/ fault' # {}
                    \/ req /\ snd.state = "CheckPingResp2"
                    \/ upset /\ ~AtRest(req)
  BY DEF Tick
<1>2. fault' = {}
  BY <1>1
<1>3. tx = tx_o
  BY <1>1, <1>2 DEF Seen
<1>4. rx = rcv.resp
  BY <1>1, <1>2 DEF Seen
<1> QED
  BY <1>1, <1>3, <1>4

\* The sender, when the response pair is correctly encoded
LEMMA SenderMoves ==
  ASSUME NEW req \in BOOLEAN, NEW ping \in BOOLEAN, rcv.resp \in {"lo", "hi"},
         SenderStep([esc_req |-> req, ping_req |-> ping, rx |-> rcv.resp])
  PROVE  /\ snd'.esc_req_q = req /\ snd'.esc_req_q1 = snd.esc_req_q /\ snd'.ping_req_q = ping
         /\ ping /\ (req \/ snd.esc_req_q \/ snd.esc_req_q1) => ping_ok'
         /\ snd.state = "Idle" =>
              /\ snd'.state = IF req THEN "CheckEscRespHi" ELSE IF ping THEN "CheckPingResp0" ELSE "Idle"
              /\ integ_fail' = (rcv.resp = "hi")
         /\ snd.state = "CheckEscRespLo" /\ rcv.resp = "lo" =>
              ~integ_fail' /\ snd'.state = IF EscP(req, ping) THEN "CheckEscRespHi" ELSE "Idle"
         /\ snd.state = "CheckEscRespHi" /\ rcv.resp = "hi" =>
              ~integ_fail' /\ snd'.state = IF EscP(req, ping) THEN "CheckEscRespLo" ELSE "Idle"
         /\ snd.state = "CheckPingResp0" /\ rcv.resp = "hi" =>
              ~integ_fail' /\ snd'.state = IF req THEN "CheckEscRespLo" ELSE "CheckPingResp1"
         /\ snd.state = "CheckPingResp1" /\ rcv.resp = "lo" =>
              ~integ_fail' /\ snd'.state = IF req THEN "CheckEscRespHi" ELSE "CheckPingResp2"
         /\ snd.state = "CheckPingResp2" /\ rcv.resp = "hi" /\ ~req =>
              ~integ_fail' /\ snd'.state = "CheckPingResp3"
         /\ snd.state = "CheckPingResp3" /\ rcv.resp = "lo" =>
              /\ ~integ_fail' /\ snd'.state = IF req THEN "CheckEscRespHi" ELSE "Idle"
              /\ ping => ping_ok'
<1> DEFINE in == [esc_req |-> req, ping_req |-> ping, rx |-> rcv.resp]
<1>1. /\ ~SigIntO(in.rx) /\ Resp(in) = (rcv.resp = "hi")
      /\ in.esc_req = req /\ in.ping_req = ping
  BY DEF SigIntO, Resp, LevelO
<1>2. ASSUME NEW next, NEW fail \in BOOLEAN, NEW ok \in BOOLEAN, Goto(in, next, fail, ok)
      PROVE  /\ snd'.esc_req_q = req /\ snd'.esc_req_q1 = snd.esc_req_q /\ snd'.ping_req_q = ping
             /\ ping /\ (ok \/ req \/ snd.esc_req_q \/ snd.esc_req_q1) => ping_ok'
             /\ snd'.state = next /\ integ_fail' = fail
  BY <1>1, <1>2 DEF Goto, PingOkO
<1> HIDE DEF in
<1>3. CASE SenderIdle(in)
  BY <1>1, <1>2, <1>3, Zenon DEF SenderIdle
<1>4. CASE SenderCheckEsc(in, "CheckEscRespLo", "CheckEscRespHi", FALSE)
  BY <1>1, <1>4, Zenon DEF SenderCheckEsc, Goto, PingOkO
<1>5. CASE SenderCheckEsc(in, "CheckEscRespHi", "CheckEscRespLo", TRUE)
  <2>1. /\ snd.state = "CheckEscRespHi"
        /\ rcv.resp = "hi" /\ EscP(req, ping) => Goto(in, "CheckEscRespLo", FALSE, FALSE)
        /\ rcv.resp = "hi" /\ ~EscP(req, ping) => Goto(in, "Idle", FALSE, FALSE)
        /\ rcv.resp # "hi" => Goto(in, "Idle", TRUE, FALSE)
    BY <1>1, <1>5, Zenon DEF SenderCheckEsc
  <2> QED
    BY <1>2, <2>1, Zenon
<1>6. CASE SenderCheckPing(in, 1)
  <2>1. 1 % 2 = 1 /\ 1 < 4 /\ 1 # 4 /\ PingStates[1] = "CheckPingResp0" /\ PingStates[1 + 1] = "CheckPingResp1"
    BY DEF PingStates
  <2>2. snd.state = "CheckPingResp0"
    BY <1>6, <2>1 DEF SenderCheckPing
  <2>3. CASE req
    <3>1. Goto(in, "CheckEscRespLo", FALSE, FALSE)
      BY <1>1, <1>6, <2>1, <2>3, Zenon DEF SenderCheckPing
    <3> QED
      BY <1>2, <2>2, <2>3, <3>1, Zenon
  <2>4. CASE ~req /\ rcv.resp = "hi"
    <3>1. Goto(in, "CheckPingResp1", FALSE, FALSE)
      BY <1>1, <1>6, <2>1, <2>4, Zenon DEF SenderCheckPing
    <3> QED
      BY <1>2, <2>2, <2>4, <3>1, Zenon
  <2>5. CASE ~req /\ rcv.resp # "hi"
    <3>1. Goto(in, "Idle", TRUE, FALSE)
      BY <1>1, <1>6, <2>1, <2>5, Zenon DEF SenderCheckPing
    <3> QED
      BY <1>2, <2>2, <2>5, <3>1, Zenon
  <2> QED
    BY <2>3, <2>4, <2>5
<1>7. CASE SenderCheckPing(in, 2)
  <2>1. 2 % 2 # 1 /\ 2 < 4 /\ 2 # 4 /\ PingStates[2] = "CheckPingResp1" /\ PingStates[2 + 1] = "CheckPingResp2"
    BY DEF PingStates
  <2>2. snd.state = "CheckPingResp1"
    BY <1>7, <2>1 DEF SenderCheckPing
  <2>3. CASE req
    <3>1. Goto(in, "CheckEscRespHi", FALSE, FALSE)
      BY <1>1, <1>7, <2>1, <2>3, Zenon DEF SenderCheckPing
    <3> QED
      BY <1>2, <2>2, <2>3, <3>1, Zenon
  <2>4. CASE ~req /\ rcv.resp = "lo"
    <3>1. Goto(in, "CheckPingResp2", FALSE, FALSE)
      BY <1>1, <1>7, <2>1, <2>4, Zenon DEF SenderCheckPing
    <3> QED
      BY <1>2, <2>2, <2>4, <3>1, Zenon
  <2>5. CASE ~req /\ rcv.resp # "lo"
    <3>1. Goto(in, "Idle", TRUE, FALSE)
      BY <1>1, <1>7, <2>1, <2>5, Zenon DEF SenderCheckPing
    <3> QED
      BY <1>2, <2>2, <2>5, <3>1, Zenon
  <2> QED
    BY <2>3, <2>4, <2>5
<1>8. CASE SenderCheckPing(in, 3)
  <2>1. 3 % 2 = 1 /\ 3 < 4 /\ 3 # 4 /\ PingStates[3] = "CheckPingResp2" /\ PingStates[3 + 1] = "CheckPingResp3"
    BY DEF PingStates
  <2>2. snd.state = "CheckPingResp2"
    BY <1>8, <2>1 DEF SenderCheckPing
  <2>3. CASE req
    <3>1. Goto(in, "CheckEscRespLo", FALSE, FALSE)
      BY <1>1, <1>8, <2>1, <2>3, Zenon DEF SenderCheckPing
    <3> QED
      BY <1>2, <2>2, <2>3, <3>1, Zenon
  <2>4. CASE ~req /\ rcv.resp = "hi"
    <3>1. Goto(in, "CheckPingResp3", FALSE, FALSE)
      BY <1>1, <1>8, <2>1, <2>4, Zenon DEF SenderCheckPing
    <3> QED
      BY <1>2, <2>2, <2>4, <3>1, Zenon
  <2>5. CASE ~req /\ rcv.resp # "hi"
    <3>1. Goto(in, "Idle", TRUE, FALSE)
      BY <1>1, <1>8, <2>1, <2>5, Zenon DEF SenderCheckPing
    <3> QED
      BY <1>2, <2>2, <2>5, <3>1, Zenon
  <2> QED
    BY <2>3, <2>4, <2>5
<1>9. CASE SenderCheckPing(in, 4)
  <2>1. 4 % 2 # 1 /\ ~(4 < 4) /\ PingStates[4] = "CheckPingResp3"
    BY DEF PingStates
  <2>2. snd.state = "CheckPingResp3"
    BY <1>9, <2>1 DEF SenderCheckPing
  <2>3. CASE req
    <3>1. Goto(in, "CheckEscRespHi", FALSE, FALSE)
      BY <1>1, <1>9, <2>1, <2>3, Zenon DEF SenderCheckPing
    <3> QED
      BY <1>2, <2>2, <2>3, <3>1, Zenon
  <2>4. CASE ~req /\ rcv.resp = "lo"
    <3>1. Goto(in, "Idle", FALSE, TRUE)
      BY <1>1, <1>9, <2>1, <2>4, Zenon DEF SenderCheckPing
    <3> QED
      BY <1>2, <2>2, <2>4, <3>1, Zenon
  <2>5. CASE ~req /\ rcv.resp # "lo"
    <3>1. Goto(in, "Idle", TRUE, FALSE)
      BY <1>1, <1>9, <2>1, <2>5, Zenon DEF SenderCheckPing
    <3> QED
      BY <1>2, <2>2, <2>5, <3>1, Zenon
  <2> QED
    BY <2>3, <2>4, <2>5
<1>10. \A n \in 1..4 : n = 1 \/ n = 2 \/ n = 3 \/ n = 4
  OBVIOUS
<1> QED
  BY <1>3, <1>4, <1>5, <1>6, <1>7, <1>8, <1>9, <1>10, Zenon DEF SenderStep, in

\* The receiver, when the escalation pair arrives as driven
LEMMA ReceiverMoves ==
  ASSUME NEW up \in BOOLEAN, ReceiverStep(Drive(up))
  PROVE  /\ rcv.state = "Idle" =>
              IF up THEN rcv'.state = "Check" /\ rcv'.resp = "hi" ELSE rcv'.state = "Idle" /\ rcv'.resp = "lo"
         /\ rcv.state = "Check" =>
              /\ rcv'.resp = "lo"
              /\ IF up THEN rcv'.state = "EscResp" /\ esc_en' ELSE rcv'.state = "PingResp"
         /\ rcv.state = "PingResp" =>
              /\ rcv'.resp = "hi"
              /\ IF up THEN rcv'.state = "EscResp" /\ esc_en' ELSE rcv'.state = "Idle"
         /\ rcv.state = "EscResp" =>
              IF up THEN /\ rcv'.state = "EscResp" /\ esc_en'
                         /\ rcv.resp = "lo" => rcv'.resp = "hi"
                         /\ rcv.resp = "hi" => rcv'.resp = "lo"
              ELSE rcv'.state = "Idle" /\ rcv'.resp = "lo"
<1> DEFINE tx == Drive(up)
<1>1. ~SigIntO(tx) /\ Level(tx) = up
  BY DEF Drive, SigIntO, Level, LevelO
<1>2. ReceiverStep(tx)
  OBVIOUS
<1> HIDE DEF tx
<1>3. CASE RcvIdle(tx)
  BY <1>1, <1>3 DEF RcvIdle, RcvGoto, Drive
<1>4. CASE RcvCheck(tx)
  BY <1>1, <1>4 DEF RcvCheck, RcvGoto
<1>5. CASE RcvPingResp(tx)
  BY <1>1, <1>5 DEF RcvPingResp, RcvGoto
<1>6. CASE RcvEscResp(tx)
  BY <1>1, <1>6 DEF RcvEscResp, RcvGoto, Drive, DiffP
<1>7. CASE RcvSigInt(tx)
  BY <1>7 DEF RcvSigInt
<1> QED
  BY <1>2, <1>3, <1>4, <1>5, <1>6, <1>7 DEF ReceiverStep

-----------------------------------------------------------------------------
\* The reset state is in step.
LEMMA StepInit == Init => PingType /\ InStep
<1> SUFFICES ASSUME Init PROVE PingType /\ InStep
  OBVIOUS
<1>1. PingType
  BY PingAssumption DEF Init, PingInit, PingType
<1>2. InStep
  BY SMTT(30) DEF Init, SenderInit, ReceiverInit, PingInit, InStep, Agree, PingInHand, PingOver,
         NoFalseAlarm, EscInTime, PingReq, PingBusy, EscBusy
<1> QED
  BY <1>1, <1>2

\* Every cycle keeps sender and receiver in step.
LEMMA InStepStep ==
  ASSUME PingType, InStep, NEW req \in BOOLEAN, Tick(req), ~upset'
  PROVE  /\ Agree' /\ PingInHand' /\ PingOver'
         /\ ~integ_fail' /\ (snd'.esc_req_q1 => esc_en')
<1> DEFINE ping == PingReq("esc")
           up == EscP(req, ping)
<1>1. /\ SenderStep([esc_req |-> req, ping_req |-> ping, rx |-> rcv.resp])
      /\ ReceiverStep(Drive(up))
      /\ ~(req /\ snd.state = "CheckPingResp2")
      /\ upset => AtRest(req)
  BY CleanCycle
<1>2. ping \in BOOLEAN /\ up \in BOOLEAN
  BY DEF PingReq, EscP
<1>3. /\ ping' /\ ping => ~ping_ok'
      /\ ping' /\ ~ping => pt.state = "RespWait" /\ pt.cnt >= 4
      /\ pt'.state = "RespWait" => pt'.cnt = 0 \/ (pt.state = "RespWait" /\ pt'.cnt = pt.cnt + 1)
  <2>1. PICK others : PingStep(regs.ping_timer_en, AlertPingEn, others \cup {i \in {"esc"} : ping_ok'})
    BY Zenon DEF Tick
  <2> QED
    BY <2>1, PingMoves
<1>4. pt.cnt \in Nat
  BY DEF PingType
<1>5. ping => pt.state = "DoPing"
  BY DEF PingReq
<1>6. Agree /\ PingInHand /\ PingOver
  <2>1. CASE ~upset
    BY <2>1 DEF InStep
  <2>2. CASE upset
    BY <1>1, <2>2 DEF AtRest, Agree, PingInHand, PingOver, PingBusy, EscBusy
  <2> QED
    BY <2>1, <2>2
<1>7. rcv.resp \in {"lo", "hi"}
  BY <1>6 DEF Agree, PingBusy, EscBusy
<1>8. up <=> req \/ snd.esc_req_q \/ (ping /\ ~snd.ping_req_q)
  BY DEF EscP
<1>9. PingInHand' <=> /\ ping' /\ snd'.ping_req_q => snd'.state \in PingBusy
                      /\ ping' /\ snd'.state \in PingBusy => snd'.ping_req_q
                      /\ ping' /\ snd'.state \in EscBusy => snd'.esc_req_q \/ snd'.esc_req_q1
  BY DEF PingInHand
<1>10. /\ snd'.esc_req_q = req /\ snd'.esc_req_q1 = snd.esc_req_q /\ snd'.ping_req_q = ping
       /\ ping /\ (req \/ snd.esc_req_q \/ snd.esc_req_q1) => ping_ok'
  BY <1>1, <1>2, <1>7, SenderMoves
<1>11. snd.state \in PingBusy /\ ping' => ping
  BY <1>3, <1>4, <1>6 DEF PingOver, PingBusy
<1>12. CASE snd.state = "Idle"
  <2>1. /\ ~integ_fail'
        /\ snd'.state = IF req THEN "CheckEscRespHi" ELSE IF ping THEN "CheckPingResp0" ELSE "Idle"
    BY <1>1, <1>2, <1>6, <1>7, <1>12, SenderMoves, Zenon DEF Agree
  <2>2. IF up THEN rcv'.state = "Check" /\ rcv'.resp = "hi" ELSE rcv'.state = "Idle" /\ rcv'.resp = "lo"
    BY <1>1, <1>2, <1>6, <1>12, ReceiverMoves DEF Agree
  <2>3. ~snd.esc_req_q /\ (ping => ~snd.ping_req_q)
    BY <1>6, <1>12 DEF Agree, PingInHand, EscBusy, PingBusy
  <2>4. Agree'
    BY <1>8, <1>10, <2>1, <2>2, <2>3 DEF Agree, EscBusy, PingBusy
  <2>5. PingInHand'
    BY <1>3, <1>9, <1>10, <2>1, <2>3 DEF EscBusy, PingBusy
  <2>6. PingOver'
    BY <1>3, <1>5, <2>1 DEF PingOver
  <2> QED
    BY <1>10, <2>1, <2>3, <2>4, <2>5, <2>6
<1>13. CASE snd.state = "CheckEscRespLo"
  <2>1. ~integ_fail' /\ snd'.state = IF up THEN "CheckEscRespHi" ELSE "Idle"
    BY <1>1, <1>2, <1>6, <1>7, <1>13, SenderMoves DEF Agree
  <2>2. IF up THEN rcv'.state = "EscResp" /\ rcv'.resp = "hi" /\ esc_en'
        ELSE rcv'.state = "Idle" /\ rcv'.resp = "lo"
    BY <1>1, <1>2, <1>6, <1>13, ReceiverMoves DEF Agree
  <2>3. ping => ~snd.ping_req_q /\ (snd.esc_req_q \/ snd.esc_req_q1)
    BY <1>6, <1>13 DEF PingInHand, EscBusy, PingBusy
  <2>4. Agree'
    BY <1>8, <1>10, <2>1, <2>2 DEF Agree, EscBusy, PingBusy
  <2>5. PingInHand'
    BY <1>3, <1>8, <1>9, <1>10, <2>1, <2>3 DEF EscBusy, PingBusy
  <2>6. PingOver'
    BY <2>1 DEF PingOver
  <2> QED
    BY <1>8, <1>10, <2>1, <2>2, <2>4, <2>5, <2>6
<1>14. CASE snd.state = "CheckEscRespHi"
  <2>1. ~integ_fail' /\ snd'.state = IF up THEN "CheckEscRespLo" ELSE "Idle"
    BY <1>1, <1>2, <1>6, <1>7, <1>14, SenderMoves DEF Agree
  <2>2. IF up THEN rcv'.state = "EscResp" /\ rcv'.resp = "lo" /\ esc_en'
        ELSE rcv'.state = "Idle" /\ rcv'.resp = "lo"
    BY <1>1, <1>2, <1>6, <1>8, <1>14, ReceiverMoves DEF Agree
  <2>3. ping => ~snd.ping_req_q /\ (snd.esc_req_q \/ snd.esc_req_q1)
    BY <1>6, <1>14 DEF PingInHand, EscBusy, PingBusy
  <2>4. Agree'
    BY <1>8, <1>10, <2>1, <2>2 DEF Agree, EscBusy, PingBusy
  <2>5. PingInHand'
    BY <1>3, <1>8, <1>9, <1>10, <2>1, <2>3 DEF EscBusy, PingBusy
  <2>6. PingOver'
    BY <2>1 DEF PingOver
  <2> QED
    BY <1>8, <1>10, <2>1, <2>2, <2>4, <2>5, <2>6
<1>15. CASE snd.state = "CheckPingResp0"
  <2>1. ~integ_fail' /\ snd'.state = IF req THEN "CheckEscRespLo" ELSE "CheckPingResp1"
    BY <1>1, <1>2, <1>6, <1>7, <1>15, SenderMoves DEF Agree
  <2>2. ~snd.esc_req_q /\ (ping => snd.ping_req_q)
    BY <1>1, <1>6, <1>15 DEF Agree, PingInHand, EscBusy, PingBusy
  <2>3. up <=> req
    BY <1>8, <2>2
  <2>4. IF req THEN rcv'.state = "EscResp" /\ rcv'.resp = "lo" ELSE rcv'.state = "PingResp" /\ rcv'.resp = "lo"
    BY <1>1, <1>2, <1>6, <1>15, <2>2, <2>3, ReceiverMoves DEF Agree
  <2>5. Agree'
    BY <1>10, <2>1, <2>2, <2>4 DEF Agree, EscBusy, PingBusy
  <2>6. PingInHand'
    BY <1>3, <1>9, <1>10, <1>11, <1>15, <2>1 DEF EscBusy, PingBusy
  <2>7. PingOver'
    BY <1>3, <1>4, <1>6, <1>15, <2>1 DEF PingOver
  <2> QED
    BY <1>10, <2>1, <2>2, <2>5, <2>6, <2>7
<1>16. CASE snd.state = "CheckPingResp1"
  <2>1. ~integ_fail' /\ snd'.state = IF req THEN "CheckEscRespHi" ELSE "CheckPingResp2"
    BY <1>1, <1>2, <1>6, <1>7, <1>16, SenderMoves DEF Agree
  <2>2. ~snd.esc_req_q /\ (ping => snd.ping_req_q)
    BY <1>1, <1>6, <1>16 DEF Agree, PingInHand, EscBusy, PingBusy
  <2>3. up <=> req
    BY <1>8, <2>2
  <2>4. IF req THEN rcv'.state = "EscResp" /\ rcv'.resp = "hi" ELSE rcv'.state = "Idle" /\ rcv'.resp = "hi"
    BY <1>1, <1>2, <1>6, <1>16, <2>2, <2>3, ReceiverMoves DEF Agree
  <2>5. Agree'
    BY <1>10, <2>1, <2>2, <2>4 DEF Agree, EscBusy, PingBusy
  <2>6. PingInHand'
    BY <1>3, <1>9, <1>10, <1>11, <1>16, <2>1 DEF EscBusy, PingBusy
  <2>7. PingOver'
    BY <1>3, <1>4, <1>6, <1>16, <2>1 DEF PingOver
  <2> QED
    BY <1>10, <2>1, <2>2, <2>5, <2>6, <2>7, SMTT(30)
<1>17. CASE snd.state = "CheckPingResp2"
  <2>1. ~integ_fail' /\ snd'.state = "CheckPingResp3"
    BY <1>1, <1>2, <1>6, <1>7, <1>17, SenderMoves DEF Agree
  <2>2. ~snd.esc_req_q /\ (ping => snd.ping_req_q) /\ ~req
    BY <1>1, <1>6, <1>17 DEF Agree, PingInHand, EscBusy, PingBusy
  <2>3. up <=> req
    BY <1>8, <2>2
  <2>4. rcv'.state = "Idle" /\ rcv'.resp = "lo"
    BY <1>1, <1>2, <1>6, <1>17, <2>2, <2>3, ReceiverMoves DEF Agree
  <2>5. Agree'
    BY <1>10, <2>1, <2>2, <2>4 DEF Agree, EscBusy, PingBusy
  <2>6. PingInHand'
    BY <1>9, <1>10, <1>11, <1>17, <2>1 DEF EscBusy, PingBusy
  <2>7. PingOver'
    BY <1>3, <1>4, <1>6, <1>17, <2>1 DEF PingOver
  <2> QED
    BY <1>10, <2>1, <2>2, <2>5, <2>6, <2>7
<1>18. CASE snd.state = "CheckPingResp3"
  <2>1. /\ ~integ_fail' /\ (ping => ping_ok')
        /\ snd'.state = IF req THEN "CheckEscRespHi" ELSE "Idle"
    BY <1>1, <1>2, <1>6, <1>7, <1>18, SenderMoves DEF Agree
  <2>2. ~snd.esc_req_q /\ (ping => snd.ping_req_q)
    BY <1>1, <1>6, <1>18 DEF Agree, PingInHand, EscBusy, PingBusy
  <2>3. up <=> req
    BY <1>8, <2>2
  <2>4. IF req THEN rcv'.state = "Check" /\ rcv'.resp = "hi" ELSE rcv'.state = "Idle" /\ rcv'.resp = "lo"
    BY <1>1, <1>2, <1>6, <1>18, <2>2, <2>3, ReceiverMoves DEF Agree
  <2>5. Agree'
    BY <1>10, <2>1, <2>2, <2>4 DEF Agree, EscBusy, PingBusy
  <2>6. PingInHand'
    BY <1>3, <1>9, <1>10, <1>11, <1>18, <2>1 DEF EscBusy, PingBusy
  <2>7. PingOver'
    BY <1>3, <1>4, <1>6, <1>18, <2>1 DEF PingOver
  <2> QED
    BY <1>10, <2>1, <2>2, <2>5, <2>6, <2>7
<1> QED
  BY <1>6, <1>12, <1>13, <1>14, <1>15, <1>16, <1>17, <1>18 DEF Agree, PingBusy, EscBusy

\* The invariant holds in every reachable state of a line.
THEOREM LineInStep == Spec => [](PingType /\ InStep)
<1>1. ASSUME PingType, InStep, [Next]_vars PROVE PingType' /\ InStep'
  <2>1. CASE UNCHANGED vars
    <3>1. PingType' /\ PingReq("esc")' = PingReq("esc")
      BY <1>1, <2>1 DEF vars, senderVars, receiverVars, pingVars, PingType, PingReq
    <3>2. (Agree <=> Agree') /\ (PingInHand <=> PingInHand') /\ (PingOver <=> PingOver')
      BY <2>1, <3>1 DEF vars, senderVars, receiverVars, pingVars, Agree, PingInHand, PingOver
    <3>3. (NoFalseAlarm <=> NoFalseAlarm') /\ (EscInTime <=> EscInTime')
      BY <2>1 DEF vars, senderVars, receiverVars, pingVars, NoFalseAlarm, EscInTime
    <3>4. upset' = upset
      BY <2>1 DEF vars
    <3> QED
      BY <1>1, <3>1, <3>2, <3>3, <3>4, Zenon DEF InStep
  <2>2. ASSUME NEW req \in BOOLEAN, Tick(req) PROVE PingType' /\ InStep'
    <3>1. PingType'
      BY <1>1, <2>2, PingMoves DEF Tick
    <3>2. InStep'
      BY <1>1, <2>2, InStepStep DEF InStep, NoFalseAlarm, EscInTime
    <3> QED
      BY <3>1, <3>2
  <2> QED
    BY <1>1, <2>1, <2>2 DEF Next
<1> QED
  BY <1>1, StepInit, PTL DEF Spec

\* On a line that is not upset no integrity failure is reported, whatever the order of
\* escalations and pings (prim_esc_sender against prim_esc_receiver).
THEOREM NeverFalseAlarm == Spec => []NoFalseAlarm
<1>1. InStep => NoFalseAlarm
  BY DEF InStep, NoFalseAlarm
<1> QED
  BY <1>1, LineInStep, PTL

\* An escalation is in effect in its second cycle, also in the middle of a ping
\* response (prim_esc_receiver).
THEOREM EscalationInTime == Spec => []EscInTime
<1>1. InStep => EscInTime
  BY DEF InStep, EscInTime
<1> QED
  BY <1>1, LineInStep, PTL
=============================================================================
