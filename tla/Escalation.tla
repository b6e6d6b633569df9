----------------------------- MODULE Escalation -----------------------------
(***************************************************************************)
(* One escalation line of the alert handler: sender and receiver on one    *)
(* clock, joined by two differential pairs, the ping timer that also pings *)
(* the other lines (alert_handler_ping_timer), and the registers that say  *)
(* which alerts are pinged.                                                *)
(***************************************************************************)
EXTENDS EscSender, EscReceiver

CONSTANTS
  AlertIds, EscIds, UnusedIds,  \* what id_to_ping can be
  Waits,            \* what wait_cyc can be
  PingTimeout,      \* ping_timeout_cyc_i
  FaultyPairs       \* the pairs on which signal integrity issues occur

\* Bit 2 of every wait count is set (wait_cyc, with a mask of ones).
ASSUME PingAssumption == Waits \subseteq Nat /\ (\A w \in Waits : w >= 4) /\ PingTimeout \in Nat

ASSUME FaultyPairsAssumption == FaultyPairs \subseteq {"esc", "resp"}

VARIABLES
  pt,               \* the ping timer: [state, cnt, id, wait_cyc]
  alert_ping_fail, esc_ping_fail,   \* its outputs in the last cycle
  regs,             \* [alert_en, alert_regwen, ping_timer_en]
  quiet,            \* history: cycles since esc_req_i was last up, at most 3
  fault,            \* history: the pairs hit in the last cycle
  upset             \* history: a fault or a clash that the line has not come to rest after

pingVars == <<pt, alert_ping_fail, esc_ping_fail>>

vars == <<senderVars, receiverVars, pingVars, regs, quiet, fault, upset>>

-----------------------------------------------------------------------------
(* The ping timer draws a line at random, waits a random time, pings the   *)
(* line and waits for the response or the timeout. The LFSR is a choice of *)
(* the id and the wait count.                                              *)

PingIds == AlertIds \cup EscIds \cup UnusedIds

PingInit ==
  /\ \E i \in PingIds, w \in Waits : pt = [state |-> "Init", cnt |-> 0, id |-> i, wait_cyc |-> w]
  /\ alert_ping_fail = FALSE /\ esc_ping_fail = FALSE

\* ping_sel: the line that is pinged now
PingReq(id) == pt.state = "DoPing" /\ pt.id = id

TimeoutGe == pt.cnt >= PingTimeout

\* The LFSR steps.
Draw(state) ==
  \E i \in PingIds, w \in Waits :
    pt' = [state |-> state, cnt |-> 0, id |-> i, wait_cyc |-> w]

PingIdle(en) ==
  /\ pt.state = "Init"
  /\ pt' = [pt EXCEPT !.state = IF en THEN "RespWait" ELSE "Init", !.cnt = 0]

PingRespWait(ping_en) ==
  /\ pt.state = "RespWait"
  /\ IF pt.id \notin EscIds \cup ping_en THEN Draw("RespWait")
     ELSE pt' = IF pt.cnt >= pt.wait_cyc THEN [pt EXCEPT !.state = "DoPing", !.cnt = 0]
                ELSE [pt EXCEPT !.cnt = @ + 1]

PingDoPing(oks) ==
  /\ pt.state = "DoPing"
  /\ IF TimeoutGe \/ pt.id \in oks THEN Draw("RespWait")
     ELSE pt' = [pt EXCEPT !.cnt = @ + 1]

\* A response of a line that is not pinged, or no response in time
PingFails(ids, oks) ==
  \E i \in ids : \/ i \in oks /\ ~PingReq(i)
                 \/ PingReq(i) /\ TimeoutGe

\* en: ping testing is enabled; ping_en: the alerts to ping; oks: the lines
\* that answer in this cycle
PingStep(en, ping_en, oks) ==
  /\ PingIdle(en) \/ PingRespWait(ping_en) \/ PingDoPing(oks)
  /\ alert_ping_fail' = PingFails(AlertIds, oks)
  /\ esc_ping_fail' = PingFails(EscIds, oks)

-----------------------------------------------------------------------------
Init ==
  /\ SenderInit /\ ReceiverInit /\ PingInit
  /\ regs = [alert_en |-> {}, alert_regwen |-> AlertIds, ping_timer_en |-> FALSE]
  /\ quiet = 3 /\ fault = {} /\ upset = FALSE

\* A pair arrives as it was driven, or with one wire flipped.
Seen(pair, d) == {d} \cup IF pair \in FaultyPairs THEN FlipWire(d) ELSE {}

\* The alerts that are pinged
AlertPingEn == regs.alert_en \cap regs.alert_regwen

\* Software enables an alert while its regwen is set, clears the regwen, or
\* enables ping testing for good.
Registers ==
  \/ UNCHANGED regs
  \/ \E a \in regs.alert_regwen :
       \/ regs' = [regs EXCEPT !.alert_en = IF a \in @ THEN @ \ {a} ELSE @ \cup {a}]
       \/ regs' = [regs EXCEPT !.alert_regwen = @ \ {a}]
  \/ regs' = [regs EXCEPT !.ping_timer_en = TRUE]

\* Nothing is driven, expected or answered on the line.
AtRest(req) ==
  /\ snd.state = "Idle" /\ rcv.state = "Idle" /\ rcv.resp = "lo"
  /\ ~req /\ ~snd.esc_req_q /\ ~PingReq("esc")

\* One cycle of the common clock. This line is "esc"; the others answer as they
\* like while they are pinged.
Tick(req) ==
  LET ping == PingReq("esc")
      tx_o == Drive(EscP(req, ping))
  IN \E tx \in Seen("esc", tx_o), rx \in Seen("resp", rcv.resp),
        others \in SUBSET {i \in PingIds \ {"esc"} : PingReq(i)} :
       /\ SenderStep([esc_req |-> req, ping_req |-> ping, rx |-> rx])
       /\ ReceiverStep(tx)
       /\ PingStep(regs.ping_timer_en, AlertPingEn, others \cup {i \in {"esc"} : ping_ok'})
       /\ Registers
       /\ quiet' = IF req THEN 0 ELSE IF quiet < 3 THEN quiet + 1 ELSE 3
       /\ fault' = {p \in FaultyPairs : IF p = "esc" THEN tx # tx_o ELSE rx # rcv.resp}
       /\ upset' = \/ fault' # {}
                   \/ req /\ snd.state = "CheckPingResp2"
                   \/ upset /\ ~AtRest(req)

Next == \E req \in BOOLEAN : Tick(req)

Spec == Init /\ [][Next]_vars /\ WF_vars(Next)

-----------------------------------------------------------------------------
\* No failure is reported on a line that is not upset: whatever the order of
\* escalations and pings, the sender's idea of the response agrees with what the
\* receiver sends.
NoFalseAlarm == ~upset => ~integ_fail

\* An escalation that lasts two cycles reaches esc_en_o in its second cycle, also
\* when the receiver is in the middle of a ping response.
EscInTime == ~upset /\ snd.esc_req_q1 => esc_en

\* Once faults and escalations cease, the two state machines find back to each
\* other.
LineRecovers == <>[](fault = {} /\ quiet > 0) => []<>~upset

=============================================================================
