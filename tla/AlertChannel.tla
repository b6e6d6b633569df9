---------------------------- MODULE AlertChannel ----------------------------
(***************************************************************************)
(* One alert line: prim_alert_sender and prim_alert_receiver on one clock, *)
(* joined by three differential pairs, and the ping requests the ping      *)
(* timer of the alert handler makes on the line.                           *)
(***************************************************************************)
EXTENDS AlertSender, AlertReceiver, Naturals

CONSTANTS
  Lines,            \* the lines considered: is_fatal is IsFatal of the sender, tests
                    \* the values alert_test_i takes, faulty the pairs on which signal
                    \* integrity issues occur
  PingTimeout,      \* ping_timeout_cyc_i of the ping timer
  PingSpacing,      \* the least wait_cyc the ping timer draws
  PingRest          \* bound: the waits that are at least this long are alike

ASSUME LinesAssumption ==
  \A l \in Lines : /\ l.is_fatal \in BOOLEAN
                   /\ l.tests \subseteq BOOLEAN
                   /\ l.faulty \subseteq {"alert", "ack", "ping"}
ASSUME PingTimeoutAssumption == PingTimeout \in Nat
ASSUME PingSpacingAssumption == PingSpacing \in Nat /\ PingRest \in Nat

VARIABLES
  line,             \* which of Lines this is
  ping_req,         \* alert_ping_req_o of this line
  ping_cnt,         \* cnt_q of the ping timer
  alert_o,          \* the outputs of the receiver in the last cycle
  ping_ok_o,
  integ_fail_o,
  owed,             \* history: whether the latched alert is still to be reported
  hs_seen           \* history: how often the current handshake was signalled

pingVars == <<ping_req, ping_cnt>>
outVars == <<alert_o, ping_ok_o, integ_fail_o>>
vars == <<senderVars, receiverVars, pingVars, outVars, line, owed, hs_seen>>

TypeOK ==
  /\ SenderTypeOK
  /\ ReceiverTypeOK
  /\ ping_req \in BOOLEAN
  /\ ping_cnt \in 0..(IF ping_req THEN PingTimeout ELSE PingRest)
  /\ alert_o \in BOOLEAN
  /\ ping_ok_o \in BOOLEAN
  /\ integ_fail_o \in BOOLEAN
  /\ owed \in {"no", "yes", "crossed"}
  /\ line \in Lines
  /\ hs_seen \in 0..2

Init ==
  /\ SenderInit
  /\ ReceiverInit
  /\ ping_req = FALSE
  /\ ping_cnt = 0
  /\ alert_o = FALSE
  /\ ping_ok_o = FALSE
  /\ integ_fail_o = FALSE
  /\ owed = "no"
  /\ line \in Lines
  /\ hs_seen = 0

\* What the far end of a pair may see: the value driven or, where integrity
\* issues occur, the value with one wire inverted.
Seen(pair, d) == {d} \cup IF pair \in line.faulty THEN FlipWire(d) ELSE {}

\* DoPingSt: keep the request up until the response or the timeout.
PingHold(ping_ok) ==
  /\ ping_req
  /\ IF ping_ok \/ ping_cnt >= PingTimeout
     THEN ping_req' = FALSE /\ ping_cnt' = 0
     ELSE ping_req' = TRUE /\ ping_cnt' = ping_cnt + 1

\* RespWaitSt: wait for at least PingSpacing cycles; the line may then be the
\* one that is drawn.
PingWait ==
  /\ ~ping_req
  /\ ping_req' = FALSE
  /\ ping_cnt' = IF ping_cnt < PingRest THEN ping_cnt + 1 ELSE ping_cnt

PingStart ==
  /\ ~ping_req
  /\ ping_cnt >= PingSpacing
  /\ ping_req' = TRUE
  /\ ping_cnt' = 0

\* The line is pinged again before the sender has answered the ping before, or
\* the receiver waits for a response that, the two having been one to the
\* sender, it does not owe any more.
PingOvertakes ==
  \/ PingRise(ping_req) /\ ping_set
  \/ ping_pending /\ ~ping_set /\ s_ping_p = ping_tog

\* The sender is in a handshake that, as no alert is latched, a test has started.
AlertInTest == ~alert_set /\ s_state \in {"AlertHsPhase1", "AlertHsPhase2"}

\* The history variable: an alert becomes owed when the sender latches it, and
\* is discharged by the next alert_o or integ_fail_o. One that a test or a
\* second ping has crossed may be taken for it.
Account(alert_i) ==
  owed' = IF ~alert_set /\ alert_set' THEN (IF AlertInTest \/ PingOvertakes THEN "crossed" ELSE "yes")
          ELSE IF AlertO(alert_i) \/ IntegFailO(alert_i) THEN "no"
          ELSE IF owed = "yes" /\ PingOvertakes THEN "crossed"
          ELSE owed

HsCount(alert_i) ==
  hs_seen' = IF s_state = "Idle" THEN 0
             ELSE IF HsInitiated(alert_i) /\ hs_seen < 2 THEN hs_seen + 1
             ELSE hs_seen

\* One cycle of the common clock.
Tick(req, test) ==
  \E alert_i \in Seen("alert", alert), ack_i \in Seen("ack", Drive(ack)),
     ping_i \in Seen("ping", Drive(ping_tog)) :
    /\ SenderStep(line.is_fatal, ack_i, ping_i, req, test)
    /\ ReceiverStep(alert_i, ping_req)
    /\ PingHold(PingOkO(alert_i)) \/ PingWait \/ PingStart
    /\ alert_o' = AlertO(alert_i)
    /\ ping_ok_o' = PingOkO(alert_i)
    /\ integ_fail_o' = IntegFailO(alert_i)
    /\ Account(alert_i)
    /\ HsCount(alert_i)
    /\ UNCHANGED line

Next == \E req \in BOOLEAN, test \in line.tests : Tick(req, test)

Spec == Init /\ [][Next]_vars /\ WF_vars(Next)

-----------------------------------------------------------------------------
SenderPhase1States == {"AlertHsPhase1", "PingHsPhase1"}
SenderPhase2States == {"AlertHsPhase2", "PingHsPhase2"}

\* Every handshake the sender sees acknowledged was signalled by the receiver,
\* as an alert or as a ping response, and was signalled once: neither FSM can
\* run ahead of the other, whatever single-wire faults hit the pairs.
HandshakeOnce == s_state \in SenderPhase2States => hs_seen = 1

\* A latched alert is eventually reported, as an alert or as an integrity
\* failure, also when it meets a ping on the wires and is taken for its
\* response: the ping response that follows then reports it. There are two
\* exceptions: the handler may ping the line again before that response, as the
\* least wait of the ping timer allows, and take both handshakes for ping
\* responses; and an alert latched in a handshake that a test has started is
\* cleared with it. A fatal alert is sent again and again, and is reported even
\* so, provided that the line is not pinged in every one of its handshakes.
AlertDelivered ==
  /\ owed = "yes" ~> alert_o \/ integ_fail_o \/ owed = "crossed"
  /\ line.is_fatal /\ []<>(~ping_req /\ ping_cnt = PingRest)
        => (owed = "crossed" ~> owed = "no")

\* The strengthening of HandshakeOnce that every step preserves: what the
\* sender drives is determined by its state, the acknowledge by the state of
\* the receiver, and the receiver signals a handshake as it raises the
\* acknowledge.
HandshakeInv ==
  /\ TypeOK
  /\ alert = "hi" <=> s_state \in SenderPhase1States
  /\ SigIntO(alert) <=> s_state = "SigInt"
  /\ ack <=> r_state = "HsAckWait"
  /\ s_state \in SenderPhase1States => hs_seen = (IF ack THEN 1 ELSE 0)
  /\ HandshakeOnce
=============================================================================
