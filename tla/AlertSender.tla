---------------------------- MODULE AlertSender -----------------------------
(***************************************************************************)
(* prim_alert_sender: turns an alert request of a peripheral, or a ping of *)
(* the alert handler, into a four-phase handshake on alert_p/n and         *)
(* ack_p/n. SenderStep is one clock edge: it reads the pairs ack_i and     *)
(* ping_i as they arrive, and the inputs alert_req_i and alert_test_i.     *)
(* fatal is the parameter IsFatal of the instance: latch alerts for good.  *)
(***************************************************************************)
EXTENDS DiffDecode

VARIABLES
  s_state,          \* state_q
  alert,            \* the output pair alert_pq, alert_nq
  alert_set,        \* alert_set_q, also the output alert_state_o
  alert_test_set,   \* alert_test_set_q
  ping_set,         \* ping_set_q
  s_ack_level,      \* level_q of the decoder of ack_p/n
  s_ping_p          \* diff_pq of the decoder of ping_p/n

senderVars ==
  <<s_state, alert, alert_set, alert_test_set, ping_set, s_ack_level, s_ping_p>>

SenderStates == {"Idle", "AlertHsPhase1", "AlertHsPhase2", "PingHsPhase1",
                 "PingHsPhase2", "SigInt", "Pause0", "Pause1"}

SenderTypeOK ==
  /\ s_state \in SenderStates
  /\ alert \in Diff
  /\ alert_set \in BOOLEAN
  /\ alert_test_set \in BOOLEAN
  /\ ping_set \in BOOLEAN
  /\ s_ack_level \in BOOLEAN
  /\ s_ping_p \in BOOLEAN

SenderInit ==
  /\ s_state = "Idle"
  /\ alert = "lo"
  /\ alert_set = FALSE
  /\ alert_test_set = FALSE
  /\ ping_set = FALSE
  /\ s_ack_level = FALSE
  /\ s_ping_p = FALSE

-----------------------------------------------------------------------------
\* sigint_detected: one of the two incoming pairs is wrongly encoded.
SigIntDetected(ack_i, ping_i) == SigIntO(ack_i) \/ SigIntO(ping_i)

\* alert_trigger: a request or a test, new or latched.
AlertTrigger(req, test) == req \/ alert_set \/ test \/ alert_test_set

\* ping_trigger: a level change on ping_p/n, new or latched.
PingTrigger(ping_i) == ping_set \/ EventO(ping_i, s_ping_p)

\* Seeded fault: the end of a ping handshake clears the alert, too.
AlertClrOnPing(ack_i, ping_i) ==
  /\ s_state \in {"AlertHsPhase2", "PingHsPhase2"}
  /\ ~LevelO(ack_i, s_ack_level)
  /\ ~SigIntDetected(ack_i, ping_i)

\* alert_clr: the alert handshake completes (ack deasserted in phase 2).
AlertClr(ack_i, ping_i) ==
  s_state = "AlertHsPhase2" /\ ~LevelO(ack_i, s_ack_level) /\ ~SigIntDetected(ack_i, ping_i)

\* ping_clr: the ping handshake completes.
PingClr(ack_i, ping_i) ==
  s_state = "PingHsPhase2" /\ ~LevelO(ack_i, s_ack_level) /\ ~SigIntDetected(ack_i, ping_i)

\* The flops that are updated in the same way in every state.
SenderRegs(fatal, ack_i, ping_i, req, test) ==
  /\ alert_set' = ((req \/ alert_set) /\ (fatal \/ ~AlertClr(ack_i, ping_i)))
  /\ alert_test_set' = ((test \/ alert_test_set) /\ ~AlertClr(ack_i, ping_i))
  /\ ping_set' = (PingTrigger(ping_i) /\ ~PingClr(ack_i, ping_i))
  /\ s_ack_level' = LevelO(ack_i, s_ack_level)
  /\ s_ping_p' = DiffP(ping_i)

\* Idle: start a handshake; an alert takes precedence over a ping.
SenderStart(ack_i, ping_i, req, test) ==
  /\ s_state = "Idle"
  /\ ~SigIntDetected(ack_i, ping_i)
  /\ AlertTrigger(req, test) \/ PingTrigger(ping_i)
  /\ s_state' = IF AlertTrigger(req, test) THEN "AlertHsPhase1" ELSE "PingHsPhase1"
  /\ alert' = "hi"

SenderNothingToSend(ack_i, ping_i, req, test) ==
  /\ s_state = "Idle"
  /\ ~SigIntDetected(ack_i, ping_i)
  /\ ~AlertTrigger(req, test) /\ ~PingTrigger(ping_i)
  /\ s_state' = "Idle"
  /\ alert' = "lo"

\* Phase 1: hold the alert level until it is acknowledged.
SenderPhase1(ack_i, ping_i) ==
  /\ s_state \in {"AlertHsPhase1", "PingHsPhase1"}
  /\ ~SigIntDetected(ack_i, ping_i)
  /\ IF LevelO(ack_i, s_ack_level)
     THEN /\ s_state' = IF s_state = "AlertHsPhase1" THEN "AlertHsPhase2" ELSE "PingHsPhase2"
          /\ alert' = "lo"
     ELSE /\ s_state' = s_state
          /\ alert' = "hi"

\* Phase 2: wait for the acknowledge to be withdrawn.
SenderPhase2(ack_i, ping_i) ==
  /\ s_state \in {"AlertHsPhase2", "PingHsPhase2"}
  /\ ~SigIntDetected(ack_i, ping_i)
  /\ s_state' = IF LevelO(ack_i, s_ack_level) THEN s_state ELSE "Pause0"
  /\ alert' = "lo"

\* Two pause cycles between back-to-back handshakes.
SenderPause(ack_i, ping_i) ==
  /\ s_state \in {"Pause0", "Pause1"}
  /\ ~SigIntDetected(ack_i, ping_i)
  /\ s_state' = IF s_state = "Pause0" THEN "Pause1" ELSE "Idle"
  /\ alert' = "lo"

\* A signal integrity issue on an incoming pair aborts whatever is going on.
SenderBailOut(ack_i, ping_i) ==
  /\ s_state # "SigInt"
  /\ SigIntDetected(ack_i, ping_i)
  /\ s_state' = "SigInt"
  /\ alert' = "err0"

\* SigInt: signal the condition by driving both wires alike and toggling them.
SenderSigInt(ack_i, ping_i) ==
  /\ s_state = "SigInt"
  /\ IF SigIntDetected(ack_i, ping_i)
     THEN /\ s_state' = "SigInt"
          /\ alert' = IF DiffP(alert) THEN "err0" ELSE "err1"
     ELSE /\ s_state' = "Idle"
          /\ alert' = "lo"

SenderStep(fatal, ack_i, ping_i, req, test) ==
  /\ SenderRegs(fatal, ack_i, ping_i, req, test)
  /\ \/ SenderStart(ack_i, ping_i, req, test)
     \/ SenderNothingToSend(ack_i, ping_i, req, test)
     \/ SenderPhase1(ack_i, ping_i)
     \/ SenderPhase2(ack_i, ping_i)
     \/ SenderPause(ack_i, ping_i)
     \/ SenderBailOut(ack_i, ping_i)
     \/ SenderSigInt(ack_i, ping_i)
=============================================================================
