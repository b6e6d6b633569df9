--------------------------- MODULE AlertReceiver ----------------------------
(***************************************************************************)
(* prim_alert_receiver: acknowledges the handshakes of one alert sender    *)
(* and tells the alert handler, in the cycle in which it sees the level    *)
(* change, that an alert or a ping response came in. ReceiverStep is one   *)
(* clock edge: it reads the pair alert as it arrives and the input         *)
(* ping_req_i.                                                             *)
(***************************************************************************)
EXTENDS DiffDecode

VARIABLES
  r_state,          \* state_q
  ack,              \* ack_pq; the pair ack_p/n is complementary by construction
  ping_tog,         \* ping_tog_pq; the pair ping_p/n is complementary, too
  ping_req_q,       \* ping_req_q
  ping_pending,     \* ping_pending_q
  r_alert_level     \* level_q of the decoder of alert_p/n

receiverVars == <<r_state, ack, ping_tog, ping_req_q, ping_pending, r_alert_level>>

ReceiverStates == {"Idle", "HsAckWait", "Pause0", "Pause1"}

ReceiverTypeOK ==
  /\ r_state \in ReceiverStates
  /\ ack \in BOOLEAN
  /\ ping_tog \in BOOLEAN
  /\ ping_req_q \in BOOLEAN
  /\ ping_pending \in BOOLEAN
  /\ r_alert_level \in BOOLEAN

ReceiverInit ==
  /\ r_state = "Idle"
  /\ ack = FALSE
  /\ ping_tog = FALSE
  /\ ping_req_q = FALSE
  /\ ping_pending = FALSE
  /\ r_alert_level = FALSE

-----------------------------------------------------------------------------
\* A handshake is initiated on a correctly encoded pair.
HsInitiated(alert_i) == r_state = "Idle" /\ LevelO(alert_i, r_alert_level) /\ ~SigIntO(alert_i)

\* The three outputs: what an initiated handshake means is decided by
\* ping_pending alone.
AlertO(alert_i) == HsInitiated(alert_i) /\ ~ping_pending
PingOkO(alert_i) == HsInitiated(alert_i) /\ ping_pending
IntegFailO(alert_i) == SigIntO(alert_i)

\* ping_rise: the ping request is signalled by a level change of ping_p/n.
PingRise(ping_req_i) == ping_req_i /\ ~ping_req_q

ReceiverRegs(alert_i, ping_req_i) ==
  /\ ping_tog' = IF PingRise(ping_req_i) THEN ~ping_tog ELSE ping_tog
  /\ ping_req_q' = ping_req_i
  /\ ping_pending' = (PingRise(ping_req_i) \/ (~PingOkO(alert_i) /\ ping_req_i /\ ping_pending))
  /\ r_alert_level' = LevelO(alert_i, r_alert_level)

\* Seeded fault: the receiver acknowledges without leaving Idle.
ReceiverIdleStays(alert_i) ==
  /\ r_state = "Idle"
  /\ ~SigIntO(alert_i)
  /\ r_state' = "Idle"
  /\ ack' = LevelO(alert_i, r_alert_level)

ReceiverIdle(alert_i) ==
  /\ r_state = "Idle"
  /\ ~SigIntO(alert_i)
  /\ r_state' = IF LevelO(alert_i, r_alert_level) THEN "HsAckWait" ELSE "Idle"
  /\ ack' = LevelO(alert_i, r_alert_level)

\* Hold the acknowledge until the alert level is withdrawn.
ReceiverHsAckWait(alert_i) ==
  /\ r_state = "HsAckWait"
  /\ ~SigIntO(alert_i)
  /\ r_state' = IF LevelO(alert_i, r_alert_level) THEN "HsAckWait" ELSE "Pause0"
  /\ ack' = LevelO(alert_i, r_alert_level)

ReceiverPause(alert_i) ==
  /\ r_state \in {"Pause0", "Pause1"}
  /\ ~SigIntO(alert_i)
  /\ r_state' = IF r_state = "Pause0" THEN "Pause1" ELSE "Idle"
  /\ ack' = FALSE

\* A wrongly encoded alert pair overrides every state.
ReceiverSigInt(alert_i) ==
  /\ SigIntO(alert_i)
  /\ r_state' = "Idle"
  /\ ack' = FALSE

ReceiverStep(alert_i, ping_req_i) ==
  /\ ReceiverRegs(alert_i, ping_req_i)
  /\ \/ ReceiverIdle(alert_i)
     \/ ReceiverHsAckWait(alert_i)
     \/ ReceiverPause(alert_i)
     \/ ReceiverSigInt(alert_i)
=============================================================================
