---------------------------- MODULE EscReceiver -----------------------------
(***************************************************************************)
(* prim_esc_receiver: tells a ping, one cycle, from an escalation, longer, *)
(* answers both on the response pair, and reports a wrongly encoded pair   *)
(* by a wrongly encoded response.                                          *)
(***************************************************************************)
EXTENDS DiffDecode

VARIABLES
  rcv,              \* [state, resp, level_q]; resp is the pair of registers
  esc_en            \* esc_en_o in the last cycle

receiverVars == <<rcv, esc_en>>

ReceiverStates == {"Idle", "Check", "PingResp", "EscResp", "SigInt"}

ReceiverInit ==
  /\ rcv = [state |-> "Idle", resp |-> "lo", level_q |-> FALSE]
  /\ esc_en = FALSE

-----------------------------------------------------------------------------

\* A wrongly encoded pair overrides state and response, but not esc_en_o.
RcvGoto(tx, next, resp, en) ==
  /\ rcv' = [state |-> IF SigIntO(tx) THEN "SigInt" ELSE next,
             resp |-> IF SigIntO(tx) /\ rcv.state # "SigInt" THEN "err0" ELSE resp,
             level_q |-> LevelO(tx, rcv.level_q)]
  /\ esc_en' = en

Level(tx) == LevelO(tx, rcv.level_q)

RcvIdle(tx) ==
  /\ rcv.state = "Idle"
  /\ RcvGoto(tx, IF Level(tx) THEN "Check" ELSE "Idle", Drive(Level(tx)), FALSE)

\* A second cycle makes it an escalation.
RcvCheck(tx) ==
  /\ rcv.state = "Check"
  /\ RcvGoto(tx, IF Level(tx) THEN "EscResp" ELSE "PingResp", "lo", Level(tx))

\* Seeded fault: the end of a ping response does not look at the line.
RcvPingRespBlind(tx) ==
  /\ rcv.state = "PingResp"
  /\ RcvGoto(tx, "Idle", "hi", FALSE)

RcvPingResp(tx) ==
  /\ rcv.state = "PingResp"
  /\ RcvGoto(tx, IF Level(tx) THEN "EscResp" ELSE "Idle", "hi", Level(tx))

\* Toggle while it lasts.
RcvEscResp(tx) ==
  /\ rcv.state = "EscResp"
  /\ RcvGoto(tx, IF Level(tx) THEN "EscResp" ELSE "Idle",
             Drive(Level(tx) /\ ~DiffP(rcv.resp)), Level(tx))

\* Seeded fault: the receiver stays in SigInt.
RcvSigIntStuck(tx) ==
  /\ rcv.state = "SigInt"
  /\ RcvGoto(tx, "SigInt", IF DiffP(rcv.resp) THEN "err0" ELSE "err1", FALSE)

\* Toggle both wires alike while the issue lasts.
RcvSigInt(tx) ==
  /\ rcv.state = "SigInt"
  /\ RcvGoto(tx, "Idle", IF ~SigIntO(tx) THEN "lo"
                         ELSE IF DiffP(rcv.resp) THEN "err0" ELSE "err1", FALSE)

\* tx: the escalation pair as it arrives
ReceiverStep(tx) ==
  RcvIdle(tx) \/ RcvCheck(tx) \/ RcvPingResp(tx) \/ RcvEscResp(tx) \/ RcvSigInt(tx)
=============================================================================
