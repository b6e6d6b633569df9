----------------------------- MODULE EscSender ------------------------------
(***************************************************************************)
(* prim_esc_sender: drives the escalation pair of one severity, checks the *)
(* response of the receiver against the pattern it expects, and answers    *)
(* the ping timer. SenderStep is one clock edge; its outputs are           *)
(* combinational.                                                          *)
(***************************************************************************)
EXTENDS DiffDecode, Naturals

VARIABLES
  snd,              \* [state, esc_req_q, esc_req_q1, ping_req_q, level_q]
  ping_ok, integ_fail       \* the outputs in the last cycle

senderVars == <<snd, ping_ok, integ_fail>>

PingStates == <<"CheckPingResp0", "CheckPingResp1", "CheckPingResp2", "CheckPingResp3">>
SenderStates == {"Idle", "CheckEscRespLo", "CheckEscRespHi"} \cup {PingStates[n] : n \in 1..4}

SenderInit ==
  /\ snd = [state |-> "Idle", esc_req_q |-> FALSE, esc_req_q1 |-> FALSE,
            ping_req_q |-> FALSE, level_q |-> FALSE]
  /\ ping_ok = FALSE /\ integ_fail = FALSE

\* esc_p: an escalation lasts one cycle longer than its request, a ping is one
\* cycle.
EscP(esc_req, ping_req) ==
  esc_req \/ snd.esc_req_q \/ (ping_req /\ ~snd.ping_req_q)

\* ping_ok_o: the sequence was right, or an escalation stands in for it.
PingOkO(in, ok) ==
  \/ ok /\ in.ping_req /\ ~SigIntO(in.rx)
  \/ in.ping_req /\ (in.esc_req \/ snd.esc_req_q \/ snd.esc_req_q1)

\* The registers and outputs at the end of a cycle in which the state machine
\* goes to next; an integrity issue on the response pair overrides it.
Goto(in, next, fail, ok) ==
  /\ snd' = [state |-> IF SigIntO(in.rx) THEN "Idle" ELSE next,
             esc_req_q |-> in.esc_req, esc_req_q1 |-> snd.esc_req_q,
             ping_req_q |-> in.ping_req, level_q |-> LevelO(in.rx, snd.level_q)]
  /\ integ_fail' = (SigIntO(in.rx) \/ fail)
  /\ ping_ok' = PingOkO(in, ok)

Resp(in) == LevelO(in.rx, snd.level_q)

SenderIdle(in) ==
  /\ snd.state = "Idle"
  /\ Goto(in, IF in.esc_req THEN "CheckEscRespHi"
              ELSE IF in.ping_req THEN "CheckPingResp0" ELSE "Idle", Resp(in), FALSE)

\* The response toggles while the escalation lasts.
SenderCheckEsc(in, state, other, level) ==
  /\ snd.state = state
  /\ Goto(in, IF EscP(in.esc_req, in.ping_req) /\ Resp(in) = level THEN other ELSE "Idle",
          Resp(in) # level, FALSE)

\* Seeded fault: the sequence that follows an escalation starts at the wrong level.
SenderCheckPingSwapped(in, n) ==
  LET level == n % 2 = 1
  IN /\ snd.state = PingStates[n]
     /\ IF in.esc_req
        THEN Goto(in, IF level THEN "CheckEscRespHi" ELSE "CheckEscRespLo", FALSE, FALSE)
        ELSE Goto(in, IF n < 4 /\ Resp(in) = level THEN PingStates[n + 1] ELSE "Idle",
                  Resp(in) # level, n = 4 /\ Resp(in) = level)

\* The response to a ping is "1010"; an escalation cuts it short.
SenderCheckPing(in, n) ==
  LET level == n % 2 = 1
  IN /\ snd.state = PingStates[n]
     /\ IF in.esc_req
        THEN Goto(in, IF level THEN "CheckEscRespLo" ELSE "CheckEscRespHi", FALSE, FALSE)
        ELSE Goto(in, IF n < 4 /\ Resp(in) = level THEN PingStates[n + 1] ELSE "Idle",
                  Resp(in) # level, n = 4 /\ Resp(in) = level)

\* in: the inputs esc_req and ping_req, and the response pair rx
SenderStep(in) ==
  \/ SenderIdle(in)
  \/ SenderCheckEsc(in, "CheckEscRespLo", "CheckEscRespHi", FALSE)
  \/ SenderCheckEsc(in, "CheckEscRespHi", "CheckEscRespLo", TRUE)
  \/ \E n \in 1..4 : SenderCheckPing(in, n)
=============================================================================
