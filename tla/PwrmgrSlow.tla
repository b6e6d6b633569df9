----------------------------- MODULE PwrmgrSlow -----------------------------
(***************************************************************************)
(* pwrmgr_slow_fsm, the power manager FSM on the always-on clock: switches *)
(* the main power domain and the clock sources of the AST, and hands over  *)
(* to the fast FSM and back with two request/acknowledge pairs.            *)
(*                                                                         *)
(* The registers are the fields of slow. SlowStep(in) is one edge of the   *)
(* slow clock; in holds wakeup, reset_req, ack_pwrup and req_pwrdn, the    *)
(* synchronised answers main_pok and clk_val of the AST and the slow copy  *)
(* of the control register, cfg.                                           *)
(***************************************************************************)

Clks == {"core", "io", "usb"}   \* the clock sources

SlowStates == {"Reset", "LowPower", "MainPowerOn", "PwrClampOff", "ClocksOn", "ReqPwrUp", "Idle",
               "AckPwrDn", "ClocksOff", "PwrClampOn", "MainPowerOff"}

VARIABLE slow                   \* the registers of the FSM

SlowInit ==
  slow = [state |-> "Reset", cause |-> "Por", cause_toggle |-> FALSE, pd_n |-> TRUE,
          pwr_clamp |-> FALSE, pwr_clamp_env |-> FALSE, clk_en |-> {},
          req_pwrup |-> FALSE, ack_pwrdn |-> FALSE]

-----------------------------------------------------------------------------
UsbActive(in) == IF in.cfg.usb_active THEN {"usb"} ELSE {}

\* The sources that must run are running; the ones that must stop have stopped.
AllClksValid(in) == {"core", "io"} \cup UsbActive(in) \subseteq in.clk_val
AllClksInvalid(in) == in.clk_val \subseteq in.cfg.clk_en_lp

SlowReset ==
  /\ slow.state = "Reset"
  /\ slow' = [slow EXCEPT !.state = "MainPowerOn", !.cause = "Por"]

\* A reset request wakes the system up like a wakeup does.
SlowLowPower(in) ==
  /\ slow.state = "LowPower"
  /\ slow' = IF in.wakeup \/ in.reset_req
             THEN [slow EXCEPT !.state = "MainPowerOn",
                               !.cause_toggle = ~@,
                               !.cause = IF in.reset_req THEN "Reset" ELSE "Wake"]
             ELSE slow

SlowMainPowerOn(in) ==
  /\ slow.state = "MainPowerOn"
  /\ slow' = IF in.main_pok
             THEN [slow EXCEPT !.pd_n = TRUE, !.pwr_clamp_env = FALSE, !.state = "PwrClampOff"]
             ELSE [slow EXCEPT !.pd_n = TRUE]

SlowPwrClampOff ==
  /\ slow.state = "PwrClampOff"
  /\ slow' = [slow EXCEPT !.pwr_clamp = FALSE, !.state = "ClocksOn"]

SlowClocksOn(in) ==
  /\ slow.state = "ClocksOn"
  /\ slow' = [slow EXCEPT
       !.clk_en = {"core", "io"} \cup UsbActive(in),
       !.state = IF AllClksValid(in) THEN "ReqPwrUp" ELSE @]

\* req_pwrdn must be low: the power-down request of the last round is over.
SlowReqPwrUp(in) ==
  /\ slow.state = "ReqPwrUp"
  /\ LET acked == in.ack_pwrup /\ ~in.req_pwrdn
     IN slow' = [slow EXCEPT !.req_pwrup = ~acked,
                             !.state = IF acked THEN "Idle" ELSE @]

\* ack_pwrup must be low: the power-up acknowledge of the last round is over.
SlowIdle(in) ==
  /\ slow.state = "Idle"
  /\ slow' = [slow EXCEPT
       !.clk_en = (@ \ {"usb"}) \cup UsbActive(in),
       !.state = IF in.req_pwrdn /\ ~in.ack_pwrup THEN "AckPwrDn" ELSE @]

SlowAckPwrDn(in) ==
  /\ slow.state = "AckPwrDn"
  /\ slow' = [slow EXCEPT !.ack_pwrdn = in.req_pwrdn,
                          !.state = IF in.req_pwrdn THEN @ ELSE "ClocksOff"]

\* Seeded fault: the sense of the clamp enable is inverted.
SlowClocksOffUnclamped(in) ==
  /\ slow.state = "ClocksOff"
  /\ slow' = IF AllClksInvalid(in)
             THEN [slow EXCEPT !.clk_en = in.cfg.clk_en_lp,
                               !.pwr_clamp_env = in.cfg.main_pd_n,
                               !.state = "PwrClampOn"]
             ELSE [slow EXCEPT !.clk_en = in.cfg.clk_en_lp]

SlowClocksOff(in) ==
  /\ slow.state = "ClocksOff"
  /\ slow' = IF AllClksInvalid(in)
             THEN [slow EXCEPT !.clk_en = in.cfg.clk_en_lp,
                               !.pwr_clamp_env = ~in.cfg.main_pd_n,
                               !.state = "PwrClampOn"]
             ELSE [slow EXCEPT !.clk_en = in.cfg.clk_en_lp]

SlowPwrClampOn ==
  /\ slow.state = "PwrClampOn"
  /\ slow' = [slow EXCEPT !.pwr_clamp = slow.pwr_clamp_env, !.state = "MainPowerOff"]

SlowMainPowerOff(in) ==
  /\ slow.state = "MainPowerOff"
  /\ slow' = [slow EXCEPT
       !.pd_n = in.cfg.main_pd_n,
       !.state = IF ~in.main_pok \/ in.cfg.main_pd_n THEN "LowPower" ELSE @]

SlowStep(in) ==
  \/ SlowReset
  \/ SlowLowPower(in)
  \/ SlowMainPowerOn(in)
  \/ SlowPwrClampOff
  \/ SlowClocksOn(in)
  \/ SlowReqPwrUp(in)
  \/ SlowIdle(in)
  \/ SlowAckPwrDn(in)
  \/ SlowClocksOff(in)
  \/ SlowPwrClampOn
  \/ SlowMainPowerOff(in)
=============================================================================
