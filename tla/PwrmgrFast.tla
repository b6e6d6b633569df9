----------------------------- MODULE PwrmgrFast -----------------------------
(***************************************************************************)
(* pwrmgr_fsm, the power manager FSM on the fast clock: sequences clocks,  *)
(* resets, OTP and life cycle initialisation and the ROM check on the way  *)
(* up, and the low-power and reset paths on the way down.                  *)
(*                                                                         *)
(* The registers are the fields of fast; a step that does not mention one  *)
(* leaves it alone, like the default assignments of the code. FastStep(in) *)
(* is one clock edge, and in holds the inputs of that cycle:               *)
(*   req_pwrup, cause, ack_pwrdn   from the slow FSM, synchronised         *)
(*   low_power_entry               core_sleeping and the low-power hint    *)
(*   reset_req                     any of reset_reqs_i                     *)
(*   main_pd_n                     the control register field              *)
(*   clk_status                    clk_en_status_i of the clock manager    *)
(*   lc_rst, sys_rst               the domains whose resets are asserted   *)
(*   ready                         the answer the state waits for:         *)
(*                                 otp_done_i, lc_done, ROM done and good, *)
(*                                 or OTP, life cycle and flash idle       *)
(* Each of the last four is read in one state only, so one bit serves.     *)
(***************************************************************************)

Domains == {"aon", "main"}      \* PowerDomains; main may be switched off

FastStates == {"LowPower", "EnableClocks", "ReleaseLcRst", "OtpInit", "LcInit", "Strap", "AckPwrUp",
               "RomCheck", "Active", "DisClks", "FallThrough", "NvmIdleChk", "LowPowerPrep",
               "ReqPwrDn", "NvmShutDown", "ResetPrep"}

VARIABLES
  fast,             \* the registers of the FSM
  strap_sampled     \* strap_sampled

FastInit ==
  /\ fast = [state |-> "LowPower", ack_pwrup |-> FALSE, req_pwrdn |-> FALSE,
             reset_ongoing |-> FALSE, ip_clk_en |-> FALSE,
             rst_lc_req |-> Domains, rst_sys_req |-> Domains,
             reset_cause |-> "ResetUndefined", low_power |-> TRUE, fetch_en |-> FALSE]
  /\ strap_sampled = FALSE

-----------------------------------------------------------------------------
\* reset_valid: the resets that the path in progress has to assert are asserted.
ResetValid(in) ==
  \/ /\ fast.reset_cause = "LowPwrEntry"
     /\ in.main_pd_n \/ "main" \in in.lc_rst \cap in.sys_rst
  \/ /\ fast.reset_cause = "HwReq"
     /\ in.lc_rst = Domains /\ in.sys_rst = Domains

\* Combinational outputs.
StrapO == fast.state = "Strap" /\ ~strap_sampled
ClrHintO == fast.state \in {"FallThrough", "NvmShutDown"}
FallThroughO(in) == fast.state = "FallThrough" /\ ~in.low_power_entry
AbortO(in) == fast.state = "NvmIdleChk" /\ ~in.ready
ClrCfgLockO(in) == fast.state = "AckPwrUp" /\ (~in.req_pwrup \/ fast.reset_ongoing)
WkupO(in) ==
  FallThroughO(in) \/ AbortO(in) \/ (ClrCfgLockO(in) /\ in.cause = "Wake")

-----------------------------------------------------------------------------
FastLowPower(in) ==
  /\ fast.state = "LowPower"
  /\ fast' = [fast EXCEPT
       !.state = IF in.req_pwrup \/ fast.reset_ongoing THEN "EnableClocks" ELSE @]

FastEnableClocks(in) ==
  /\ fast.state = "EnableClocks"
  /\ fast' = [fast EXCEPT
       !.ip_clk_en = TRUE,
       !.state = IF in.clk_status THEN "ReleaseLcRst" ELSE @]

FastReleaseLcRst(in) ==
  /\ fast.state = "ReleaseLcRst"
  /\ fast' = [fast EXCEPT
       !.rst_lc_req = {},
       !.state = IF in.lc_rst = {} THEN "OtpInit" ELSE @]

\* OTP and life cycle initialisation, one after the other.
FastNvmInit(in) ==
  /\ fast.state \in {"OtpInit", "LcInit"}
  /\ fast' = [fast EXCEPT
       !.state = IF ~in.ready THEN @ ELSE IF @ = "OtpInit" THEN "LcInit" ELSE "Strap"]

FastStrap ==
  /\ fast.state = "Strap"
  /\ fast' = [fast EXCEPT !.state = "AckPwrUp"]

\* The slow FSM is acknowledged only if the power-up went through it.
FastAckPwrUp(in) ==
  /\ fast.state = "AckPwrUp"
  /\ fast' = [fast EXCEPT
       !.ack_pwrup = ~fast.reset_ongoing /\ ~ClrCfgLockO(in),
       !.state = IF ClrCfgLockO(in) THEN "RomCheck" ELSE @]

FastRomCheck(in) ==
  /\ fast.state = "RomCheck"
  /\ fast' = [fast EXCEPT
       !.low_power = FALSE,
       !.rst_sys_req = {},
       !.reset_cause = "ResetNone",
       !.state = IF in.ready THEN "Active" ELSE @]

\* Seeded fault: a reset request is seen only together with a low-power request.
FastActiveSleepOnly(in) ==
  /\ fast.state = "Active"
  /\ fast' = IF in.low_power_entry
             THEN [fast EXCEPT !.fetch_en = TRUE,
                               !.reset_cause = "ResetUndefined",
                               !.state = "DisClks"]
             ELSE [fast EXCEPT !.fetch_en = TRUE]

FastActive(in) ==
  /\ fast.state = "Active"
  /\ fast' = IF in.reset_req \/ in.low_power_entry
             THEN [fast EXCEPT !.fetch_en = TRUE,
                               !.reset_cause = "ResetUndefined",
                               !.state = "DisClks"]
             ELSE [fast EXCEPT !.fetch_en = TRUE]

\* Which path is taken is decided when the clocks are off.
FastDisClks(in) ==
  /\ fast.state = "DisClks"
  /\ fast' = IF in.clk_status
             THEN [fast EXCEPT !.ip_clk_en = FALSE]
             ELSE [fast EXCEPT !.ip_clk_en = FALSE,
                               !.low_power = ~in.reset_req,
                               !.state = IF in.reset_req THEN "NvmShutDown" ELSE "FallThrough"]

\* The low-power path: the processor woke up meanwhile, a non-volatile memory
\* is busy, or the slow FSM takes over.
FastFallThrough(in) ==
  /\ fast.state = "FallThrough"
  /\ fast' = IF FallThroughO(in)
             THEN [fast EXCEPT !.ip_clk_en = TRUE, !.state = "Active"]
             ELSE [fast EXCEPT !.state = "NvmIdleChk"]

FastNvmIdleChk(in) ==
  /\ fast.state = "NvmIdleChk"
  /\ fast' = IF AbortO(in)
             THEN [fast EXCEPT !.ip_clk_en = TRUE, !.state = "Active"]
             ELSE [fast EXCEPT !.state = "LowPowerPrep"]

FastLowPowerPrep(in) ==
  /\ fast.state = "LowPowerPrep"
  /\ LET off(req) == IF in.main_pd_n THEN req \ {"main"} ELSE req \cup {"main"}
     IN fast' = [fast EXCEPT
          !.reset_cause = "LowPwrEntry",
          !.rst_lc_req = off(@),
          !.rst_sys_req = off(@),
          !.state = IF ResetValid(in) THEN "ReqPwrDn" ELSE @]

\* Seeded fault: the request stays up after its acknowledge.
FastReqPwrDnHeld(in) ==
  /\ fast.state = "ReqPwrDn"
  /\ fast' = [fast EXCEPT !.req_pwrdn = TRUE,
                          !.state = IF in.ack_pwrdn THEN "LowPower" ELSE @]

FastReqPwrDn(in) ==
  /\ fast.state = "ReqPwrDn"
  /\ fast' = [fast EXCEPT
       !.req_pwrdn = ~in.ack_pwrdn,
       !.state = IF in.ack_pwrdn THEN "LowPower" ELSE @]

\* The reset path.
FastNvmShutDown ==
  /\ fast.state = "NvmShutDown"
  /\ fast' = [fast EXCEPT !.reset_ongoing = TRUE, !.state = "ResetPrep"]

FastResetPrep(in) ==
  /\ fast.state = "ResetPrep"
  /\ fast' = [fast EXCEPT
       !.reset_cause = "HwReq",
       !.rst_lc_req = Domains,
       !.rst_sys_req = Domains,
       !.state = IF ResetValid(in) THEN "LowPower" ELSE @]

StrapReg ==
  strap_sampled' = /\ fast.rst_lc_req # Domains /\ fast.rst_sys_req # Domains
                   /\ StrapO \/ strap_sampled

FastStep(in) ==
  /\ StrapReg
  /\ \/ FastLowPower(in)
     \/ FastEnableClocks(in)
     \/ FastReleaseLcRst(in)
     \/ FastNvmInit(in)
     \/ FastStrap
     \/ FastAckPwrUp(in)
     \/ FastRomCheck(in)
     \/ FastActive(in)
     \/ FastDisClks(in)
     \/ FastFallThrough(in)
     \/ FastNvmIdleChk(in)
     \/ FastLowPowerPrep(in)
     \/ FastReqPwrDn(in)
     \/ FastNvmShutDown
     \/ FastResetPrep(in)
=============================================================================
