---------------------------- MODULE PowerProofs -----------------------------
(***************************************************************************)
(* Proofs that main power is never removed from a running domain, and that *)
(* a wakeup is recorded, for every set of uses in which the software       *)
(* synchronises CONTROL before it sleeps, keeps the USB clock active and   *)
(* uses no low power after a reset request. Wakeups, reset requests,       *)
(* interrupts and busy memories come at any time, and the two clocks run   *)
(* at any rates.                                                           *)
(***************************************************************************)
EXTENDS PowerManager, TLAPS

SafeUse(u) == u.syncs /\ ~u.sleeps_after_reset /\ \A c \in u.configs : c.usb_active

-----------------------------------------------------------------------------
(* The type of what the argument is about *)
BootStates == {"EnableClocks", "ReleaseLcRst", "OtpInit", "LcInit", "Strap"}
ActiveStates == {"RomCheck", "Active", "DisClks", "FallThrough", "NvmIdleChk", "LowPowerPrep",
                 "NvmShutDown", "ResetPrep"}
SlowAlone == {"Reset", "LowPower", "MainPowerOn", "PwrClampOff", "ClocksOn", "ClocksOff",
              "PwrClampOn", "MainPowerOff"}

Fasts == [state : FastStates, ack_pwrup : BOOLEAN, req_pwrdn : BOOLEAN, reset_ongoing : BOOLEAN,
          ip_clk_en : BOOLEAN, rst_lc_req : SUBSET Domains, rst_sys_req : SUBSET Domains,
          reset_cause : {"ResetUndefined", "ResetNone", "LowPwrEntry", "HwReq"},
          low_power : BOOLEAN, fetch_en : BOOLEAN]
Slows == [state : SlowStates, cause : {"Por", "Wake", "Reset"}, cause_toggle : BOOLEAN,
          pd_n : BOOLEAN, pwr_clamp : BOOLEAN, pwr_clamp_env : BOOLEAN, clk_en : SUBSET Clks,
          req_pwrup : BOOLEAN, ack_pwrdn : BOOLEAN]
Configs == [main_pd_n : BOOLEAN, clk_en_lp : SUBSET Clks, usb_active : {TRUE}]
Pipe == BOOLEAN \X BOOLEAN

PowerType ==
  /\ use \in Uses
  /\ fast \in Fasts /\ slow \in Slows
  /\ f_sync.req_pwrup \in Pipe /\ f_sync.ack_pwrdn \in Pipe
  /\ s_sync.req_pwrdn \in Pipe /\ s_sync.ack_pwrup \in Pipe
  /\ cfg \in Configs /\ slow_cfg \in Configs
  /\ sync \in {"done", "requested", "copied"}
  /\ hint \in BOOLEAN /\ sleeping \in BOOLEAN
  /\ root_en \subseteq Clks /\ clk_val \subseteq Clks

-----------------------------------------------------------------------------
(* The two handshakes. In each state of the slow FSM: where the fast FSM is,   *)
(* and which of the requests and acknowledges are on their way.               *)
FReqUp == f_sync.req_pwrup
FAckDn == f_sync.ack_pwrdn
SReqDn == s_sync.req_pwrdn
SAckUp == s_sync.ack_pwrup

\* No request or acknowledge of a power-down is under way, but for an
\* acknowledge that has been seen and is running out.
NoPowerDown == ~fast.req_pwrdn /\ ~SReqDn[1] /\ ~SReqDn[2] /\ ~slow.ack_pwrdn
NoPowerUp == /\ ~slow.req_pwrup /\ ~FReqUp[1] /\ ~FReqUp[2]
             /\ ~fast.ack_pwrup /\ ~SAckUp[1] /\ ~SAckUp[2]

\* The slow FSM works alone.
Alone ==
  slow.state \in SlowAlone =>
    /\ fast.state = "LowPower" /\ ~fast.reset_ongoing
    /\ NoPowerUp /\ NoPowerDown /\ (FAckDn[1] => FAckDn[2])

\* The fast FSM is asked to power up, and boots.
PoweringUp ==
  slow.state = "ReqPwrUp" =>
    /\ fast.state \in {"LowPower", "AckPwrUp"} \cup BootStates /\ ~fast.reset_ongoing
    /\ NoPowerDown /\ (FAckDn[1] => FAckDn[2])
    /\ \A k \in {1, 2} : FReqUp[k] => ~FAckDn[k]
    /\ (FReqUp[2] => FReqUp[1]) /\ (FReqUp[1] => slow.req_pwrup)
    /\ fast.state # "LowPower" => FReqUp[2]
    /\ fast.ack_pwrup => fast.state = "AckPwrUp"
    /\ (SAckUp[2] => SAckUp[1]) /\ (SAckUp[1] => fast.ack_pwrup)

\* The system is up. A reset request that was served stays recorded, and the
\* fast FSM then boots without the slow one.
SystemUp ==
  slow.state = "Idle" =>
    /\ ~slow.req_pwrup /\ (FReqUp[1] => FReqUp[2])
    /\ (SAckUp[1] => SAckUp[2]) /\ (fast.ack_pwrup => SAckUp[1])
    /\ FReqUp[2] => fast.ack_pwrup
    /\ fast.ack_pwrup => fast.state = "AckPwrUp" /\ ~fast.reset_ongoing
    /\ fast.state \in {"LowPower"} \cup BootStates => fast.reset_ongoing
    /\ ~slow.ack_pwrdn /\ ~FAckDn[1] /\ ~FAckDn[2]
    /\ (SReqDn[2] => SReqDn[1]) /\ (SReqDn[1] => fast.req_pwrdn)
    /\ fast.req_pwrdn => fast.state = "ReqPwrDn"

\* The slow FSM has taken over.
PoweringDown ==
  slow.state = "AckPwrDn" =>
    /\ fast.state \in {"ReqPwrDn", "LowPower"} /\ ~fast.reset_ongoing
    /\ NoPowerUp
    /\ (fast.req_pwrdn <=> fast.state = "ReqPwrDn")
    /\ (fast.req_pwrdn => SReqDn[1]) /\ (SReqDn[1] => SReqDn[2])
    /\ (FAckDn[2] => FAckDn[1]) /\ (FAckDn[1] => slow.ack_pwrdn)
    /\ fast.state = "LowPower" => FAckDn[2]

Handover == Alone /\ PoweringUp /\ SystemUp /\ PoweringDown
-----------------------------------------------------------------------------
(* What the fast FSM has done before it hands over *)

\* After a reset request the processor does not sleep, so that the low-power
\* path is taken only before the first one.
AwakeAfterReset ==
  /\ fast.state = "ResetPrep" => fast.reset_ongoing
  /\ fast.reset_ongoing /\ fast.state # "ResetPrep" => ~sleeping
  /\ fast.state \in {"NvmIdleChk", "LowPowerPrep", "ReqPwrDn"} => ~fast.reset_ongoing

\* The clock sources run while the fast FSM is up, and the roots are stopped on
\* the way down.
ClocksStopped ==
  /\ slow.state \in {"ReqPwrUp", "Idle", "AckPwrDn"} => slow.clk_en = Clks /\ clk_val = Clks
  /\ fast.state = "FallThrough" => ~fast.ip_clk_en
  /\ fast.state \in {"NvmIdleChk", "LowPowerPrep", "ReqPwrDn"}
     \/ (fast.state = "LowPower" /\ ~fast.reset_ongoing) => ~fast.ip_clk_en /\ root_en = {}

\* Both copies of CONTROL agree once the processor sleeps, and stay so.
GoingDown == \/ sleeping /\ hint
             \/ fast.state \in {"NvmIdleChk", "LowPowerPrep", "ReqPwrDn"}
             \/ slow.state \in {"AckPwrDn", "ClocksOff", "PwrClampOn", "MainPowerOff", "LowPower"}
ConfigAgrees == GoingDown => sync = "done" /\ cfg = slow_cfg

\* The main domain is in reset if its power will be removed.
MainReset == "main" \in fast.rst_lc_req \cap fast.rst_sys_req
MainInReset == MainReset /\ "main" \in lc_rst \cap sys_rst
ResetsAsserted ==
  /\ fast.state \in {"Active", "DisClks", "FallThrough", "NvmIdleChk", "NvmShutDown"}
     => fast.reset_cause \notin {"LowPwrEntry", "HwReq"}
  /\ fast.state = "LowPowerPrep" => fast.reset_cause # "HwReq"
  /\ fast.state = "ResetPrep" => fast.reset_cause # "LowPwrEntry"
  /\ fast.state = "LowPowerPrep" /\ fast.reset_cause = "LowPwrEntry" => cfg.main_pd_n \/ MainReset
  /\ fast.state = "ReqPwrDn" => cfg.main_pd_n \/ MainInReset
  /\ slow.state \in {"AckPwrDn", "ClocksOff", "PwrClampOn", "MainPowerOff", "LowPower"}
     => slow_cfg.main_pd_n \/ MainInReset

\* The clamps are on before the power goes off.
Clamped ==
  /\ slow.state = "PwrClampOn" => slow.pwr_clamp_env = ~slow_cfg.main_pd_n
  /\ slow.state = "MainPowerOff" => /\ slow.pwr_clamp_env = ~slow_cfg.main_pd_n
                                    /\ slow.pwr_clamp = slow.pwr_clamp_env
  /\ ~slow.pd_n => /\ slow.state \in {"MainPowerOff", "LowPower", "MainPowerOn"}
                   /\ slow.pwr_clamp /\ slow.pwr_clamp_env /\ MainInReset

\* The inductive invariant.
PowerInv == /\ Handover /\ AwakeAfterReset /\ ClocksStopped
            /\ ConfigAgrees /\ ResetsAsserted /\ Clamped
-----------------------------------------------------------------------------
\* A synchroniser of two flops delays by two edges (prim_flop_2sync).
LEMMA ShiftTwo ==
  ASSUME NEW T, NEW a \in T, NEW b \in T, NEW d \in T
  PROVE  Shift(<<a, b>>, d) = <<d, a>>
<1> DEFINE s == <<a, b>>
<1>1. s \in Seq(T) /\ Len(s) = 2 /\ s[1] = a
  OBVIOUS
<1> HIDE DEF s
<1>2. /\ SubSeq(s, 1, 1) \in Seq(T)
      /\ Len(SubSeq(s, 1, 1)) = 1
      /\ SubSeq(s, 1, 1)[1] = a
  BY <1>1
<1> DEFINE r == SubSeq(s, 1, 1)
<1> HIDE DEF r
<1>3. r \in Seq(T) /\ Len(r) = 1 /\ r[1] = a
  BY <1>2 DEF r
<1>4. <<d>> \in Seq(T) /\ Len(<<d>>) = 1 /\ <<d>>[1] = d
  OBVIOUS
<1>5. <<d>> \o r = <<d, a>>
  <2> DEFINE c == <<d>> \o r
  <2>1. c \in Seq(T) /\ Len(c) = 2 /\ c[1] = d /\ c[2] = a
    BY <1>3, <1>4, SMTT(30)
  <2> HIDE DEF c
  <2>2. c = <<c[1], c[2]>>
    BY <2>1
  <2> QED  BY <2>1, <2>2, Zenon DEF c
<1>6. Shift(s, d) = <<d>> \o r
  BY <1>1 DEF Shift, r
<1> QED  BY <1>5, <1>6, Zenon DEF s

\* The same, for the pairs of flops of the handshake.
LEMMA ShiftPipe ==
  ASSUME NEW s \in Pipe, NEW d \in BOOLEAN
  PROVE  /\ Shift(s, d) \in Pipe
         /\ Shift(s, d)[1] = d
         /\ Shift(s, d)[2] = s[1]
<1>1. PICK a \in BOOLEAN, b \in BOOLEAN : s = <<a, b>>
  BY DEF Pipe
<1>2. Shift(s, d) = <<d, a>>
  BY <1>1, ShiftTwo
<1> QED  BY <1>1, <1>2 DEF Pipe

\* What an edge of the fast clock does beside the FSM. Software that does not
\* run writes nothing.
LEMMA FastEdge ==
  ASSUME PowerType, SafeUse(use), \A u \in Uses : IsUse(u),
         NEW sw \in SwWrites, NEW ready \in BOOLEAN, FastTick(sw, ready)
  PROVE  /\ FReqUp' \in Pipe /\ FReqUp'[1] = slow.req_pwrup /\ FReqUp'[2] = FReqUp[1]
         /\ FAckDn' \in Pipe /\ FAckDn'[1] = slow.ack_pwrdn /\ FAckDn'[2] = FAckDn[1]
         /\ cfg' \in Configs
         /\ sync' \in {"done", "requested", "copied"}
         /\ hint' \in BOOLEAN
         /\ ~CpuRuns => cfg' = cfg /\ (hint' => hint) /\ (sync = "done" => sync' = "done")
<1>1. FReqUp' = Shift(FReqUp, slow.req_pwrup) /\ FAckDn' = Shift(FAckDn, slow.ack_pwrdn)
  BY DEF FastTick, FastSync, FReqUp, FAckDn
<1>2. FReqUp \in Pipe /\ FAckDn \in Pipe /\ slow.req_pwrup \in BOOLEAN /\ slow.ack_pwrdn \in BOOLEAN
  BY DEF PowerType, FReqUp, FAckDn, Slows
<1>3. /\ FReqUp' \in Pipe /\ FReqUp'[1] = slow.req_pwrup /\ FReqUp'[2] = FReqUp[1]
      /\ FAckDn' \in Pipe /\ FAckDn'[1] = slow.ack_pwrdn /\ FAckDn'[2] = FAckDn[1]
  BY <1>1, <1>2, ShiftPipe, ZenonT(60)
<1>4. /\ hint' = (sw.op = "hint" \/ (hint /\ ~ClrHintO))
      /\ cfg' = sw.cfg
      /\ sync' = IF sw.op = "sync" THEN "requested" ELSE IF sync = "copied" THEN "done" ELSE sync
  BY DEF FastTick, Registers
<1>5. /\ sw.cfg \in use.configs \cup {cfg}
      /\ sw.op # "config" => sw.cfg = cfg
      /\ ~CpuRuns => sw.op = "none"
  BY DEF SwWrites
<1>6. cfg' \in Configs
  <2>1. \A c \in use.configs : c \in Configs
    <3>1. IsUse(use)
      BY DEF PowerType
    <3>2. use.configs \subseteq [main_pd_n : BOOLEAN, clk_en_lp : SUBSET Clks, usb_active : BOOLEAN]
      BY <3>1 DEF IsUse
    <3> QED  BY <3>2, Zenon DEF SafeUse, Configs
  <2> QED  BY <2>1, <1>4, <1>5 DEF PowerType
<1> QED  BY <1>3, <1>4, <1>5, <1>6 DEF PowerType

\* An edge of the fast clock preserves the invariant.
LEMMA FastKeeps ==
  ASSUME PowerType, PowerInv, SafeUse(use), \A u \in Uses : IsUse(u),
         NEW sw \in SwWrites, NEW ready \in BOOLEAN, FastTick(sw, ready)
  PROVE  PowerType' /\ PowerInv'
<1> DEFINE in == FastIn(ready)
<1>1. /\ FReqUp' \in Pipe /\ FReqUp'[1] = slow.req_pwrup /\ FReqUp'[2] = FReqUp[1]
      /\ FAckDn' \in Pipe /\ FAckDn'[1] = slow.ack_pwrdn /\ FAckDn'[2] = FAckDn[1]
      /\ cfg' \in Configs
      /\ sync' \in {"done", "requested", "copied"}
      /\ hint' \in BOOLEAN
      /\ ~CpuRuns => cfg' = cfg /\ (hint' => hint) /\ (sync = "done" => sync' = "done")
  BY FastEdge
<1>2. /\ SReqDn' = SReqDn /\ SAckUp' = SAckUp
      /\ UNCHANGED <<use, slow, slow_cfg, clk_val>>
  BY DEF FastTick, SReqDn, SAckUp, astVars
<1>3. /\ lc_rst' = NextRst(lc_rst, fast.rst_lc_req)
      /\ sys_rst' = NextRst(sys_rst, fast.rst_sys_req \cup sys_parent[2])
      /\ root_en' = (root_en \ clk_val) \cup (IF fast.ip_clk_en THEN clk_val ELSE {})
      /\ sleeping' = (sleeping /\ "main" \notin sys_rst)
  BY DEF FastTick, ResetTree, ClockGates
<1>4. /\ in.req_pwrup = FReqUp[2] /\ in.ack_pwrdn = FAckDn[2]
      /\ in.low_power_entry = (sleeping /\ hint)
      /\ in.main_pd_n = cfg.main_pd_n
      /\ in.lc_rst = lc_rst /\ in.sys_rst = sys_rst
  BY DEF FastIn, FReqUp, FAckDn
<1>5. FastStep(in)
  BY DEF FastTick
<1> HIDE DEF in
<1>6. ASSUME fast' \in Fasts PROVE PowerType'
  <2>1. root_en' \subseteq Clks /\ sleeping' \in BOOLEAN
    BY <1>3 DEF PowerType
  <2>2. s_sync' = s_sync
    BY DEF FastTick
  <2> QED  BY <1>1, <1>2, <1>6, <2>1, <2>2 DEF FReqUp, FAckDn, PowerType
<1>7. CASE FastLowPower(in)
  <2>1. fast' \in Fasts
    BY <1>7 DEF FastLowPower, PowerType, Fasts, FastStates
  <2>2. Handover'
    BY <1>1, <1>2, <1>4, <1>7 DEF FastLowPower, PowerInv, Handover, Alone, PoweringUp, SystemUp,
       PoweringDown, NoPowerUp, NoPowerDown, BootStates
  <2>3. AwakeAfterReset'
    BY <1>3, <1>7 DEF FastLowPower, PowerInv, AwakeAfterReset, PowerType
  <2>4. ClocksStopped'
    BY <1>2, <1>3, <1>7 DEF FastLowPower, PowerInv, ClocksStopped
  <2>5. ConfigAgrees'
    BY <1>1, <1>2, <1>3, <1>7 DEF FastLowPower, PowerInv, ConfigAgrees, GoingDown, ClocksStopped,
       CpuRuns, Handover, Alone, PoweringDown, PowerType, SlowAlone
  <2>6. ResetsAsserted'
    BY <1>2, <1>3, <1>7 DEF FastLowPower, PowerInv, ResetsAsserted, MainReset, MainInReset, NextRst
  <2>7. Clamped'
    BY <1>2, <1>3, <1>7 DEF FastLowPower, PowerInv, Clamped, MainReset, MainInReset, NextRst
  <2> QED  BY <1>6, <2>1, <2>2, <2>3, <2>4, <2>5, <2>6, <2>7 DEF PowerInv
<1>8. CASE FastEnableClocks(in)
  <2>1. fast' \in Fasts
    BY <1>8, Zenon DEF FastEnableClocks, PowerType, Fasts, FastStates
  <2>2. Handover'
    BY <1>1, <1>2, <1>8 DEF FastEnableClocks, PowerInv, Handover, Alone, PoweringUp, SystemUp,
       PoweringDown, NoPowerDown, BootStates
  <2>3. AwakeAfterReset'
    BY <1>3, <1>8 DEF FastEnableClocks, PowerInv, AwakeAfterReset, PowerType
  <2>4. ClocksStopped'
    BY <1>2, <1>8 DEF FastEnableClocks, PowerInv, ClocksStopped
  <2>5. ConfigAgrees'
    BY <1>1, <1>2, <1>3, <1>8 DEF FastEnableClocks, PowerInv, ConfigAgrees, GoingDown, CpuRuns,
       Handover, Alone, PoweringDown, PowerType, SlowAlone
  <2>6. ResetsAsserted'
    BY <1>2, <1>3, <1>8 DEF FastEnableClocks, PowerInv, ResetsAsserted, MainReset, MainInReset,
       NextRst
  <2>7. Clamped'
    BY <1>2, <1>8 DEF FastEnableClocks, PowerInv, Clamped, Handover, Alone, SlowAlone
  <2> QED  BY <1>6, <2>1, <2>2, <2>3, <2>4, <2>5, <2>6, <2>7 DEF PowerInv
<1>9. CASE FastReleaseLcRst(in)
  <2>1. /\ fast' \in Fasts
        /\ fast.state = "ReleaseLcRst"
        /\ fast'.state \in {"ReleaseLcRst", "OtpInit"}
        /\ fast'.ack_pwrup = fast.ack_pwrup
        /\ fast'.req_pwrdn = fast.req_pwrdn
        /\ fast'.reset_ongoing = fast.reset_ongoing
        /\ fast'.ip_clk_en = fast.ip_clk_en
        /\ fast'.reset_cause = fast.reset_cause
    BY <1>9, ZenonT(60) DEF FastReleaseLcRst, PowerType, Fasts, FastStates
  <2>2. Handover'
    BY <1>1, <1>2, <2>1 DEF PowerInv, Handover, Alone, PoweringUp, SystemUp, PoweringDown,
       NoPowerDown, BootStates
  <2>3. AwakeAfterReset'
    BY <1>3, <2>1 DEF PowerInv, AwakeAfterReset, PowerType
  <2>4. ClocksStopped'
    BY <1>2, <2>1 DEF PowerInv, ClocksStopped
  <2>5. ConfigAgrees'
    BY <1>1, <1>2, <1>3, <2>1, SMTT(30)
       DEF PowerInv, ConfigAgrees, GoingDown, CpuRuns, Handover, Alone,
       PoweringDown, PowerType, SlowAlone
  <2>6. ResetsAsserted'
    BY <1>2, <2>1 DEF PowerInv, ResetsAsserted, Handover, Alone, PoweringDown, SlowAlone
  <2>7. Clamped'
    BY <1>2, <2>1 DEF PowerInv, Clamped, Handover, Alone, SlowAlone
  <2> QED  BY <1>6, <2>1, <2>2, <2>3, <2>4, <2>5, <2>6, <2>7 DEF PowerInv
<1>10. CASE FastNvmInit(in)
  <2>1. fast' \in Fasts
    BY <1>10 DEF FastNvmInit, PowerType, Fasts, FastStates
  <2>2. Handover'
    BY <1>1, <1>2, <1>10 DEF FastNvmInit, PowerInv, Handover, Alone, PoweringUp, SystemUp,
       PoweringDown, NoPowerUp, NoPowerDown, BootStates
  <2>3. AwakeAfterReset'
    BY <1>3, <1>10 DEF FastNvmInit, PowerInv, AwakeAfterReset, PowerType
  <2>4. ClocksStopped'
    BY <1>2, <1>10 DEF FastNvmInit, PowerInv, ClocksStopped
  <2>5. ConfigAgrees'
    BY <1>1, <1>2, <1>3, <1>10 DEF FastNvmInit, PowerInv, ConfigAgrees, GoingDown, CpuRuns,
       Handover, Alone, PoweringDown, PowerType, SlowAlone
  <2>6. ResetsAsserted'
    BY <1>2, <1>3, <1>10 DEF FastNvmInit, PowerInv, ResetsAsserted, MainReset, MainInReset, NextRst
  <2>7. Clamped'
    BY <1>2, <1>10 DEF FastNvmInit, PowerInv, Clamped, Handover, Alone, SlowAlone
  <2> QED  BY <1>6, <2>1, <2>2, <2>3, <2>4, <2>5, <2>6, <2>7 DEF PowerInv
<1>11. CASE FastStrap
  <2>1. fast' \in Fasts
    BY <1>11 DEF FastStrap, PowerType, Fasts, FastStates
  <2>2. Handover'
    BY <1>1, <1>2, <1>11 DEF FastStrap, PowerInv, Handover, Alone, PoweringUp, SystemUp,
       PoweringDown, NoPowerDown, BootStates
  <2>3. AwakeAfterReset'
    BY <1>3, <1>11 DEF FastStrap, PowerInv, AwakeAfterReset, PowerType
  <2>4. ClocksStopped'
    BY <1>2, <1>11 DEF FastStrap, PowerInv, ClocksStopped
  <2>5. ConfigAgrees'
    BY <1>1, <1>2, <1>3, <1>11 DEF FastStrap, PowerInv, ConfigAgrees, GoingDown, CpuRuns, Handover,
       Alone, PoweringDown, PowerType, SlowAlone
  <2>6. ResetsAsserted'
    BY <1>2, <1>3, <1>11 DEF FastStrap, PowerInv, ResetsAsserted, MainReset, MainInReset, NextRst
  <2>7. Clamped'
    BY <1>2, <1>11 DEF FastStrap, PowerInv, Clamped, Handover, Alone, SlowAlone
  <2> QED  BY <1>6, <2>1, <2>2, <2>3, <2>4, <2>5, <2>6, <2>7 DEF PowerInv
<1>12. CASE FastAckPwrUp(in)
  <2>1. fast' \in Fasts
    BY <1>12, ZenonT(60) DEF FastAckPwrUp, PowerType, Fasts, FastStates
  <2>2. Handover'
    BY <1>1, <1>2, <1>4, <1>12 DEF FastAckPwrUp, ClrCfgLockO, PowerInv, Handover, Alone,
       PoweringUp, SystemUp, PoweringDown, NoPowerDown, PowerType, Fasts, BootStates
  <2>3. AwakeAfterReset'
    BY <1>3, <1>12 DEF FastAckPwrUp, PowerInv, AwakeAfterReset, PowerType
  <2>4. ClocksStopped'
    BY <1>2, <1>12 DEF FastAckPwrUp, PowerInv, ClocksStopped
  <2>5. ConfigAgrees'
    BY <1>1, <1>2, <1>3, <1>12 DEF FastAckPwrUp, PowerInv, ConfigAgrees, GoingDown, CpuRuns,
       Handover, Alone, PoweringDown, PowerType, SlowAlone
  <2>6. ResetsAsserted'
    BY <1>2, <1>12 DEF FastAckPwrUp, PowerInv, ResetsAsserted, Handover, Alone, PoweringDown,
       SlowAlone
  <2>7. Clamped'
    BY <1>2, <1>12 DEF FastAckPwrUp, PowerInv, Clamped, Handover, Alone, SlowAlone
  <2> QED  BY <1>6, <2>1, <2>2, <2>3, <2>4, <2>5, <2>6, <2>7 DEF PowerInv
<1>13. CASE FastRomCheck(in)
  <2>1. fast' \in Fasts
    BY <1>13, Zenon DEF FastRomCheck, PowerType, Fasts, FastStates
  <2>2. Handover'
    BY <1>1, <1>2, <1>13 DEF FastRomCheck, PowerInv, Handover, Alone, PoweringUp, SystemUp,
       PoweringDown, BootStates
  <2>3. AwakeAfterReset'
    BY <1>3, <1>13 DEF FastRomCheck, PowerInv, AwakeAfterReset, PowerType
  <2>4. ClocksStopped'
    BY <1>2, <1>13 DEF FastRomCheck, PowerInv, ClocksStopped
  <2>5. ConfigAgrees'
    BY <1>1, <1>2, <1>3, <1>13 DEF FastRomCheck, PowerInv, ConfigAgrees, GoingDown, CpuRuns,
       Handover, Alone, PoweringDown, PowerType, SlowAlone
  <2>6. ResetsAsserted'
    BY <1>2, <1>13 DEF FastRomCheck, PowerInv, ResetsAsserted, Handover, Alone, PoweringDown,
       SlowAlone
  <2>7. Clamped'
    BY <1>2, <1>13 DEF FastRomCheck, PowerInv, Clamped, Handover, Alone, SlowAlone
  <2> QED  BY <1>6, <2>1, <2>2, <2>3, <2>4, <2>5, <2>6, <2>7 DEF PowerInv
<1>14. CASE FastActive(in)
  <2>1. fast' \in Fasts
    BY <1>14, Zenon DEF FastActive, PowerType, Fasts, FastStates
  <2>2. Handover'
    BY <1>1, <1>2, <1>14 DEF FastActive, PowerInv, Handover, Alone, PoweringUp, SystemUp,
       PoweringDown, BootStates
  <2>3. AwakeAfterReset'
    BY <1>3, <1>14 DEF FastActive, PowerInv, AwakeAfterReset, PowerType
  <2>4. ClocksStopped'
    BY <1>2, <1>14 DEF FastActive, PowerInv, ClocksStopped
  <2>5. ConfigAgrees'
    BY <1>1, <1>2, <1>3, <1>14 DEF FastActive, PowerInv, ConfigAgrees, GoingDown, CpuRuns,
       Handover, Alone, PoweringDown, PowerType, SlowAlone
  <2>6. ResetsAsserted'
    BY <1>2, <1>3, <1>14 DEF FastActive, PowerInv, ResetsAsserted, MainReset, MainInReset, NextRst
  <2>7. Clamped'
    BY <1>2, <1>14 DEF FastActive, PowerInv, Clamped, Handover, Alone, SlowAlone
  <2> QED  BY <1>6, <2>1, <2>2, <2>3, <2>4, <2>5, <2>6, <2>7 DEF PowerInv
<1>15. CASE FastDisClks(in)
  <2>1. fast' \in Fasts
    BY <1>15, ZenonT(60) DEF FastDisClks, PowerType, Fasts, FastStates
  <2>2. Handover'
    BY <1>1, <1>2, <1>15 DEF FastDisClks, PowerInv, Handover, Alone, PoweringUp, SystemUp,
       PoweringDown, BootStates
  <2>3. AwakeAfterReset'
    BY <1>3, <1>15 DEF FastDisClks, PowerInv, AwakeAfterReset, PowerType
  <2>4. ClocksStopped'
    BY <1>2, <1>15 DEF FastDisClks, PowerInv, ClocksStopped
  <2>5. ConfigAgrees'
    BY <1>1, <1>2, <1>3, <1>15 DEF FastDisClks, PowerInv, ConfigAgrees, GoingDown, CpuRuns,
       Handover, Alone, PoweringDown, PowerType, SlowAlone
  <2>6. ResetsAsserted'
    BY <1>2, <1>3, <1>15 DEF FastDisClks, PowerInv, ResetsAsserted, MainReset, MainInReset, NextRst
  <2>7. Clamped'
    BY <1>2, <1>15 DEF FastDisClks, PowerInv, Clamped, Handover, Alone, SlowAlone
  <2> QED  BY <1>6, <2>1, <2>2, <2>3, <2>4, <2>5, <2>6, <2>7 DEF PowerInv
<1>16. CASE FastFallThrough(in)
  <2>1. fast' \in Fasts
    BY <1>16, Zenon DEF FastFallThrough, PowerType, Fasts, FastStates
  <2>2. Handover'
    BY <1>1, <1>2, <1>16 DEF FastFallThrough, PowerInv, Handover, Alone, PoweringUp, SystemUp,
       PoweringDown, BootStates
  <2>3. AwakeAfterReset'
    BY <1>3, <1>4, <1>16 DEF FastFallThrough, FallThroughO, PowerInv, AwakeAfterReset, PowerType
  <2>4. ClocksStopped'
    BY <1>2, <1>3, <1>16 DEF FastFallThrough, PowerInv, ClocksStopped, Handover, Alone, PowerType,
       Slows, SlowStates, SlowAlone
  <2>5. ConfigAgrees'
    BY <1>1, <1>2, <1>3, <1>4, <1>16 DEF FastFallThrough, FallThroughO, PowerInv, ConfigAgrees,
       GoingDown, CpuRuns, Handover, Alone, PoweringDown, PowerType, SlowAlone
  <2>6. ResetsAsserted'
    BY <1>2, <1>16 DEF FastFallThrough, PowerInv, ResetsAsserted, Handover, Alone, PoweringDown,
       SlowAlone
  <2>7. Clamped'
    BY <1>2, <1>16 DEF FastFallThrough, PowerInv, Clamped, Handover, Alone, SlowAlone
  <2> QED  BY <1>6, <2>1, <2>2, <2>3, <2>4, <2>5, <2>6, <2>7 DEF PowerInv
<1>17. CASE FastNvmIdleChk(in)
  <2>1. fast' \in Fasts
    BY <1>17, Zenon DEF FastNvmIdleChk, PowerType, Fasts, FastStates
  <2>2. Handover'
    BY <1>1, <1>2, <1>17 DEF FastNvmIdleChk, PowerInv, Handover, Alone, PoweringUp, SystemUp,
       PoweringDown, BootStates
  <2>3. AwakeAfterReset'
    BY <1>17 DEF FastNvmIdleChk, PowerInv, AwakeAfterReset
  <2>4. ClocksStopped'
    BY <1>2, <1>3, <1>17 DEF FastNvmIdleChk, PowerInv, ClocksStopped
  <2>5. ConfigAgrees'
    BY <1>1, <1>2, <1>17 DEF FastNvmIdleChk, PowerInv, ConfigAgrees, GoingDown, ClocksStopped,
       CpuRuns
  <2>6. ResetsAsserted'
    BY <1>2, <1>17 DEF FastNvmIdleChk, PowerInv, ResetsAsserted, Handover, Alone, PoweringDown,
       SlowAlone
  <2>7. Clamped'
    BY <1>2, <1>17 DEF FastNvmIdleChk, PowerInv, Clamped, Handover, Alone, SlowAlone
  <2> QED  BY <1>6, <2>1, <2>2, <2>3, <2>4, <2>5, <2>6, <2>7 DEF PowerInv
<1>18. CASE FastLowPowerPrep(in)
  <2>1. /\ fast' \in Fasts
        /\ fast.state = "LowPowerPrep"
        /\ fast'.state = (IF ResetValid(in) THEN "ReqPwrDn" ELSE "LowPowerPrep")
        /\ fast'.reset_cause = "LowPwrEntry"
        /\ cfg.main_pd_n \/ ("main" \in fast'.rst_lc_req /\ "main" \in fast'.rst_sys_req)
        /\ fast'.ack_pwrup = fast.ack_pwrup
        /\ fast'.req_pwrdn = fast.req_pwrdn
        /\ fast'.reset_ongoing = fast.reset_ongoing
        /\ fast'.ip_clk_en = fast.ip_clk_en
    BY <1>4, <1>18, ZenonT(60) DEF FastLowPowerPrep, PowerType, Fasts, FastStates, Domains
  <2>2. Handover'
    BY <1>1, <1>2, <1>4, <2>1 DEF ResetValid, PowerInv, AwakeAfterReset, Handover, Alone,
       PoweringUp, SystemUp, PoweringDown, PowerType, BootStates, ActiveStates, Slows, Domains
  <2>3. AwakeAfterReset'
    BY <2>1 DEF PowerInv, AwakeAfterReset
  <2>4. ClocksStopped'
    BY <1>2, <1>3, <2>1 DEF PowerInv, ClocksStopped
  <2>5. ConfigAgrees'
    BY <1>1, <1>2, <2>1, SMTT(30) DEF PowerInv, ConfigAgrees, GoingDown, ClocksStopped, CpuRuns
  <2>6. ResetsAsserted'
    BY <1>1, <1>2, <1>3, <2>1 DEF ResetValid, PowerInv, ResetsAsserted, MainReset, MainInReset,
       NextRst, ClocksStopped, CpuRuns, Handover, Alone, PoweringDown, SlowAlone
  <2>7. Clamped'
    BY <1>2, <2>1 DEF PowerInv, Clamped, Handover, Alone, SlowAlone
  <2> QED  BY <1>6, <2>1, <2>2, <2>3, <2>4, <2>5, <2>6, <2>7 DEF PowerInv
<1>19. CASE FastReqPwrDn(in)
  <2>1. fast' \in Fasts
    BY <1>19, ZenonT(60) DEF FastReqPwrDn, PowerType, Fasts, FastStates
  <2>2. Handover'
    BY <1>1, <1>2, <1>4, <1>19 DEF FastReqPwrDn, PowerInv, Handover, Alone, PoweringUp, SystemUp,
       PoweringDown, NoPowerUp, PowerType, Fasts, BootStates
  <2>3. AwakeAfterReset'
    BY <1>19 DEF FastReqPwrDn, PowerInv, AwakeAfterReset
  <2>4. ClocksStopped'
    BY <1>2, <1>3, <1>19 DEF FastReqPwrDn, PowerInv, ClocksStopped
  <2>5. ConfigAgrees'
    BY <1>1, <1>2, <1>19 DEF FastReqPwrDn, PowerInv, ConfigAgrees, GoingDown, ClocksStopped, CpuRuns
  <2>6. ResetsAsserted'
    BY <1>1, <1>2, <1>3, <1>19 DEF FastReqPwrDn, PowerInv, ResetsAsserted, MainReset, MainInReset,
       NextRst, ClocksStopped, CpuRuns
  <2>7. Clamped'
    BY <1>2, <1>19 DEF FastReqPwrDn, PowerInv, Clamped, Handover, Alone, SlowAlone
  <2> QED  BY <1>6, <2>1, <2>2, <2>3, <2>4, <2>5, <2>6, <2>7 DEF PowerInv
<1>20. CASE FastNvmShutDown
  <2>1. fast' \in Fasts
    BY <1>20, Zenon DEF FastNvmShutDown, PowerType, Fasts, FastStates
  <2>2. Handover'
    BY <1>1, <1>2, <1>20 DEF FastNvmShutDown, PowerInv, Handover, Alone, PoweringUp, SystemUp,
       PoweringDown, BootStates
  <2>3. AwakeAfterReset'
    BY <1>20 DEF FastNvmShutDown, AwakeAfterReset
  <2>4. ClocksStopped'
    BY <1>2, <1>20 DEF FastNvmShutDown, PowerInv, ClocksStopped
  <2>5. ConfigAgrees'
    BY <1>1, <1>2, <1>3, <1>20 DEF FastNvmShutDown, PowerInv, ConfigAgrees, GoingDown, CpuRuns,
       Handover, Alone, PoweringDown, PowerType, SlowAlone
  <2>6. ResetsAsserted'
    BY <1>2, <1>3, <1>20 DEF FastNvmShutDown, PowerInv, ResetsAsserted, MainReset, MainInReset,
       NextRst
  <2>7. Clamped'
    BY <1>2, <1>20 DEF FastNvmShutDown, PowerInv, Clamped, Handover, Alone, SlowAlone
  <2> QED  BY <1>6, <2>1, <2>2, <2>3, <2>4, <2>5, <2>6, <2>7 DEF PowerInv
<1>21. CASE FastResetPrep(in)
  <2>1. /\ fast' \in Fasts
        /\ fast.state = "ResetPrep"
        /\ fast'.state = "ResetPrep" \/ (fast'.state = "LowPower" /\ ResetValid(in))
        /\ fast'.reset_cause = "HwReq"
        /\ fast'.ack_pwrup = fast.ack_pwrup
        /\ fast'.req_pwrdn = fast.req_pwrdn
        /\ fast'.reset_ongoing = fast.reset_ongoing
        /\ fast'.ip_clk_en = fast.ip_clk_en
    BY <1>21, Zenon DEF FastResetPrep, PowerType, Fasts, FastStates
  <2>8. fast'.state = "LowPower" => "main" \in sys_rst
    BY <1>4, <2>1, SMTT(30) DEF ResetValid, PowerInv, ResetsAsserted, Domains
  <2>2. Handover'
    BY <1>1, <1>2, <1>4, <2>1 DEF PowerInv, AwakeAfterReset, Handover, Alone, PoweringUp, SystemUp,
       PoweringDown, NoPowerUp, SlowAlone
  <2>3. AwakeAfterReset'
    BY <1>3, <2>1, <2>8, Zenon DEF PowerInv, AwakeAfterReset
  <2>4. ClocksStopped'
    BY <1>2, <2>1, SMTT(30) DEF PowerInv, AwakeAfterReset, ClocksStopped
  <2>5. ConfigAgrees'
    BY <1>1, <1>2, <1>3, <2>1, SMTT(30)
       DEF PowerInv, ConfigAgrees, GoingDown, CpuRuns, Handover, Alone,
       PoweringDown, PowerType, SlowAlone
  <2>6. ResetsAsserted'
    BY <1>2, <2>1 DEF PowerInv, ResetsAsserted, Handover, Alone, PoweringDown, SlowAlone
  <2>7. Clamped'
    BY <1>2, <2>1 DEF PowerInv, Clamped, Handover, Alone, SlowAlone
  <2> QED  BY <1>6, <2>1, <2>2, <2>3, <2>4, <2>5, <2>6, <2>7 DEF PowerInv
<1> QED  BY <1>5, <1>7, <1>8, <1>9, <1>10, <1>11, <1>12, <1>13, <1>14, <1>15, <1>16, <1>17, <1>18,
            <1>19, <1>20, <1>21 DEF FastStep

\* The edges of the slow clock keep the invariant.
LEMMA SlowKeeps ==
  ASSUME PowerType, PowerInv, NEW p, SlowTick(p)
  PROVE  PowerType' /\ PowerInv'
<1> DEFINE in == [wakeup |-> peri.wakeup, reset_req |-> peri.reset_req,
                  ack_pwrup |-> s_sync.ack_pwrup[2], req_pwrdn |-> s_sync.req_pwrdn[2],
                  cfg |-> slow_cfg, main_pok |-> main_pok, clk_val |-> clk_val]
<1>1. /\ SReqDn' \in Pipe /\ SReqDn'[1] = fast.req_pwrdn /\ SReqDn'[2] = SReqDn[1]
      /\ SAckUp' \in Pipe /\ SAckUp'[1] = fast.ack_pwrup /\ SAckUp'[2] = SAckUp[1]
  <2>1. SReqDn' = Shift(SReqDn, fast.req_pwrdn) /\ SAckUp' = Shift(SAckUp, fast.ack_pwrup)
    BY DEF SlowTick, SReqDn, SAckUp
  <2>2. SReqDn \in Pipe /\ SAckUp \in Pipe /\ fast.req_pwrdn \in BOOLEAN /\ fast.ack_pwrup \in BOOLEAN
    BY SMTT(30) DEF PowerType, SReqDn, SAckUp, Fasts
  <2> QED  BY <2>1, <2>2, ShiftPipe
<1>2. /\ FReqUp' = FReqUp /\ FAckDn' = FAckDn /\ f_sync' = f_sync
      /\ UNCHANGED <<use, fast, cfg, slow_cfg, sync, hint, lc_rst, sys_rst, root_en,
                     clk_val, sleeping>>
  BY SMTT(30) DEF SlowTick, FReqUp, FAckDn, regVars, rstVars, clkVars, astVars
<1>3. /\ in.ack_pwrup = SAckUp[2] /\ in.req_pwrdn = SReqDn[2]
      /\ in.cfg = slow_cfg /\ in.clk_val = clk_val
      /\ SAckUp[2] \in BOOLEAN /\ SReqDn[2] \in BOOLEAN
  BY SMTT(30) DEF SReqDn, SAckUp, PowerType, Pipe
<1>4. SlowStep(in)
  BY Zenon DEF SlowTick
<1> HIDE DEF in
<1>5. ASSUME slow' \in Slows PROVE PowerType'
  BY <1>1, <1>2, <1>5 DEF SReqDn, SAckUp, PowerType
<1>6. CASE SlowReset
  <2>1. slow' \in Slows
    BY <1>6, Zenon DEF SlowReset, PowerType, Slows, SlowStates
  <2>2. Handover'
    BY <1>1, <1>2, <1>6 DEF SlowReset, PowerInv, Handover, Alone, PoweringUp, SystemUp,
       PoweringDown, NoPowerUp, NoPowerDown, SlowAlone
  <2>3. AwakeAfterReset'
    BY <1>2 DEF PowerInv, AwakeAfterReset
  <2>4. ClocksStopped'
    BY <1>2, <1>6 DEF SlowReset, PowerInv, ClocksStopped
  <2>5. ConfigAgrees'
    BY <1>2, <1>6 DEF SlowReset, PowerInv, ConfigAgrees, GoingDown
  <2>6. ResetsAsserted'
    BY <1>2, <1>6 DEF SlowReset, PowerInv, ResetsAsserted, MainReset, MainInReset
  <2>7. Clamped'
    BY <1>6 DEF SlowReset, PowerInv, Clamped
  <2> QED  BY <1>5, <2>1, <2>2, <2>3, <2>4, <2>5, <2>6, <2>7 DEF PowerInv
<1>7. CASE SlowLowPower(in)
  <2>1. slow' \in Slows
    BY <1>7, Zenon DEF SlowLowPower, PowerType, Slows, SlowStates
  <2>2. Handover'
    BY <1>1, <1>2, <1>7 DEF SlowLowPower, PowerInv, Handover, Alone, PoweringUp, SystemUp,
       PoweringDown, NoPowerUp, NoPowerDown, SlowAlone
  <2>3. AwakeAfterReset'
    BY <1>2 DEF PowerInv, AwakeAfterReset
  <2>4. ClocksStopped'
    BY <1>2, <1>7 DEF SlowLowPower, PowerInv, ClocksStopped
  <2>5. ConfigAgrees'
    BY <1>2, <1>7 DEF SlowLowPower, PowerInv, ConfigAgrees, GoingDown
  <2>6. ResetsAsserted'
    BY <1>2, <1>7 DEF SlowLowPower, PowerInv, ResetsAsserted, MainReset, MainInReset
  <2>7. Clamped'
    BY <1>2, <1>7 DEF SlowLowPower, PowerInv, Clamped, MainReset, MainInReset
  <2> QED  BY <1>5, <2>1, <2>2, <2>3, <2>4, <2>5, <2>6, <2>7 DEF PowerInv
<1>8. CASE SlowMainPowerOn(in)
  <2>1. slow' \in Slows
    BY <1>8, Zenon DEF SlowMainPowerOn, PowerType, Slows, SlowStates
  <2>2. Handover'
    BY <1>1, <1>2, <1>8 DEF SlowMainPowerOn, PowerInv, Handover, Alone, PoweringUp, SystemUp,
       PoweringDown, NoPowerUp, NoPowerDown, SlowAlone
  <2>3. AwakeAfterReset'
    BY <1>2 DEF PowerInv, AwakeAfterReset
  <2>4. ClocksStopped'
    BY <1>2, <1>8 DEF SlowMainPowerOn, PowerInv, ClocksStopped
  <2>5. ConfigAgrees'
    BY <1>2, <1>8 DEF SlowMainPowerOn, PowerInv, ConfigAgrees, GoingDown
  <2>6. ResetsAsserted'
    BY <1>2, <1>8 DEF SlowMainPowerOn, PowerInv, ResetsAsserted, MainReset, MainInReset
  <2>7. Clamped'
    BY <1>8 DEF SlowMainPowerOn, Clamped
  <2> QED  BY <1>5, <2>1, <2>2, <2>3, <2>4, <2>5, <2>6, <2>7 DEF PowerInv
<1>9. CASE SlowPwrClampOff
  <2>1. slow' \in Slows
    BY <1>9, Zenon DEF SlowPwrClampOff, PowerType, Slows, SlowStates
  <2>2. Handover'
    BY <1>1, <1>2, <1>9 DEF SlowPwrClampOff, PowerInv, Handover, Alone, PoweringUp, SystemUp,
       PoweringDown, NoPowerUp, NoPowerDown, SlowAlone
  <2>3. AwakeAfterReset'
    BY <1>2 DEF PowerInv, AwakeAfterReset
  <2>4. ClocksStopped'
    BY <1>2, <1>9 DEF SlowPwrClampOff, PowerInv, ClocksStopped
  <2>5. ConfigAgrees'
    BY <1>2, <1>9 DEF SlowPwrClampOff, PowerInv, ConfigAgrees, GoingDown
  <2>6. ResetsAsserted'
    BY <1>2, <1>9 DEF SlowPwrClampOff, PowerInv, ResetsAsserted, MainReset, MainInReset
  <2>7. Clamped'
    BY <1>9 DEF SlowPwrClampOff, PowerInv, Clamped
  <2> QED  BY <1>5, <2>1, <2>2, <2>3, <2>4, <2>5, <2>6, <2>7 DEF PowerInv
<1>10. CASE SlowClocksOn(in)
  <2>1. /\ slow' \in Slows
        /\ slow.state = "ClocksOn"
        /\ slow'.state \in {"ClocksOn", "ReqPwrUp"}
        /\ slow'.state = "ReqPwrUp" => slow'.clk_en = Clks /\ clk_val = Clks
        /\ slow'.pd_n = slow.pd_n
        /\ slow'.pwr_clamp = slow.pwr_clamp
        /\ slow'.pwr_clamp_env = slow.pwr_clamp_env
        /\ slow'.req_pwrup = slow.req_pwrup
        /\ slow'.ack_pwrdn = slow.ack_pwrdn
    BY <1>3, <1>10, ZenonT(60) DEF SlowClocksOn, AllClksValid, UsbActive, Configs, Clks, PowerType,
       Slows, SlowStates
  <2>2. Handover'
    BY <1>1, <1>2, <2>1, ZenonT(60)
       DEF PowerInv, Handover, Alone, PoweringUp, SystemUp, PoweringDown,
       NoPowerUp, NoPowerDown, PowerType, Fasts, SlowAlone
  <2>3. AwakeAfterReset'
    BY <1>2 DEF PowerInv, AwakeAfterReset
  <2>4. ClocksStopped'
    BY <1>2, <2>1, SMTT(30) DEF PowerInv, ClocksStopped
  <2>5. ConfigAgrees'
    BY <1>2, <2>1, SMTT(30) DEF PowerInv, ConfigAgrees, GoingDown
  <2>6. ResetsAsserted'
    BY <1>2, <2>1 DEF PowerInv, ResetsAsserted, MainReset, MainInReset
  <2>7. Clamped'
    BY <2>1 DEF PowerInv, Clamped
  <2> QED  BY <1>5, <2>1, <2>2, <2>3, <2>4, <2>5, <2>6, <2>7 DEF PowerInv
<1>11. CASE SlowReqPwrUp(in)
  <2>1. slow' \in Slows
    BY <1>11, Zenon DEF SlowReqPwrUp, PowerType, Slows, SlowStates
  <2>2. Handover'
    BY <1>1, <1>2, <1>3, <1>11 DEF SlowReqPwrUp, PowerInv, Handover, Alone, PoweringUp, SystemUp,
       PoweringDown, NoPowerDown, PowerType, BootStates, Slows, SlowAlone
  <2>3. AwakeAfterReset'
    BY <1>2 DEF PowerInv, AwakeAfterReset
  <2>4. ClocksStopped'
    BY <1>2, <1>11 DEF SlowReqPwrUp, PowerInv, ClocksStopped
  <2>5. ConfigAgrees'
    BY <1>2, <1>11 DEF SlowReqPwrUp, PowerInv, ConfigAgrees, GoingDown
  <2>6. ResetsAsserted'
    BY <1>2, <1>11 DEF SlowReqPwrUp, PowerInv, ResetsAsserted, MainReset, MainInReset
  <2>7. Clamped'
    BY <1>11 DEF SlowReqPwrUp, PowerInv, Clamped
  <2> QED  BY <1>5, <2>1, <2>2, <2>3, <2>4, <2>5, <2>6, <2>7 DEF PowerInv
<1>12. CASE SlowIdle(in)
  <2>1. /\ slow' \in Slows
        /\ slow.state = "Idle"
        /\ slow'.state = (IF SReqDn[2] /\ ~SAckUp[2] THEN "AckPwrDn" ELSE "Idle")
        /\ slow.clk_en = Clks => slow'.clk_en = Clks
        /\ slow'.pd_n = slow.pd_n
        /\ slow'.pwr_clamp = slow.pwr_clamp
        /\ slow'.pwr_clamp_env = slow.pwr_clamp_env
        /\ slow'.req_pwrup = slow.req_pwrup
        /\ slow'.ack_pwrdn = slow.ack_pwrdn
    BY <1>3, <1>12, ZenonT(60) DEF SlowIdle, UsbActive, Configs, Clks, PowerType, Slows, SlowStates
  <2>2. Handover'
    <3>1. Alone' /\ PoweringUp'
      BY <2>1 DEF Alone, PoweringUp, SlowAlone
    <3>2. SystemUp'
      BY <1>1, <1>2, <2>1, SMTT(30) DEF PowerInv, Handover, SystemUp
    <3>3. PoweringDown'
      BY <1>1, <1>2, <2>1, SMTT(30)
         DEF PowerInv, Handover, SystemUp, PoweringDown, NoPowerUp, AwakeAfterReset
    <3> QED  BY <3>1, <3>2, <3>3 DEF Handover
  <2>3. AwakeAfterReset'
    BY <1>2 DEF PowerInv, AwakeAfterReset
  <2>4. ClocksStopped'
    BY <1>2, <2>1 DEF PowerInv, ClocksStopped
  <2>5. ConfigAgrees'
    BY <1>2, <2>1, SMTT(30) DEF PowerInv, ConfigAgrees, GoingDown, Handover, SystemUp
  <2>6. ResetsAsserted'
    BY <1>2, <2>1 DEF PowerInv, ResetsAsserted, MainReset, MainInReset, ConfigAgrees, GoingDown,
       Handover, SystemUp
  <2>7. Clamped'
    BY <2>1 DEF PowerInv, Clamped
  <2> QED  BY <1>5, <2>1, <2>2, <2>3, <2>4, <2>5, <2>6, <2>7 DEF PowerInv
<1>13. CASE SlowAckPwrDn(in)
  <2>1. slow' \in Slows
    BY <1>3, <1>13, Zenon DEF SlowAckPwrDn, PowerType, Slows, SlowStates
  <2>2. Handover'
    BY <1>1, <1>2, <1>3, <1>13 DEF SlowAckPwrDn, PowerInv, Handover, Alone, PoweringUp, SystemUp,
       PoweringDown, NoPowerUp, NoPowerDown
  <2>3. AwakeAfterReset'
    BY <1>2 DEF PowerInv, AwakeAfterReset
  <2>4. ClocksStopped'
    BY <1>2, <1>13 DEF SlowAckPwrDn, PowerInv, ClocksStopped
  <2>5. ConfigAgrees'
    BY <1>2, <1>13 DEF SlowAckPwrDn, PowerInv, ConfigAgrees, GoingDown
  <2>6. ResetsAsserted'
    BY <1>2, <1>13 DEF SlowAckPwrDn, PowerInv, ResetsAsserted, MainReset, MainInReset
  <2>7. Clamped'
    BY <1>13 DEF SlowAckPwrDn, PowerInv, Clamped
  <2> QED  BY <1>5, <2>1, <2>2, <2>3, <2>4, <2>5, <2>6, <2>7 DEF PowerInv
<1>14. CASE SlowClocksOff(in)
  <2>1. slow' \in Slows
    BY <1>3, <1>14, Zenon DEF SlowClocksOff, Configs, PowerType, Slows, SlowStates
  <2>2. Handover'
    BY <1>1, <1>2, <1>14 DEF SlowClocksOff, PowerInv, Handover, Alone, PoweringUp, SystemUp,
       PoweringDown, NoPowerUp, NoPowerDown, SlowAlone
  <2>3. AwakeAfterReset'
    BY <1>2 DEF PowerInv, AwakeAfterReset
  <2>4. ClocksStopped'
    BY <1>2, <1>14 DEF SlowClocksOff, PowerInv, ClocksStopped
  <2>5. ConfigAgrees'
    BY <1>2, <1>14 DEF SlowClocksOff, PowerInv, ConfigAgrees, GoingDown
  <2>6. ResetsAsserted'
    BY <1>2, <1>14 DEF SlowClocksOff, PowerInv, ResetsAsserted, MainReset, MainInReset
  <2>7. Clamped'
    BY <1>2, <1>3, <1>14 DEF SlowClocksOff, PowerInv, Clamped
  <2> QED  BY <1>5, <2>1, <2>2, <2>3, <2>4, <2>5, <2>6, <2>7 DEF PowerInv
<1>15. CASE SlowPwrClampOn
  <2>1. slow' \in Slows
    BY <1>15, Zenon DEF SlowPwrClampOn, PowerType, Slows, SlowStates
  <2>2. Handover'
    BY <1>1, <1>2, <1>15 DEF SlowPwrClampOn, PowerInv, Handover, Alone, PoweringUp, SystemUp,
       PoweringDown, NoPowerUp, NoPowerDown, SlowAlone
  <2>3. AwakeAfterReset'
    BY <1>2 DEF PowerInv, AwakeAfterReset
  <2>4. ClocksStopped'
    BY <1>2, <1>15 DEF SlowPwrClampOn, PowerInv, ClocksStopped
  <2>5. ConfigAgrees'
    BY <1>2, <1>15 DEF SlowPwrClampOn, PowerInv, ConfigAgrees, GoingDown
  <2>6. ResetsAsserted'
    BY <1>2, <1>15 DEF SlowPwrClampOn, PowerInv, ResetsAsserted, MainReset, MainInReset
  <2>7. Clamped'
    BY <1>2, <1>15 DEF SlowPwrClampOn, PowerInv, Clamped
  <2> QED  BY <1>5, <2>1, <2>2, <2>3, <2>4, <2>5, <2>6, <2>7 DEF PowerInv
<1>16. CASE SlowMainPowerOff(in)
  <2>1. slow' \in Slows
    BY <1>3, <1>16, Zenon DEF SlowMainPowerOff, Configs, PowerType, Slows, SlowStates
  <2>2. Handover'
    BY <1>1, <1>2, <1>16 DEF SlowMainPowerOff, PowerInv, Handover, Alone, PoweringUp, SystemUp,
       PoweringDown, NoPowerUp, NoPowerDown, SlowAlone
  <2>3. AwakeAfterReset'
    BY <1>2 DEF PowerInv, AwakeAfterReset
  <2>4. ClocksStopped'
    BY <1>2, <1>16 DEF SlowMainPowerOff, PowerInv, ClocksStopped
  <2>5. ConfigAgrees'
    BY <1>2, <1>16 DEF SlowMainPowerOff, PowerInv, ConfigAgrees, GoingDown
  <2>6. ResetsAsserted'
    BY <1>2, <1>16 DEF SlowMainPowerOff, PowerInv, ResetsAsserted, MainReset, MainInReset
  <2>7. Clamped'
    BY <1>2, <1>3, <1>16 DEF SlowMainPowerOff, PowerInv, Clamped, MainReset, MainInReset,
       ResetsAsserted, PowerType, Slows
  <2> QED  BY <1>5, <2>1, <2>2, <2>3, <2>4, <2>5, <2>6, <2>7 DEF PowerInv
<1> QED  BY <1>4, <1>6, <1>7, <1>8, <1>9, <1>10, <1>11, <1>12, <1>13, <1>14, <1>15, <1>16 DEF
            SlowStep

\* The steps around the power manager keep the invariant: CONTROL is copied, the
\* AST answers, the processor goes to sleep and is woken.
LEMMA OthersKeep ==
  ASSUME PowerType, PowerInv, SafeUse(use),
         ConfigSync \/ AstPower \/ AstClocks \/ Wfi \/ Interrupt \/ UNCHANGED vars
  PROVE  PowerType' /\ PowerInv'
<1>1. /\ UNCHANGED <<use, fast, slow, f_sync, s_sync, cfg, hint, lc_rst, sys_rst, root_en>>
      /\ FReqUp' = FReqUp /\ FAckDn' = FAckDn /\ SReqDn' = SReqDn /\ SAckUp' = SAckUp
  BY SMTT(30)
     DEF ConfigSync, AstPower, AstClocks, Wfi, Interrupt, vars, FReqUp, FAckDn, SReqDn, SAckUp,
     fsmVars, cdcVars, regVars, rstVars, clkVars
<1>2. Handover'
  BY <1>1 DEF PowerInv, Handover, Alone, PoweringUp, SystemUp, PoweringDown, NoPowerUp, NoPowerDown
<1>3. CASE ConfigSync
  <2>1. PowerType'
    BY <1>1, <1>3 DEF ConfigSync, PowerType, astVars
  <2>2. ~GoingDown /\ slow_cfg' = cfg /\ UNCHANGED <<clk_val, sleeping>>
    BY <1>3 DEF ConfigSync, PowerInv, ConfigAgrees, astVars
  <2>3. slow.state \notin {"AckPwrDn", "ClocksOff", "PwrClampOn", "MainPowerOff",
                           "LowPower"} /\ ~GoingDown'
    BY <1>1, <2>2 DEF GoingDown
  <2>4. AwakeAfterReset' /\ ClocksStopped' /\ ConfigAgrees'
    BY <1>1, <2>2, <2>3, SMTT(30) DEF PowerInv, AwakeAfterReset, ClocksStopped, ConfigAgrees
  <2>5. ResetsAsserted' /\ Clamped'
    BY <1>1, <2>3 DEF PowerInv, ResetsAsserted, Clamped, MainInReset, MainReset
  <2> QED  BY <1>2, <2>1, <2>4, <2>5, SMTT(30) DEF PowerInv
<1>4. CASE AstPower \/ UNCHANGED vars
  <2>1. UNCHANGED <<slow_cfg, sync, clk_val, sleeping>>
    BY <1>4 DEF AstPower, vars, regVars, astVars
  <2>2. PowerType'
    BY <1>1, <2>1, Zenon DEF PowerType
  <2>3. AwakeAfterReset' /\ ClocksStopped' /\ ConfigAgrees'
    BY <1>1, <2>1, SMTT(30) DEF PowerInv, AwakeAfterReset, ClocksStopped, ConfigAgrees, GoingDown
  <2>4. ResetsAsserted' /\ Clamped'
    BY <1>1, <2>1 DEF PowerInv, ResetsAsserted, Clamped, MainInReset, MainReset
  <2> QED  BY <1>2, <2>2, <2>3, <2>4 DEF PowerInv
<1>5. CASE AstClocks
  <2>1. clk_val' = slow.clk_en /\ UNCHANGED <<slow_cfg, sync, sleeping>>
    BY <1>5 DEF AstClocks, regVars
  <2>2. PowerType'
    BY <1>1, <2>1, SMTT(30) DEF PowerType, Slows
  <2>3. AwakeAfterReset' /\ ClocksStopped' /\ ConfigAgrees'
    BY <1>1, <2>1, SMTT(30) DEF PowerInv, AwakeAfterReset, ClocksStopped, ConfigAgrees, GoingDown
  <2>4. ResetsAsserted' /\ Clamped'
    BY <1>1, <2>1, SMTT(30) DEF PowerInv, ResetsAsserted, Clamped, MainInReset, MainReset
  <2> QED  BY <1>2, <2>2, <2>3, <2>4 DEF PowerInv
<1>6. CASE Wfi
  <2>1. /\ sleeping' = TRUE /\ ~fast.reset_ongoing /\ (hint => sync = "done" /\ cfg = slow_cfg)
        /\ UNCHANGED <<slow_cfg, sync, clk_val>>
    BY <1>6 DEF Wfi, SafeUse, regVars, astVars
  <2>2. PowerType'
    BY <1>1, <2>1, Zenon DEF PowerType
  <2>3. AwakeAfterReset' /\ ClocksStopped' /\ ConfigAgrees'
    BY <1>1, <2>1, SMTT(30) DEF PowerInv, AwakeAfterReset, ClocksStopped, ConfigAgrees, GoingDown
  <2>4. ResetsAsserted' /\ Clamped'
    BY <1>1, <2>1 DEF PowerInv, ResetsAsserted, Clamped, MainInReset, MainReset
  <2> QED  BY <1>2, <2>2, <2>3, <2>4 DEF PowerInv
<1>7. CASE Interrupt
  <2>1. sleeping' = FALSE /\ UNCHANGED <<slow_cfg, sync, clk_val>>
    BY <1>7 DEF Interrupt, regVars, astVars
  <2>2. PowerType'
    BY <1>1, <2>1, Zenon DEF PowerType
  <2>3. AwakeAfterReset' /\ ClocksStopped' /\ ConfigAgrees'
    BY <1>1, <2>1, SMTT(30) DEF PowerInv, AwakeAfterReset, ClocksStopped, ConfigAgrees, GoingDown
  <2>4. ResetsAsserted' /\ Clamped'
    BY <1>1, <2>1 DEF PowerInv, ResetsAsserted, Clamped, MainInReset, MainReset
  <2> QED  BY <1>2, <2>2, <2>3, <2>4 DEF PowerInv
<1> QED  BY <1>3, <1>4, <1>5, <1>6, <1>7, SMTT(30)

\* The reset state has the invariant.
LEMMA PowerInit == Init => PowerType /\ PowerInv
<1> SUFFICES ASSUME Init PROVE PowerType /\ PowerInv
  OBVIOUS
<1>1. fast \in Fasts /\ slow \in Slows
  BY DEF Init, FastInit, SlowInit, Fasts, FastStates, Slows, SlowStates
<1>2. /\ FReqUp = <<FALSE, FALSE>> /\ FAckDn = <<FALSE, FALSE>>
      /\ SReqDn = <<FALSE, FALSE>> /\ SAckUp = <<FALSE, FALSE>>
  BY Zenon DEF Init, Reset2, FReqUp, FAckDn, SReqDn, SAckUp
<1>3. PowerType
  <2>1. cfg \in Configs /\ slow_cfg \in Configs
    BY Zenon DEF Init, Configs, DefaultConfig
  <2>2. <<FALSE, FALSE>> \in Pipe
    BY Zenon DEF Pipe
  <2> QED  BY <1>1, <1>2, <2>1, <2>2, Zenon DEF Init, PowerType, SAckUp
<1>4. Handover
  BY <1>2 DEF Init, FastInit, SlowInit, Handover, Alone, PoweringUp, SystemUp, PoweringDown,
     NoPowerUp, NoPowerDown
<1>5. PowerInv
  BY <1>4 DEF Init, FastInit, SlowInit, PowerInv, AwakeAfterReset, ClocksStopped, ConfigAgrees,
     GoingDown, ResetsAsserted, Clamped
<1> QED  BY <1>3, <1>5

\* Every step keeps the invariant.
LEMMA PowerStep ==
  ASSUME \A u \in Uses : SafeUse(u), PowerType, PowerInv, [Next]_vars
  PROVE  PowerType' /\ PowerInv'
<1>1. SafeUse(use)
  BY DEF PowerType
<1>2. CASE SomeFastTick
  BY <1>1, <1>2, FastKeeps, UsesAssumption DEF SomeFastTick
<1>3. CASE SomeSlowTick
  BY <1>3, SlowKeeps DEF SomeSlowTick
<1>4. CASE ConfigSync \/ AstPower \/ AstClocks \/ Wfi \/ Interrupt \/ UNCHANGED vars
  BY <1>1, <1>4, OthersKeep
<1> QED
  BY <1>2, <1>3, <1>4 DEF Next

\* Main power is removed only behind the clamps, in reset and with every root
\* clock stopped (pwrmgr_slow_fsm, SlowPwrStateMainPowerOff), for all software
\* that synchronises CONTROL before it sleeps, keeps the USB clock active and
\* does not sleep after a reset request.
THEOREM PowerOffIsSafe ==
  ASSUME \A u \in Uses : SafeUse(u)
  PROVE  Spec => []PowerOffSafe
<1>1. PowerType /\ PowerInv => PowerOffSafe
  <2>1. SUFFICES ASSUME PowerInv, ~slow.pd_n
                 PROVE  /\ slow.pwr_clamp /\ slow.pwr_clamp_env
                        /\ "main" \in lc_rst \cap sys_rst /\ root_en = {}
    BY DEF PowerOffSafe
  <2>2. /\ slow.pwr_clamp /\ slow.pwr_clamp_env /\ "main" \in lc_rst \cap sys_rst
        /\ slow.state \in {"MainPowerOff", "LowPower", "MainPowerOn"}
    BY <2>1 DEF PowerInv, Clamped, MainInReset
  <2>3. fast.state = "LowPower" /\ ~fast.reset_ongoing
    BY <2>1, <2>2 DEF PowerInv, Handover, Alone, SlowAlone
  <2>4. root_en = {}
    BY <2>1, <2>3 DEF PowerInv, ClocksStopped
  <2> QED  BY <2>2, <2>4
<1> QED  BY <1>1, PowerInit, PowerStep, PTL DEF Spec

-----------------------------------------------------------------------------
(* The wake record *)

\* Wakeups are held until they are served, and the recording is left enabled.
RecordingUse(u) == u.held /\ ~u.capture_dis

\* The capture is on before the slow FSM takes over: it starts with the first
\* cycle of low_power, and low_power is up from FallThrough on.
Capturing ==
  /\ ~record.dis
  /\ fast.state = "Active" => (fast.low_power => record.en)
  /\ fast.state = "DisClks" => (fast.low_power => record.en) /\ (record.start_q1 => record.en)
  /\ fast.state = "FallThrough" => fast.low_power /\ (record.start_q1 => record.en)
  /\ fast.state \in {"NvmIdleChk", "LowPowerPrep", "ReqPwrDn"} => record.en
  /\ slow.state \in {"AckPwrDn", "ClocksOff", "PwrClampOn", "MainPowerOff", "LowPower"} => record.en

\* A wakeup that is not recorded yet still stands, and is in every stage of its
\* synchroniser that the power-up request has passed.
FWake == f_sync.wakeup
Owed ==
  wake_owed =>
    /\ fast.state = "LowPower" /\ record.en /\ peri.wakeup
    /\ slow.state \in {"MainPowerOn", "PwrClampOff", "ClocksOn", "ReqPwrUp"}
    /\ \A k \in {1, 2} : FReqUp[k] => FWake[k]

WakeType ==
  /\ record.en \in BOOLEAN /\ record.start_q1 \in BOOLEAN /\ record.dis \in BOOLEAN
  /\ FWake \in Pipe /\ peri.wakeup \in BOOLEAN /\ wake_owed \in BOOLEAN

WakeInv == WakeType /\ Capturing /\ Owed

\* An edge of the fast clock keeps the record.
LEMMA WakeFast ==
  ASSUME PowerType, PowerInv, PowerType', WakeInv, RecordingUse(use),
         NEW sw \in SwWrites, NEW ready \in BOOLEAN, FastTick(sw, ready)
  PROVE  WakeInv'
<1> DEFINE in == FastIn(ready)
<1>1. /\ record'.start_q1 = fast.low_power
      /\ record'.dis = FALSE
      /\ record'.en = (record.en \/ (fast.low_power /\ ~record.start_q1))
      /\ record.en /\ FWake[2] => "reason" \in record'.info
  <2>1. sw.op \notin {"dis", "en", "clear"}
    BY DEF SwWrites, RecordingUse
  <2>2. ~record.dis
    BY DEF WakeInv, Capturing
  <2> QED
    BY <2>1, <2>2 DEF FastTick, WakeInfo, FWake
<1>2. /\ FReqUp'[1] = slow.req_pwrup /\ FReqUp'[2] = FReqUp[1]
      /\ FWake' \in Pipe /\ FWake'[1] = peri.wakeup /\ FWake'[2] = FWake[1]
  <2>1. FReqUp' = Shift(FReqUp, slow.req_pwrup) /\ FWake' = Shift(FWake, peri.wakeup)
    BY Zenon DEF FastTick, FastSync, FReqUp, FWake
  <2>2. FReqUp \in Pipe /\ FWake \in Pipe /\ slow.req_pwrup \in BOOLEAN /\ peri.wakeup \in BOOLEAN
    BY ZenonT(60) DEF PowerType, Slows, FReqUp, WakeInv, WakeType
  <2> QED
    BY <2>1, <2>2, ShiftPipe, ZenonT(60)
<1>3. slow' = slow /\ peri' = peri
  BY ZenonT(60) DEF FastTick
<1>4. wake_owed' = (wake_owed /\ "reason" \notin record'.info /\ ~record.dis)
  BY ZenonT(60) DEF FastTick
<1>5. FastStep(in) /\ in.req_pwrup = FReqUp[2]
  BY Zenon DEF FastTick, FastIn, FReqUp
<1>6. WakeType'
  BY <1>1, <1>2, <1>3, <1>4, ZenonT(60) DEF WakeInv, WakeType, PowerType, Fasts
<1> HIDE DEF in
<1>7. Capturing'
  <2>1. slow'.state \in {"AckPwrDn", "ClocksOff", "PwrClampOn", "MainPowerOff",
                         "LowPower"} => record'.en
    BY <1>1, <1>3, Zenon DEF WakeInv, Capturing
  <2>2. \/ fast'.state \notin {"Active", "DisClks", "FallThrough", "NvmIdleChk", "LowPowerPrep",
                               "ReqPwrDn"}
        \/ fast.state = "RomCheck" /\ fast'.state = "Active" /\ ~fast'.low_power
        \/ /\ fast.state = "Active" /\ fast'.state \in {"Active", "DisClks"}
           /\ fast'.low_power = fast.low_power
        \/ /\ fast.state = "DisClks" /\ fast'.state = "DisClks" /\ fast'.low_power = fast.low_power
        \/ fast.state = "DisClks" /\ fast'.state = "FallThrough" /\ fast'.low_power
        \/ fast.state = "FallThrough" /\ fast'.state \in {"Active", "NvmIdleChk"}
        \/ /\ fast.state \in {"NvmIdleChk", "LowPowerPrep", "ReqPwrDn"}
           /\ fast'.state \in {"Active", "LowPowerPrep", "ReqPwrDn"}
    <3>1. CASE FastRomCheck(in)
      BY <3>1 DEF FastRomCheck
    <3>2. CASE FastActive(in)
      BY <3>2 DEF FastActive
    <3>3. CASE FastDisClks(in)
      BY <3>3, ZenonT(60) DEF FastDisClks, PowerType, Fasts, FastStates
    <3>4. CASE FastFallThrough(in)
      BY <3>4 DEF FastFallThrough
    <3>5. CASE FastNvmIdleChk(in)
      BY <3>5 DEF FastNvmIdleChk
    <3>6. CASE FastLowPowerPrep(in)
      BY <3>6 DEF FastLowPowerPrep
    <3>7. CASE FastReqPwrDn(in)
      BY <3>7 DEF FastReqPwrDn
    <3>8. CASE FastLowPower(in)
      BY <3>8 DEF FastLowPower
    <3>9. CASE FastEnableClocks(in)
      BY <3>9 DEF FastEnableClocks
    <3>10. CASE FastReleaseLcRst(in)
      BY <3>10, Zenon DEF FastReleaseLcRst, PowerType, Fasts
    <3>11. CASE FastNvmInit(in)
      BY <3>11 DEF FastNvmInit
    <3>12. CASE FastStrap
      BY <3>12 DEF FastStrap
    <3>13. CASE FastAckPwrUp(in)
      BY <3>13 DEF FastAckPwrUp
    <3>14. CASE FastNvmShutDown
      BY <3>14 DEF FastNvmShutDown
    <3>15. CASE FastResetPrep(in)
      BY <3>15 DEF FastResetPrep
    <3> QED
      BY <3>1, <3>2, <3>3, <3>4, <3>5, <3>6, <3>7, <3>8, <3>9, <3>10, <3>11, <3>12, <3>13, <3>14,
         <3>15, <1>5, Zenon DEF FastStep
  <2> QED
    BY <1>1, <2>1, <2>2 DEF WakeInv, Capturing, WakeType, PowerType, Fasts
<1>8. Owed'
  <2> SUFFICES ASSUME wake_owed' PROVE Owed'
    BY DEF Owed
  <2>1. /\ wake_owed /\ "reason" \notin record'.info
        /\ fast.state = "LowPower" /\ record.en /\ peri.wakeup
        /\ slow.state \in {"MainPowerOn", "PwrClampOff", "ClocksOn", "ReqPwrUp"}
        /\ \A k \in {1, 2} : FReqUp[k] => FWake[k]
    BY <1>4, ZenonT(60) DEF WakeInv, Owed
  <2>2. ~FReqUp[2] /\ ~fast.reset_ongoing
    BY <1>1, <2>1 DEF PowerInv, Handover, Alone, PoweringUp, SlowAlone
  <2>3. fast'.state = "LowPower"
    BY <1>5, <2>1, <2>2 DEF FastStep, FastLowPower, FastEnableClocks, FastReleaseLcRst,
       FastNvmInit, FastStrap, FastAckPwrUp, FastRomCheck, FastActive, FastDisClks,
       FastFallThrough, FastNvmIdleChk, FastLowPowerPrep, FastReqPwrDn, FastNvmShutDown,
       FastResetPrep, PowerType, Fasts
  <2> QED
    BY <1>1, <1>2, <1>3, <2>1, <2>3, Zenon DEF Owed
<1> QED
  BY <1>6, <1>7, <1>8, SMTT(30) DEF WakeInv

\* An edge of the slow clock keeps the record.
LEMMA WakeSlow ==
  ASSUME PowerType, PowerInv, WakeInv, RecordingUse(use), IsUse(use),
         NEW w \in use.wakeups, NEW r \in use.resets, SlowTick([wakeup |-> w, reset_req |-> r])
  PROVE  WakeInv'
<1>1. /\ record' = record /\ fast' = fast /\ FReqUp' = FReqUp /\ FWake' = FWake
      /\ peri'.wakeup = w
      /\ peri.wakeup => w \/ fast.state = "Active"
      /\ wake_owed' = \/ wake_owed
                      \/ /\ slow.state = "LowPower" /\ slow'.state # "LowPower"
                         /\ slow'.cause = "Wake" /\ ~record.dis
  BY Zenon DEF SlowTick, RecordingUse, regVars, FReqUp, FWake
<1>2. w \in BOOLEAN
  BY SMTT(30) DEF IsUse
<1>3. /\ slow'.state \in {"AckPwrDn", "ClocksOff", "PwrClampOn", "MainPowerOff", "LowPower"}
         => \/ slow.state \in {"AckPwrDn", "ClocksOff", "PwrClampOn", "MainPowerOff", "LowPower"}
            \/ slow.state = "Idle" /\ SReqDn[2]
      /\ slow.state = "LowPower" /\ slow'.state # "LowPower" /\ slow'.cause = "Wake"
         => peri.wakeup /\ slow'.state = "MainPowerOn"
      /\ slow.state \in {"MainPowerOn", "PwrClampOff", "ClocksOn", "ReqPwrUp"}
         => \/ slow'.state \in {"MainPowerOn", "PwrClampOff", "ClocksOn", "ReqPwrUp"}
            \/ slow.state = "ReqPwrUp" /\ SAckUp[2]
  <2> DEFINE in == [wakeup |-> peri.wakeup, reset_req |-> peri.reset_req,
                    ack_pwrup |-> s_sync.ack_pwrup[2], req_pwrdn |-> s_sync.req_pwrdn[2],
                    cfg |-> slow_cfg, main_pok |-> main_pok, clk_val |-> clk_val]
  <2>1. SlowStep(in)
    BY ZenonT(60) DEF SlowTick
  <2>2. /\ in.wakeup = peri.wakeup /\ in.reset_req = peri.reset_req
        /\ in.ack_pwrup = SAckUp[2] /\ in.req_pwrdn = SReqDn[2]
    BY Zenon DEF SAckUp, SReqDn
  <2> HIDE DEF in
  <2>3. CASE SlowReset
    BY <2>3 DEF SlowReset
  <2>4. CASE SlowLowPower(in)
    BY <2>4, <2>2 DEF SlowLowPower
  <2>5. CASE SlowMainPowerOn(in)
    BY <2>5 DEF SlowMainPowerOn
  <2>6. CASE SlowPwrClampOff
    BY <2>6 DEF SlowPwrClampOff
  <2>7. CASE SlowClocksOn(in)
    BY <2>7 DEF SlowClocksOn
  <2>8. CASE SlowReqPwrUp(in)
    BY <2>8, <2>2 DEF SlowReqPwrUp
  <2>9. CASE SlowIdle(in)
    BY <2>9, <2>2 DEF SlowIdle
  <2>10. CASE SlowAckPwrDn(in)
    BY <2>10 DEF SlowAckPwrDn
  <2>11. CASE SlowClocksOff(in)
    BY <2>11 DEF SlowClocksOff
  <2>12. CASE SlowPwrClampOn
    BY <2>12 DEF SlowPwrClampOn
  <2>13. CASE SlowMainPowerOff(in)
    BY <2>13, SMTT(30) DEF SlowMainPowerOff
  <2> QED
    BY <2>1, <2>3, <2>4, <2>5, <2>6, <2>7, <2>8, <2>9, <2>10, <2>11, <2>12, <2>13, ZenonT(60)
       DEF SlowStep
<1>4. WakeType'
  BY <1>1, <1>2, SMTT(30) DEF WakeInv, WakeType
<1>5. Capturing'
  <2>1. slow.state = "Idle" /\ SReqDn[2] => fast.state = "ReqPwrDn"
    BY SMTT(30) DEF PowerInv, Handover, SystemUp
  <2> QED
    BY <1>1, <1>3, <2>1, SMTT(30) DEF WakeInv, Capturing
<1>6. Owed'
  <2>1. CASE wake_owed
    <3>1. ~(slow.state = "ReqPwrUp" /\ SAckUp[2])
      BY <2>1, SMTT(30) DEF WakeInv, Owed, PowerInv, Handover, PoweringUp
    <3> QED
      BY <1>1, <1>3, <2>1, <3>1, SMTT(30) DEF WakeInv, Owed
  <2>2. CASE ~wake_owed /\ wake_owed'
    <3>1. slow.state = "LowPower" /\ peri.wakeup /\ slow'.state = "MainPowerOn"
      BY <1>1, <1>3, <2>2, ZenonT(60)
    <3>2. fast.state = "LowPower" /\ ~FReqUp[1] /\ ~FReqUp[2] /\ record.en
      BY <3>1 DEF PowerInv, Handover, Alone, SlowAlone, NoPowerUp, WakeInv, Capturing
    <3> QED
      BY <1>1, <3>1, <3>2 DEF Owed
  <2> QED
    BY <2>1, <2>2, SMTT(30) DEF Owed
<1> QED
  BY <1>4, <1>5, <1>6, SMTT(30) DEF WakeInv

\* A wakeup that ends low power is recorded by the time the system is active
\* again (pwrmgr_wake_info), for all such software that leaves the recording
\* enabled, if the wakeup is held until then.
THEOREM WakeIsRecorded ==
  ASSUME \A u \in Uses : SafeUse(u) /\ RecordingUse(u)
  PROVE  Spec => []WakeRecorded
<1>1. Init => PowerType /\ PowerInv /\ WakeInv
  <2> SUFFICES ASSUME Init PROVE WakeInv
    BY PowerInit
  <2>1. FWake = <<FALSE, FALSE>> /\ <<FALSE, FALSE>> \in Pipe
    BY Zenon DEF Init, Reset2, FWake, Pipe
  <2>2. /\ record.en = FALSE /\ record.start_q1 = TRUE /\ record.dis = FALSE
        /\ peri.wakeup = FALSE /\ wake_owed = FALSE
        /\ fast.state = "LowPower" /\ slow.state = "Reset"
    BY DEF Init, FastInit, SlowInit
  <2> QED
    BY <2>1, <2>2, Zenon DEF WakeInv, WakeType, Capturing, Owed
<1>2. ASSUME PowerType, PowerInv, WakeInv, [Next]_vars
      PROVE  PowerType' /\ PowerInv' /\ WakeInv'
  <2>1. PowerType' /\ PowerInv'
    BY <1>2, PowerStep
  <2>2. RecordingUse(use) /\ IsUse(use)
    BY <1>2, UsesAssumption DEF PowerType
  <2>3. CASE SomeFastTick
    BY <1>2, <2>1, <2>2, <2>3, WakeFast, SMTT(30) DEF SomeFastTick
  <2>4. CASE SomeSlowTick
    BY <1>2, <2>1, <2>2, <2>4, WakeSlow, SMTT(30) DEF SomeSlowTick
  <2>5. CASE ConfigSync \/ AstPower \/ AstClocks \/ Wfi \/ Interrupt \/ UNCHANGED vars
    <3>1. UNCHANGED <<record, fast, slow, f_sync, peri, wake_owed>>
      BY <2>5 DEF ConfigSync, AstPower, AstClocks, Wfi, Interrupt, vars, fsmVars, cdcVars, regVars
    <3> QED
      BY <1>2, <2>1, <3>1, SMTT(30) DEF WakeInv, WakeType, Capturing, Owed, FWake, FReqUp
  <2> QED
    BY <1>2, <2>3, <2>4, <2>5 DEF Next
<1>3. WakeInv => WakeRecorded
  BY DEF WakeInv, Owed, WakeRecorded
<1> QED
  BY <1>1, <1>2, <1>3, PTL DEF Spec
=============================================================================
