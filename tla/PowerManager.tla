---------------------------- MODULE PowerManager ----------------------------
(***************************************************************************)
(* The power manager as a whole: the fast and the slow FSM on their two    *)
(* clocks, the synchronisers between them (pwrmgr_cdc), the wake record    *)
(* (pwrmgr_wake_info), the low-power hint and the configuration lock of    *)
(* pwrmgr, the reset tree (rstmgr_ctrl), the clock gates of clkmgr, and    *)
(* around them the AST and the software that sends the system to sleep.    *)
(***************************************************************************)
EXTENDS PwrmgrFast, PwrmgrSlow, Naturals, Sequences

CONSTANT Uses       \* the ways the system is used, see IsUse

\* configs: the low-power configurations of the software; wakeups, resets and
\* nvm_idle: the values the masked wakeup, the masked reset request and the idle
\* indications of OTP, LC and flash take; interrupts: an interrupt may end WFI
\* before the clocks stop; capture_dis: the software uses WAKE_INFO_CAPTURE_DIS;
\* held: a request is a level held until it is served; sleeps_after_reset: the
\* software uses low power after a reset request; syncs: it synchronises
\* CONTROL before it sleeps.
IsUse(u) ==
  /\ u.configs \subseteq [main_pd_n : BOOLEAN, clk_en_lp : SUBSET Clks, usb_active : BOOLEAN]
  /\ {u.wakeups, u.resets, u.nvm_idle} \subseteq SUBSET BOOLEAN
  /\ {u.interrupts, u.capture_dis, u.held, u.sleeps_after_reset, u.syncs} \subseteq BOOLEAN

ASSUME UsesAssumption == \A u \in Uses : IsUse(u)

VARIABLES
  use,              \* which of Uses this is
  f_sync,           \* the synchronisers into the fast domain
  f_cause,          \* pwrup_cause_o of pwrmgr_cdc
  s_sync,           \* the synchronisers into the slow domain
  peri,             \* slow_peri_reqs_masked: wakeup and reset_req
  cfg,              \* CONTROL without the hint, in the fast domain
  slow_cfg,         \* its copy in the slow domain
  sync,             \* progress of CFG_CDC_SYNC; the bit reads 0 when done
  hint,             \* CONTROL.LOW_POWER_HINT
  cfg_wen,          \* lowpwr_cfg_wen
  record,           \* the registers of pwrmgr_wake_info, and its disable
  lc_rst,           \* domains with rst_lc_src_n low
  sys_rst,          \* domains with rst_sys_src_n low
  sys_parent,       \* rst_parent_synced of the system reset tree
  root_en,          \* the clock roots of clkmgr that are enabled
  status_q,         \* its synchroniser and debouncer of all and of any root_en
  clk_status,       \* clk_status of clkmgr
  main_pok,         \* the answers of the AST
  clk_val,
  sleeping,         \* core_sleeping of the processor
  wake_owed         \* history: a wakeup has not been recorded yet

cdcVars == <<f_sync, f_cause, s_sync, peri>>
regVars == <<cfg, slow_cfg, sync, hint, cfg_wen, record>>
rstVars == <<lc_rst, sys_rst, sys_parent>>
clkVars == <<root_en, status_q, clk_status>>
astVars == <<main_pok, clk_val>>
fsmVars == <<fast, strap_sampled, slow>>
vars == <<use, fsmVars, cdcVars, regVars, rstVars, clkVars, astVars, sleeping, wake_owed>>

DefaultConfig == [main_pd_n |-> TRUE, clk_en_lp |-> {}, usb_active |-> TRUE]

\* prim_flop_2sync: the first stage samples, the second one is the output.
Reset2 == <<FALSE, FALSE>>
Shift(s, d) == <<d>> \o SubSeq(s, 1, Len(s) - 1)

\* The slow copies of CONTROL reset to all zero but for usb_clk_en_active.
Init ==
  /\ use \in Uses
  /\ FastInit
  /\ SlowInit
  /\ f_sync = [req_pwrup |-> Reset2, ack_pwrdn |-> Reset2, wakeup |-> Reset2,
               reset_req |-> Reset2, toggle |-> <<FALSE, FALSE, FALSE>>]
  /\ f_cause = "Por"
  /\ s_sync = [req_pwrdn |-> Reset2, ack_pwrup |-> Reset2]
  /\ peri = [wakeup |-> FALSE, reset_req |-> FALSE]
  /\ cfg = DefaultConfig
  /\ slow_cfg = [DefaultConfig EXCEPT !.main_pd_n = FALSE]
  /\ sync = "done"
  /\ hint = FALSE
  /\ cfg_wen = TRUE
  /\ record = [en |-> FALSE, start_q1 |-> TRUE, dis |-> FALSE, info |-> {}]
  /\ lc_rst = Domains
  /\ sys_rst = Domains
  /\ sys_parent = <<Domains, Domains>>
  /\ root_en = {}
  /\ status_q = [i \in 1..4 |-> [all |-> FALSE, any |-> FALSE]]
  /\ clk_status = FALSE
  /\ main_pok = FALSE
  /\ clk_val = {}
  /\ sleeping = FALSE
  /\ wake_owed = FALSE

-----------------------------------------------------------------------------
\* The processor executes: it is out of reset, clocked and not in WFI.
CpuRuns == fast.fetch_en /\ "core" \in root_en /\ "main" \notin sys_rst /\ ~sleeping

\* The register writes of the software. The ones that CTRL_CFG_REGWEN protects
\* need the lock to be open.
SwWrites ==
  LET allowed ==
        {"none"} \cup
        IF ~CpuRuns THEN {} ELSE
          (IF cfg_wen /\ ~hint THEN {"config", "hint"} ELSE {})
          \cup (IF sync = "done" THEN {"sync"} ELSE {})
          \cup (IF use.capture_dis THEN {"dis", "en", "clear"} ELSE {})
  IN {w \in [op : allowed, cfg : use.configs \cup {cfg}] : w.op # "config" => w.cfg = cfg}

\* The inputs of the fast FSM in this cycle.
FastIn(ready) ==
  [req_pwrup |-> f_sync.req_pwrup[2], cause |-> f_cause, ack_pwrdn |-> f_sync.ack_pwrdn[2],
   low_power_entry |-> sleeping /\ hint, reset_req |-> f_sync.reset_req[2],
   main_pd_n |-> cfg.main_pd_n, clk_status |-> clk_status,
   lc_rst |-> lc_rst, sys_rst |-> sys_rst, ready |-> ready]

\* pwrmgr_cdc, fast side. The cause is captured when its toggle changes.
FastSync ==
  /\ f_sync' = [req_pwrup |-> Shift(f_sync.req_pwrup, slow.req_pwrup),
                ack_pwrdn |-> Shift(f_sync.ack_pwrdn, slow.ack_pwrdn),
                wakeup |-> Shift(f_sync.wakeup, peri.wakeup),
                reset_req |-> Shift(f_sync.reset_req, peri.reset_req),
                toggle |-> Shift(f_sync.toggle, slow.cause_toggle)]
  /\ f_cause' = IF f_sync.toggle[2] # f_sync.toggle[3] THEN slow.cause ELSE f_cause

\* pwrmgr: the hint and the configuration lock, and what the software writes.
Registers(in, sw) ==
  /\ hint' = (sw.op = "hint" \/ (hint /\ ~ClrHintO))
  /\ cfg_wen' = IF ~cfg_wen /\ (ClrCfgLockO(in) \/ WkupO(in)) THEN TRUE ELSE cfg_wen /\ ~hint
  /\ cfg' = sw.cfg
  /\ sync' = IF sw.op = "sync" THEN "requested" ELSE IF sync = "copied" THEN "done" ELSE sync

\* Seeded fault: only the cycle in which the capture starts is recorded.
WakeInfoFirstCycle(in, sw) ==
  LET start == fast.low_power /\ ~record.start_q1
  IN record' = [start_q1 |-> fast.low_power,
                en |-> ~record.dis /\ start,
                dis |-> IF sw.op \in {"dis", "en"} THEN sw.op = "dis" ELSE record.dis,
                info |-> IF sw.op = "clear" THEN {}
                         ELSE IF record.en /\ f_sync.wakeup[2] THEN record.info \cup {"reason"}
                         ELSE record.info]

\* pwrmgr_wake_info. A write of the software wins over the recording.
WakeInfo(in, sw) ==
  LET start == fast.low_power /\ ~record.start_q1
      events == (IF f_sync.wakeup[2] THEN {"reason"} ELSE {})
                \cup (IF FallThroughO(in) THEN {"fall_through"} ELSE {})
                \cup (IF AbortO(in) THEN {"abort"} ELSE {})
  IN record' = [start_q1 |-> fast.low_power,
                en |-> ~record.dis /\ (start \/ record.en),
                dis |-> IF sw.op \in {"dis", "en"} THEN sw.op = "dis" ELSE record.dis,
                info |-> IF sw.op = "clear" THEN {}
                         ELSE IF record.en THEN record.info \cup events
                         ELSE record.info]

\* rstmgr_ctrl: one flop per domain; main is held in reset whenever aon is.
NextRst(rst, req) ==
  req \cup IF "aon" \in req \cup rst THEN {"main"} ELSE {}

ResetTree ==
  /\ lc_rst' = NextRst(lc_rst, fast.rst_lc_req)
  /\ sys_rst' = NextRst(sys_rst, fast.rst_sys_req \cup sys_parent[2])
  /\ sys_parent' = Shift(sys_parent, lc_rst)

\* clkmgr: the gate of a root follows ip_clk_en through two flops of its own clock,
\* so only while that clock runs; the two are one step here, of which one is of the fast clock. That all roots run, or that none does, is
\* reported after two flops of synchroniser and two equal samples.
ClockGates ==
  /\ root_en' = (root_en \ clk_val) \cup (IF fast.ip_clk_en THEN clk_val ELSE {})
  /\ status_q' = Shift(status_q, [all |-> root_en = Clks, any |-> root_en # {}])
  /\ clk_status' = IF status_q[3].all /\ status_q[4].all THEN TRUE
                   ELSE clk_status /\ (status_q[3].any \/ status_q[4].any)

\* The fast clock is io_div4: it runs once its source may run.
FastTick(sw, ready) ==
  LET in == FastIn(ready)
  IN /\ "io" \in clk_val \cup slow.clk_en
     /\ sw \in SwWrites
     /\ FastStep(in)
     /\ FastSync
     /\ Registers(in, sw)
     /\ WakeInfo(in, sw)
     /\ ResetTree
     /\ ClockGates
     /\ sleeping' = (sleeping /\ "main" \notin sys_rst)
     /\ wake_owed' = (wake_owed /\ "reason" \notin record'.info /\ ~record.dis)
     /\ UNCHANGED <<use, slow, s_sync, peri, slow_cfg, astVars>>

\* One edge of the slow clock; p are the requests as synchronised and masked
\* at this edge.
SlowTick(p) ==
  LET in == [wakeup |-> peri.wakeup, reset_req |-> peri.reset_req,
             ack_pwrup |-> s_sync.ack_pwrup[2], req_pwrdn |-> s_sync.req_pwrdn[2],
             cfg |-> slow_cfg, main_pok |-> main_pok, clk_val |-> clk_val]
  IN /\ use.held /\ peri.wakeup => p.wakeup \/ fast.state = "Active"
     /\ use.held /\ peri.reset_req => p.reset_req \/ sys_rst = Domains
     /\ SlowStep(in)
     /\ s_sync' = [req_pwrdn |-> Shift(s_sync.req_pwrdn, fast.req_pwrdn),
                   ack_pwrup |-> Shift(s_sync.ack_pwrup, fast.ack_pwrup)]
     /\ peri' = p
     /\ wake_owed' = \/ wake_owed
                     \/ /\ slow.state = "LowPower" /\ slow'.state # "LowPower"
                        /\ slow'.cause = "Wake" /\ ~record.dis
     /\ UNCHANGED <<use, fast, strap_sampled, f_sync, f_cause, regVars, rstVars, clkVars,
                    astVars, sleeping>>

\* The pulse of CFG_CDC_SYNC reaches the slow domain, which copies CONTROL. The
\* pulse back is taken at the next edge of the fast clock.
ConfigSync ==
  /\ sync = "requested"
  /\ slow_cfg' = cfg
  /\ sync' = "copied"
  /\ UNCHANGED <<use, fsmVars, cdcVars, cfg, hint, cfg_wen, record, rstVars, clkVars, astVars,
                 sleeping, wake_owed>>

\* The AST follows the enables of the slow FSM.
AstPower ==
  /\ main_pok' = slow.pd_n
  /\ UNCHANGED <<use, fsmVars, cdcVars, regVars, rstVars, clkVars, clk_val, sleeping, wake_owed>>

AstClocks ==
  /\ clk_val' = slow.clk_en
  /\ UNCHANGED <<use, fsmVars, cdcVars, regVars, rstVars, clkVars, main_pok, sleeping, wake_owed>>

\* The processor executes WFI, or an interrupt ends it.
Wfi ==
  /\ CpuRuns
  /\ use.sleeps_after_reset \/ ~fast.reset_ongoing
  /\ use.syncs /\ hint => sync = "done" /\ cfg = slow_cfg
  /\ sleeping' = TRUE
  /\ UNCHANGED <<use, fsmVars, cdcVars, regVars, rstVars, clkVars, astVars, wake_owed>>

Interrupt ==
  /\ sleeping
  /\ use.interrupts \/ fast.state = "Active"
  /\ sleeping' = FALSE
  /\ UNCHANGED <<use, fsmVars, cdcVars, regVars, rstVars, clkVars, astVars, wake_owed>>

SomeFastTick == \E sw \in SwWrites, ready \in BOOLEAN :
  /\ fast.state = "NvmIdleChk" => ready \in use.nvm_idle
  /\ FastTick(sw, ready)

SomeSlowTick == \E w \in use.wakeups, r \in use.resets : SlowTick([wakeup |-> w, reset_req |-> r])

Next ==
  \/ SomeFastTick
  \/ SomeSlowTick
  \/ ConfigSync
  \/ AstPower
  \/ AstClocks
  \/ Wfi
  \/ Interrupt

\* The clocks run, also when the software writes no register and no request
\* changes; OTP, life cycle and ROM check complete and the memories become idle;
\* the AST follows its enables.
Fairness ==
  /\ WF_vars(FastTick([op |-> "none", cfg |-> cfg], TRUE))
  /\ WF_vars(SlowTick(peri))
  /\ WF_vars(ConfigSync)
  /\ WF_vars(AstPower)
  /\ WF_vars(AstClocks)

Spec == Init /\ [][Next]_vars /\ Fairness
-----------------------------------------------------------------------------

\* The slow FSM takes power from the main domain only behind its clamps, with
\* the resets of the domain asserted and every clock root stopped: the fast
\* FSM has to have sequenced all of that on its side before it hands over.
PowerOffSafe ==
  ~slow.pd_n => /\ slow.pwr_clamp /\ slow.pwr_clamp_env
                /\ "main" \in lc_rst \cap sys_rst
                /\ root_en = {}

\* The FSM pair keeps coming back to one of the two resting combinations of
\* the documentation: no transition between them gets stuck.
Resting == \/ fast.state = "Active" /\ slow.state = "Idle"
           \/ fast.state = "LowPower" /\ slow.state = "LowPower"
AlwaysRests == []<>Resting

\* A reset request that is held ends in the reset of every domain, whichever
\* transition is under way when it arrives.
ResetServed == peri.reset_req ~> sys_rst = Domains

\* When the system is active again after a wakeup that ended low power, and the
\* software had left the recording enabled, WAKE_INFO holds a wake reason.
WakeRecorded == fast.state = "Active" => ~wake_owed
=============================================================================
