------------------------------- MODULE MCPower ------------------------------
(***************************************************************************)
(* Instances of the power manager for TLC.                                 *)
(***************************************************************************)
EXTENDS PowerManager

\* Configurations: main power off; main power on and sources on.
DeepSleep == [main_pd_n |-> FALSE, clk_en_lp |-> {}, usb_active |-> TRUE]
ClockedSleep == [main_pd_n |-> TRUE, clk_en_lp |-> Clks, usb_active |-> TRUE]

\* Low power in both configurations, with wakeups at any time, interrupts that
\* make the system fall through, and memories that are busy.
Sleeping == [configs |-> {DeepSleep, ClockedSleep}, wakeups |-> BOOLEAN, resets |-> {FALSE},
             nvm_idle |-> BOOLEAN, interrupts |-> TRUE, capture_dis |-> FALSE, held |-> TRUE,
             sleeps_after_reset |-> FALSE, syncs |-> TRUE]

\* Reset requests at any time, among them on the way into low power and out of it.
Resetting == [Sleeping EXCEPT !.configs = {DeepSleep}, !.wakeups = {FALSE}, !.resets = BOOLEAN,
                              !.nvm_idle = {TRUE}, !.interrupts = FALSE]

BothUses == {Sleeping, Resetting}
=============================================================================
