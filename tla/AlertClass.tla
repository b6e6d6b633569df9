----------------------------- MODULE AlertClass -----------------------------
(***************************************************************************)
(* One class of the alert handler: the classifier, the accumulator, the    *)
(* interrupt with its timeout, the escalation timer and the registers that *)
(* software configures and clears them with. One step is one clock edge.   *)
(* The classes are alike and share nothing but the escalation lines.       *)
(***************************************************************************)
EXTENDS Naturals

CONSTANTS
  Alerts,           \* alerts and local alerts
  AlertEn,          \* the enabled ones
  ThisClass, AlertClasses,  \* this class, and the class of each alert
  Ctrls,            \* what software writes to ctrl: [en, lock, esc_en, esc_map]
  AccumThresh, AccuMax,     \* class_accum_thresh and the largest count
  TimeoutCyc,       \* class_timeout_cyc
  PhaseCyc          \* class_phase_cyc, a function on 0..3

ASSUME ClassAssumption ==
  /\ AlertEn \subseteq Alerts /\ DOMAIN AlertClasses = Alerts
  /\ AccumThresh \in Nat /\ AccuMax \in Nat /\ TimeoutCyc \in Nat
  /\ AccumThresh <= AccuMax /\ PhaseCyc \in [0..3 -> Nat]
  /\ \A c \in Ctrls : c.en \in BOOLEAN /\ c.lock \in BOOLEAN /\ DOMAIN c.esc_map = 0..3

VARIABLES
  tmr,              \* [state, cnt]: the registers of the escalation timer
  accu,             \* accu_q
  intr,             \* [state, enable, irq]: INTR_STATE, INTR_ENABLE, intr_o
  regs,             \* [ctrl, regwen, clr_regwen, clr]
  hits,             \* history: triggers counted since the last clear
  waited,           \* history: cycles for which irq was up, until escalation
  locked            \* history: cycles since an escalation with LOCK, at most 2

classVars == <<tmr, accu, intr, regs, hits, waited, locked>>

PhaseStates == <<"Phase0", "Phase1", "Phase2", "Phase3", "Terminal">>
Phase(k) == PhaseStates[k + 1]
Calm == {"Idle", "Timeout"}

\* Out of reset the class is disabled, with every signal in its own phase.
ResetCtrl == [en |-> FALSE, lock |-> FALSE, esc_en |-> 0..3, esc_map |-> [s \in 0..3 |-> s]]

ClassInit ==
  /\ tmr = [state |-> "Idle", cnt |-> 0]
  /\ accu = 0
  /\ intr = [state |-> FALSE, enable |-> FALSE, irq |-> FALSE]
  /\ regs = [ctrl |-> ResetCtrl, regwen |-> TRUE, clr_regwen |-> TRUE, clr |-> FALSE]
  /\ hits = 0 /\ waited = 0 /\ locked = 0

-----------------------------------------------------------------------------
\* class_trig: an enabled alert of the class fires.
ClassTrig(fired) == \E a \in fired \cap AlertEn : AlertClasses[a] = ThisClass

\* class_en: a class without an escalation signal is not enabled.
ClassEn == regs.ctrl.en /\ regs.ctrl.esc_en # {}

\* esc_sig_req_o: the escalation signals of the present phase
EscSigReq == {s \in regs.ctrl.esc_en : tmr.state = Phase(regs.ctrl.esc_map[s])}

AccuTrig(fired) == accu >= AccumThresh /\ ClassTrig(fired) /\ ClassEn

\* The accumulator saturates.
AccuStep(fired) ==
  accu' = IF regs.clr THEN 0
          ELSE IF ClassTrig(fired) /\ ClassEn /\ accu < AccuMax THEN accu + 1 ELSE accu

\* Seeded fault: the timeout is due one cycle early.
EscTrigEarly(fired) ==
  \/ tmr.state \in Calm /\ AccuTrig(fired) /\ ClassEn /\ ~regs.clr
  \/ tmr.state = "Timeout" /\ tmr.cnt + 1 >= TimeoutCyc /\ intr.irq

\* Seeded fault: the accumulator is not looked at during the timeout.
EscTrigIdleOnly(fired) ==
  \/ tmr.state = "Idle" /\ AccuTrig(fired) /\ ClassEn /\ ~regs.clr
  \/ tmr.state = "Timeout" /\ tmr.cnt >= TimeoutCyc /\ intr.irq

\* esc_trig_o: the accumulator or the interrupt timeout starts the escalation.
EscTrig(fired) ==
  \/ tmr.state \in Calm /\ AccuTrig(fired) /\ ClassEn /\ ~regs.clr
  \/ tmr.state = "Timeout" /\ tmr.cnt >= TimeoutCyc /\ intr.irq

Goto(state, cnt) == tmr' = [state |-> state, cnt |-> cnt]

TimerIdle(fired) ==
  /\ tmr.state = "Idle"
  /\ IF EscTrig(fired) THEN Goto("Phase0", 1)
     ELSE IF intr.irq /\ tmr.cnt < TimeoutCyc /\ ClassEn THEN Goto("Timeout", 1)
     ELSE Goto("Idle", 0)

\* Seeded fault: the counter is not enabled.
TimerTimeoutStands(fired) ==
  /\ tmr.state = "Timeout"
  /\ IF EscTrig(fired) THEN Goto("Phase0", 1)
     ELSE IF intr.irq THEN Goto("Timeout", tmr.cnt)
     ELSE Goto("Idle", 0)

\* The timeout runs while the interrupt is up.
TimerTimeout(fired) ==
  /\ tmr.state = "Timeout"
  /\ IF EscTrig(fired) THEN Goto("Phase0", 1)
     ELSE IF intr.irq THEN Goto("Timeout", tmr.cnt + 1)
     ELSE Goto("Idle", 0)

\* Seeded fault: a phase without cycles is skipped.
TimerPhaseSkips(k) ==
  /\ tmr.state = Phase(k)
  /\ IF regs.clr THEN Goto("Idle", 0)
     ELSE IF tmr.cnt < PhaseCyc[k] THEN Goto(Phase(k), tmr.cnt + 1)
     ELSE IF k = 2 /\ PhaseCyc[3] = 0 THEN Goto("Terminal", 0)
     ELSE Goto(Phase(k + 1), IF k < 3 THEN 1 ELSE 0)

\* Phase k, until it is cleared or its cycles are over
TimerPhase(k) ==
  /\ tmr.state = Phase(k)
  /\ IF regs.clr THEN Goto("Idle", 0)
     ELSE IF tmr.cnt >= PhaseCyc[k] THEN Goto(Phase(k + 1), IF k < 3 THEN 1 ELSE 0)
     ELSE Goto(Phase(k), tmr.cnt + 1)

TimerTerminal ==
  /\ tmr.state = "Terminal"
  /\ Goto(IF regs.clr THEN "Idle" ELSE "Terminal", 0)

TimerStep(fired) ==
  \/ TimerIdle(fired)
  \/ TimerTimeout(fired)
  \/ \E k \in 0..3 : TimerPhase(k)
  \/ TimerTerminal

-----------------------------------------------------------------------------
Writes == {"none", "ctrl", "regwen", "clr_regwen", "clr", "intr_state", "intr_enable", "intr_test"}

\* Seeded fault: the clear register is not protected by its regwen.
ClrWriteUnlocked(w) == w = "clr"

\* A write to CLR is checked against clr_regwen; it acts in the next cycle.
ClrWrite(w) == w = "clr" /\ regs.clr_regwen

\* clr_regwen is cleared for good, by software or by an escalation with LOCK.
ClrRegwen(w, fired) ==
  /\ regs.clr_regwen /\ w # "clr_regwen"
  /\ ~(EscTrig(fired) /\ regs.ctrl.lock /\ ClassEn)

\* The registers with software's write w
RegsStep(w, fired) ==
  \E c \in (IF w = "ctrl" /\ regs.regwen THEN Ctrls ELSE {regs.ctrl}) :
    regs' = [ctrl |-> c, regwen |-> (regs.regwen /\ w # "regwen"),
             clr_regwen |-> ClrRegwen(w, fired), clr |-> ClrWrite(w)]

\* The interrupt: software's clear has priority over a new event.
IntrStep(w, fired) ==
  intr' = [state |-> (intr.state \/ ClassTrig(fired) \/ w = "intr_test") /\ w # "intr_state",
           enable |-> IF w = "intr_enable" THEN ~intr.enable ELSE intr.enable,
           irq |-> (intr.state /\ intr.enable)]

\* The history variables
History(fired) ==
  /\ hits' = IF regs.clr THEN 0
             ELSE IF ClassTrig(fired) /\ ClassEn /\ hits <= AccumThresh THEN hits + 1 ELSE hits
  /\ waited' = IF tmr'.state = "Idle" THEN 0
               ELSE IF tmr.state \in Calm /\ intr.irq /\ waited <= TimeoutCyc THEN waited + 1
               ELSE waited
  /\ locked' = IF EscTrig(fired) /\ regs.ctrl.lock /\ ClassEn THEN 1
               ELSE IF locked = 0 \/ (tmr'.state \in Calm /\ locked = 1) THEN 0
               ELSE 2

\* One cycle, with the alerts that fire in it and software's write
ClassTick(fired, w) ==
  /\ AccuStep(fired)
  /\ TimerStep(fired)
  /\ RegsStep(w, fired)
  /\ IntrStep(w, fired)
  /\ History(fired)

ClassNext == \E fired \in SUBSET Alerts, w \in Writes : ClassTick(fired, w)

ClassSpec == ClassInit /\ [][ClassNext]_classVars /\ WF_classVars(ClassNext)

-----------------------------------------------------------------------------
\* The trigger that exceeds the threshold is never missed: the class is
\* escalating until software clears it, however the accumulator, the interrupt
\* timeout and the enables are timed.
NoMissedEscalation == hits > AccumThresh => tmr.state \notin Calm

\* An escalation has a reason: more triggers than the threshold, or an
\* interrupt that was up for the whole timeout.
NoSpuriousEscalation ==
  tmr.state \notin Calm =>
    hits > AccumThresh \/ (TimeoutCyc > 0 /\ waited > TimeoutCyc)

\* Under a locked configuration every enabled escalation signal is raised in
\* the course of an escalation, unless software clears it.
SignalsRaised ==
  \A s \in 0..3 :
    tmr.state = "Phase0" /\ ~regs.regwen /\ s \in regs.ctrl.esc_en
      ~> s \in EscSigReq \/ tmr.state = "Idle"

\* From the second cycle on, a locked escalation is final.
LockedForGood == locked = 2 => tmr.state \notin Calm

\* An interrupt that is never handled leads to the terminal state.
UnhandledEscalates ==
  <>[](intr.irq /\ ClassEn /\ ~regs.clr) => <>[](tmr.state = "Terminal")

=============================================================================
