# A TLA+ verification of OpenTitan's control logic and tooling

OpenTitan is a silicon root of trust: RTL for the peripherals and the top level
(`hw/`), device software (`sw/`), and the Python programs that describe, generate,
build and simulate it (`util/`, `hw/ip/otbn/`). In the hardware it is the control
that is hard to get right: small state machines on both ends of a wire, in different
clock or power domains, each simple, whose product is not. In the tooling it is state
that is changed in place and read later: merged configurations, a job that is killed
half way, a generated file that the next run reads, a program generated from what a
model believes of the processor. This project models both in TLA+, model-checks small
instances with TLC, and proves with TLAPS the results about the hardware and the OTBN
simulator that matter most.

## 1. The system and its parts

| Part | Where | State and operations | Interacts with | What is hard |
|---|---|---|---|---|
| Alert channel | `prim_alert_sender`, `prim_alert_receiver`, `prim_diff_decode` | two FSMs, alert/test/ping latches; four-phase handshake over differential pairs | every peripheral, alert handler | pings cross alerts, faults abort handshakes half way |
| Escalation channel | `prim_esc_sender`, `prim_esc_receiver`, `alert_handler_ping_timer` | two FSMs, ping timer | alert handler, life cycle, NMI | a ping and an escalation share one wire |
| Alert class | `alert_handler_class`, `_accu`, `_esc_timer`, registers | accumulator, interrupt timeout, escalation phases | alert and escalation channels, software | clear against trigger, phase boundaries, counter limits |
| Power manager | `pwrmgr_fsm`, `pwrmgr_slow_fsm`, `pwrmgr_cdc`, `pwrmgr_wake_info`, `rstmgr_ctrl`, root gates of `clkmgr` | fast and slow FSM, requests across clock domains, wake record | flash, OTP, LC, ROM, CPU, AST | reset requests race low-power entry, two clocks |
| OTBN simulator | `hw/ip/otbn/dv/otbnsim` | registers with staged writes, data memory, loop and call stacks, run loop, command interpreter | RTL test bench, EDN | a fault or a stall in the middle of an instruction, restarts |
| OTBN random instruction generator | `hw/ip/otbn/dv/rig` | model of the processor, program under construction, recursive generators | simulator | generators that fail half way, loops and branches that must leave one model |
| OTBN instruction set description | `hw/ip/otbn/util/shared`, `otbn-as`, `otbn-objdump`, loader and decoder | encodings, syntaxes, ELF images | GNU tools, simulator | three representations of an operand, ambiguous encodings, segment gaps |
| dvsim | `util/dvsim` | configurations, modes, jobs, launchers, scheduler, results | local processes, LSF, results server | merging in place, kills, late log files, job arrays |
| reggen | `util/reggen` | register blocks with running offsets | every generator | generated registers, windows, alignment |
| tlgen | `util/tlgen` | crossbar graph of hosts, sockets, FIFOs, devices | topgen | insertion of nodes, address decoding |
| topgen | `util/topgen`, `util/topgen.py` | the description of the chip, completed in place over two passes; files on disk | reggen, tlgen, templates | a pass reads what the last pass or run wrote, torn files |
| The rest | see section 8 | | | |

The hazards, at the line where each bites, are in `PROJECT.json`.

## 2. How the code is modelled

**Hardware.** One step is one edge of a clock. A module of a single FSM defines its
registers as variables and a *step* operator of the inputs of that cycle: a conjunction
of the registers that are updated alike in every state with a disjunction of one
definition per FSM state or early exit. Modules that compose components conjoin the
steps of those on one clock. A combinational output that another component only sees in
the next cycle is a variable with its value of the last cycle; one that is used in the
same cycle is an operator. Differential pairs are the four values `"lo"`, `"hi"`,
`"err0"`, `"err1"`. Reset values are `Init`. Components on different clocks step
independently, with weak fairness for each clock.

**Python.** An object is a record and a method an operator from the object to the object
it leaves; a method that may raise returns a value that says so (`Err`, `Broken`,
a field `raised` or `bad`), and what an exception leaves behind is part of the model.
Aliasing matters in places: where the code shares a list between objects, the model
changes it for all of them. Set iteration order is a choice (`Hashes`), random choices
are sets of results, texts are model values or words whose relevant spelling
(`Spelling`, `Dotted`) is a constant. Actions are the commands, phases or loop iterations
between which something else may happen: another job ends, a signal arrives, the
process is killed, the next command is read.

**Widths.** The OTBN modules take the number of bits of a byte, bytes of a word,
registers, stack depths and memory sizes as constants, and keep all arithmetic modulo
the width; the reggen and topgen modules take the register width from the description
and the end of the address space as a constant.

History variables (marked *history* where they are declared) record what a property
needs to know of the past; no step reads them. Definitions that begin with "Seeded
fault:" are deliberate mistakes; none is used by a specification. They show that the
property they belong to notices the mistake.

## 3. Modules and code

**Alert line** (`DiffDecode`, `AlertSender`, `AlertReceiver`, composed by
`AlertChannel`). `DiffDecode` is the synchronous branch of `prim_diff_decode`.
`AlertSender` has the seven registers of `prim_alert_sender` and one definition per FSM
state (`SenderPhase1` stands for the two phase 1 states, which differ in the latch they
serve); the bail-out at the end of the FSM is `SenderBailOut`, the trailing latches and
their clears are `SenderRegs`, part of every step. `AlertReceiver` is the same for
`prim_alert_receiver`. `AlertChannel` joins them by three pairs of wires, each of which
may be hit by a fault in any cycle (`Seen`), and lets the alert handler request pings.

**Escalation line** (`EscSender`, `EscReceiver`, composed by `Escalation`).
One definition per FSM state; the overrides at the end of each FSM (signal integrity,
escalation during a ping) are in `Goto`, `PingOkO` and `RcvGoto`, through which every
state passes. `Escalation` adds `alert_handler_ping_timer` (`PingStep`), with the LFSR as a
choice, and the registers that decide which alerts are pinged.

**Alert class** (`AlertClass`). Everything between the alert triggers and the escalation
requests of one class: `ClassTrig` (classifier), `AccuStep`, `IntrStep` (with the priority
of `prim_subreg_arb`), `TimerStep`, `RegsStep` (CTRL, REGWEN, CLR_REGWEN, CLR, with the
cycle between the write of CLR and its effect). In every cycle any set of alerts fires
and software does any one write.

**Power manager** (`PwrmgrFast`, `PwrmgrSlow`, composed by `PowerManager`). The two FSMs,
state by state, and around them the synchronisers of `pwrmgr_cdc`, the hint and
configuration lock, `pwrmgr_wake_info`, the reset tree of `rstmgr_ctrl`, the root gates
and clock status of `clkmgr`. The two flops of a root gate, which are on the clock of that
root, are one step of the fast clock. The AST and the processor are external: `AstPower`,
`AstClocks`, `Wfi` and `Interrupt` do what the power manager relies on. What the software
and the requests do is a record of `Uses`.

**OTBN simulator** (`OtbnState`, `OtbnInsn`, `OtbnSim`, `OtbnHost`). `OtbnState` has the
objects (`reg.py`, `gpr.py`, `flags.py`, `wsr.py`, `csr.py`, `dmem.py`, `loop.py`,
`ext_regs.py`) with their staged writes, commit and abort; `OtbnInsn` `pre_execute` and
`execute` of every instruction class; `OtbnSim` the state object, the step with its
stalls, the run loop, the statistics and one action per command of `stepped.py`.
`OtbnHost` is an abstract specification of what the host relies on; `OtbnSim!HostView`
is the refinement mapping, checked as a property and proved.

**Random instruction generator** (`RigModel`, `RigGen`). `RigModel` has the model of the
processor with its known memory, the program, and configurations with inheritance and
initial data. `RigGen` has the generators; its variable `frames` is the Python call stack
of `_gens`, `Branch` and `Loop`, so that a failure drops exactly what the code drops.
A finished program is loaded into an instance of `OtbnSim` and run: generator and
simulator are composed, and the properties compare them.

**Instruction set** (`OtbnEncoding`, `OtbnToolchain`). Operand types, bit ranges, schemes
with inheritance, encodings and ambiguity; syntaxes, instructions and files; then the chain
description, assembler, linker (external), ELF loader, decoder, listing, assembler again. The
constructors of the simulator's instruction classes, which may refuse a word, are part of
the decoder.

**dvsim** (`DvCfg`, `DvPlan`, `DvDeploy`, `DvRun`, and `Scheduler`). Modes, tests and
regressions, and Hjson configurations with imports, overrides and wildcards (`DvCfg`);
testplans and results; jobs and the launchers of local processes and LSF; and `DvRun`,
`main` of `dvsim.py` with the jobs beside it, from the command line to the exit status.
`Scheduler` is `Scheduler.py` alone and in full detail, with `pc` at the loops of `run`,
`_poll`, `_dispatch`, `_cancel_successors` and `_kill`. `jobs` has the dictionaries of the
object; the locals of `_poll` and `_dispatch` are `target`, `to_dispatch` and `frame`, and
an absent key of `_scheduled` is an empty list. `DvRun` dispatches and polls in
any order, which includes every order `Scheduler` produces.

**Chip generation** (`IpBlock`, `Xbar`, `TopMerge`, `TopWire`, `TopGen`).
`IpBlock` reads parameters, fields, registers, multi-registers and windows, lays out a
register block and reads the description of an IP block. `Xbar` elaborates a
crossbar and gives the comparisons its template writes. `TopMerge` is `merge.py`,
`TopWire` `validate.py` and `intermodule.py`, `TopGen` the passes of `topgen.py` with the
files on disk: a run may be killed while it writes one, and the user may change the
description, the option and the output directory before the next.

## 4. What is checked

| Run | Shows |
|---|---|
| `alert_line` | On a healthy recoverable line, and on a fatal line with faults on the acknowledge and ping pairs, both with tests and with pings as close together as the ping timer allows: no handshake is reported twice or missed by the receiver (`HandshakeOnce`), and a latched alert is reported, as an alert or as an integrity failure, also when it collides with a ping, with two exceptions that the property names (`AlertDelivered`). |
| `esc_line` | With pings, escalations and faults on both pairs: a line that is not recovering from a fault gives no false integrity failure (`NoFalseAlarm`), an escalation takes effect in its second cycle also during a ping (`EscInTime`), and the line recovers (`LineRecovers`). |
| `class_escalation` | No trigger above the threshold is missed (`NoMissedEscalation`), every escalation has a reason (`NoSpuriousEscalation`), every enabled signal is raised (`SignalsRaised`), an unhandled interrupt ends in Terminal (`UnhandledEscalates`), and a locked escalation is final from its second cycle (`LockedForGood`). |
| `pwr_sequences` | Repeated sleep with aborted entries and wakeups at any time, and reset requests at any time: main power goes off only behind clamps, in reset and with stopped clocks (`PowerOffSafe`), the wake reason is recorded (`WakeRecorded`), a held reset request is served (`ResetServed`), and the FSMs keep reaching a resting combination (`AlwaysRests`). |
| `scheduler` | Every job is in exactly one place (`Partition`), runs only after its dependencies (`DepsRespected`), `run()` returns with a result for every job when none hangs (`EveryJobEnds`) and after SIGINT even if all hang (`InterruptEnds`). |
| `otbn_sim` | The simulator implements the host's view (`HostView`): a fault leaves no effect, done, busy and ERR_BITS change together and only at a halt. Its own assertions hold (`AssertsHold`), stalls and statistics account for every cycle (`CyclesAccounted`), no entropy is read twice (`RndFresh`), wide arithmetic agrees with reference arithmetic and no value outgrows its width (`WideResults`), and every run ends (`RunsEnd`). |
| `otbn_rig` | For every program small configurations can generate: no assertion of the generator fails, but for two that certain configurations run into (`GeneratorAsserts`), what it believes of the processor is true whenever the simulator gets there (`ModelSound`), and the program ends with its ECALL and within its fuel (`RunsClean`). |
| `otbn_toolchain` | Accepted instruction sets can be decoded and promise the ranges that can be encoded (`LoadedIsaSound`), what was written is what is run, whatever the order of the segments and the gaps between them (`ProgramLoaded`), and a listing assembles to the same words (`ListingReassembles`). |
| `dvsim_flow` | Every run gets the options of its test and of the modes that reach it, and no others, and a build with those of its build mode, be it under the name of an equivalent mode (`OptionsReachJobs`), a job passes only with exit status 0 and a log that shows it (`StatusEarned`), coverage is merged from passing runs, and of this invocation only when it builds (`MergeSeesPassing`), and the totals count every run once (`ResultsAccount`). |
| `topgen_flow` | Register maps have no overlaps, their port covers them, and packed registers hold and reset to the fields they stand for (`RegMapSound`); after every step of the elaboration each host reaches its devices and no others, and in the end every edge joins one clock (`HostsReachDevices`), a request arrives at the instance that owns its address, through any number of crossbars (`RouteFaithful`), pads have one index each (`PadsAssigned`), every bit of a net has one driver and ends have its width, for the connections that one net can make (`NetsJoined`, `CanJoin`), and the generated files agree with the description whatever runs came before (`PassesConverge`). |
| `dvsim_lsf_array`, `topgen_steering` | Counterexamples, see section 6. |

**Bounds.** *Alert line:* `PingTimeout` = 8: a ping is answered within eight cycles also
when it collides with an alert. `PingSpacing` = 4 is the least wait of the ping timer, and
waits of `PingRest` = 12 or more are alike, because the line is at rest by then. Ping and
alert are timed independently, so they meet in every relative position. *Escalation line:* `Waits` = {4}, the smallest
wait the RTL can draw and as long as a ping response; `PingTimeout` = 6. *Class:*
`AccumThresh` = `AccuMax` = 2: the threshold is reached, passed and equal to the
saturation value; `PhaseCyc` = 3, 2, 1, 0 covers the zero length; two alerts, one of
another class. *Power manager:* no counters; `Sleeping` has wakeups, interrupts, busy
memories and two configurations, `Resetting` reset requests. *Scheduler:* `Coverage` (one
cfg, two builds, three tests, a merge, two slots) and `TwoCfgs` (three slots, every launch
may fail); `MaxPoll` = 2 makes the round robin resume in the middle of a target. No
symmetry, because the order of items matters. *OTBN simulator:* 2-bit bytes, 8-bit narrow
and 16-bit wide words, six GPRs, four WDRs, stacks of depth two (both limits are reached),
six wide words of data memory, a library of programs with one fault per cause in
ERR_BITS; two loads, two starts, six entropy words. *Generator:* memories of seven
instructions and small fuel, one configuration per part, so that branches in loops, jumps
out of branches and failures after half a loop happen; and twelve instructions, the least
in which a branch below a branch has sides of its own, with and without the generator of
jumps. *Toolchain:* 8-bit words, 2-bit registers, programs of up to two instructions, three
good and two dozen faulty descriptions.
*dvsim:* fourteen command lines on a project of two blocks, three tests and a lint flow;
histories of two results in place of fourteen. *topgen:* 8-bit registers, an address space
of 256 bytes, two runs, one kill.

**Deadlock** is checked in every run but those of dvsim and topgen, whose program ends
(and, for dvsim, may wait for ever for a job that hangs).

## 5. Fairness

Single-clock modules assume that the clock runs (`WF_vars(Next)`). In `PowerManager` each
clock runs, the AST follows its enables, and what answers OTP, life cycle and ROM requests
does so eventually; nothing is assumed of software, interrupts or wakeups. In `Scheduler`
the one thread keeps running; that jobs do not hang is a premise of `EveryJobEnds`, not an
assumption, and `InterruptEnds` does without it. In `OtbnSim` the driver keeps stepping
while a step changes something, the run loop keeps looping, and the EDN answers: the test
bench and the stand-alone program do exactly that. The conditions are spelled out
(`StepDue`, `RunDue`) instead of using ENABLED. `LineRecovers` and `UnhandledEscalates`
state what they assume of the environment in the formula. The other tool models have no
liveness property: their steps are those of one sequential program that ends.

## 6. Where code, comments and documentation disagree

Two runs end in a counterexample to what a comment says:

* `dvsim_lsf_array` (`BsubAfterAll`): "The actual launching of the bsub command cannot
  happen until the Scheduler has dispatched ALL jobs in the array"
  (`LsfLauncher.py:157`). The code waits for the job created last, and jobs are dispatched
  in another order.
* `topgen_steering` (`RouteFaithful`): "Just use min_size then the tool will use
  comparators" (`tlgen/lib.py:178`). When `min_size` is a power of two that does not divide
  the base, the template writes a mask, and addresses of the range go to the error
  responder. The chips of `topgen_flow` have aligned bases.

Other disagreements met while modelling. The models follow the code; where a constant
makes the difference, it is named.

**Alerts and escalation**
* A request latched in the tail of an alert-test handshake is cleared and acknowledged with
  it, although only the test was transferred (`prim_alert_sender.sv:160`, `:175`).
* An alert that crosses a ping is taken for its response, and the ping response that is
  still owed reports it. If the line is pinged again before that, which the smallest wait
  of the ping timer, 4 cycles, allows, that response is taken for the one to the second
  ping: both handshakes are reported as `ping_ok`, and the alert is not reported. This and
  the first case are the exceptions of `AlertDelivered`. A fatal alert is sent again.
* `alert_ping_en = alert_en & alert_regwen` pings the alerts that are *not* locked
  (`alert_handler_reg_wrap.sv:169`); comment and documentation say the opposite.
* An escalation that begins in `CheckPingResp2` raises `integ_fail_o`: the sender expects
  the response one cycle off from what the receiver sends. `upset` excepts this case. The
  pause "for two cycles" of `prim_esc_sender.sv:196-198` is not implemented, and an
  escalation request that alternates every cycle after a fault keeps the FSMs out of step.
* A CLR write in the cycle of the trigger is accepted and acts one cycle later, when it
  stops an escalation that has already locked CLR. From the next cycle on a locked
  escalation is final, which is proved.
* The interrupt of a class is lost when software clears INTR_STATE in the cycle of a new
  alert (`prim_subreg_arb`, software wins); `_index.md:491` says an interrupt "always
  fires". TimeoutSt looks neither at `clr_i` nor at `en_i`.

**Power manager**
* `reset_ongoing_q` is never cleared (`pwrmgr_fsm.sv:352`): the first low-power entry after a
  served reset request powers up on the fast side while the slow side removes main power
  (`sleeps_after_reset` TRUE violates `PowerOffSafe`). The uses let software sleep only
  until the first reset request.
* `capture_dis` TRUE: after a fall-through `low_power` stays set in Active and a re-enabled
  capture sees no edge. `held` FALSE: a wakeup pulse of one slow cycle leaves no wake reason.
  `syncs` FALSE: the slow copy of MAIN_PD_N resets to the opposite of the register. A
  configuration with `usb_active` false: the USB root gate never follows and DisClks waits
  for ever.
* The strap pulse of a cold boot comes while the pin multiplexer is in reset, and
  `strap_sampled` is not set by it. The fall-through of the first entry is not recorded.

**Scheduler and dvsim**
* With two cfgs and one slot, `total_weight` is computed before a cancellation queues more
  work, and two jobs run; with more builds than tests (GUI mode) the lookup of a deleted cfg
  key raises KeyError; a launch failure as the last event of a cfg cancels a merge with
  passing tests; slots a target does not use are not given to the next.
* Results: only "F" counts as a failure, so an invocation whose jobs were killed exits with
  0 (`dvsim.py:697`); `errors_seen` of the lint flow is reset inside the loop
  (`LintCfg.py:188`); a testpoint without tests counts 0/0; the history promised by
  `_publish_results` is never removed, keeps 15 entries, and the log says 7.
* Exceptions: `CovReport.post_finish` adds a string to a list, `Testplan` iterates over a
  dictionary without `items()`, a local process that cannot be started runs into an
  assertion that hides the LauncherError, and the LSF launcher leaves `err_msg` unbound and
  a TimeoutExpired uncaught, waits for ever in GUI mode and trips an assertion when killed
  before launch (`Launcher.py:316`).
* Configurations: merging a mode twice duplicates options, modes that enable each other end
  in the recursion limit, `is_sim_mode is True` never holds for a number read from Hjson
  (`Modes.py:410`), `create_tests` shares one `sw_images` list between tests,
  `merge_regression_opts` extends options twice, `exports` is changed for all jobs, the timestamp of a one-shot flow is
  taken before the merge, and `find_and_substitute` uses a match position relative to a
  slice (`utils.py:168`).
* `is_equivalent_job` compares two builds after replacing the name of one mode by that of
  the other (`Deploy.py:241`). Two modes whose options are their own names are taken to be
  alike, and the tests of one run on the build of the other (`wide` and `deep` of the
  instance). `OptionsReachJobs` excepts an option that is the name of the mode.
* A build deletes the coverage of earlier invocations. With `--run-only` there is no build,
  and a merge reads that coverage, too, although `--cov-merge-previous` was not given.

**OTBN simulator**
* A random word 0 counts as no word (`if self._new_rnd_data:`); `_new_rnd_data` survives a
  start, and a word that arrives in the step in which a read of RND retires is lost.
* Pushing and decrementing a loop take effect at once and are not undone by an abort;
  `check_next_pc` runs before `loop_step`; LOOPI with 0 iterations meets an assertion
  (`loop.py:85`, `base-insns.yml:470`), and a LOOP of count zero one of the statistics
  (`stats.py:85`). Branch targets of BEQ and BNE are not masked.
* `load_le_words` pads with `b'0'`, the character; the comment says "Zero-pad"
  (`dmem.py:118`). A second start while the first waits makes busy visible early.

**Random instruction generator**
* `_inc_gpr` masks with 31 where the simulator writes 32 (`model.py:759`, `insn.py:982`).
* Stores never go to the last aligned word although the comment says "all of memory!";
  `k_min` rounds too far; `_intersect_ranges` may return empty ranges.
* `Branch.gen` leaves a bogus instruction where the joining jump should go, so that the jump
  back from the second side always fails when the first side is not empty; fuel is charged
  neither for that jump nor for the head of a loop; a JAL is the fallback even with
  weight 0; an ECALL in the last word of memory ends in BAD_INSN_ADDR (`state.py:212`).
* Filling in does not fail for everything, "because we have some instructions (such as
  addi) where it will not fail" (`straight_line_insn.py:105`). That depends on the
  configuration: where all instructions need a register with a value, no weight is left
  when there is one instruction, and the loop never ends when there are several, because
  each failure clears one weight of a fresh copy (`:102-120`).
* No address is kept free for a first side of a branch that is empty (`branch.py:203`). It
  is empty when there is room for one instruction only and the generator of jumps is off;
  the second side may then branch to that address, and the joining jump overlaps what it
  put there. The configurations kept with the generator have ADDI and jumps. Both are
  exceptions of `GeneratorAsserts`.

**Instruction set description**
* The result of `apply_settings` for operand fields is not used, and `EncSchemes.resolved`
  is never filled. An optional operand left out has operand value 0 in one encoder and
  encoded value 0 in the other. The comment at `syntax.py:298` describes another match than
  the greedy one. An option with value 0 inside a necessary hunk prints nothing; an enum
  value without a name prints `???`. A segment at the very end of IMEM counts as IMEM.

**reggen**
* Overlapping fields are never noticed: `bits_used` is not updated (`register.py:147`). The
  list syntax skips `validate()`, and the write enables of multi-registers are not checked.
* `make_alert_regs` asserts fewer alerts than bits where the caller admits as many;
  a default applied to a local parameter changes nothing; a shadowed multi-register with
  several registers is always refused; access "none" counts as readable and writable; the
  arguments of a message of `RandParameter.apply_default` are swapped; inter-module ports
  of bus interfaces ignore `is_host`.

**tlgen and topgen**
* A device whose hosts have no other device is never processed, so it gets neither a
  socket nor an asynchronous FIFO; a host or device without connection raises IndexError;
  the branch for several ranges tests the base of the first.
* `--no-xbar` always fails. `add_intermodule_connection` appends to a string; the comparison
  at `validate.py:626` is chained; `visited` of `xbar_cross` is never consulted, so a cycle of
  crossbars ends in the recursion limit; `padattr` may be unbound or stale
  (`validate.py:456`); `check_flash` looks at the last memory, whatever its type.
* A responder in two connect entries is overwritten, the compatibility of `act` is not
  checked, and a 1-bit requester with one wider responder is accepted although the comment
  at `intermodule.py:792` excludes it; so are several signals that drive all of one net, and
  receivers with bits that nothing drives. One net cannot make such connections, and
  `CanJoin` leaves them out of `NetsJoined`. Host nodes added by default lack the key `xbar`.
  A chip without hint clocks or without reset requests is refused; a wakeup of width 2
  counts once; hint names with `_` are split in the wrong place.
* Two passes are made where the comment's second example needs three. A file torn by a
  killed run stops every later run that writes into the tree; in another output directory
  it is written anew before it is read.

## 7. What is proved

The proofs are in eight modules of their own, each of which EXTENDS the modules it is about.
A theorem holds for every value of the constants that satisfies the assumptions named
with it; TLC evaluates those assumptions for the constants of the runs. Unless said
otherwise a proof has the same shape: an inductive invariant `IInv` that holds initially,
that every action preserves (one step of the proof per action, under it one per conjunct
it can disturb), and that implies the property. Each invariant was checked by TLC on the
small instances first.

**Alert line** (`AlertProofs`; `LinesAssumption` and natural numbers for the timeouts).
`AlertProofs` extends both `AlertChannel` and `AlertClass`; the specification of the class is
therefore called `ClassSpec`.
* `TypeCorrect`: `Spec => []TypeOK`.
* `HandshakeSignalledOnce`: `Spec => []HandshakeOnce`, for every kind of alert, every set of
  faulty pairs and every timing of the pings. `HandshakeInv` adds where the receiver can be in each
  state of the sender, and what the wires carried in the last cycle. It is needed because
  the property speaks of a handshake that is over, and a fault may separate the two FSMs
  in the middle of one. The key lemma is `SeenLevel`: a pair decoded as a level carries
  that level or reports a failure.

**Alert class** (`AlertProofs`; `AccumThresh <= AccuMax`, any timeout and phase lengths).
* `TriggerNeverMissed`: `CountInv` says that a calm class has counted every trigger and is not
  above its threshold. The threshold must not exceed what the saturating counter holds.
* `EscalationHasReason`: `ReasonInv` relates the timeout counter to the cycles the interrupt
  has been up; together with `CountInv` every escalation has one of its two reasons.
* `LockIsFinal`: `LockInv` says that one cycle after the lock no accepted write of CLR is left.

All three rest on `TimerMoves`, which says what a step of the timer does to the FSM.

**Escalation line** (`EscProofs`; `PingAssumption`: waits of at least four cycles).
* `LineInStep`: while the line is not upset by a fault, sender and receiver are in
  corresponding states (`Agree`), a ping that lasts is being answered (`PingInHand`), and the
  response is over before the next ping (`PingOver`). The last is where the smallest wait
  of the ping timer is needed.
* `NeverFalseAlarm` and `EscalationInTime` follow. Nothing is claimed while the line is
  upset; that it recovers is liveness.

**Power manager** (`PowerProofs`; two clocks of any relative speed).
* `PowerOffIsSafe`: `Spec => []PowerOffSafe` for software that waits for the configuration to
  cross into the slow domain, keeps the USB clock active and does not sleep after a reset
  request (`SafeUse`; section 6 says what happens otherwise). `PowerInv` is the hand-over
  between the FSMs: in each state of the slow one, where the fast one can be and which
  requests are in the synchronisers (`Handover`), and what the fast one has already done
  with clocks, resets and configuration.
* `WakeIsRecorded`: `Spec => []WakeRecorded` if moreover the wakeup is held and recording stays
  enabled (`RecordingUse`). `WakeInv` follows the wakeup from the slow FSM to the record.

**OTBN simulator** (`OtbnBaseProofs`, `OtbnInsnProofs`, `OtbnHostProofs`, `OtbnProofs`, each
resting on the one before). The results are about every program, every size of the
memories, stacks, registers and words that satisfies `WidthAssumption`, and every sequence
of commands.
* `HostViewImplemented`: `Spec => HostView`, the refinement of `OtbnHost`. The refinement is
  proved step by step: the initial state maps to an initial state, and every step of the
  simulator maps to a step of the abstract specification or leaves its variables alone.
* `OnlyZeroLoopsAssert`: if programs have no negative branch target, no unknown CSR and no
  LOOPI of zero iterations (`SafeInsns`), the only assertion that can fail is that of the
  statistics on a LOOP of zero iterations. `AssertsNeverFail`: if programs run with
  statistics have no LOOP either, `Spec => []AssertsHold`.
* `EntropyReadOnce`: `Spec => []RndFresh`.
* `CyclesAreAccounted`: `Spec => []CyclesAccounted`.

The argument has three layers. `OtbnBaseProofs` types the state (`States`); it and
`OtbnInsnProofs`, for the narrow and the wide instructions, prove of each instruction class
what it leaves alone: until the commit, values of registers and memory, and what the host
can see (`Same`); errors lead to a halt; the loop stack keeps its form (`Ran`, collected by
`ExecuteRan`; `PostInsnDone` adds `post_insn`). `OtbnHostProofs` goes from there to whole
steps: a step of a running simulator is a cycle of a stall (`Waited`), a retired instruction
(`Retired`), a halt that leaves every register and the memory as they were (`Halted`), or an
exception (`Crashed`). `SimInv` says that between steps no write is pending and the PC is
inside the instruction memory, which is enough for the refinement. The theorems of
`OtbnProofs` add what each needs: that programs with statistics stay those (`AssertInv`);
that the words read are distinct and the word at hand is not one of them (`RndInv`); how far
a load has got and what the statistics have added up (`CycInv`).

Three things were done for the sake of the prover. `2^n > 0` is an assumption
(`PowersAssumption`), because the prover has no laws of exponentiation; TLC evaluates it.
Bitwise operations are sums over tables of bits instead of the operators of `Bitwise`. Sums
over memory words are proved to be numbers by well-founded induction in its set form.

**dvsim scheduler** (`SchedulerProofs`; `PlansAssumption`: jobs are given once and depend only on
jobs of earlier targets; `BoundsAssumption`, `OutcomesAssumption`). The results are about
every plan of jobs, any number of targets and slots, any weights, jobs that hang, launches
that fail and SIGINT at any point.
* `PartitionHolds`: `Spec => []Partition`.
* `DepsHold`: `Spec => []DepsRespected`.
* `FiledOnce`: `Spec => FiledForGood`, an action property: a job that has a result keeps it.
* `DoneWithResults`: `Spec => []ReturnsComplete`: the code compares two numbers for each target,
  and this is enough for every job to have a result.

The inductive invariant `Inv` says that every list holds exactly the jobs whose status names
it, each once (`Placed`); that a job that left `_scheduled` for the queue has all its dependencies
ended, and one that was taken to be launched has them passed as it asks (`Ready`); and that
the jobs `_cancel_successors` has still to cancel are scheduled ones with their dependencies
ended, each listed once (`Stacked`). The last is needed because a job is cancelled long after
it was found, with others cancelled in between: were it listed twice, or queued meanwhile,
it would be filed twice. `Ready` is kept because a job never leaves a final status
(`StaysReady`). One lemma per change of the lists (`EnqueueGood`, `FinishGood`, `TakeStep`,
`LaunchStep`, `CancelStep`, `KillStep`) carries the argument; below them are lemmas on lists
(`AppendLists`, `KeepLists`, `ConcatLists`, ...). `Keep`, the one recursive function of the
module, is shown to keep what it should by induction in its set form (`NatSetInduction`).
`FiledForGood` and `ReturnsComplete` are stated for the proofs alone; no run lists them.

## 8. What is only model-checked, and what is not modelled

**Only model-checked.**
* The liveness properties: `AlertDelivered`, `LineRecovers`, `SignalsRaised`,
  `UnhandledEscalates`, `ResetServed`, `AlwaysRests`, `EveryJobEnds`, `InterruptEnds`, `RunsEnd`.
  Fairness is beyond the proof system.
* `WideResults`: it compares recursive arithmetic with reference arithmetic, which needs
  induction over data. It includes the value ranges of registers and memory that the
  assertions of `reg.py` and `dmem.py` state; the proofs know these values only as integers.
* The other tool models (`RigModel`, `RigGen`, `OtbnEncoding`, `OtbnToolchain`,
  `DvCfg`, `DvPlan`, `DvDeploy`, `DvRun`, `IpBlock`, `Xbar`, `TopMerge`, `TopWire`, `TopGen`):
  they are built from recursive operators, which the prover cannot reason about.

**Left out inside modelled parts.** FSM states that only a glitch reaches; the asynchronous
branch of `prim_diff_decode`; cause registers and crash dump of the alert handler; the
masks of single wakeup and reset sources, leaf resets and the clock gates under software
control; the status printer, `CovUnr` and `CovAnalyze` of dvsim; the text of reports and
generated files beyond what a property compares; the random netlist constants; the line
parser of `otbn-as`.

**Not modelled**, with the reasons in `PROJECT.json`. Hardware that meets the modelled parts
only through interfaces the models take as inputs: life cycle, OTP, ROM and flash
controllers, key manager, entropy complex, interrupt controller, timers, TL-UL fabric,
clock crossing primitives, arbiters and FIFOs. Cryptographic blocks and line protocols of
I/O peripherals, where a small instance does not show what matters. Device software, and
tools that only print or parse text, search bit patterns or talk to a board.
