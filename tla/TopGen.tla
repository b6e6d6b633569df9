------------------------------- MODULE TopGen -------------------------------
(****************************************************************************)
(* The chip generator (util/topgen.py): passes over the top description that *)
(* read and write the descriptions of the generated blocks, the crossbars,   *)
(* and the wiring. cfg names what the user wrote: the top description, the   *)
(* crossbars, the blocks of hw/ip and the templates of the generated ones.   *)
(* disk holds the generated descriptions, in the tree the top description is *)
(* in and in another output directory; a file may be torn. A run may be      *)
(* killed, and the user may change cfg and options before the next one.      *)
(****************************************************************************)
EXTENDS TopWire

CONSTANTS Top,          \* the end of the address space
          Cfg(_),       \* what the user may write, by name
          Scenarios,    \* a set of records: the names of configurations, options and output directories,
                        \* and how often the tool is started and killed
          Torn          \* the content of a file whose writer was killed

Tlgen == INSTANCE Xbar

VARIABLES scenario, cfg, \* the name of what the user wrote
          outdir,       \* where the tool writes: "tree" or "other"
          args,         \* the option given
          disk,         \* the generated descriptions by place and type
          phase, pass,  \* where the tool is
          top,          \* the description being completed
          blocks,       \* name_to_block
          xbars, calls, \* the crossbars elaborated, the process_node calls left
          runs, kills   \* bounds

vars == <<scenario, cfg, outdir, args, disk, phase, pass, top, blocks, xbars, calls, runs, kills>>
inputs == <<scenario, cfg, outdir, args>>

AllOptions == {"", "plic_only", "alert_handler_only", "xbar_only", "no_plic", "no_xbar", "top_ral"}
Generated == {"clkmgr", "flash_ctrl", "rv_plic", "alert_handler", "pinmux", "pwrmgr", "rstmgr"}
\* The phases that write a file, in their order
Writing == <<"flash_ctrl", "rv_plic", "alert_handler", "pinmux", "pwrmgr", "rstmgr">>
After(p) == Writing[(CHOOSE k \in DOMAIN Writing : Writing[k] = p) + 1]
\* idle: not started or killed; exited: ended early as an option asks for
Ended == {"idle", "done", "exited", "stopped"}

-----------------------------------------------------------------------------
(* Rendering a template *)

\* A parameter or signal width marked arg takes the value of that argument.
Render(template, vals) ==
  LET Filled(rd, field) == IF "arg" \in DOMAIN rd THEN Without(With(rd, field, vals[rd.arg]), "arg") ELSE rd
      params == With(template, "param_list", MapSeq(LAMBDA p : Filled(p, "default"), Get(template, "param_list", <<>>)))
  IN With(params, "inter_signal_list",
          MapSeq(LAMBDA s : Filled(s, "width"), Get(template, "inter_signal_list", <<>>)) \o vals.signals)
TotalWidth(sigs) == SumOver(MapSeq(LAMBDA s : s.width, sigs))
AtLeastOne(n) == IF n < 1 THEN 1 ELSE n
Exported(prefix, intfs) ==
  MapSeq(LAMBDA i : [name |-> prefix \o i, struct |-> prefix \o "out", type |-> "uni", act |-> "req"], Listed(intfs))

\* The clocks by the way they are gated: fed through, at the root, by software,
\* by a hint
ClockClass(t, group, clk) ==
  LET src == CHOOSE s \in ToSet(t.clocks.srcs) \cup ToSet(t.clocks.derived_srcs) : s.name = group.clocks[clk]
  IN IF group.name = "powerup" THEN "ft" ELSE IF src.aon = "yes" THEN "ft" ELSE IF group.sw_cg = "no" THEN "rg"
     ELSE IF group.sw_cg = "yes" THEN "sw" ELSE "hint"
Unsourced(t) ==
  \E g \in ToSet(t.clocks.groups) :
    g.name # "powerup" /\ \E clk \in DOMAIN g.clocks :
      ~\E s \in ToSet(t.clocks.srcs) \cup ToSet(t.clocks.derived_srcs) : s.name = g.clocks[clk]
ClocksOf(t, class) ==
  UNION {{clk \in DOMAIN g.clocks : ClockClass(t, g, clk) = class} : g \in ToSet(t.clocks.groups)}
ClkmgrArgs(t) ==
  [n_sw |-> Cardinality(ClocksOf(t, "sw")), n_hint |-> Cardinality(ClocksOf(t, "hint")),
   signals |-> Exported("clocks_", t.exported_clks)]

PlicArgs(t) == [src |-> TotalWidth(t.interrupt) + 1, signals |-> <<>>]

AlertArgs(t) ==
  [n_alerts |-> AtLeastOne(TotalWidth(t.alert)), signals |-> <<>>,
   async_on |-> FlattenSeq(MapSeq(LAMBDA a : [k \in 1..a.width |-> a.extra], Reverse(t.alert)))]

PinmuxArgs(t) ==
  LET n == t.pinmux.io_counts
  IN [n_mio_periph_in |-> n.muxed.inouts + n.muxed.inputs, n_mio_periph_out |-> n.muxed.inouts + n.muxed.outputs,
      n_mio_pads |-> n.muxed.pads, n_dio_pads |-> n.dedicated.inouts + n.dedicated.inputs + n.dedicated.outputs,
      n_wkup_detect |-> Get(t.pinmux, "num_wkup_detect", 1), signals |-> <<>>]
PinmuxGoes(t) == Get(t.pinmux, "num_wkup_detect", 1) > 0 /\ Get(t.pinmux, "wkup_cnt_width", 8) > 1

PwrmgrArgs(t) == [n_wkups |-> AtLeastOne(Len(t.wakeups)), n_rstreqs |-> Len(t.reset_requests), signals |-> <<>>]
RstmgrArgs(t) ==
  [n_sw |-> Len(SelectSeq(t.resets.nodes, LAMBDA r : Get(r, "sw", 0) = 1)), signals |-> Exported("resets_", t.exported_rsts)]
FlashMems(t) == SelectSeq(t.memory, LAMBDA m : m.type = "eflash")
FlashArgs(t) == [banks |-> FlashMems(t)[1].banks, signals |-> <<>>]

Args(type, t) ==
  CASE type = "clkmgr" -> ClkmgrArgs(t) [] type = "flash_ctrl" -> FlashArgs(t) [] type = "rv_plic" -> PlicArgs(t)
    [] type = "alert_handler" -> AlertArgs(t) [] type = "pinmux" -> PinmuxArgs(t) [] type = "pwrmgr" -> PwrmgrArgs(t)
    [] type = "rstmgr" -> RstmgrArgs(t)

\* Some conditions of the generators are logged, and nothing is written; some
\* end the tool.
Skips(type, t) ==
  \/ type = "flash_ctrl" /\ Len(FlashMems(t)) > 1
  \/ type = "pinmux" /\ ~PinmuxGoes(t)
  \/ type = "rv_plic" /\ args \in {"no_plic", "alert_handler_only", "xbar_only"}
  \/ type = "alert_handler" /\ args = "xbar_only"
Raises(type, t) ==
  \/ type = "flash_ctrl" /\ FlashMems(t) = <<>>
  \/ type = "alert_handler" /\ ~\E m \in ToSet(t.module) : m.name = "alert_handler"
  \/ type = "pinmux" /\ PinmuxGoes(t) /\ (PinmuxArgs(t).n_mio_pads = 0 \/ PinmuxArgs(t).n_dio_pads = 0)

\* generate_top_ral: the register interfaces and memories, in the order of their
\* addresses, must not overlap. Err is an exception before that.
RalRegions(t) ==
  LET Ifs(m) == DOMAIN blocks[m.type].reg_blocks
      Region(base, size) == [base |-> base, end |-> base + size]
  IN IF \/ \E m \in ToSet(t.module) : ~Ifs(m) \subseteq DOMAIN m.base_addrs
        \/ \E m \in ToSet(t.module) : Get(m, "attr", "templated") \notin {"templated", "reggen_top", "reggen_only"}
        \/ \E m \in ToSet(t.memory) : "size" \notin DOMAIN m
     THEN Err
     ELSE FlattenSeq(MapSeq(LAMBDA m : MapSeq(LAMBDA i : Region(m.base_addrs[i], blocks[m.type].reg_blocks[i].offset),
                                              Listed(Ifs(m))), t.module))
          \o MapSeq(LAMBDA m : Region(m.base_addr, m.size), t.memory)
RalGood(t) ==
  LET rs == RalRegions(t)
      sorted == SortSeq(rs, LAMBDA r, s : r.base < s.base)
  IN rs # Err /\ \A k \in 2..Len(sorted) : sorted[k - 1].end <= sorted[k].base

-----------------------------------------------------------------------------
Init ==
  /\ scenario \in Scenarios /\ cfg = None /\ outdir = None
  /\ disk = [place \in {"tree", "other"} |-> [t \in Generated |-> None]]
  /\ args = "" /\ phase = "idle" /\ pass = 0 /\ top = None /\ blocks = None /\ xbars = <<>> /\ calls = <<>>
  /\ runs = 0 /\ kills = 0

\* main: the first pass works on a copy of the top description.
Start ==
  /\ phase \in Ended /\ runs < scenario.runs
  /\ cfg' \in scenario.cfgs /\ outdir' \in scenario.outdirs /\ args' \in scenario.options
  /\ phase' = "clocks" /\ pass' = 0 /\ top' = Cfg(cfg').top /\ runs' = runs + 1
  /\ blocks' = None /\ xbars' = <<>> /\ calls' = <<>>
  /\ UNCHANGED <<scenario, disk, kills>>

\* Go on to the next phase with t, or stop where t holds an exception.
Continue(t, next) == top' = t /\ phase' = IF t.raised # None \/ t.error THEN "stopped" ELSE next

Write(type, raw) == disk' = [disk EXCEPT ![outdir][type] = raw]

\* t when the registers can be generated from the file just written
ReadBack(raw, t) == IF IpBlockFromRaw(raw, <<>>).raised # None THEN Fail(t, "ValueError") ELSE t

\* The file is written before it is read back to generate the registers.
Clocks ==
  /\ phase = "clocks"
  /\ \E t \in {AmendClocks(top)} :
       IF t.raised # None \/ Unsourced(t) THEN Continue(Fail(t, "KeyError"), "load") /\ UNCHANGED disk
       ELSE \E raw \in {Render(Cfg(cfg).templates["clkmgr"], ClkmgrArgs(t))} :
              /\ Write("clkmgr", raw)
              /\ Continue(ReadBack(raw, t), "load")
  /\ UNCHANGED <<inputs, pass, blocks, xbars, calls, runs, kills>>

\* Seeded fault: both passes read the files next to the top description.
ReadsFromTree(type) == IF type = "clkmgr" THEN outdir ELSE "tree"

\* Where the description of a generated block is read from
ReadsFrom(type) == IF type = "clkmgr" \/ pass > 0 THEN outdir ELSE "tree"

\* The file of a generated block that is not there yet is replaced by the one in
\* hw/ip, which is also the file of a block that is not templated.
Templated(type) == SelectSeq(Cfg(cfg).top.module, LAMBDA m : m.type = type /\ Get(m, "attr", "normal") = "templated")
Description(type) ==
  IF Templated(type) = <<>> \/ disk[ReadsFrom(type)][type] = None THEN Cfg(cfg).ips[type] ELSE disk[ReadsFrom(type)][type]

Load ==
  /\ phase = "load"
  /\ LET types == {m.type : m \in ToSet(top.module)}
         known == types \cap DOMAIN Cfg(cfg).ips
         bad == {t \in known : blocks'[t].raised # None}
     IN /\ blocks' = [t \in known |-> IF Description(t) = Torn THEN Refused ELSE IpBlockFromRaw(Description(t), <<>>)]
        /\ Continue(IF bad = {} THEN top ELSE Fail(top, blocks'[CHOOSE t \in bad : TRUE].raised), "check")
  /\ UNCHANGED <<inputs, disk, pass, xbars, calls, runs, kills>>

\* The file of a templated block is read once for every instance.
BlockNames == FlattenSeq(MapSeq(LAMBDA t : IF Templated(t) = <<>> THEN <<t>> ELSE MapSeq(LAMBDA m : t, Templated(t)), Listed(DOMAIN blocks)))
Check ==
  /\ phase = "check"
  /\ Continue(ValidateTop(top, BlockNames, blocks, Cfg(cfg).xbars), "merge")
  /\ UNCHANGED <<inputs, disk, pass, blocks, xbars, calls, runs, kills>>

\* merge_top
MergeTop(t0) ==
  LET Then(t, Op(_, _)) == IF t.raised # None THEN t ELSE Op(t, blocks)
      AmendXbars(t) == FoldLeft(LAMBDA u, x : IF u.raised # None THEN u ELSE AmendXbar(u, blocks, x), t, Cfg(cfg).xbars)
      CrossXbars(t) == FoldLeft(XbarCross, t, MapSeq(LAMBDA x : x.name, t.xbar))
  IN Without(AmendResets(CrossXbars(AmendXbars(
       Then(Then(Then(Then(Then(ElaborateInstances(t0, blocks), AmendWkup), AmendResetRequest), AmendInterrupt),
                 AmendAlert), AmendPinmuxIo)))), "debug_mem_base_addr")

Merge ==
  /\ phase = "merge"
  /\ Continue(MergeTop(top), "flash_ctrl")
  /\ UNCHANGED <<inputs, disk, pass, blocks, xbars, calls, runs, kills>>

\* After the file of a type: the next one, another pass, the crossbars, or an exit
AfterWriting(type, t) ==
  IF args = type \o "_only" \/ (args = "plic_only" /\ type = "rv_plic") THEN "exited"
  ELSE IF type # Last(Writing) THEN After(type)
  ELSE IF pass = 0 THEN "clocks"
  ELSE CASE args = "top_ral" -> IF RalGood(t) THEN "exited" ELSE "stopped"
         [] args = "no_xbar" -> "connect"
         [] OTHER -> "xbar"

\* generate_flash, generate_plic, ..., generate_rstmgr
Generate ==
  /\ phase \in ToSet(Writing)
  /\ LET again == phase = Last(Writing) /\ pass = 0
         Proceed(t) == Continue(IF again /\ t.raised = None THEN Cfg(cfg).top ELSE t, AfterWriting(phase, t))
     IN /\ IF Raises(phase, top) THEN Proceed(Fail(top, "AssertionError")) /\ UNCHANGED disk
           ELSE IF Skips(phase, top) THEN Proceed(top) /\ UNCHANGED disk
           ELSE \E raw \in {Render(Cfg(cfg).templates[phase], Args(phase, top))} :
                  Write(phase, raw) /\ Proceed(ReadBack(raw, top))
        /\ pass' = IF again THEN 1 ELSE pass
  /\ UNCHANGED <<inputs, blocks, xbars, calls, runs, kills>>

-----------------------------------------------------------------------------
(* Crossbars and wiring *)

\* generate_xbars: the next crossbar is validated; its hosts are to be processed.
XbarRead ==
  /\ phase = "xbar" /\ Len(xbars) < Len(top.xbar)
  /\ \E x \in {Tlgen!Validate(top.xbar[Len(xbars) + 1])} :
       IF x.raised # None THEN Continue(Fail(top, x.raised), "") /\ UNCHANGED <<xbars, calls>>
       ELSE /\ xbars' = Append(xbars, x) /\ phase' = "elaborate"
            /\ calls' = IF Tlgen!CanElaborate(x) THEN MapSeq(LAMBDA h : [node |-> h.name], Tlgen!Hosts(x)) ELSE <<>>
            /\ UNCHANGED top
  /\ UNCHANGED <<inputs, disk, pass, blocks, runs, kills>>

\* One call of process_node; its recursive calls come first.
XbarProcess ==
  /\ phase = "elaborate" /\ calls # <<>>
  /\ \E done \in {Tlgen!ProcessNode(Last(xbars), Head(calls))} :
       /\ xbars' = [xbars EXCEPT ![Len(xbars)] = done.xbar]
       /\ calls' = done.calls \o Tail(calls)
       /\ Continue(IF done.xbar.raised # None THEN Fail(top, done.xbar.raised) ELSE top, "elaborate")
  /\ UNCHANGED <<inputs, disk, pass, blocks, runs, kills>>

\* The pipeline settings, and the bus signals of the crossbar
XbarFinish ==
  /\ phase = "elaborate" /\ calls = <<>>
  /\ LET x == Tlgen!ProcessPipeline(Last(xbars))
         Bus(n, act) == [name |-> Tl \o EscName(n.name), struct |-> "tl", package |-> "tlul_pkg", type |-> "req_rsp",
                         act |-> act, width |-> 1, default |-> None]
         signals == MapSeq(LAMBDA n : Bus(n, "rsp"), Tlgen!Hosts(x)) \o MapSeq(LAMBDA n : Bus(n, "req"), Tlgen!Devices(x))
         t == [top EXCEPT !.xbar[Len(xbars)] = With(@, "inter_signal_list", signals)]
     IN /\ xbars' = [xbars EXCEPT ![Len(xbars)] = x]
        /\ Continue(IF x.raised # None THEN Fail(t, x.raised) ELSE t, "xbar")
  /\ UNCHANGED <<inputs, disk, pass, blocks, calls, runs, kills>>

Connect ==
  /\ phase = "connect" \/ (phase = "xbar" /\ Len(xbars) = Len(top.xbar))
  /\ Continue(Autoconnect(top, blocks), "wire")
  /\ UNCHANGED <<inputs, disk, pass, blocks, xbars, calls, runs, kills>>

Wire ==
  /\ phase = "wire"
  /\ Continue(ElabIntermodule(top), "done")
  /\ UNCHANGED <<inputs, disk, pass, blocks, xbars, calls, runs, kills>>

\* The tool is killed, perhaps while it writes a file.
Kill ==
  /\ phase \notin Ended /\ kills < scenario.kills
  /\ kills' = kills + 1 /\ phase' = "idle" /\ top' = None /\ blocks' = None /\ xbars' = <<>> /\ calls' = <<>>
  /\ \/ UNCHANGED disk
     \/ phase \in ToSet(Writing) /\ Write(phase, Torn)
     \/ phase = "clocks" /\ Write("clkmgr", Torn)
  /\ UNCHANGED <<inputs, pass, runs>>

Next ==
  \/ Start \/ Clocks \/ Load \/ Check \/ Merge \/ Generate
  \/ XbarRead \/ XbarProcess \/ XbarFinish \/ Connect \/ Wire \/ Kill

Spec == Init /\ [][Next]_vars

-----------------------------------------------------------------------------
\* The entries of a register block lie one after the other inside the addresses
\* the block decodes, windows on multiples of their size, and no two registers
\* have the same name in small letters (IpBlock.add_raw, Window.from_raw).
BlockMapped(b) ==
  /\ \A k \in DOMAIN b.entries : Gap(b, k) >= 0 /\ Gap(b, k) % b.addrsep = 0
  /\ \A e \in ToSet(b.entries) : e.kind = "window" => e.offset % Po2(e.size_in_bytes) = 0
  /\ \A e \in ToSet(b.entries) : NextOffset(e, b.addrsep) <= 2^GetAddrWidth(b)
  /\ \A j, k \in DOMAIN b.flat_regs : Lower(b.flat_regs[j].name) = Lower(b.flat_regs[k].name) => j = k
\* Every instance of a multi-register is in one of its registers, in bits of its
\* own (MultiRegister.__init__).
MultiPacked(m) ==
  LET fields == FlattenSeq(MapSeq(LAMBDA r : MapSeq(LAMBDA f : [at |-> r.offset, bits |-> Bitmask(f.bits), of |-> f.name.sfx], r.fields), m.regs))
      per == IF m.compact THEN 1 ELSE Len(m.reg.fields)
  IN /\ Len(fields) = m.count * per /\ {f.of : f \in ToSet(fields)} = {<<i>> : i \in 0..(m.count - 1)}
     /\ \A j, k \in DOMAIN fields : (m.compact /\ j # k /\ fields[j].at = fields[k].at) => fields[j].bits \cap fields[k].bits = {}
\* A register resets to the reset values of its fields (Register.__init__).
ResetsRight(r) ==
  (\A j, k \in DOMAIN r.fields : j # k => Bitmask(r.fields[j].bits) \cap Bitmask(r.fields[k].bits) = {})
    => \A f \in ToSet(r.fields) : ExtractField(f.bits, r.resval) = IF f.resval = None THEN 0 ELSE f.resval

\* The register blocks just read
RegBlocks == IF phase # "check" THEN {} ELSE UNION {{blocks[t].reg_blocks[i] : i \in DOMAIN blocks[t].reg_blocks} : t \in DOMAIN blocks}

\* Every block the generator accepts has a register map without overlaps that
\* the addresses of its crossbar port cover, and every register it accepts or
\* makes, the packed registers of a multi-register among them, holds the fields
\* it stands for and resets to them (reggen reg_block, register, multi_register).
RegMapSound ==
  \A b \in RegBlocks :
    /\ BlockMapped(b)
    /\ \A r \in ToSet(b.flat_regs) : ResetsRight(r)
    /\ \A e \in ToSet(b.entries) : e.kind = "multireg" => MultiPacked(e)

-----------------------------------------------------------------------------
RECURSIVE Below(_, _)
Below(x, name) ==
  LET n == Tlgen!Node(x, name)
  IN IF n.type = "device" THEN <<name>> ELSE FlattenSeq(MapSeq(LAMBDA e : Below(x, x.edges[e].ds), n.ds))

\* The clock of a node at its upper and lower end
ClockIn(n) == n.clocks[1]
ClockOut(n) == IF n.type = "async_fifo" THEN n.clocks[2] ELSE n.clocks[1]
\* process_node never gets to a device that is the only one of all its hosts.
Processed(connections, n) == n.type = "device" => \E c \in ToSet(connections) : Len(c.devices) > 1 /\ n.name \in ToSet(c.devices)

\* After every process_node call each host of a crossbar reaches the devices it
\* is configured for and no other, each on one path. Once all calls are done
\* only sockets have several edges on a side, and every edge joins ends of one
\* clock (tlgen/elaborate.py).
HostsReachDevices ==
  phase = "elaborate" =>
    LET x == Last(xbars)
        connections == top.xbar[Len(xbars)].connections
    IN /\ \A c \in ToSet(connections) :
            LET found == Below(x, c.host) IN ToSet(found) = ToSet(c.devices) /\ Len(found) = Cardinality(ToSet(c.devices))
       /\ calls = <<>> =>
            \A n \in {m \in ToSet(x.nodes) : Processed(connections, m)} :
              /\ n.type # "socket_1n" => Len(n.ds) <= 1
              /\ n.type # "socket_m1" => Len(n.us) <= 1
              /\ \A e \in ToSet(n.us) : ClockOut(Tlgen!Node(x, x.edges[e].us)) = ClockIn(n)

\* The instance a request to addr arrives at, through any number of crossbars
RECURSIVE Arrives(_, _, _)
Arrives(k, host, addr) ==
  LET to == Tlgen!Routed(xbars[k], host, addr)
      next == {j \in DOMAIN xbars : xbars[j].name = to}
  IN IF next = {} THEN to ELSE Arrives(CHOOSE j \in next : TRUE, xbars[k].name, addr)

RECURSIVE Reachable(_, _)
Reachable(k, host) ==
  UNION {LET next == {j \in DOMAIN xbars : xbars[j].name = d}
         IN IF next = {} THEN {Tlgen!Node(xbars[k], d)} ELSE Reachable(CHOOSE j \in next : TRUE, xbars[k].name)
         : d \in ToSet(Below(xbars[k], host))}

\* In the finished chip a request of a host to an address of an instance that
\* the crossbars connect to it arrives there, and a request to any other address
\* arrives nowhere; a host with one device is wired to it
\* (topgen xbar_cross, tlgen simplify_addr, the steering of xbar.rtl.sv.tpl).
RouteFaithful ==
  phase = "done" =>
    \A k \in DOMAIN xbars : \A h \in ToSet(Tlgen!Hosts(xbars[k])) :
      LET devices == Reachable(k, h.name)
          Owner(addr) == {d.name : d \in {e \in devices : \E r \in ToSet(e.addr_range) : r.base <= addr /\ addr < r.base + r.size}}
      IN (h.name \notin XbarNames(top) /\ Cardinality(devices) > 1) =>
           \A a \in 0..(Top - 1) : Owner(a) = IF Arrives(k, h.name, a) = None THEN {} ELSE {Arrives(k, h.name, a)}

-----------------------------------------------------------------------------
\* After the merge every muxed input, muxed output and dedicated pin has an index
\* of its own, the indices leave no gap, and a special signal of a target has the
\* index of its pad (merge.amend_pinmux_io).
PadsAssigned ==
  (top # None /\ "pinmux" \in DOMAIN top /\ "io_counts" \in DOMAIN top.pinmux) =>
    LET ios == top.pinmux.ios
        counts == top.pinmux.io_counts
        Dense(types, side, n) ==
          LET mine == {k \in DOMAIN ios : ios[k].type \in types /\ Side(ios[k]) = side}
          IN Cardinality(mine) = n /\ {ios[k].glob_idx : k \in mine} = 0..(n - 1)
        muxed == SelectSeq(top.pinout.pads, LAMBDA p : p.connection = "muxed")
        PadOf(idx) == IF idx < Len(muxed) THEN muxed[idx + 1].name
                      ELSE (CHOOSE io \in ToSet(ios) : Side(io) = "dedicated" /\ io.glob_idx = idx - Len(muxed)).pad
    IN /\ Dense({"inout", "input"}, "muxed", counts.muxed.inouts + counts.muxed.inputs)
       /\ Dense({"inout", "output"}, "muxed", counts.muxed.inouts + counts.muxed.outputs)
       /\ Dense({"inout", "input", "output"}, "dedicated", counts.dedicated.inouts + counts.dedicated.inputs + counts.dedicated.outputs)
       /\ \A t \in ToSet(top.targets) : \A e \in ToSet(t.special_signals) : PadOf(e.idx) = e.pad

Drivers(def, b) ==
  {k \in DOMAIN top.signals :
     LET s == top.signals[k]
     IN /\ "top_signame" \in DOMAIN s /\ s.top_signame = def.signame
        /\ s.index \in {-1, b} /\ PortIsOutput(s, def.suffix)}
\* The connections that one net per suffix can make. check_intermodule asks less: it also
\* accepts ends that act alike, a responder in two connections, twice in one or in one and the
\* list of top-level nets, a wide responder of a requester of one bit, several signals that all drive
\* all of a net, or are tied to one bit of it each though all are as wide as it is, and
\* bits of a receiver that nothing drives.
CanJoin(k) ==
  LET c == top.connect[k]
      req == top.signals[Find(top, c.req)]
      rsps == MapSeq(LAMBDA r : top.signals[Find(top, r)], c.rsps)
      widths == MapSeq(LAMBDA s : s.width, rsps)
  IN /\ \A s \in ToSet(rsps) : (s.act = "req") # (req.act = "req")
     /\ IsInjective(c.rsps) /\ ToSet(top.top_nets) \cap ToSet(c.rsps) = {}
     /\ \A j \in DOMAIN top.connect \ {k} : ToSet(top.connect[j].rsps) \cap ToSet(c.rsps) = {}
     /\ req.width = 1 => ToSet(widths) \subseteq {1}
     /\ (Len(rsps) > 1 /\ ToSet(widths) = {req.width}) => (req.type = "uni" /\ req.act = "req")
     /\ req.act = "rcv" => SumOver(widths) = req.width

\* In the finished chip every bit of the net of a connection has one driver, but for the bits
\* a partial connection leaves over, which are tied off, and every responder is as wide as
\* what it is tied to, the net of its requester or one bit of it; so it is for every
\* connection that one net can make, CanJoin (intermodule.elab_intermodule).
NetsJoined ==
  phase = "done" =>
    \A k \in {j \in DOMAIN top.connect : CanJoin(j)} :
      LET c == top.connect[k]
          net == Net(top.signals[Find(top, c.req)])
      IN /\ \A d \in {e \in ToSet(top.definitions) : e.signame = net} : \A b \in 0..(d.width - 1) :
              IF d \in ToSet(Dangling(top).undriven) /\ b >= d.end_idx THEN Drivers(d, b) = {} ELSE Cardinality(Drivers(d, b)) = 1
         /\ \A r \in ToSet(c.rsps) :
              LET s == top.signals[Find(top, r)]
              IN s.top_signame = net /\ s.width = IF s.index = -1 THEN top.signals[Find(top, c.req)].width ELSE 1

\* The completed description and the generated blocks agree: the blocks it was
\* merged from are those in the output directory, and these are what the
\* templates give for it, whatever runs came before (topgen.main).
PassesConverge ==
  phase = "done" =>
    \A t \in Generated \cap DOMAIN blocks : Templated(t) # <<>> =>
      /\ Description(t) # Torn /\ blocks[t] = IpBlockFromRaw(Description(t), <<>>)
      /\ ~Skips(t, top) => Description(t) = Render(Cfg(cfg).templates[t], Args(t, top))
=============================================================================
