------------------------------ MODULE TopMerge ------------------------------
(****************************************************************************)
(* Merging the blocks and crossbars of a chip into its top description       *)
(* (util/topgen/merge.py, with lookups of lib.py). top is the description, a *)
(* record whose field raised holds the exception that stopped the tool. What *)
(* the code only logs as an error leaves top as it was. blocks maps a type   *)
(* to its IpBlock. An inter-module key is a record [m, s, i], i = -1 when    *)
(* the signal has no index.                                                  *)
(****************************************************************************)
EXTENDS IpBlock

CONSTANTS Spacing,      \* min_device_spacing of lib.py
          Dotted        \* the names of the form MOD.INAME: [base, ifname]

With(rec, key, v) == (key :> v) @@ rec
Without(rec, key) == [k \in DOMAIN rec \ {key} |-> rec[k]]
Fail(top, e) == IF top.raised = None THEN [top EXCEPT !.raised = e] ELSE top
Listed(S) == FoldSet(LAMBDA e, s : Append(s, e), <<>>, S)

Key(m, s) == [m |-> m, s |-> s, i |-> -1]
\* connect[req] = rsps
SetConnect(connect, req, rsps) ==
  IF \E k \in DOMAIN connect : connect[k].req = req
  THEN [k \in DOMAIN connect |-> IF connect[k].req = req THEN [connect[k] EXCEPT !.rsps = rsps] ELSE connect[k]]
  ELSE Append(connect, [req |-> req, rsps |-> rsps])

\* _find_module_name: the first instance of a type
FindModuleName(modules, type) ==
  LET found == {k \in DOMAIN modules : modules[k].type = type}
  IN IF found = {} THEN None ELSE modules[CHOOSE k \in found : \A j \in found : k <= j].name
ModulesCalled(top, name) == SelectSeq(top.module, LAMBDA m : m.name = name)

-----------------------------------------------------------------------------
(* Instances *)
CeilLog2(n) == CHOOSE w \in 0..16 : 2^w >= n /\ (w = 0 \/ 2^(w - 1) < n)

\* Local parameters are dropped; a random one gets a value of randwidth bits.
ElaborateParams(inst, block) ==
  LET Elaborated(p) ==
        [name |-> p.name, name_top |-> [prefix |-> Spelling[p.name].prefix, inst |-> inst.name, param |-> p.name],
         randwidth |-> CASE p.kind # "rand" -> 0
                         [] p.kind = "rand" /\ p.randtype = "data" -> p.randcount
                         [] OTHER -> p.randcount * CeilLog2(p.randcount)]
  IN {Elaborated(block.params[n]) : n \in {m \in DOMAIN block.params : block.params[m].kind # "local"}}

\* The base addresses by interface. Without usable ones a bogus address is filled in.
BaseAddrs(inst, block) ==
  IF "base_addrs" \in DOMAIN inst THEN inst.base_addrs
  ELSE IF "base_addr" \notin DOMAIN inst \/ Cardinality(DOMAIN block.reg_blocks) # 1 THEN (None :> 0)
  ELSE [n \in DOMAIN block.reg_blocks |-> inst.base_addr]

ElaborateInstance(inst, block) ==
  LET params == With(inst, "param_list", ElaborateParams(inst, block))
      signals == With(params, "inter_signal_list", block.inter_signals)
  IN Without(With(signals, "base_addrs", BaseAddrs(inst, block)), "base_addr")

ElaborateInstances(top, blocks) ==
  IF \E m \in ToSet(top.module) : m.type \notin DOMAIN blocks THEN Fail(top, "KeyError")
  ELSE [top EXCEPT !.module = MapSeq(LAMBDA m : ElaborateInstance(m, blocks[m.type]), @)]

-----------------------------------------------------------------------------
(* Signals gathered over the chip *)
Gathered(top, blocks, field) ==
  FlattenSeq(MapSeq(LAMBDA m : MapSeq(LAMBDA s : [name |-> s.name.word, width |-> Width(s.bits), module |-> m.name],
                                      blocks[m.type][field]), top.module))
AmendPwrmgr(top, blocks, field, port) ==
  LET all == top[field] \o Gathered(top, blocks, field)
      req == Key(FindModuleName(top.module, "pwrmgr"), port)
  IN [top EXCEPT ![field] = all, !.connect = SetConnect(@, req, MapSeq(LAMBDA s : Key(s.module, s.name), all))]
AmendWkup(top, blocks) == AmendPwrmgr(top, blocks, "wakeups", "wakeups")
AmendResetRequest(top, blocks) == AmendPwrmgr(top, blocks, "reset_requests", "rstreqs")

\* ensure_interrupt_modules, ensure_alert_modules
EnsureModules(top, blocks, list, field) ==
  IF list \in DOMAIN top THEN top
  ELSE With(top, list, MapSeq(LAMBDA m : m.name, SelectSeq(top.module, LAMBDA m : blocks[m.type][field] # <<>>)))

\* The signals of the listed modules, with what extra says of the module; a module
\* that is not found is passed over.
Qualified(top, blocks, list, field, extra) ==
  FlattenSeq(MapSeq(LAMBDA name :
    IF ModulesCalled(top, name) = <<>> THEN <<>>
    ELSE LET m == Head(ModulesCalled(top, name))
         IN MapSeq(LAMBDA s : [name |-> s.name, module |-> name, width |-> Width(s.bits), extra |-> extra[m]],
                   blocks[m.type][field]), top[list]))

AmendInterrupt(top0, blocks) ==
  LET top == EnsureModules(top0, blocks, "interrupt_module", "interrupts")
  IN [top EXCEPT !.interrupt = @ \o Qualified(top, blocks, "interrupt_module", "interrupts", [m \in ToSet(top.module) |-> None])]

\* An alert is asynchronous when its module has another clock than the alert handler.
Async(top, m) ==
  IF m.clock_srcs["clk_i"] # Head(SelectSeq(top.module, LAMBDA h : h.type = "alert_handler")).clock_srcs["clk_i"] THEN "1" ELSE "0"
AmendAlert(top0, blocks) ==
  LET top == EnsureModules(top0, blocks, "alert_module", "alerts")
  IN IF FindModuleName(top.module, "alert_handler") = None THEN Fail(top, "AssertionError")
     ELSE [top EXCEPT !.alert = @ \o Qualified(top, blocks, "alert_module", "alerts", [m \in ToSet(top.module) |-> Async(top, m)])]

-----------------------------------------------------------------------------
(* Pins *)
SignalsOf(block) ==
  LET Of(dir) == MapSeq(LAMBDA s : [name |-> s.name.word, width |-> Width(s.bits), type |-> dir], block.xputs[dir])
  IN Of("inout") \o Of("input") \o Of("output")

\* The IO signals one entry of the pinmux configuration stands for; Err on exit.
\* An entry without a port stands for all of the block, bus signals bit by bit.
IosOf(top, blocks, sig) ==
  LET found == ModulesCalled(top, sig.instance)
      sigs == SignalsOf(blocks[Head(found).type])
      Io(s, idx) == [name |-> s.name, inst |-> sig.instance, type |-> s.type, idx |-> idx, pad |-> sig.pad,
                     attr |-> sig.attr, connection |-> sig.connection]
      named == SelectSeq(sigs, LAMBDA s : s.name = sig.port)
  IN IF found = <<>> THEN Err
     ELSE IF sig.port = "" THEN FlattenSeq(MapSeq(LAMBDA s : IF s.width > 1 THEN [k \in 1..s.width |-> Io(s, k - 1)]
                                                            ELSE <<Io(s, -1)>>, sigs))
     ELSE IF named = <<>> THEN Err
     ELSE LET s == Head(named)
          IN IF (sig.idx >= 0 /\ sig.idx >= s.width) \/ (sig.idx = -1 /\ s.width # 1) THEN Err ELSE <<Io(s, sig.idx)>>

\* Seeded fault: dedicated outputs are numbered as muxed ones are.
GetIndexOneLayout(ctrs, io) ==
  CASE io.type = "inout" -> ctrs.inouts [] io.type = "input" -> ctrs.inputs + ctrs.inouts [] OTHER -> ctrs.outputs + ctrs.inouts

\* The index of an IO. Muxed inputs and outputs have arrays of their own, which
\* both start with the inouts; dedicated IOs share one.
GetIndex(ctrs, io) ==
  CASE io.type = "inout" -> ctrs.inouts
    [] io.type = "input" -> ctrs.inputs + ctrs.inouts
    [] OTHER -> ctrs.outputs + ctrs.inouts + (IF io.connection = "muxed" THEN 0 ELSE ctrs.inputs)
Side(io) == IF io.connection = "muxed" THEN "muxed" ELSE "dedicated"
AddIndex(acc, io) ==
  [ios |-> Append(acc.ios, With(io, "glob_idx", GetIndex(acc.ctrs[Side(io)], io))),
   ctrs |-> [acc.ctrs EXCEPT ![Side(io)][io.type \o "s"] = @ + 1]]

PadIndex(pads, k) == Cardinality({j \in 1..(k - 1) : (pads[j].connection = "muxed") = (pads[k].connection = "muxed")})

\* The index of a special signal in the stacked array of muxed and dedicated pads
SpecialIndex(pads, ios, n_muxed, entry) ==
  LET muxed == {p \in ToSet(pads) : p.connection = "muxed" /\ p.name = entry.pad}
      dios == {io \in ToSet(ios) : io.connection \notin {"muxed", "manual"} /\ io.pad = entry.pad}
  IN IF muxed # {} THEN (CHOOSE p \in muxed : TRUE).idx
     ELSE IF dios # {} THEN (CHOOSE io \in dios : TRUE).glob_idx + n_muxed ELSE Err

\* The IOs in the order inout, input, output, each with its index, and the counters
NumberIos(all) ==
  LET OfType(type) == SelectSeq(all, LAMBDA io : io.type = type)
      zero == [inouts |-> 0, inputs |-> 0, outputs |-> 0]
  IN FoldLeft(AddIndex, [ios |-> <<>>, ctrs |-> [muxed |-> zero, dedicated |-> zero]],
              OfType("inout") \o OfType("input") \o OfType("output"))

\* The special signals of every target with their indices
IndexSpecial(targets, pads, ios, n_muxed) ==
  [t \in DOMAIN targets |->
    [targets[t] EXCEPT !.special_signals = [k \in DOMAIN @ |-> With(@[k], "idx", SpecialIndex(pads, ios, n_muxed, @[k]))]]]

\* ios, ctrs: what NumberIos returns; pads: the pads with their indices
AmendPins(top, ios, ctrs, pads) ==
  LET Count(side) == Cardinality({k \in DOMAIN pads : (pads[k].connection = "muxed") = (side = "muxed")})
      direct == SelectSeq(ios, LAMBDA io : io.connection \notin {"muxed", "manual"})
      Amend(targets) ==
        IF \E t \in DOMAIN targets : \E e \in ToSet(targets[t].special_signals) : e.idx = Err THEN Fail(top, "AssertionError")
        ELSE [top EXCEPT !.pinmux = With(With(@, "ios", ios), "io_counts",
                                         [side \in DOMAIN ctrs |-> With(ctrs[side], "pads", Count(side))]),
                         !.pinout.pads = pads, !.targets = targets]
  IN IF \E j, k \in DOMAIN direct : j # k /\ direct[j].pad = direct[k].pad THEN Fail(top, "SystemExit")
     ELSE Amend(IndexSpecial(top.targets, pads, ios, Count("muxed")))

AmendPinmuxIo(top, blocks) ==
  LET pads == [k \in DOMAIN top.pinout.pads |-> With(top.pinout.pads[k], "idx", PadIndex(top.pinout.pads, k))]
      Numbered(done) == AmendPins(top, done.ios, done.ctrs, pads)
      Amend(lists) == IF Err \in ToSet(lists) THEN Fail(top, "SystemExit") ELSE Numbered(NumberIos(FlattenSeq(lists)))
  IN Amend(MapSeq(LAMBDA s : IosOf(top, blocks, s), top.pinmux.signals))

-----------------------------------------------------------------------------
(****************************************************************************)
(* The second half of util/topgen/merge.py: crossbars, clocks and resets of  *)
(* the chip. A crossbar's connections are a sequence of [host, devices].     *)
(* A generated clock name is a pair [clk, of]: a source and the group or     *)
(* endpoint it is made for.                                                  *)
(****************************************************************************)
predefined_modules == [corei |-> "rv_core_ibex", cored |-> "rv_core_ibex", dm_sba |-> "rv_dm", debug_mem |-> "rv_dm"]
Default(rec, key, v) == IF key \in DOMAIN rec THEN rec ELSE With(rec, key, v)
NodeNames(xbar) == {n.name : n \in ToSet(xbar.nodes)}
UpdateNode(xbar, name, Op(_)) ==
  [xbar EXCEPT !.nodes = MapSeq(LAMBDA n : IF n.name = name THEN Op(n) ELSE n, @)]
XbarNames(top) == {x.name : x \in ToSet(top.xbar)}
UpdateXbar(top, xbar) == [top EXCEPT !.xbar = MapSeq(LAMBDA x : IF x.name = xbar.name THEN xbar ELSE x, @)]

\* A host the node list lacks gets a default node, which has no xbar field.
XbarAddHost(top, xbar, host) ==
  LET new == [name |-> host, clock |-> xbar.clock, reset |-> xbar.reset, type |-> "host", inst_type |-> "",
              stub |-> FALSE, pipeline |-> "true", pipeline_byp |-> "true"]
      Amend(n) ==
        LET timed == Default(Default(n, "clock", xbar.clock), "reset", xbar.reset)
            piped == Default(timed, "pipeline", "true")
            byp == IF piped.pipeline = "true" THEN Default(piped, "pipeline_byp", "true")
                   ELSE With(piped, "pipeline_byp", "true")
        IN With(With(With(byp, "xbar", host \in XbarNames(top)), "stub", FALSE), "inst_type",
                IF host \in DOMAIN predefined_modules THEN predefined_modules[host] ELSE "")
  IN IF host \in NodeNames(xbar) THEN UpdateNode(xbar, host, Amend) ELSE [xbar EXCEPT !.nodes = Append(@, new)]

ProcessPipelineVar(n) == Default(Default(n, "pipeline", "true"), "pipeline_byp", "true")

IsInst(m) ==
  ("attr" \notin DOMAIN m \/ m.attr \in {"normal", "templated", "reggen_top"}) \/ m.type \in {"rom", "ram_1p_scr", "eflash"}

DeviceBase(name) == IF name \in DOMAIN Dotted THEN Dotted[name].base ELSE name
DeviceIfname(name) == IF name \in DOMAIN Dotted THEN Dotted[name].ifname ELSE None

\* Err stands for the KeyError or AssertionError raised.
GetBaseAndSize(blocks, inst, ifname) ==
  LET block == blocks[inst.type]
      bytes_used == IF ifname \in DOMAIN block.reg_blocks THEN 2 ^ GetAddrWidth(block.reg_blocks[ifname]) ELSE 0
      Sized(base, used) == [base |-> base, size |-> IF used > Spacing THEN used ELSE Spacing]
  IN IF inst.type \notin DOMAIN blocks THEN IF ifname # None \/ "size" \notin DOMAIN inst THEN Err ELSE Sized(inst.base_addr, inst.size)
     ELSE IF ifname \notin DOMAIN inst.base_addrs THEN Err
     ELSE Sized(inst.base_addrs[ifname], bytes_used)

\* Err when an assertion fails or a key is missing. A device that is neither an
\* instance, another crossbar nor debug_mem, or has no node, is only logged.
XbarAddDevice(top, blocks, xbar, device) ==
  LET base == DeviceBase(device)
      instances == SelectSeq(top.module \o top.memory, LAMBDA i : i.name = base)
      other_xbars == XbarNames(top) \ {xbar.name}
      has_node == device \in NodeNames(xbar)
      inst == Head(instances)
      region == GetBaseAndSize(blocks, inst, DeviceIfname(device))
      Amended(fields) == UpdateNode(xbar, device, LAMBDA n : ProcessPipelineVar(fields @@ n))
      debug_mem == [inst_type |-> "rv_dm", addr_range |-> <<[base |-> top.debug_mem_base_addr, size |-> Spacing]>>,
                    xbar |-> FALSE, stub |-> FALSE]
      new == [name |-> "debug_mem", type |-> "device", clock |-> xbar.clock, reset |-> xbar.reset]
  IN CASE Len(instances) > 1 -> Err
       [] ~has_node /\ device \in other_xbars -> xbar
       [] instances = <<>> /\ device \in other_xbars -> Amended([xbar |-> TRUE, stub |-> FALSE])
       [] instances = <<>> /\ device = "debug_mem" /\ ~has_node ->
            [xbar EXCEPT !.nodes = Append(@, ProcessPipelineVar(debug_mem @@ new))]
       [] instances = <<>> /\ device = "debug_mem" /\ has_node -> Amended(debug_mem)
       [] instances = <<>> /\ device \notin other_xbars \cup {"debug_mem"} -> xbar
       [] OTHER -> IF base \in other_xbars \/ region = Err THEN Err
                   ELSE IF ~has_node THEN xbar
                   ELSE Amended([inst_type |-> inst.type, addr_range |-> <<region>>, xbar |-> FALSE, stub |-> ~IsInst(inst)])

AmendXbar(top, blocks, obj) ==
  LET topxbar == CHOOSE x \in ToSet(top.xbar) : x.name = obj.name
      copied == With(With(topxbar, "connections", obj.connections), "nodes", IF "nodes" \in DOMAIN obj THEN obj.nodes ELSE <<>>)
      timed == With(With(copied, "clock", obj.clock_primary), "reset", obj.reset_primary)
      hosted == FoldLeft(LAMBDA x, c : XbarAddHost(top, x, c.host), timed, obj.connections)
      devices == UNION {ToSet(c.devices) : c \in ToSet(obj.connections)}
      done == FoldLeft(LAMBDA x, d : IF x = Err THEN Err ELSE XbarAddDevice(top, blocks, x, d), hosted, Listed(devices))
  IN IF obj.name \notin XbarNames(top) THEN top
     ELSE IF done = Err THEN Fail(top, "AssertionError")
     ELSE UpdateXbar(top, done)

-----------------------------------------------------------------------------
(* The address ranges seen through a port to another crossbar *)

IsXbarPort(n) == "xbar" \in DOMAIN n /\ n.xbar

\* xbar_cross_node of the crossbar called name, entered from the crossbar called
\* from. A pair that is met again on the way down is a recursion without end.
\* acc: top, the ranges found, and the exception.
RECURSIVE XbarCrossNode(_, _, _, _)
XbarCrossNode(top, name, from, visited) ==
  LET host_xbar == CHOOSE x \in ToSet(top.xbar) : x.name = name
      entered == SelectSeq(host_xbar.connections, LAMBDA c : c.host = from)
      Visit(acc, k) ==
        LET xbar == CHOOSE x \in ToSet(acc.top.xbar) : x.name = name
            node == xbar.nodes[k]
            deeper == XbarCrossNode(acc.top, node.name, name, visited \cup {<<name, from>>})
        IN IF acc.raised # None \/ node.name \notin ToSet(entered[1].devices) THEN acc
           ELSE IF "addr_range" \in DOMAIN node THEN [acc EXCEPT !.addr = @ \o node.addr_range]
           ELSE IF ~IsXbarPort(node) THEN [acc EXCEPT !.raised = "KeyError"]
           ELSE IF deeper.raised # None THEN [acc EXCEPT !.raised = deeper.raised]
           ELSE LET cached == UpdateNode(CHOOSE x \in ToSet(deeper.top.xbar) : x.name = name, node.name,
                                         LAMBDA n : With(n, "addr_range", deeper.addr))
                IN [acc EXCEPT !.addr = @ \o deeper.addr, !.top = UpdateXbar(deeper.top, cached)]
      start == [top |-> top, addr |-> <<>>, raised |-> None]
  IN IF name \notin XbarNames(top) THEN [start EXCEPT !.raised = "AssertionError"]
     ELSE IF <<name, from>> \in visited THEN [start EXCEPT !.raised = "RecursionError"]
     ELSE IF entered = <<>> THEN [start EXCEPT !.raised = "KeyError"]
     ELSE FoldLeft(Visit, start, [k \in DOMAIN host_xbar.nodes |-> k])

\* Seeded fault: a port keeps the ranges of the first device behind it only.
RangesFirst(addr) == <<Head(addr)>>
Ranges(addr) == addr

\* xbar_cross: every port to another crossbar gets the ranges behind it.
CrossPort(top, name, node) ==
  LET Crossed(found) ==
        IF found.raised # None THEN Fail(top, found.raised)
        ELSE UpdateXbar(found.top, UpdateNode(CHOOSE x \in ToSet(found.top.xbar) : x.name = name, node.name,
                                              LAMBDA n : With(n, "addr_range", Ranges(found.addr))))
  IN IF top.raised # None THEN top ELSE Crossed(XbarCrossNode(top, node.name, name, {}))
XbarCross(top, name) ==
  LET xbar == CHOOSE x \in ToSet(top.xbar) : x.name = name
  IN IF top.raised # None THEN top
     ELSE IF \E n \in ToSet(xbar.nodes) : n.type = "device" /\ "xbar" \in DOMAIN n /\ ~n.xbar /\ "addr_range" \notin DOMAIN n
     THEN Fail(top, "KeyError")
     ELSE FoldLeft(LAMBDA t, node : CrossPort(t, name, node), top,
                   SelectSeq(xbar.nodes, LAMBDA n : n.type = "device" /\ IsXbarPort(n)))

-----------------------------------------------------------------------------
(* Clocks and resets *)

EndPoints == {"module", "memory", "xbar"}
MapEndPoints(top, Op(_)) == [k \in DOMAIN top |-> IF k \in EndPoints THEN MapSeq(Op, top[k]) ELSE top[k]]
AllEndPoints(top) == top.module \o top.memory \o top.xbar
ExportsOf(ep) == IF "clock_reset_export" \in DOMAIN ep THEN ToSet(ep.clock_reset_export) ELSE {}
GroupOf(top, ep) == CHOOSE g \in ToSet(top.clocks.groups) : g.name = ep.clock_group

ClockName(group, ep, clk) ==
  [clk |-> IF group.src = "ext" /\ clk = "main" THEN "" ELSE clk,
   of |-> IF group.src = "ext" THEN "i" ELSE IF group.unique = "yes" THEN ep.name ELSE ep.clock_group]

\* Endpoints get their clocks, groups the clocks they must supply, and the idle
\* input of clkmgr a connection from every endpoint of the group trans.
AmendClocks(top0) ==
  LET grouped == MapEndPoints([top0 EXCEPT !.clocks.groups = MapSeq(LAMBDA g : Default(Default(g, "unique", "no"), "clocks", <<>>), @)],
                              LAMBDA ep : Default(ep, "clock_group", "secure"))
      eps == AllEndPoints(grouped)
      clkmgr == FindModuleName(top0.module, "clkmgr")
      Supplied(g) ==
        LET of == UNION {{[key |-> ClockName(g, ep, ep.clock_srcs[p]), clk |-> ep.clock_srcs[p]] : p \in DOMAIN ep.clock_srcs}
                           : ep \in {e \in ToSet(eps) : e.clock_group = g.name}}
        IN [n \in DOMAIN g.clocks \cup {c.key : c \in of} |->
             IF \E c \in of : c.key = n THEN (CHOOSE c \in of : c.key = n).clk ELSE g.clocks[n]]
      Connected(ep) ==
        LET g == GroupOf(grouped, ep)
        IN With(ep, "clock_connections", [p \in DOMAIN ep.clock_srcs |-> [hier |-> g.src, name |-> ClockName(g, ep, ep.clock_srcs[p])]])
      exported == UNION {ExportsOf(ep) : ep \in {e \in ToSet(eps) : DOMAIN e.clock_srcs # {}}}
      idle == MapSeq(LAMBDA ep : Key(ep.name, "idle"), SelectSeq(eps, LAMBDA ep : ep.clock_group = "trans"))
      held == SelectSeq(top0.connect, LAMBDA c : c.req = Key(clkmgr, "idle"))
      wired == [MapEndPoints(grouped, Connected) EXCEPT
                  !.clocks.groups = MapSeq(LAMBDA g : [g EXCEPT !.clocks = Supplied(g)], @),
                  !.connect = IF idle = <<>> THEN @ ELSE SetConnect(@, Key(clkmgr, "idle"), held[1].rsps \o idle),
                  !.external = [k \in {Key(clkmgr, "clocks_" \o i) : i \in exported} |-> "clks"] @@ @]
  IN IF \E ep \in ToSet(eps) : ~\E g \in ToSet(grouped.clocks.groups) : g.name = ep.clock_group THEN Fail(top0, "ValueError")
     ELSE IF idle # <<>> /\ held = <<>> THEN Fail(top0, "KeyError")
     ELSE With(wired, "exported_clks", exported)

\* The path of a reset net; Err when there is not exactly one such net, when it
\* is internal, or has a type without a path. A path is [net, sel].
GetResetPath(reset, domain, resets) ==
  LET match == SelectSeq(resets.nodes, LAMBDA n : n.name = reset)
  IN IF Len(match) # 1 \/ match[1].type \notin DOMAIN resets.hier_paths THEN Err
     ELSE [net |-> reset, sel |-> IF match[1].type = "ext" THEN "" ELSE domain]

AmendResets(top0) ==
  LET exported == UNION {ExportsOf(m) : m \in ToSet(top0.module)}
      rstmgr == FindModuleName(top0.module, "rstmgr")
      Path(ep, p) == GetResetPath(ep.reset_connections[p], ep.domain, top0.resets)
      Routed(ep) == [ep EXCEPT !.reset_connections = [p \in DOMAIN @ |-> Path(ep, p)]]
      done == [MapEndPoints(top0, Routed) EXCEPT
                 !.external = [k \in {Key(rstmgr, "resets_" \o i) : i \in exported} |-> "rsts"] @@ @]
  IN IF top0.raised # None THEN top0
     ELSE IF \E ep \in ToSet(AllEndPoints(top0)) : \E p \in DOMAIN ep.reset_connections : Path(ep, p) = Err
     THEN Fail(top0, "AssertionError")
     ELSE With(done, "exported_rsts", exported)
=============================================================================
