------------------------------ MODULE MCTopgen ------------------------------
(****************************************************************************)
(* A small chip for the chip generator. Registers have 8 bits, a region is   *)
(* at least four bytes, the address space ends at 256. The families vary one *)
(* side of the chip each: its registers, crossbars, pins, and what changed   *)
(* since the last run.                                                       *)
(****************************************************************************)
EXTENDS TopGen

\* Words: those in capitals, those with a meaning, and the others
LoweredWords == [INTR_STATE |-> "intr_state", INTR_ENABLE |-> "intr_enable", INTR_TEST |-> "intr_test",
                 ALERT_TEST |-> "alert_test", CTRL |-> "ctrl", CFG_REGWEN |-> "cfg_regwen"]
PlainWords ==
  {"uart", "clkmgr", "flash_ctrl", "rv_plic", "alert_handler", "pinmux", "pwrmgr", "rstmgr", "spi", "ctrl", "data", "buf", "status",
   "NumOut", "NumIn", "NumPads", "NumAlerts", "NumSrc", "tx", "rx", "io", "irq", "pin_wkup", "wkup", "rst_req", "idle", "wakeups",
   "rstreqs", "clocks_ast", "resets_ast", "RndSeed", "link", "crash", "cfg"}
Words == DOMAIN LoweredWords \cup PlainWords \cup {"fatal_err", "recov_err", "9lives", "key_shadowed", "intr_state"}
MCSpelling ==
  [w \in Words |-> [lower |-> IF w \in DOMAIN LoweredWords THEN LoweredWords[w] ELSE w, legal |-> w # "9lives",
                    regwen |-> w = "CFG_REGWEN", shadowed |-> w = "key_shadowed", rndcnst |-> w = "RndSeed",
                    prefix |-> CASE w = "fatal_err" -> "fatal" [] w = "recov_err" -> "recov" [] OTHER -> ""]]
MCDotted == ("spi.a" :> [base |-> "spi", ifname |-> "a", esc |-> "spi__a"])

-----------------------------------------------------------------------------
(* Blocks *)
Num(n) == <<[neg |-> FALSE, n |-> n]>>
Par(p) == <<[neg |-> FALSE, p |-> p]>>
Bit(k) == [bits |-> [idx |-> k]]
Range2(msb, lsb) == [bits |-> [msb |-> Num(msb), lsb |-> Num(lsb)]]
Named(f, name) == f @@ [name |-> name, desc |-> ""]
Reg(name, fields) == [name |-> name, desc |-> "", swaccess |-> "rw", fields |-> fields]
Multi(name, count, fields) == [multireg |-> Reg(name, fields) @@ [cname |-> name, count |-> count]]
Window(name, items) == [window |-> [name |-> name, desc |-> "", items |-> Num(items), swaccess |-> "rw"]]
Sig(name) == [name |-> name, desc |-> ""]
Uni(name, act) == [name |-> name, struct |-> "logic", type |-> "uni", act |-> act]
Device == [protocol |-> "tlul", direction |-> "device"]

Ip(name, regs, extra) ==
  extra @@ [name |-> name, clock_primary |-> "clk_i", regwidth |-> 8, bus_interfaces |-> <<Device>>, registers |-> [list |-> regs]]
Arg(name, arg) == [name |-> name, type |-> "int", local |-> TRUE, default |-> 1, arg |-> arg]

Uart == Ip("uart", <<Reg("CTRL", <<Named(Bit(0), "tx") @@ [resval |-> 1], Named(Range2(4, 3), "rx") @@ [resval |-> 2]>>), Reg("status", <<Bit(0)>>)>>,
  [interrupt_list |-> <<Sig("tx"), Sig("rx") @@ [width |-> 2]>>, alert_list |-> <<Sig("fatal_err")>>,
   wakeup_list |-> <<Sig("wkup")>>, reset_request_list |-> <<Sig("rst_req")>>,
   inter_signal_list |-> <<Uni("wkup", "req"), Uni("rst_req", "req"), Uni("idle", "req"), Uni("link", "req")>>,
   available_input_list |-> <<Sig("rx")>>, available_output_list |-> <<Sig("tx")>>,
   available_inout_list |-> <<Sig("io") @@ [width |-> 2]>>])

\* The other block of hw/ip: two register interfaces, one clock more
Spi == Ip("spi", <<>>,
  [bus_interfaces |-> <<Device @@ [name |-> "a"]>>, registers |-> [dict |-> <<[key |-> "a", entries |-> <<Reg("CTRL", <<Bit(0)>>)>>]>>],
   alert_list |-> <<Sig("recov_err")>>, available_output_list |-> <<Sig("tx")>>,
   inter_signal_list |-> <<Uni("link", "rcv")>>,
   param_list |-> <<[name |-> "RndSeed", type |-> "seed_t", randtype |-> "data", randcount |-> 4]>>])

Templates ==
  [clkmgr |-> Ip("clkmgr", <<Multi("ctrl", Par("NumOut"), <<Bit(0)>>)>>,
     [param_list |-> <<Arg("NumOut", "n_sw")>>, inter_signal_list |-> <<Uni("idle", "rcv") @@ [arg |-> "n_hint"]>>]),
   flash_ctrl |-> Ip("flash_ctrl", <<Multi("ctrl", Par("NumOut"), <<Range2(2, 0)>>)>>,
     [param_list |-> <<Arg("NumOut", "banks")>>, interrupt_list |-> <<Sig("irq")>>]),
   rv_plic |-> Ip("rv_plic", <<Multi("data", Par("NumSrc"), <<Bit(0)>>), Multi("ctrl", Par("NumSrc"), <<Range2(1, 0)>>)>>,
     [param_list |-> <<Arg("NumSrc", "src")>>]),
   alert_handler |-> Ip("alert_handler", <<Multi("ctrl", Par("NumIn"), <<Bit(0)>>)>>,
     [param_list |-> <<Arg("NumIn", "n_alerts")>>, interrupt_list |-> <<Sig("irq")>>]),
   pinmux |-> Ip("pinmux", <<Multi("ctrl", Par("NumIn"), <<Range2(3, 0)>>), Multi("cfg", Par("NumOut"), <<Range2(3, 0)>>),
                             Multi("data", Par("NumPads"), <<Range2(6, 0)>>)>>,
     [param_list |-> <<Arg("NumIn", "n_mio_periph_in"), Arg("NumOut", "n_mio_pads"), Arg("NumPads", "n_dio_pads")>>,
      wakeup_list |-> <<Sig("pin_wkup")>>, inter_signal_list |-> <<Uni("pin_wkup", "req")>>]),
   pwrmgr |-> Ip("pwrmgr", <<Multi("ctrl", Par("NumIn"), <<Bit(0)>>)>>,
     [param_list |-> <<Arg("NumIn", "n_wkups")>>, interrupt_list |-> <<Sig("wkup")>>,
      inter_signal_list |-> <<Uni("wakeups", "rcv") @@ [arg |-> "n_wkups"], Uni("rstreqs", "rcv") @@ [arg |-> "n_rstreqs"]>>]),
   rstmgr |-> Ip("rstmgr", <<Multi("ctrl", Par("NumOut"), <<Bit(0)>>)>>,
     [param_list |-> <<Arg("NumOut", "n_sw")>>])]

Stale == [a \in {"n_sw", "n_hint", "banks", "src", "n_alerts", "n_mio_periph_in", "n_mio_pads", "n_dio_pads", "n_wkups", "n_rstreqs", "signals"} |->
            IF a = "signals" THEN <<>> ELSE 1]
Ips == [t \in Generated |-> Render(Templates[t], Stale)] @@ [uart |-> Uart, spi |-> Spi]

-----------------------------------------------------------------------------
(* The chip *)
Ports(clk) == [clock_srcs |-> ("clk_i" :> clk), reset_connections |-> ("rst_ni" :> "sys")]
Module(name, type, base, clk, extra) == extra @@ [name |-> name, type |-> type, base_addr |-> base] @@ Ports(clk)
Made(name, base) == Module(name, name, base, "io", [attr |-> "templated"])

Modules ==
  <<Module("uart0", "uart", 0, "io", [clock_group |-> "peri"]), Module("uart1", "uart", 8, "io_div", [clock_group |-> "trans"]),
    Module("spi", "spi", 16, "main", [base_addrs |-> ("a" :> 16), clock_reset_export |-> <<"ast">>]),
    Made("clkmgr", 20), Made("pwrmgr", 24), Made("rstmgr", 28), Made("pinmux", 32), Made("alert_handler", 48),
    Made("flash_ctrl", 64), Made("rv_plic", 80)>>
Memory(name, type, base, extra) ==
  extra @@ [name |-> name, type |-> type, base_addr |-> base, clock_group |-> "secure",
            inter_signal_list |-> <<[name |-> "tl", struct |-> "tl", package |-> "tlul_pkg", type |-> "req_rsp", act |-> "rsp", width |-> 1, default |-> None]>>]
        @@ Ports("main")
Memories == <<Memory("ram", "ram_1p_scr", 160, [size |-> 16]),
              Memory("eflash", "eflash", 192, [banks |-> 2, pages_per_bank |-> 2, program_resolution |-> 1])>>

Pad(name, conn) == [name |-> name, type |-> "BidirStd", bank |-> "VIO", connection |-> conn]
Pin(inst, port, idx, conn, pad) == [instance |-> inst, port |-> port, idx |-> idx, connection |-> conn, pad |-> pad]
Pads == <<Pad("P0", "muxed"), Pad("P1", "direct"), Pad("P2", "muxed")>>
Pins == <<Pin("uart0", "", -1, "muxed", ""), Pin("uart1", "rx", -1, "muxed", ""), Pin("spi", "tx", -1, "direct", "P1")>>

XbarEp(name) ==
  [name |-> name, clock_group |-> "secure", clock_srcs |-> [clk_main_i |-> "main", clk_io_i |-> "io"], reset_connections |-> ("rst_main_ni" :> "sys")]
TlH(name) == [name |-> name, struct |-> "tl", package |-> "tlul_pkg", type |-> "req_rsp", act |-> "req", width |-> 1, default |-> None]

BaseTop ==
  [raised |-> None, error |-> FALSE, module |-> Modules, memory |-> Memories, xbar |-> <<XbarEp("main"), XbarEp("peri")>>,
   port |-> <<[name |-> "rv_core_ibex", inter_signal_list |-> <<TlH("corei"), TlH("cored")>>]>>,
   connect |-> <<[req |-> Key("rv_core_ibex", "corei"), rsps |-> <<Key("main", "tl_corei")>>],
                 [req |-> Key("rv_core_ibex", "cored"), rsps |-> <<Key("main", "tl_cored")>>],
                 [req |-> Key("uart0", "link"), rsps |-> <<Key("spi", "link")>>],
                 [req |-> Key("clkmgr", "idle"), rsps |-> <<>>]>>,
   top_nets |-> <<>>, external |-> [k \in {} |-> ""],
   wakeups |-> <<>>, reset_requests |-> <<>>, interrupt |-> <<>>, alert |-> <<>>, signals |-> <<>>, definitions |-> <<>>, ports |-> <<>>,
   debug_mem_base_addr |-> 140,
   clocks |-> [srcs |-> <<[name |-> "main", aon |-> "no"], [name |-> "aon", aon |-> "yes"], [name |-> "io", aon |-> "no"]>>,
               derived_srcs |-> <<[name |-> "io_div", aon |-> "no", src |-> "io"]>>,
               groups |-> <<[name |-> "powerup", src |-> "top", sw_cg |-> "no"], [name |-> "secure", src |-> "top", sw_cg |-> "no"],
                            [name |-> "peri", src |-> "top", sw_cg |-> "yes"],
                            [name |-> "trans", src |-> "top", sw_cg |-> "hint", unique |-> "yes"]>>],
   resets |-> [nodes |-> <<[name |-> "sys", type |-> "top", gen |-> TRUE, domains |-> <<"Main">>, clk |-> "main", sw |-> 1]>>,
               hier_paths |-> [top |-> "rstmgr_resets.", ext |-> ""]],
   power |-> [domains |-> <<"Aon", "Main">>, default |-> "Main"],
   pinout |-> [banks |-> <<"VIO">>, pads |-> Pads], pinmux |-> [signals |-> Pins],
   targets |-> <<[name |-> "asic", special_signals |-> <<[name |-> "tap", pad |-> "P1"], [name |-> "dft", pad |-> "P2"]>>,
                  remove_pads |-> <<"P0">>, add_pads |-> <<>>]>>]

Node(name, type, clk) == [name |-> name, type |-> type, clock |-> clk, reset |-> "rst_main_ni", pipeline |-> "false"]
XbarNode(name) == Node(name, "device", "clk_main_i")
XbarObj(name, nodes, conns) ==
  [name |-> name, clock_primary |-> "clk_main_i", other_clock_list |-> <<"clk_io_i">>, reset_primary |-> "rst_main_ni", nodes |-> nodes, connections |-> conns]
Conn(host, devices) == [host |-> host, devices |-> devices]
MainDevices == <<"ram", "eflash", "flash_ctrl", "rv_plic", "debug_mem", "peri">>
PeriDevices == <<"uart0", "uart1", "spi.a", "clkmgr", "pwrmgr", "rstmgr", "pinmux", "alert_handler">>
DeviceNodes(names) == MapSeq(XbarNode, names)
HostNode(name, xbar) == Node(name, "host", "clk_main_i") @@ [xbar |-> xbar]
MainXbar == XbarObj("main", <<HostNode("corei", FALSE), HostNode("cored", FALSE)>> \o DeviceNodes(MainDevices),
                    <<Conn("corei", <<"ram", "eflash", "debug_mem">>), Conn("cored", MainDevices)>>)
PeriXbar == XbarObj("peri", <<HostNode("main", TRUE)>> \o DeviceNodes(PeriDevices), <<Conn("main", PeriDevices)>>)

BaseCfg == [top |-> BaseTop, xbars |-> <<MainXbar, PeriXbar>>, ips |-> Ips, templates |-> Templates]

-----------------------------------------------------------------------------
(* Scenarios *)
\* Registers: lists of one to three entries in the block uart, and in spi, whose
\* registers are written as a dictionary
Entries ==
  {Reg("ctrl", <<Named(Bit(0), "tx") @@ [resval |-> 1], Named(Range2(5, 4), "rx") @@ [resval |-> 2, enum |-> <<0, 3>>]>>),
   Reg("CTRL", <<Range2(7, 0)>>) @@ [resval |-> 165], Reg("status", <<Named(Bit(2), "rx"), Named(Bit(0), "tx")>>) @@ [resval |-> 4, hwaccess |-> "hrw"],
   Reg("status", <<Named(Bit(1), "rx") @@ [resval |-> 1], Named(Bit(0), "tx")>>) @@ [resval |-> 1],
   Reg("cfg", <<Bit(0)>>) @@ [regwen |-> "CFG_REGWEN"],
   ("swaccess" :> "rw0c") @@ Reg("CFG_REGWEN", <<Bit(0)>>) @@ [resval |-> 1], Reg("CFG_REGWEN", <<Bit(0)>>),
   Reg("key_shadowed", <<Range2(3, 0)>>) @@ [shadowed |-> TRUE], Reg("intr_state", <<Bit(0)>>), Reg("9lives", <<Bit(0)>>),
   Reg("cfg", <<Bit(0) @@ [resval |-> X]>>) @@ [hwext |-> TRUE, hwqe |-> TRUE, hwre |-> TRUE, hwaccess |-> "hrw"],
   Reg("cfg", <<Bit(8)>>), Reg("cfg", <<[bits |-> Junk]>>), Reg("cfg", <<Bit(0) @@ [resval |-> 2]>>), Reg("cfg", <<>>),
   Multi("data", Num(3), <<Range2(2, 0) @@ [resval |-> 5]>>), Multi("data", Par("NumAlerts"), <<Bit(0)>>), Multi("data", Num(9), <<Bit(0) @@ [resval |-> 1]>>),
   Multi("data", Num(2), <<Named(Bit(3), "tx") @@ [resval |-> 1], Named(Bit(7), "rx")>>), Multi("data", Num(0), <<Bit(0)>>), Multi("data", Par("NumIn"), <<Bit(0)>>),
   Window("buf", 4), [window |-> [name |-> "buf", desc |-> "", items |-> Num(3), swaccess |-> "ro", unusual |-> TRUE]], Window("buf", 3),
   [skipto |-> 12], [skipto |-> 2], [reserved |-> 3], [reserved |-> 0], [skipto |-> 4, reserved |-> 1]}
\* Entries that take addresses of their own
Spaced == {Multi("data", Num(3), <<Range2(2, 0) @@ [resval |-> 5]>>), Window("buf", 4), [skipto |-> 12], [reserved |-> 3], Reg("status", <<Bit(0)>>)}
Triples == {<<e, f, g>> : e, f, g \in Spaced}
Lists == {<<e>> : e \in Entries} \cup {<<e, f>> : e \in Entries, f \in Entries} \cup Triples
DictLists == {<<e, f>> : e \in Entries, f \in Entries}
RegCfgKeys == {[uart |-> l] : l \in Lists} \cup {[wide |-> l] : l \in Triples} \cup {[spi |-> l] : l \in DictLists}
RegisterCfg(k) ==
  IF "spi" \in DOMAIN k THEN [BaseCfg EXCEPT !.ips["spi"].registers = [dict |-> <<[key |-> "a", entries |-> k.spi]>>]]
  ELSE IF "uart" \in DOMAIN k THEN [BaseCfg EXCEPT !.ips["uart"].registers = [list |-> k.uart]]
  ELSE [BaseCfg EXCEPT !.ips["uart"].registers = [list |-> k.wide], !.ips["uart"].regwidth = 16]

\* Crossbars: which devices corei has, clocks of their own for corei, ram and the
\* port to peri, FIFOs
NodeWith(nodes, name, extra) == MapSeq(LAMBDA n : IF n.name = name THEN extra @@ n ELSE n, nodes)
OtherClock == [clock |-> "clk_io_i"]
XbarKeys == [devices : {<<"ram">>, <<"peri", "ram">>, <<"eflash", "rv_plic", "debug_mem">>}, slow : SUBSET {"corei", "ram", "peri"}, byp : {"true", "false"}]
XbarCfg(k) ==
  LET slowed == FoldLeft(LAMBDA ns, n : NodeWith(ns, n, OtherClock), MainXbar.nodes, Listed(k.slow))
      piped == [pipeline |-> "true", pipeline_byp |-> k.byp]
  IN [BaseCfg EXCEPT !.xbars[1].nodes = NodeWith(NodeWith(slowed, "ram", piped), "cored", piped),
                     !.xbars[1].connections[1].devices = k.devices]

\* Pins: what the pinmux configuration lists, in which order, and the pads
PinChoices ==
  {Pin("uart0", "", -1, "muxed", ""), Pin("uart0", "io", 1, "direct", "P1"), Pin("uart1", "io", 0, "direct", "P3"), Pin("uart1", "rx", -1, "manual", ""),
   Pin("spi", "tx", -1, "direct", "P1"), Pin("spi", "", -1, "manual", ""), Pin("uart0", "io", -1, "muxed", ""), Pin("uart1", "io", 2, "manual", ""),
   Pin("uart1", "tx", -1, "muxed", "P0"), Pin("uart2", "", -1, "muxed", "")}
GoodPins == {Pin("uart0", "", -1, "muxed", ""), Pin("uart0", "io", 1, "direct", "P1"), Pin("uart1", "tx", -1, "direct", "P3"), Pin("uart1", "rx", -1, "manual", "")}
PadChoices == {Pads, <<Pad("P1", "direct"), Pad("P0", "muxed"), Pad("P3", "direct"), Pad("P2", "muxed")>>, <<Pad("P0", "muxed"), Pad("P0", "muxed")>>}
PinKeys == [pins : {<<p, q>> : p, q \in PinChoices} \cup {<<p, q, r>> : p, q, r \in GoodPins}, pads : PadChoices]
PinCfg(k) ==
  [BaseCfg EXCEPT !.top.pinmux.signals = k.pins, !.top.pinout.pads = k.pads,
                  !.top.targets[1].special_signals = <<[name |-> "tap", pad |-> "P1"], [name |-> "dft", pad |-> "P0"]>>]

\* Connections: one to three bits, tied to as many or to single ones, in both directions
\* or with ends that act alike; a signal named twice, in one connection or in two
ToLink(m, rsps) == [req |-> Key(m, "data"), rsps |-> rsps]
LinkConns ==
  {<<ToLink("uart0", rsps)>> :
     rsps \in {<<Key("spi", "data")>>, <<Key("spi", "data"), Key("spi", "cfg")>>, <<Key("uart1", "cfg"), Key("spi", "data")>>,
              <<Key("spi", "data"), Key("spi", "data")>>, <<Key("uart2", "cfg")>>}}
    \cup {<<ToLink("uart0", <<Key("spi", "data")>>), ToLink("uart1", <<Key("spi", "data")>>)>>}
LinkKeys == [from : 1..3, to : {1, 3}, type : {"uni", "req_rsp"}, sends : {{"from"}, {"to"}, {"from", "to"}}, conns : LinkConns]
LinkCfg(k) ==
  LET receives == IF k.type = "uni" THEN "rcv" ELSE "rsp"
      End(name, width, side) == [name |-> name, struct |-> "link", package |-> "link_pkg", type |-> k.type,
                                 act |-> IF side \in k.sends THEN "req" ELSE receives, width |-> width]
  IN [BaseCfg EXCEPT !.ips["uart"].inter_signal_list = @ \o <<End("data", k.from, "from"), End("cfg", 1, "to")>>,
                     !.ips["spi"].inter_signal_list = @ \o <<End("data", k.to, "to"), End("cfg", k.to, "to")>>,
                     !.top.connect = @ \o k.conns]

\* Descriptions that are refused somewhere
Twice(name) == [BaseCfg EXCEPT !.top.module = Append(@, Module(name \o "2", name, 208, "io", [attr |-> "normal"]))]
OddCfgs ==
  [loop |-> [BaseCfg EXCEPT !.xbars[2].nodes = Append(@, XbarNode("main")), !.xbars[2].connections[1].devices = Append(@, "main"),
                            !.xbars[1].nodes = Append(@, HostNode("peri", TRUE)), !.xbars[1].connections = Append(@, Conn("peri", MainDevices))],
   outer |-> [BaseCfg EXCEPT !.top.top_nets = <<Key("uart1", "link")>>, !.top.external = (Key("uart0", "link") :> "ext") @@ (Key("spi", "idle") :> "")],
   edgeless |-> [BaseCfg EXCEPT !.xbars[2].connections = <<>>],
   topped |-> [BaseCfg EXCEPT !.top.top_nets = <<Key("spi", "link")>>],
   shown |-> [BaseCfg EXCEPT !.top.top_nets = <<Key("uart1", "link")>>, !.top.external = (Key("uart0", "link") :> "ext")],
   domain |-> [BaseCfg EXCEPT !.top.power.default = "Aux"], group |-> [BaseCfg EXCEPT !.top.clocks.groups[3].sw_cg = "maybe"],
   reset |-> [BaseCfg EXCEPT !.top.resets.nodes[1].name = "por"], flash |-> [BaseCfg EXCEPT !.top.memory[2].banks = 3],
   flash2 |-> [BaseCfg EXCEPT !.top.memory = Append(@, [@[2] EXCEPT !.name = "eflash2", !.base_addr = 224])], noflash |-> [BaseCfg EXCEPT !.top.memory = <<@[1]>>],
   clock |-> [BaseCfg EXCEPT !.top.module[1].clock_srcs = ("clk_i" :> "usb")], nogroup |-> [BaseCfg EXCEPT !.top.module[1].clock_group = "none"],
   uart |-> Twice("uart"), clkmgr |-> Twice("clkmgr"), aes |-> Twice("aes"), muxless |-> [BaseCfg EXCEPT !.top.pinmux = @ @@ [num_wkup_detect |-> 0]],
   overlap |-> [BaseCfg EXCEPT !.top.module[2].base_addr = 0], ghost |-> [BaseCfg EXCEPT !.xbars[1].connections[1].devices = Append(@, "rom")],
   nohost |-> [BaseCfg EXCEPT !.xbars[1].connections = Append(@, Conn("dm_sba", <<"ram">>))], handless |-> [BaseCfg EXCEPT !.top.module = RemoveAt(@, 8)],
   single |-> [BaseCfg EXCEPT !.xbars[1].connections = <<Conn("corei", <<"ram">>), Conn("cored", <<"ram">>)>>],
   held |-> [BaseCfg EXCEPT !.top.connect = Append(@, [req |-> Key("main", "tl_ram"), rsps |-> <<Key("uart0", "link")>>])]]

\* A smaller chip, and what a user may change in it
SmallXbar == XbarObj("main", <<HostNode("cored", FALSE)>> \o DeviceNodes(<<"ram", "eflash", "uart0">>), <<Conn("cored", <<"ram", "eflash", "uart0">>)>>)
SmallTop ==
  [BaseTop EXCEPT !.module = SelectSeq(@, LAMBDA m : m.name \notin {"spi"}), !.xbar = <<Head(@)>>,
                  !.connect = <<@[2], @[4]>>, !.pinmux.signals = <<Pin("uart0", "", -1, "muxed", ""), Pin("uart1", "tx", -1, "direct", "P1")>>]
SmallCfg == [BaseCfg EXCEPT !.top = SmallTop, !.xbars = <<SmallXbar>>]
EditCfgs ==
  [small |-> SmallCfg,
   edited |-> [SmallCfg EXCEPT !.top.module = @ \o <<Module("uart2", "uart", 208, "io", [clock_group |-> "trans"])>>, !.top.memory[2].banks = 4,
                               !.top.pinmux.signals = Append(@, Pin("uart2", "", -1, "muxed", ""))]]

\* The smaller chip with a second crossbar, in front of blocks at 20 and 32
SteerCfg ==
  [SmallCfg EXCEPT !.top.xbar = <<XbarEp("main"), XbarEp("peri")>>, !.top.module[5].base_addr = 32, !.top.module[6].base_addr = 96,
                   !.xbars = <<XbarObj("main", <<HostNode("cored", FALSE)>> \o DeviceNodes(<<"ram", "peri">>), <<Conn("cored", <<"ram", "peri">>)>>),
                               XbarObj("peri", <<HostNode("main", TRUE)>> \o DeviceNodes(<<"clkmgr", "rstmgr">>), <<Conn("main", <<"clkmgr", "rstmgr">>)>>)>>]

NamedCfgs == [base |-> BaseCfg, steer |-> SteerCfg] @@ OddCfgs @@ EditCfgs
OwnScenario(k) == [cfgs |-> {k}, options |-> {""}, outdirs |-> {"other"}, runs |-> 1, kills |-> 0]
MCCfg(k) ==
  CASE "name" \in DOMAIN k -> NamedCfgs[k.name] [] "uart" \in DOMAIN k \/ "wide" \in DOMAIN k \/ "spi" \in DOMAIN k -> RegisterCfg(k)
    [] "slow" \in DOMAIN k -> XbarCfg(k) [] "pins" \in DOMAIN k -> PinCfg(k) [] OTHER -> LinkCfg(k)
MCScenarios ==
  {[OwnScenario([name |-> "base"]) EXCEPT !.options = AllOptions]}
    \cup {[OwnScenario(k) EXCEPT !.options = {"plic_only"}] : k \in RegCfgKeys \cup PinKeys}
    \cup {OwnScenario(k) : k \in XbarKeys \cup LinkKeys \cup [name : DOMAIN OddCfgs]}
    \cup {[cfgs |-> [name : DOMAIN EditCfgs], options |-> {""}, outdirs |-> {"tree", "other"}, runs |-> 2, kills |-> 1]}
SteerScenarios == {OwnScenario([name |-> "steer"])}
=============================================================================
