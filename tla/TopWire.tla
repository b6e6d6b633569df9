------------------------------- MODULE TopWire ------------------------------
(****************************************************************************)
(* Checking a top description before it is merged (util/topgen/validate.py). *)
(* A check returns top with error set, with an exception in raised, or with  *)
(* the fields it fills in. Checks go on after an error, as the code does.    *)
(****************************************************************************)
EXTENDS TopMerge

Bad(top, bad) == IF bad THEN [top EXCEPT !.error = TRUE] ELSE top
IsPowerOfTwo(n) == \E k \in 0..16 : n = 2^k

\* The number of bytes of one flash page, and the limits of class Flash
FlashLimits == [banks |-> 4, pages_per_bank |-> 1024]
CONSTANT BytesPerPage

\* check_target: every instance, given by what it refers to, has exactly one description
CheckTarget(top, targets, names) ==
  Bad(top, \E t \in ToSet(targets) : Len(SelectSeq(names, LAMBDA n : n = t)) # 1)

FlashGood(mem) ==
  /\ IsPowerOfTwo(mem.banks) /\ IsPowerOfTwo(mem.pages_per_bank) /\ IsPowerOfTwo(mem.program_resolution)
  /\ mem.banks <= FlashLimits.banks /\ mem.pages_per_bank <= FlashLimits.pages_per_bank
\* check_flash looks at the last memory of the list, whatever its type.
CheckFlash(top) ==
  LET mem == Last(top.memory)
  IN IF ~{"banks", "pages_per_bank", "program_resolution"} \subseteq DOMAIN mem THEN Fail(top, "KeyError")
     ELSE IF ~FlashGood(mem) THEN Bad(top, TRUE)
     ELSE [top EXCEPT !.memory[Len(top.memory)] = With(mem, "size", mem.banks * mem.pages_per_bank * BytesPerPage)]

CheckPowerDomains(top) ==
  LET known(ds) == ToSet(ds) \subseteq ToSet(top.power.domains)
      resets_good == \A r \in ToSet(top.resets.nodes) : r.gen => "domains" \in DOMAIN r /\ known(r.domains)
      filled == MapEndPoints(top, LAMBDA ep : Default(ep, "domain", top.power.default))
  IN IF top.power.default \notin ToSet(top.power.domains) \/ ~resets_good THEN Bad(top, TRUE)
     ELSE Bad(filled, \E ep \in ToSet(AllEndPoints(filled)) : ep.domain \notin ToSet(top.power.domains))

\* validate_reset, validate_clock: as many connections as ports, all of them to
\* ports and nets that exist
PortsBad(conns, ports, nets) ==
  \/ Cardinality(DOMAIN conns) # Len(ports)
  \/ ~DOMAIN conns \subseteq ToSet(ports)
  \/ ~{conns[p] : p \in DOMAIN conns} \subseteq nets

Managers(top, type) == Len(SelectSeq(top.module, LAMBDA m : m.type = type))
\* len(pwrmgrs) == 1 * len(clkmgrs) == 1 * len(rstmgrs) != 1 is a chain of three
\* comparisons: all three numbers are the same, and not one.
ManagersBad(top) ==
  /\ Managers(top, "pwrmgr") = Managers(top, "clkmgr")
  /\ Managers(top, "clkmgr") = Managers(top, "rstmgr")
  /\ Managers(top, "rstmgr") # 1

\* A target that was not found is looked up all the same (KeyError).
CheckClocksResets(top, blocks, xbarobjs) ==
  LET srcs == ToSet(top.clocks.srcs) \cup ToSet(top.clocks.derived_srcs)
      nets == {r.name : r \in ToSet(top.resets.nodes)}
      clocks == {s.name : s \in srcs}
      derived_bad == \E s \in ToSet(top.clocks.derived_srcs) : s.src \notin {e.name : e \in ToSet(top.clocks.srcs)}
      EpBad(ep, resets, clks) == PortsBad(ep.reset_connections, resets, nets) \/ PortsBad(ep.clock_srcs, clks, clocks)
      ModuleBad(m) == EpBad(m, blocks[m.type].reset_signals, blocks[m.type].clock_signals)
      XbarBad(x) == LET obj == CHOOSE o \in ToSet(xbarobjs) : o.name = x.name
                    IN EpBad(x, <<obj.reset_primary>> \o Get(obj, "other_reset_list", <<>>),
                                <<obj.clock_primary>> \o Get(obj, "other_clock_list", <<>>))
  IN IF \/ \E m \in ToSet(top.module) : m.type \notin DOMAIN blocks
        \/ \E x \in ToSet(top.xbar) : x.name \notin {o.name : o \in ToSet(xbarobjs)}
     THEN Fail(top, "KeyError")
     ELSE Bad(top, \/ ManagersBad(top) \/ derived_bad
                   \/ \E m \in ToSet(top.module) : ModuleBad(m)
                   \/ \E x \in ToSet(top.xbar) : XbarBad(x))

CheckClockGroups(top) ==
  Bad(top, \E g \in ToSet(top.clocks.groups) :
             \/ g.sw_cg \notin {"yes", "no", "hint"}
             \/ g.src = "yes" /\ g.sw_cg # "no"
             \/ g.sw_cg = "no" /\ Get(g, "unique", "no") # "no")

-----------------------------------------------------------------------------
(* Pads and pins *)
PadBad(top, pad, known, valid) ==
  pad.name \in known \/ pad.bank \notin ToSet(top.pinout.banks) \/ pad.connection \notin valid

CheckPinout(top) ==
  LET pads == top.pinout.pads
  IN Bad(top, \E k \in DOMAIN pads : PadBad(top, pads[k], {pads[j].name : j \in 1..(k - 1)}, {"direct", "manual", "muxed"}))

\* One signal of the pinmux configuration. free: the direct pads no signal has
\* claimed. padattr: the variable of that name, None while it is unbound; the
\* signal of a direct connection takes whatever it holds.
CheckPinmuxSig(acc, k) ==
  LET sig == Default(Default(acc.top.pinmux.signals[k], "pad", ""), "port", "")
      claims == sig.pad \in acc.free
      padattr == IF claims THEN (CHOOSE p \in ToSet(acc.top.pinout.pads) : p.name = sig.pad).type ELSE acc.padattr
      attr == Get(sig, "attr", "")
      filled == CASE sig.connection = "direct" -> With(sig, "attr", padattr)
                  [] sig.connection = "manual" -> Default(sig, "attr", "BidirStd")
                  [] OTHER -> Default(sig, "attr", "")
      bad == \/ sig.connection \notin {"direct", "manual", "muxed"}
             \/ sig.pad # "" /\ ~claims
             \/ sig.connection \in {"direct", "muxed"} /\ attr # ""
             \/ sig.connection = "direct" /\ (sig.pad = "" \/ sig.port = "")
             \/ sig.connection \in {"muxed", "manual"} /\ sig.pad # ""
  IN IF acc.top.raised # None THEN acc
     ELSE IF sig.connection = "direct" /\ padattr = None THEN [acc EXCEPT !.top = Fail(@, "UnboundLocalError")]
     ELSE [top |-> Bad([acc.top EXCEPT !.pinmux.signals[k] = filled], bad),
           free |-> acc.free \ {sig.pad}, padattr |-> padattr]

CheckPinmux(top) ==
  LET direct == {p.name : p \in {q \in ToSet(top.pinout.pads) : q.connection = "direct"}}
      done == FoldLeft(CheckPinmuxSig, [top |-> top, free |-> direct, padattr |-> None],
                       [k \in DOMAIN top.pinmux.signals |-> k])
  IN Bad(done.top, done.free # {})

CheckImplementationTargets(top) ==
  LET pads == top.pinout.pads
      Pad(name) == pads[CHOOSE k \in DOMAIN pads : pads[k].name = name /\ \A j \in 1..(k - 1) : pads[j].name # name]
      names == {p.name : p \in ToSet(pads)}
      SpecialBad(e) ==
        \/ e.pad \notin names
        \/ (e.pad \notin names \/ Pad(e.pad).connection # "muxed") /\ ~\E s \in ToSet(top.pinmux.signals) : s.pad = e.pad
      Repeated(s) == \E j, k \in DOMAIN s : j # k /\ s[j].name = s[k].name
      TargetBad(t) ==
        \/ Repeated(t.special_signals) \/ \E e \in ToSet(t.special_signals) : SpecialBad(e)
        \/ ~ToSet(t.remove_pads) \subseteq names
        \/ \E k \in DOMAIN t.add_pads :
             PadBad(top, t.add_pads[k], names \cup {t.add_pads[j].name : j \in 1..(k - 1)}, {"manual"})
  IN Bad(top, Repeated(top.targets) \/ \E t \in ToSet(top.targets) : TargetBad(t))

\* validate_top. The blocks are given by type, the crossbar descriptions as a list.
ValidateTop(top, block_names, blocks, xbarobjs) ==
  LET Then(t, Op(_)) == IF t.raised # None THEN t ELSE Op(t)
      t1 == CheckTarget(top, MapSeq(LAMBDA m : m.type, top.module), block_names)
      t2 == CheckTarget(t1, MapSeq(LAMBDA x : x.name, top.xbar), MapSeq(LAMBDA o : o.name, xbarobjs))
      t3 == CheckFlash(t2)
      t4 == Then(t3, CheckPowerDomains)
      t5 == Then(t4, LAMBDA t : CheckClocksResets(t, blocks, xbarobjs))
      t6 == Then(t5, CheckClockGroups)
      t7 == Then(t6, CheckPinout)
      t8 == Then(t7, CheckPinmux)
  IN Then(t8, CheckImplementationTargets)

-----------------------------------------------------------------------------
(****************************************************************************)
(* Connections between the modules of a chip (util/topgen/intermodule.py).   *)
(* top.connect lists [req, rsps] entries, top.signals the inter-module       *)
(* signals of every instance. A net is named after its requester: [m, s].    *)
(****************************************************************************)
Tl == "tl_"
EscName(name) == IF name \in DOMAIN Dotted THEN Dotted[name].esc ELSE name
ConnectIndex(connect, key) == {k \in DOMAIN connect : connect[k].req = key}

\* add_intermodule_connection. When one end is a key already and the other is not
\* in its list, append is called on the key, a string.
AddIntermoduleConnection(top, req, rsp) ==
  LET at(key) == CHOOSE k \in ConnectIndex(top.connect, key) : TRUE
      Extend(key, other) == IF other \in ToSet(top.connect[at(key)].rsps) THEN top ELSE Fail(top, "AttributeError")
  IN IF top.raised # None THEN top
     ELSE IF ConnectIndex(top.connect, req) # {} THEN Extend(req, rsp)
     ELSE IF ConnectIndex(top.connect, rsp) # {} THEN Extend(rsp, req)
     ELSE [top EXCEPT !.connect = Append(@, [req |-> req, rsps |-> <<rsp>>])]

\* One port of a crossbar. A port that leads nowhere is only logged.
AutoconnectPort(top, blocks, xbar, port) ==
  LET base == DeviceBase(port.name)
      iname == DeviceIfname(port.name)
      mine == Key(xbar.name, Tl \o EscName(port.name))
      Named(insts) == SelectSeq(insts, LAMBDA i : i.name = base /\ IsInst(i))
      mod == Named(top.module)
      mem == Named(top.memory)
      is_host == port.type = "host"
      bus == FindPortName(blocks[mod[1].type].bus_interfaces, is_host, iname)
      tl == SelectSeq(mem[1].inter_signal_list,
                      LAMBDA s : s.package = "tlul_pkg" /\ s.struct = "tl" /\ s.act = (IF is_host THEN "req" ELSE "rsp"))
  IN IF top.raised # None THEN top
     ELSE IF "xbar" \notin DOMAIN port THEN Fail(top, "KeyError")
     ELSE IF port.xbar
     THEN IF iname # None \/ is_host THEN top
          ELSE AddIntermoduleConnection(top, mine, Key(port.name, Tl \o xbar.name))
     ELSE IF mod # <<>>
     THEN IF bus = Err THEN top ELSE AddIntermoduleConnection(top, Key(base, bus), mine)
     ELSE IF mem = <<>> \/ tl = <<>> THEN top
     ELSE IF Len(tl) > 1 THEN Fail(top, "AssertionError")
     ELSE AddIntermoduleConnection(top, Key(base, tl[1].name), mine)

AutoconnectXbar(top, blocks, xbar) ==
  LET Repeats(insts) == \E j, k \in DOMAIN insts : j # k /\ insts[j].name = insts[k].name
      InstNames(insts) == {i.name : i \in {n \in ToSet(insts) : IsInst(n)}}
      ports == SelectSeq(xbar.nodes, LAMBDA n : n.type \in {"host", "device"})
  IN IF Repeats(top.module) \/ Repeats(top.memory) \/ InstNames(top.module) \cap InstNames(top.memory) # {}
     THEN Fail(top, "AssertionError")
     ELSE FoldLeft(LAMBDA t, p : AutoconnectPort(t, blocks, xbar, p), top, ports)
Autoconnect(top, blocks) ==
  FoldLeft(LAMBDA t, x : IF t.raised # None THEN t ELSE AutoconnectXbar(t, blocks, x), top, top.xbar)

-----------------------------------------------------------------------------
(* Checking the connections *)

\* find_intermodule_signal: the number of the only signal of that name, or Err
Find(top, key) ==
  LET found == {k \in DOMAIN top.signals : top.signals[k].name = key.s /\ top.signals[k].inst_name = key.m}
  IN IF Cardinality(found) = 1 THEN CHOOSE k \in found : TRUE ELSE Err

IM_VALID_TYPEACT == [uni |-> {"req", "rcv"}, req_rsp |-> {"req", "rsp"}]
FieldBad(sig) == IF sig.type \in DOMAIN IM_VALID_TYPEACT THEN sig.act \notin IM_VALID_TYPEACT[sig.type] ELSE TRUE
Unpackaged(sig) == sig.package \in {None, ""}

\* One responder of a connection; r, s are numbers of signals.
RspBad(top, r, s, key) ==
  LET req == top.signals[r]
      rsp == top.signals[s]
  IN \/ FieldBad(rsp) \/ req.type # rsp.type
     \/ ~Unpackaged(rsp) /\ req.package # rsp.package
     \/ req.width # 1 /\ (rsp.width \notin {1, req.width} \/ key.i # -1)

SumOver(s) == FoldLeft(LAMBDA a, b : a + b, 0, s)

\* Broadcast, one-to-N, or a one-to-N that leaves bits of the requester over
TopType(req, widths) ==
  IF req.width = 1 /\ Len(widths) = 1 THEN IF req.type = "uni" THEN "broadcast" ELSE ""
  ELSE IF \A k \in DOMAIN widths : widths[k] = req.width THEN "broadcast"
  ELSE IF req.width = SumOver(widths) THEN "one-to-N"
  ELSE IF req.width > SumOver(widths) THEN "partial-one-to-N" ELSE Err

CheckConnection(top, c) ==
  LET r == Find(top, c.req)
      rs == MapSeq(LAMBDA k : Find(top, k), c.rsps)
      widths == MapSeq(LAMBDA s : top.signals[s].width, rs)
      kind == TopType(top.signals[r], widths)
      bad == \/ FieldBad(top.signals[r]) \/ kind = Err
             \/ c.req.i # -1 /\ Len(c.rsps) # 1
             \/ \E k \in DOMAIN rs : RspBad(top, r, rs[k], c.rsps[k])
      packaged == [top EXCEPT !.signals = [s \in DOMAIN @ |-> IF s \in ToSet(rs) /\ Unpackaged(@[s])
                                                             THEN [@[s] EXCEPT !.package = top.signals[r].package] ELSE @[s]]]
      typed == [packaged EXCEPT !.signals[r] = With(With(@, "top_type", kind), "end_idx",
                                                    IF kind = "partial-one-to-N" THEN Len(rs) ELSE -1)]
  IN IF top.raised # None THEN top
     ELSE IF r = Err \/ Err \in ToSet(rs) THEN Fail(top, "TypeError")
     ELSE Bad(typed, bad)

\* The signals that go to the top level or out of it
Outer(top) == top.top_nets \o Listed(DOMAIN top.external)
CheckIntermodule(top) ==
  LET done == FoldLeft(CheckConnection, top, top.connect)
      outer == Outer(top)
  IN IF done.raised # None THEN done
     ELSE IF \E k \in ToSet(outer) : Find(done, k) = Err THEN Fail(done, "TypeError")
     ELSE Bad(done, \E k \in ToSet(outer) : k.i # -1 \/ FieldBad(done.signals[Find(done, k)]))

-----------------------------------------------------------------------------
(* Elaboration: every connected signal gets a net and an index into it *)

Net(sig) == [m |-> sig.inst_name, s |-> sig.name]
Definition(sig, suffix, end_idx) ==
  [signame |-> Net(sig), suffix |-> suffix, width |-> sig.width, end_idx |-> end_idx, act |-> sig.act]
Definitions(sig, end_idx) ==
  IF sig.type = "req_rsp" THEN <<Definition(sig, "req", end_idx), Definition(sig, "rsp", end_idx)>>
  ELSE <<Definition(sig, "", end_idx)>>

\* Seeded fault: every responder of a requester of several bits gets an index.
RspIndexAlways(req, rsp, n, i) == IF req.width = 1 THEN -1 ELSE i - 1

\* The index of the i-th of n responders
RspIndex(req, rsp, n, i) ==
  IF req.type = "uni" /\ req.top_type = "broadcast" THEN -1
  ELSE IF rsp.width = req.width /\ n = 1 THEN -1
  ELSE IF req.width = 1 THEN -1 ELSE i - 1

ElabConnection(top, c) ==
  LET r == Find(top, c.req)
      req == top.signals[r]
      On(sig, index) == With(With(sig, "top_signame", Net(req)), "index", index)
      joined == [top EXCEPT !.signals[r] = On(@, -1), !.definitions = @ \o Definitions(req, req.end_idx)]
      Join(t, i) == [t EXCEPT !.signals[Find(t, c.rsps[i])] = On(@, RspIndex(req, @, Len(c.rsps), i))]
  IN IF top.raised # None THEN top
     ELSE IF c.rsps # <<>> /\ req.struct = "logic" /\ req.type = "req_rsp" THEN Fail(top, "AssertionError")
     ELSE FoldLeft(Join, joined, [i \in DOMAIN c.rsps |-> i])

ElabTop(top, key) ==
  LET s == Find(top, key)
      sig == Default(With(top.signals[s], "top_signame", Net(top.signals[s])), "index", -1)
  IN [top EXCEPT !.signals[s] = sig, !.definitions = @ \o Definitions(sig, -1)]

\* A port of the chip. conn_type: the signal is on a net already.
ElabExternal(top, key) ==
  LET s == Find(top, key)
      old == top.signals[s]
      name == IF top.external[key] = "" THEN Net(old) ELSE [m |-> "", s |-> top.external[key]]
      sig == Default(Default(With(old, "external", TRUE), "top_signame", name), "index", -1)
      Out(suffix) == IF suffix \in {"", "req"} THEN sig.act = "req" ELSE sig.act # "req"
      Port(suffix) == [signame |-> name, suffix |-> suffix, out |-> Out(suffix), width |-> sig.width,
                       conn_type |-> "top_signame" \in DOMAIN old, index |-> sig.index, netname |-> sig.top_signame]
  IN [top EXCEPT !.signals[s] = sig,
                 !.ports = @ \o (IF sig.type = "req_rsp" THEN <<Port("req"), Port("rsp")>> ELSE <<Port("")>>)]

\* The nets of the connections, of the top level and of the ports, in this order
ElabNets(top) ==
  LET Connected(t) == FoldLeft(ElabConnection, t, t.connect)
      Topped(t) == FoldLeft(ElabTop, t, t.top_nets)
      Ported(t) == FoldLeft(ElabExternal, t, Listed(DOMAIN t.external))
      Then(t, Op(_)) == IF t.raised # None THEN t ELSE Op(t)
  IN Then(Connected(top),
          LAMBDA t : [Ported(Topped(t)) EXCEPT !.signals = MapSeq(LAMBDA s : Default(s, "index", -1), @)])

\* elab_intermodule: a failed check is an assertion.
ElabIntermodule(top0) ==
  LET ListOf(i) == IF "inter_signal_list" \in DOMAIN i
                   THEN MapSeq(LAMBDA s : With(s, "inst_name", i.name), i.inter_signal_list) ELSE <<>>
      gathered == [top0 EXCEPT !.signals = FlattenSeq(MapSeq(ListOf, AllEndPoints(top0) \o top0.port))]
      Elaborated(checked) == IF checked.raised # None THEN checked
                             ELSE IF checked.error THEN Fail(checked, "AssertionError") ELSE ElabNets(checked)
  IN IF top0.raised # None THEN top0 ELSE Elaborated(CheckIntermodule(gathered))

\* im_portname: whether the port of a signal for a suffix is an output
PortIsOutput(sig, suffix) == IF suffix = "rsp" THEN sig.act = "rsp" ELSE sig.act = "req"

\* get_dangling_im_def: the definitions a partial one-to-N leaves half unused,
\* half undriven
Dangling(top) ==
  LET partial == SelectSeq(top.definitions, LAMBDA d : d.end_idx > 0)
  IN [unused |-> SelectSeq(partial, LAMBDA d : d.act = d.suffix),
      undriven |-> SelectSeq(partial, LAMBDA d : (d.act = "req" /\ d.suffix = "rsp") \/ (d.act = "rsp" /\ d.suffix = "req"))]
=============================================================================
