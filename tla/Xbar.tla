-------------------------------- MODULE Xbar --------------------------------
(****************************************************************************)
(* The crossbar generator (util/tlgen). A crossbar under elaboration is a    *)
(* record: nodes, a sequence of node records, and edges, a sequence of       *)
(* [us, ds] pairs of node names; the us and ds lists of a node hold edge     *)
(* numbers, so that rewiring an edge is seen from both of its ends. The      *)
(* pass and depth bit vectors of a socket are sequences, one entry a port.   *)
(****************************************************************************)
EXTENDS Integers, Sequences, FiniteSets, SequencesExt, TLC

CONSTANTS Err, None,
          Spacing,      \* the smallest region a device may have (0x1000)
          Top           \* the first address beyond the address space (0x1_0000_0000)

Has(obj, key) == key \in DOMAIN obj
End(r) == r.base + r.size
PowersOfTwo == {2^k : k \in 0..20}
LeastOf(S) == CHOOSE n \in S : \A m \in S : n <= m

-----------------------------------------------------------------------------
(* Address ranges (lib.py) *)

\* Round min_size up to a power of two, if base and next_value leave room.
FindPow2Size(addr, min_size, next_value) ==
  LET room == next_value - addr.base
      leading_one == CHOOSE p \in PowersOfTwo : addr.base % p = 0 /\ (addr.base \div p) % 2 = 1
      diff == IF addr.base # 0 /\ leading_one <= room THEN leading_one ELSE room
      i == LeastOf({p \in PowersOfTwo \ {1} : p >= min_size})
      size == IF i > diff THEN min_size ELSE i
  IN  IF size < Spacing THEN Err ELSE size

OtherDevices(obj, name) == SelectSeq(obj.nodes, LAMBDA n : n.type = "device" /\ n.name # name)

NoDeviceInRange(obj, name, f, t) ==
  \A n \in ToSet(OtherDevices(obj, name)) :
    Has(n, "addr_range") => \A a \in ToSet(n.addr_range) : End(a) <= End(f) \/ a.base >= t.base

\* The least base above addr of another device; Top if there is none
GetNextBaseAddr(addr, obj, name) ==
  IF \E n \in ToSet(OtherDevices(obj, name)) : ~Has(n, "addr_range") THEN Err
  ELSE LET bases == UNION {{a.base : a \in ToSet(n.addr_range)} : n \in ToSet(OtherDevices(obj, name))}
           gte == {b \in bases : b > addr}
       IN IF gte = {} THEN Top ELSE LeastOf(gte)

SimplifyAddr(dev, obj) ==
  LET Add(result, e) ==
        IF result = Err THEN Err
        ELSE IF result = <<>> THEN <<e>>
        ELSE LET prev == Last(result)
                 Resized(size) == IF size = Err THEN Err ELSE [result EXCEPT ![Len(result)].size = size]
                 next_value == GetNextBaseAddr(e.base, obj, dev.name)
             IN IF e.base = End(prev) THEN Resized(prev.size + e.size)
                ELSE IF NoDeviceInRange(obj, dev.name, prev, e)
                     THEN IF next_value = Err THEN Err
                          ELSE Resized(FindPow2Size(prev, End(e) - prev.base, next_value))
                ELSE Append(result, e)
  IN FoldLeft(Add, <<>>, SortSeq(dev.addr_range, LAMBDA a, b : a.base < b.base))

-----------------------------------------------------------------------------
(* Reading a crossbar description (validate.py, xbar.py) *)

IsOverlap(r, s) == ~(End(s) - 1 < r.base \/ s.base > End(r) - 1)
CheckAddressOverlap(addr, ranges) == \E r \in ToSet(ranges) : IsOverlap(r, addr)

NodeTypes == {"host", "device", "async_fifo", "socket_1n", "socket_m1"}
NewNode(name, type, clock, reset) ==
  [name |-> name, type |-> type, clocks |-> <<clock>>, resets |-> <<reset>>, us |-> <<>>, ds |-> <<>>,
   addr_range |-> <<>>, pipeline |-> FALSE, pipeline_byp |-> TRUE, xbar |-> FALSE,
   hpass |-> <<>>, hdepth |-> <<>>, dpass |-> <<>>, ddepth |-> <<>>]

\* The required keys that check_keys asks for
HjsonGood(obj) ==
  /\ {"name", "clock", "reset", "connections", "clock_connections", "nodes"} \subseteq DOMAIN obj
  /\ \A n \in ToSet(obj.nodes) : {"name", "stub", "type"} \subseteq DOMAIN n
  /\ \A n \in ToSet(obj.nodes) : Has(n, "addr_range") => \A a \in ToSet(n.addr_range) : {"base", "size"} = DOMAIN a

\* acc: the description (its ranges change), the nodes and ranges so far
AddRange(acc, r) ==
  IF acc.raised # None THEN acc
  ELSE IF CheckAddressOverlap(r, acc.ranges) THEN [acc EXCEPT !.raised = "AddressOverlap"]
  ELSE [acc EXCEPT !.ranges = Append(@, r)]

ReadNode(acc, k) ==
  LET nodeobj == acc.obj.nodes[k]
      clock == IF Has(nodeobj, "clock") THEN nodeobj.clock ELSE acc.obj.clock
      reset == IF Has(nodeobj, "reset") THEN nodeobj.reset ELSE acc.obj.reset
      port == nodeobj.type \in {"host", "device"}
      Flag(key, default) == IF port /\ Has(nodeobj, key) THEN nodeobj[key] = "true" ELSE default
      node == [NewNode(nodeobj.name, nodeobj.type, clock, reset)
                 EXCEPT !.pipeline = Flag("pipeline", FALSE), !.pipeline_byp = Flag("pipeline_byp", TRUE)]
      AddDevice(ranges) ==
        IF ranges = Err THEN [acc EXCEPT !.raised = "BadRange"]
        ELSE [FoldLeft(AddRange, [acc EXCEPT !.obj.nodes[k].addr_range = ranges], ranges)
                EXCEPT !.nodes = Append(@, [node EXCEPT !.xbar = nodeobj.xbar, !.addr_range = ranges])]
  IN IF acc.raised # None THEN acc
     ELSE IF \E n \in ToSet(acc.nodes) : n.name = nodeobj.name THEN [acc EXCEPT !.raised = "DuplicateName"]
     ELSE IF clock \notin DOMAIN acc.obj.clock_connections THEN [acc EXCEPT !.raised = "NoClock"]
     ELSE IF reset \notin DOMAIN acc.obj.reset_connections THEN [acc EXCEPT !.raised = "NoReset"]
     ELSE IF nodeobj.type \notin NodeTypes THEN [acc EXCEPT !.raised = "RuntimeError"]
     ELSE IF nodeobj.type # "device" THEN [acc EXCEPT !.nodes = Append(@, node)]
     ELSE IF ~Has(nodeobj, "xbar") \/ ~Has(nodeobj, "addr_range") THEN [acc EXCEPT !.raised = "KeyError"]
     ELSE AddDevice(IF nodeobj.xbar THEN SimplifyAddr(nodeobj, acc.obj) ELSE nodeobj.addr_range)

Index(x, name) == CHOOSE k \in DOMAIN x.nodes : x.nodes[k].name = name
Node(x, name) == x.nodes[Index(x, name)]

ConnectNodes(x, u, d) ==
  IF x.raised # None THEN x
  ELSE IF {u, d} \subseteq {n.name : n \in ToSet(x.nodes)}
       THEN IF [us |-> u, ds |-> d] \in ToSet(x.edges) THEN x
            ELSE LET e == Len(x.edges) + 1
                 IN [x EXCEPT !.edges = Append(@, [us |-> u, ds |-> d]),
                              !.nodes[Index(x, u)].ds = Append(@, e),
                              !.nodes[Index(x, d)].us = Append(@, e)]
  ELSE [x EXCEPT !.raised = "NoNode"]

\* connections: a sequence of [host, devices]
Validate(obj) ==
  LET Unconnected(read) == [name |-> obj.name, clock |-> obj.clock, reset |-> obj.reset, nodes |-> read.nodes,
                            edges |-> <<>>, raised |-> read.raised]
      ConnectHost(x, c) == FoldLeft(LAMBDA y, d : ConnectNodes(y, c.host, d), x, c.devices)
  IN IF ~HjsonGood(obj) THEN [raised |-> "BadHjson"]
     ELSE FoldLeft(ConnectHost,
                   Unconnected(FoldLeft(ReadNode, [obj |-> obj, nodes |-> <<>>, ranges |-> <<>>, raised |-> None],
                                        [k \in DOMAIN obj.nodes |-> k])),
                   obj.connections)

Hosts(x) == SelectSeq(x.nodes, LAMBDA n : n.type = "host")
Devices(x) == SelectSeq(x.nodes, LAMBDA n : n.type = "device")

-----------------------------------------------------------------------------
(* Elaboration: FIFOs and sockets (elaborate.py) *)

\* Xbar.insert_node after a host or FIFO (its outgoing edges move to the new
\* node) or before a device or FIFO (its incoming edges do).
InsertBelow(x, new, name) ==
  LET e == Len(x.edges) + 1
      moved == Node(x, name).ds
  IN [x EXCEPT !.nodes = Append([@ EXCEPT ![Index(x, name)].ds = <<e>>], [new EXCEPT !.us = <<e>>, !.ds = moved]),
               !.edges = Append([k \in DOMAIN @ |-> IF k \in ToSet(moved) THEN [@[k] EXCEPT !.us = new.name] ELSE @[k]],
                                [us |-> name, ds |-> new.name])]
InsertAbove(x, new, name) ==
  LET e == Len(x.edges) + 1
      moved == Node(x, name).us
  IN [x EXCEPT !.nodes = Append([@ EXCEPT ![Index(x, name)].us = <<e>>], [new EXCEPT !.ds = <<e>>, !.us = moved]),
               !.edges = Append([k \in DOMAIN @ |-> IF k \in ToSet(moved) THEN [@[k] EXCEPT !.ds = new.name] ELSE @[k]],
                                [us |-> new.name, ds |-> name])]

\* One entry a port: all ports of the socket with the same setting
Ports(n, v) == [k \in 1..n |-> v]
Fresh(x, prefix) == prefix \o ToString(Len(x.nodes))

\* Seeded fault: the nodes below a new SOCKET_1N are not processed.
CallsBelowNone(ds) == <<>>

\* process_node is called for the lower end of each edge below a SOCKET_1N.
CallsBelow(ds) == [k \in DOMAIN ds |-> [edge |-> ds[k]]]

\* process_node up to its recursive calls, which are returned: a call names a
\* node, or an edge whose lower end is looked up only when its turn comes.
ProcessNode(x, call) ==
  LET node == Node(x, IF Has(call, "edge") THEN x.edges[call.edge].ds ELSE call.node)
      asf == [NewNode(Fresh(x, "asf_"), "async_fifo", x.clock, x.reset)
                EXCEPT !.clocks = IF node.type = "host" THEN <<node.clocks[1], x.clock>> ELSE <<x.clock, node.clocks[1]>>,
                       !.resets = IF node.type = "host" THEN <<node.resets[1], x.reset>> ELSE <<x.reset, node.resets[1]>>]
      sm1 == [NewNode(Fresh(x, "sm1_"), "socket_m1", x.clock, x.reset)
                EXCEPT !.hdepth = Ports(Len(node.us), 0), !.hpass = Ports(Len(node.us), TRUE), !.ddepth = <<0>>, !.dpass = <<TRUE>>]
      s1n == [NewNode(Fresh(x, "s1n_"), "socket_1n", x.clock, x.reset)
                EXCEPT !.hdepth = <<0>>, !.hpass = <<TRUE>>, !.ddepth = Ports(Len(node.ds), 0), !.dpass = Ports(Len(node.ds), TRUE)]
  IN IF node.type # "async_fifo" /\ node.clocks[1] # x.clock
     THEN IF node.type = "host" THEN [xbar |-> InsertBelow(x, asf, node.name), calls |-> <<[node |-> asf.name]>>]
          ELSE IF node.type = "device" THEN [xbar |-> InsertAbove(x, asf, node.name), calls |-> <<[node |-> asf.name]>>]
          ELSE [xbar |-> [x EXCEPT !.raised = "RuntimeError"], calls |-> <<>>]
     ELSE IF node.type # "socket_m1" /\ Len(node.us) > 1
     THEN [xbar |-> InsertAbove(x, sm1, node.name), calls |-> <<[node |-> sm1.name]>>]
     ELSE IF node.type # "socket_1n" /\ Len(node.ds) > 1
     THEN [xbar |-> InsertBelow(x, s1n, node.name), calls |-> CallsBelow(node.ds)]
     ELSE [xbar |-> x, calls |-> <<>>]

\* Port k of one side of a socket, after the setting of the node behind it
PortSet(pass, depth, k, node) ==
  [pass |-> [pass EXCEPT ![k] = ~(node.pipeline /\ ~node.pipeline_byp)],
   depth |-> [depth EXCEPT ![k] = IF node.pipeline THEN 2 ELSE 0]]
\* The side of a socket with one port only: a bypassed FIFO passes nothing.
SoleSet(node) == [pass |-> <<~node.pipeline>>, depth |-> <<IF node.pipeline THEN 2 ELSE 0>>]

PipelineHost(x, host) ==
  LET h == Node(x, host)
      e == h.ds[1]
      k == Index(x, x.edges[e].ds)
      d == x.nodes[k]
      set == IF d.type = "socket_1n" THEN SoleSet(h)
             ELSE PortSet(d.hpass, d.hdepth, CHOOSE i \in DOMAIN d.us : d.us[i] = e, h)
  IN IF x.raised # None THEN x
     ELSE IF h.ds = <<>> THEN [x EXCEPT !.raised = "IndexError"]
     ELSE IF d.type \in {"socket_1n", "socket_m1"} THEN [x EXCEPT !.nodes[k].hpass = set.pass, !.nodes[k].hdepth = set.depth]
     ELSE x

PipelineDevice(x, device) ==
  LET d == Node(x, device)
      e == d.us[1]
      k == Index(x, x.edges[e].us)
      u == x.nodes[k]
      set == IF u.type = "socket_m1" THEN SoleSet(d)
             ELSE PortSet(u.dpass, u.ddepth, CHOOSE i \in DOMAIN u.ds : u.ds[i] = e, d)
  IN IF x.raised # None THEN x
     ELSE IF d.us = <<>> THEN [x EXCEPT !.raised = "IndexError"]
     ELSE IF u.type \in {"socket_1n", "socket_m1"} THEN [x EXCEPT !.nodes[k].dpass = set.pass, !.nodes[k].ddepth = set.depth]
     ELSE x

\* elaborate leaves a crossbar without edges as it is; the caller logs that and goes on.
CanElaborate(x) == Len(x.nodes) > 1 /\ x.edges # <<>>
ProcessPipeline(x) ==
  LET Names(nodes) == [k \in DOMAIN nodes |-> nodes[k].name]
  IN IF ~CanElaborate(x) THEN x
     ELSE FoldLeft(PipelineDevice, FoldLeft(PipelineHost, x, Names(Hosts(x))), Names(Devices(x)))

-----------------------------------------------------------------------------
(* What the generated crossbar does with an address (xbar.py, xbar.rtl.sv.tpl) *)
RECURSIVE GetDownstreamDevice(_, _)
GetDownstreamDevice(x, name) ==
  LET n == Node(x, name)
  IN IF n.type = "device" THEN n ELSE IF n.ds = <<>> THEN None ELSE GetDownstreamDevice(x, x.edges[n.ds[1]].ds)

GetLeafFromS1n(x, socket, i) == GetDownstreamDevice(x, x.edges[socket.ds[i]].ds)

RECURSIVE GetS1nIfExist(_, _)
GetS1nIfExist(x, name) ==
  LET n == Node(x, name)
  IN IF n.type \in {"device", "socket_1n"} THEN n ELSE GetS1nIfExist(x, x.edges[n.ds[1]].ds)

IsPow2(n) == n \in PowersOfTwo
\* The comparison the template writes for range i of a leaf: by mask if a size
\* is a power of two, else by bounds. With several ranges the size it tests
\* runs from the base of the first.
Matches(leaf, i, addr) ==
  LET r == leaf.addr_range[i]
      tested == End(r) - leaf.addr_range[IF Len(leaf.addr_range) = 1 THEN i ELSE 1].base
      Bit(n, p) == (n \div p) % 2 = 1
  IN IF IsPow2(tested) THEN \A p \in PowersOfTwo : Bit(r.base, p) = (Bit(addr, p) /\ ~Bit(r.size - 1, p))
     ELSE r.base <= addr /\ addr < End(r)

\* The port a SOCKET_1N selects; None is the error responder.
DevSelect(x, socket, addr) ==
  LET hits == {i \in DOMAIN socket.ds : LET leaf == GetLeafFromS1n(x, socket, i)
                                         IN \E k \in DOMAIN leaf.addr_range : Matches(leaf, k, addr)}
  IN IF hits = {} THEN None ELSE LeastOf(hits)

\* The device of this crossbar that a request of host to addr reaches
Routed(x, host, addr) ==
  LET n == GetS1nIfExist(x, host)
  IN IF n.type = "device" THEN n.name
     ELSE LET i == DevSelect(x, n, addr) IN IF i = None THEN None ELSE GetLeafFromS1n(x, n, i).name
=============================================================================
