------------------------------- MODULE IpBlock ------------------------------
(****************************************************************************)
(* The registers and windows of a block (util/reggen): the checked reading   *)
(* of Hjson descriptions (lib.py), parameters (params.py), fields, registers *)
(* and windows, and the block they make up (reg_block.py, ip_block.py).      *)
(*                                                                           *)
(* A reader returns Err where the code raises ValueError. A word is a string *)
(* of a description; Spelling says what the code reads off its letters. Junk *)
(* is a string that is no number. A block is a record; raised holds the      *)
(* exception that ended its construction.                                    *)
(****************************************************************************)
EXTENDS Integers, Sequences, FiniteSets, SequencesExt, FiniteSetsExt

CONSTANTS Err, None, Junk, X,   \* X: the string 'x', an unknown reset value
          Spelling              \* what the letters of each word say

MapSeq(Op(_), s) == <<>> \o [k \in DOMAIN s |-> Op(s[k])]
\* A key of an optional field
Get(rd, key, default) == IF key \in DOMAIN rd THEN rd[key] ELSE default

\* The first value that cannot be read stops the reader.
Unless(x, F(_)) == IF x = Err THEN Err ELSE F(x)
AllOrErr(s) == IF Err \in ToSet(s) THEN Err ELSE s

CheckKeys(rd, required_keys, optional_keys) ==
  IF required_keys \subseteq DOMAIN rd /\ DOMAIN rd \subseteq required_keys \cup optional_keys
  THEN rd ELSE Err

\* A name is a word with the numbers that were appended to it.
Name(word) == [word |-> word, sfx |-> <<>>]
Suffixed(name, k) == [name EXCEPT !.sfx = Append(@, k)]
Lower(name) == [name EXCEPT !.word = Spelling[@].lower]
CheckName(word) == IF Spelling[word].legal THEN Name(word) ELSE Err
CheckInt(v) == IF v = Junk THEN Err ELSE v
CheckXint(v) == CASE v = X -> None [] v = Junk -> Err [] OTHER -> v

-----------------------------------------------------------------------------
ParamKeys == {"desc", "type", "default", "local", "expose", "randcount", "randtype"}

\* A constant the top level draws at random
RandParameter(rd) ==
  IF \/ rd.randtype \notin {"perm", "data"}
     \/ "randcount" \notin DOMAIN rd \/ CheckInt(rd.randcount) = Err \/ rd.randcount <= 0
     \/ "type" \notin DOMAIN rd \/ "default" \in DOMAIN rd
     \/ Get(rd, "local", FALSE) \/ Get(rd, "expose", FALSE)
  THEN Err
  ELSE [kind |-> "rand", name |-> rd.name, type |-> rd.type, randcount |-> rd.randcount, randtype |-> rd.randtype]

PlainParameter(rd) ==
  LET type == Get(rd, "type", "int")
      local == Get(rd, "local", TRUE)
      expose == Get(rd, "expose", FALSE)
  IN IF \/ DOMAIN rd \cap {"randcount", "randtype"} # {}
        \/ "default" \notin DOMAIN rd
        \/ type = "int" /\ CheckInt(rd.default) = Err
        \/ local /\ expose
     THEN Err
     ELSE IF local THEN [kind |-> "local", name |-> rd.name, type |-> type, value |-> rd.default]
     ELSE [kind |-> "param", name |-> rd.name, type |-> type, default |-> rd.default, expose |-> expose]

ParseParameter(rd) ==
  IF CheckKeys(rd, {"name"}, ParamKeys) = Err THEN Err
  ELSE IF Spelling[rd.name].rndcnst /\ "randtype" \in DOMAIN rd THEN RandParameter(rd)
  ELSE PlainParameter(rd)

\* ReggenParams.from_raw: the parameters by name
AddParam(ps, rd) ==
  LET p == ParseParameter(rd)
  IN IF ps = Err \/ p = Err THEN Err
     ELSE IF p.name \in DOMAIN ps THEN Err ELSE (p.name :> p) @@ ps
ParamsFromRaw(raw) == FoldLeft(AddParam, [p \in {} |-> Err], raw)

\* apply_default. A local parameter gets a default and keeps its value.
ApplyDefault(p, value) ==
  IF p.kind = "rand" \/ (p.type = "int" /\ CheckInt(value) = Err) THEN Err
  ELSE ("default" :> value) @@ p
ApplyOne(ps, d) ==
  IF ps = Err THEN Err
  ELSE IF d.name \notin DOMAIN ps THEN Err
  ELSE LET p == ApplyDefault(ps[d.name], d.value)
       IN IF p = Err THEN Err ELSE [ps EXCEPT ![d.name] = p]
ApplyDefaults(ps, defaults) == FoldLeft(ApplyOne, ps, defaults)

\* A term of an expression is a number [n |-> ..] or a parameter [p |-> ..].
ExpandOne(ps, tok) ==
  IF "n" \in DOMAIN tok THEN tok.n
  ELSE IF tok.p \notin DOMAIN ps THEN Err
  ELSE IF ps[tok.p].kind # "local" THEN Err ELSE CheckInt(ps[tok.p].value)

\* The terms of an expression with their signs, summed from the left
Expand(ps, expr) ==
  FoldLeft(LAMBDA acc, t : LET v == ExpandOne(ps, t)
                           IN IF acc = Err \/ v = Err THEN Err ELSE IF t.neg THEN acc - v ELSE acc + v,
           0, expr)

-----------------------------------------------------------------------------
(****************************************************************************)
(* Bits, access rights and fields of a register (util/reggen/bits.py,        *)
(* access.py, enum_entry.py, field.py).                                      *)
(****************************************************************************)
Width(b) == 1 + b.msb - b.lsb
MaxValue(b) == 2^Width(b) - 1
Bitmask(b) == b.lsb..b.msb
ExtractField(b, reg_val) == (reg_val \div 2^b.lsb) % 2^Width(b)
MakeTranslated(b, bit_offset) == [msb |-> b.msb + bit_offset, lsb |-> b.lsb + bit_offset]

\* Bits are written as one index [idx |-> ..] or as two expressions.
ParseBits(ps, raw) ==
  IF "idx" \in DOMAIN raw THEN [msb |-> raw.idx, lsb |-> raw.idx]
  ELSE [msb |-> Expand(ps, raw.msb), lsb |-> Expand(ps, raw.lsb)]

BitsFromRaw(reg_width, ps, raw) ==
  IF raw = Junk THEN Err
  ELSE LET b == ParseBits(ps, raw)
       IN IF b.msb = Err \/ b.lsb = Err THEN Err
          ELSE IF b.msb < b.lsb \/ b.lsb < 0 \/ b.msb >= reg_width THEN Err ELSE b

\* Which software accesses can write and read, and which a window may have
SWACCESS_PERMITTED ==
  [none |-> [wr |-> FALSE, rd |-> FALSE, window |-> FALSE], ro |-> [wr |-> FALSE, rd |-> TRUE, window |-> TRUE],
   rc |-> [wr |-> TRUE, rd |-> TRUE, window |-> FALSE], rw |-> [wr |-> TRUE, rd |-> TRUE, window |-> TRUE],
   r0w1c |-> [wr |-> TRUE, rd |-> FALSE, window |-> FALSE], rw1s |-> [wr |-> TRUE, rd |-> TRUE, window |-> FALSE],
   rw1c |-> [wr |-> TRUE, rd |-> TRUE, window |-> FALSE], rw0c |-> [wr |-> TRUE, rd |-> TRUE, window |-> FALSE],
   wo |-> [wr |-> TRUE, rd |-> FALSE, window |-> TRUE]]
HWACCESS_PERMITTED == {"hro", "hrw", "hwo", "none"}
SWAccess(key) == IF key \in DOMAIN SWACCESS_PERMITTED THEN key ELSE Err
HWAccess(key) == IF key \in HWACCESS_PERMITTED THEN key ELSE Err

\* The values of an enumeration, in order
AddEnum(enum, v, max_val) ==
  IF enum = Err \/ CheckInt(v) = Err THEN Err
  ELSE IF v \notin 0..max_val \/ v \in ToSet(enum) THEN Err ELSE Append(enum, v)
EnumFromRaw(b, raw) == FoldLeft(LAMBDA e, v : AddEnum(e, v, MaxValue(b)), <<>>, raw)

\* The reset value of a field that may, or may not, give one, in a register that
\* may, or may not
FieldResval(rd, b, reg_resval) ==
  LET fromReg == IF reg_resval = None THEN None ELSE ExtractField(b, reg_resval)
      own == CheckXint(rd.resval)
  IN IF "resval" \notin DOMAIN rd THEN fromReg
     ELSE IF own = Err THEN Err
     ELSE IF own = None THEN (IF reg_resval = None THEN None ELSE Err)
     ELSE IF own \notin 0..MaxValue(b) \/ (reg_resval # None /\ own # fromReg) THEN Err
     ELSE own

FieldName(reg, field_idx, num_fields, rd) ==
  IF "name" \in DOMAIN rd THEN CheckName(rd.name)
  ELSE IF num_fields > 1 THEN Name("field" \o ToString(field_idx)) ELSE reg.name

\* Field.from_raw; reg holds what the register passes to its fields
FieldFromRaw(reg, field_idx, num_fields, reg_width, ps, rd) ==
  LET name == FieldName(reg, field_idx, num_fields, rd)
      swaccess == SWAccess(Get(rd, "swaccess", reg.swaccess))
      hwaccess == HWAccess(Get(rd, "hwaccess", reg.hwaccess))
  IN IF \/ CheckKeys(rd, {"bits"}, {"name", "desc", "swaccess", "hwaccess", "resval", "enum"}) = Err
        \/ Err \in {name, swaccess, hwaccess}
        \/ "name" \in DOMAIN rd /\ "desc" \notin DOMAIN rd
     THEN Err
     ELSE Unless(BitsFromRaw(reg_width, ps, rd.bits), LAMBDA bits :
          Unless(FieldResval(rd, bits, reg.resval), LAMBDA resval :
          Unless(IF "enum" \in DOMAIN rd THEN EnumFromRaw(bits, rd.enum) ELSE None, LAMBDA enum :
            [name |-> name, swaccess |-> swaccess, hwaccess |-> hwaccess, hwqe |-> reg.hwqe, hwre |-> reg.hwre,
             bits |-> bits, resval |-> resval, enum |-> enum])))

\* The copies of a field in one register, each above the one before it. The space
\* below the field is copied with it.
MakeMultiField(f, reg_width, min_reg_idx, max_reg_idx, stripped) ==
  LET field_width == f.bits.msb + 1
      Copy(reg_idx) == [f EXCEPT !.name = Suffixed(@, reg_idx),
                                 !.bits = MakeTranslated(@, field_width * (reg_idx - min_reg_idx)),
                                 !.enum = IF stripped THEN None ELSE @]
  IN IF field_width * (1 + max_reg_idx - min_reg_idx) > reg_width THEN Err
     ELSE [k \in 1..(1 + max_reg_idx - min_reg_idx) |-> Copy(min_reg_idx + k - 1)]

MakeSuffixed(f, k, stripped) == [f EXCEPT !.name = Suffixed(@, k), !.enum = IF stripped THEN None ELSE @]

-----------------------------------------------------------------------------
(****************************************************************************)
(* Registers, multi-registers and windows (util/reggen/register.py,          *)
(* multi_register.py, window.py).                                            *)
(****************************************************************************)
SwReadable(swaccess) == swaccess \notin {"wo", "r0w1c"}
SwWritable(swaccess) == swaccess # "ro"

\* The bits of a number, and the number with given bits
BitsOf(v, reg_width) == {k \in 0..(reg_width - 1) : (v \div 2^k) % 2 = 1}
ValueOf(bs) == FoldSet(LAMBDA k, acc : acc + 2^k, 0, bs)

SortFields(fields) == SortSeq(fields, LAMBDA f, g : f.bits.lsb < g.bits.lsb)

\* The test for fields that share bits. The bits seen so far are never recorded.
OverlapReported(fields) ==
  LET bits_used == {} IN \E k \in DOMAIN fields : bits_used \cap Bitmask(fields[k].bits) # {}

\* The reset value of the register, from those of its fields
CollectResval(fields, reg_width) ==
  ValueOf(UNION {{b + fields[k].bits.lsb : b \in BitsOf(fields[k].resval, reg_width)} :
                 k \in {j \in DOMAIN fields : fields[j].resval # None}})

\* Register.__init__: r has the attributes, the fields in any order, and as resval
\* the value the description gives
NewRegister(r, reg_width) ==
  LET fields == SortFields(r.fields)
      resval == CollectResval(fields, reg_width)
      sounds_shadowy == Spelling[r.name.word].shadowed /\ r.name.sfx = <<>>
  IN IF \/ r.hwext /\ r.hwaccess = "hro" /\ SwReadable(r.swaccess)
        \/ r.hwext /\ ~r.hwqe /\ SwWritable(r.swaccess)
        \/ r.hwre /\ ~r.hwext
        \/ r.shadowed # sounds_shadowy
        \/ Cardinality({fields[k].name : k \in DOMAIN fields}) < Len(fields)
        \/ OverlapReported(fields)
        \/ r.resval # None /\ r.resval # resval
     THEN Err
     ELSE [r EXCEPT !.fields = fields, !.resval = resval]

RegisterKeys ==
  {"swaccess", "hwaccess", "hwext", "hwqe", "hwre", "regwen", "resval", "shadowed", "update_err_alert", "storage_err_alert"}

RegisterFromRaw(reg_width, offset, ps, rd) ==
  LET name == CheckName(rd.name)
      regwen == IF "regwen" \in DOMAIN rd THEN CheckName(rd.regwen) ELSE None
      resval == IF "resval" \in DOMAIN rd THEN CheckInt(rd.resval) ELSE None
      alert(key) == IF key \in DOMAIN rd THEN CheckName(rd[key]) ELSE None
      r == [kind |-> "register", offset |-> offset, name |-> name, regwen |-> regwen, resval |-> resval,
            swaccess |-> SWAccess(Get(rd, "swaccess", "none")), hwaccess |-> HWAccess(Get(rd, "hwaccess", "hro")),
            hwext |-> Get(rd, "hwext", FALSE), hwqe |-> Get(rd, "hwqe", FALSE), hwre |-> Get(rd, "hwre", FALSE),
            shadowed |-> Get(rd, "shadowed", FALSE), fields |-> <<>>,
            update_err_alert |-> alert("update_err_alert"), storage_err_alert |-> alert("storage_err_alert")]
      fields == [k \in DOMAIN rd.fields |-> FieldFromRaw(r, k, Len(rd.fields), reg_width, ps, rd.fields[k])]
  IN IF CheckKeys(rd, {"name", "desc", "fields"}, RegisterKeys) = Err THEN Err
     ELSE IF Err \in {name, regwen, resval, r.swaccess, r.hwaccess, r.update_err_alert, r.storage_err_alert} THEN Err
     ELSE IF resval # None /\ resval \notin 0..(2^reg_width - 1) THEN Err
     ELSE IF rd.fields = <<>> THEN Err
     ELSE Unless(AllOrErr(fields), LAMBDA fs : NewRegister([r EXCEPT !.fields = fs], reg_width))

\* Register.make_multi
MakeMulti(r, reg_width, offset, creg_idx, creg_count, regwen_multi, compact, min_reg_idx, max_reg_idx) ==
  LET fields == IF compact THEN MakeMultiField(r.fields[1], reg_width, min_reg_idx, max_reg_idx, creg_idx > 0)
                ELSE MapSeq(LAMBDA f : MakeSuffixed(f, creg_idx, creg_idx > 0), r.fields)
  IN IF fields = Err THEN Err
     ELSE NewRegister([r EXCEPT !.offset = offset, !.resval = None, !.fields = fields,
                                !.name = IF creg_count > 1 THEN Suffixed(@, creg_idx) ELSE @,
                                !.regwen = IF @ = None \/ ~regwen_multi \/ creg_count = 1 THEN @
                                           ELSE Suffixed(@, creg_idx)],
                      reg_width)

\* The instances that compacted register creg_idx holds
Instances(count, regs_per_creg, creg_idx) ==
  [lo |-> regs_per_creg * creg_idx, hi |-> Min({regs_per_creg * (creg_idx + 1), count}) - 1]

\* MultiRegister.__init__
MultiRegister(offset, addrsep, reg_width, ps, rd) ==
  LET reg_rd == [k \in DOMAIN rd \ {"count", "cname", "regwen_multi", "compact"} |-> rd[k]]
      Cregs(reg, count, compact, regs_per_creg) ==
        LET creg_count == (count + regs_per_creg - 1) \div regs_per_creg
        IN [i \in 1..creg_count |->
             LET inst == Instances(count, regs_per_creg, i - 1)
             IN MakeMulti(reg, reg_width, offset + (i - 1) * addrsep, i - 1, creg_count, Get(rd, "regwen_multi", FALSE),
                          compact, inst.lo, inst.hi)]
  IN IF CheckKeys(rd, {"name", "desc", "count", "cname", "fields"}, RegisterKeys \cup {"regwen_multi", "compact"}) = Err
     THEN Err
     ELSE Unless(RegisterFromRaw(reg_width, offset, ps, reg_rd), LAMBDA reg :
          Unless(Expand(ps, rd.count), LAMBDA count :
            LET compact == Get(rd, "compact", Len(reg.fields) = 1)
                regs_per_creg == IF compact THEN reg_width \div (reg.fields[1].bits.msb + 1) ELSE 1
            IN IF CheckName(rd.cname) = Err \/ count <= 0 \/ (compact /\ Len(reg.fields) > 1) THEN Err
               ELSE Unless(AllOrErr(Cregs(reg, count, compact, regs_per_creg)), LAMBDA regs :
                      [kind |-> "multireg", offset |-> offset, reg |-> reg, count |-> count, compact |-> compact,
                       regs |-> regs])))

\* The power of two from n up
Po2(n) == CHOOSE p \in {2^k : k \in 0..16} : p >= n /\ p < 2 * n

Align(offset, po2_size) == ((offset + po2_size - 1) \div po2_size) * po2_size

\* Window.from_raw
WindowFromRaw(offset, reg_width, ps, rd) ==
  LET unusual == Get(rd, "unusual", FALSE)
      validbits == CheckInt(Get(rd, "validbits", reg_width))
      items == Expand(ps, rd.items)
      size == items * (reg_width \div 8)
      swaccess == SWAccess(rd.swaccess)
  IN IF \/ CheckKeys(rd, {"name", "desc", "items", "swaccess"}, {"data-intg-passthru", "byte-write", "validbits", "unusual"}) = Err
        \/ validbits = Err \/ validbits \notin 1..reg_width
        \/ items = Err \/ items <= 0
        \/ Po2(size) # size /\ ~unusual
        \/ swaccess = Err \/ ~(SWACCESS_PERMITTED[swaccess].window \/ unusual)
     THEN Err
     ELSE [kind |-> "window", offset |-> Align(offset, Po2(size)), name |-> Name(rd.name), items |-> items, size_in_bytes |-> size,
           swaccess |-> swaccess, validbits |-> validbits, data_intg_passthru |-> Get(rd, "data-intg-passthru", FALSE)]

-----------------------------------------------------------------------------
\* Blocks.
NewRegBlock(reg_width, ps) ==
  [addrsep |-> (reg_width + 7) \div 8, reg_width |-> reg_width, params |-> ps, offset |-> 0, entries |-> <<>>,
   flat_regs |-> <<>>, name_to_offset |-> [n \in {} |-> 0], wennames |-> <<>>, passthru |-> FALSE, raised |-> None]

Raise(b, e) == [b EXCEPT !.raised = e]
Refuse(b) == Raise(b, "ValueError")

NextOffset(e, addrsep) ==
  CASE e.kind = "register" -> e.offset + addrsep
    [] e.kind = "multireg" -> e.offset + Len(e.regs) * addrsep
    [] e.kind = "window" -> e.offset + e.size_in_bytes

\* _add_flat_reg, and the offset the name stands for
AddFlatReg(b, reg) ==
  IF b.raised # None THEN b
  ELSE IF Lower(reg.name) \in DOMAIN b.name_to_offset THEN Refuse(b)
  ELSE [b EXCEPT !.flat_regs = Append(@, reg), !.name_to_offset = (Lower(reg.name) :> reg.offset) @@ @]

\* An entry is listed and the next one comes after it.
AddEntry(b, e) ==
  IF b.raised # None THEN b
  ELSE [b EXCEPT !.entries = Append(@, e), !.offset = NextOffset(e, b.addrsep)]

AddWen(b, reg) ==
  IF b.raised # None \/ reg.regwen = None \/ reg.regwen \in ToSet(b.wennames) THEN b
  ELSE [b EXCEPT !.wennames = Append(@, reg.regwen)]
AddRegister(b, reg) == AddWen(AddEntry(AddFlatReg(b, reg), reg), reg)

\* What was read is added to the block.
Checked(b, x, Add(_, _)) == IF x = Err THEN Refuse(b) ELSE Add(b, x)

HandleRegister(b, body) == Checked(b, RegisterFromRaw(b.reg_width, b.offset, b.params, body), AddRegister)

HandleReserved(b, body) ==
  IF CheckInt(body) = Err \/ body <= 0 THEN Refuse(b)
  ELSE [b EXCEPT !.offset = @ + b.addrsep * body]

\* Seeded fault: one may skip back
HandleSkiptoBack(b, body) ==
  IF CheckInt(body) = Err \/ body % b.addrsep # 0 THEN Refuse(b) ELSE [b EXCEPT !.offset = body]

HandleSkipto(b, body) ==
  IF CheckInt(body) = Err \/ body < b.offset \/ body % b.addrsep # 0 THEN Refuse(b)
  ELSE [b EXCEPT !.offset = body]

AddWindow(b, w) ==
  IF Lower(w.name) \in DOMAIN b.name_to_offset THEN Refuse(b)
  ELSE AddEntry([b EXCEPT !.name_to_offset = (Lower(w.name) :> w.offset) @@ @,
                          !.passthru = @ \/ w.data_intg_passthru], w)
HandleWindow(b, body) ==
  IF b.reg_width % 8 # 0 THEN Raise(b, "AssertionError")
  ELSE Checked(b, WindowFromRaw(b.offset, b.reg_width, b.params, body), AddWindow)

AddMultireg(b, mr) == AddEntry(FoldLeft(AddFlatReg, b, mr.regs), mr)
HandleMultireg(b, body) == Checked(b, MultiRegister(b.offset, b.addrsep, b.reg_width, b.params, body), AddMultireg)

\* add_raw: an entry with a key that gives its type has no other key.
SpecialKeys == {"reserved", "skipto", "window", "multireg"}
AddRaw(b, entry) ==
  LET special == DOMAIN entry \cap SpecialKeys
  IN IF b.raised # None THEN b
     ELSE IF special = {} THEN HandleRegister(b, entry)
     ELSE IF Cardinality(DOMAIN entry) # 1 THEN Refuse(b)
     ELSE CASE special = {"reserved"} -> HandleReserved(b, entry.reserved)
            [] special = {"skipto"} -> HandleSkipto(b, entry.skipto)
            [] special = {"window"} -> HandleWindow(b, entry.window)
            [] special = {"multireg"} -> HandleMultireg(b, entry.multireg)
AddRawRegisters(b, raw) == FoldLeft(AddRaw, b, raw)

FlatReg(b, lname) == b.flat_regs[CHOOSE k \in DOMAIN b.flat_regs : Lower(b.flat_regs[k].name) = lname]
HasFlatReg(b, lname) == \E k \in DOMAIN b.flat_regs : Lower(b.flat_regs[k].name) = lname

\* A write enable has a name that says so, exists, and is cleared by software or set
\* by hardware.
WenGood(b, wenname) ==
  /\ Spelling[wenname.word].regwen /\ Len(wenname.sfx) <= 1
  /\ HasFlatReg(b, Lower(wenname))
  /\ LET w == FlatReg(b, Lower(wenname))
     IN \/ w.swaccess = "rw0c" /\ w.resval # 0
        \/ w.swaccess = "ro" /\ w.hwaccess = "hwo"

Validate(b) ==
  IF b.raised # None \/ \A k \in DOMAIN b.wennames : WenGood(b, b.wennames[k]) THEN b ELSE Refuse(b)

\* build_blocks: the blocks by name. A plain list is one block without a name, which
\* is not validated. In a dictionary the first block continues the given one.
BuildBlocks(block, raw) ==
  IF "list" \in DOMAIN raw THEN (None :> AddRawRegisters(block, raw.list))
  ELSE [key \in {raw.dict[k].key : k \in DOMAIN raw.dict} |->
         LET k == CHOOSE j \in DOMAIN raw.dict : raw.dict[j].key = key
             b == IF k = 1 THEN block ELSE NewRegBlock(block.reg_width, block.params)
         IN Validate(AddRawRegisters(b, raw.dict[k].entries))]

\* _add_intr_alert_reg: a register with one field per signal
SignalField(s, swaccess, hwaccess, is_testreg) ==
  [name |-> s.name, swaccess |-> swaccess, hwaccess |-> hwaccess, hwqe |-> is_testreg, hwre |-> FALSE,
   bits |-> s.bits, resval |-> 0, enum |-> None]
AddIntrAlertReg(b, signals, reg_name, swaccess, hwaccess, is_testreg) ==
  LET reg == NewRegister([kind |-> "register", offset |-> b.offset, name |-> Name(reg_name), regwen |-> None, resval |-> None,
                swaccess |-> swaccess, hwaccess |-> hwaccess, hwext |-> is_testreg, hwqe |-> is_testreg,
                hwre |-> FALSE, shadowed |-> FALSE, update_err_alert |-> None, storage_err_alert |-> None,
                fields |-> MapSeq(LAMBDA s : SignalField(s, swaccess, hwaccess, is_testreg), signals)], b.reg_width)
  IN IF b.raised # None THEN b ELSE Checked(b, reg, AddRegister)

MakeIntrRegs(b, interrupts) ==
  LET b1 == AddIntrAlertReg(b, interrupts, "INTR_STATE", "rw1c", "hrw", FALSE)
      b2 == AddIntrAlertReg(b1, interrupts, "INTR_ENABLE", "rw", "hro", FALSE)
  IN AddIntrAlertReg(b2, interrupts, "INTR_TEST", "wo", "hro", TRUE)

\* A block with as many alerts as a register has bits fails the assertion.
MakeAlertRegs(b, alerts) ==
  IF Len(alerts) >= b.reg_width THEN Raise(b, "AssertionError")
  ELSE AddIntrAlertReg(b, alerts, "ALERT_TEST", "wo", "hro", TRUE)

\* The number of bits that address every byte of the block
GetAddrWidth(b) == IF b.offset = 0 THEN 1 ELSE CHOOSE w \in 0..16 : 2^w >= b.offset /\ (w = 0 \/ 2^(w - 1) < b.offset)

\* as_dicts: the entries, with the words left free before each
Gap(b, k) == b.entries[k].offset - (IF k = 1 THEN 0 ELSE NextOffset(b.entries[k - 1], b.addrsep))

-----------------------------------------------------------------------------
(****************************************************************************)
(* The description of an IP block (util/reggen/ip_block.py, signal.py,       *)
(* alert.py, inter_signal.py, bus_interfaces.py).                            *)
(****************************************************************************)
\* Signals of one list take the bits of a word from the bottom up.
SignalFromRaw(lsb, rd) ==
  LET width == CheckInt(Get(rd, "width", 1))
  IN IF CheckKeys(rd, {"name", "desc"}, {"width"}) = Err \/ width = Err \/ CheckName(rd.name) = Err THEN Err
     ELSE IF width <= 0 THEN Err
     ELSE [name |-> Name(rd.name), bits |-> [msb |-> lsb + width - 1, lsb |-> lsb]]
AddSignal(sigs, rd) ==
  IF sigs = Err THEN Err
  ELSE LET s == SignalFromRaw(IF sigs = <<>> THEN 0 ELSE Last(sigs).bits.msb + 1, rd)
       IN IF s = Err THEN Err ELSE Append(sigs, s)
SignalsFromRaw(raw) == FoldLeft(AddSignal, <<>>, raw)

\* Alerts take one bit each; the name says whether an alert is fatal.
AlertFromRaw(lsb, rd) ==
  IF CheckKeys(rd, {"name", "desc"}, {}) = Err \/ CheckName(rd.name) = Err THEN Err
  ELSE IF Spelling[rd.name].prefix \notin {"recov", "fatal"} THEN Err
  ELSE [name |-> Name(rd.name), bits |-> [msb |-> lsb, lsb |-> lsb], fatal |-> Spelling[rd.name].prefix = "fatal"]
AlertsFromRaw(raw) ==
  LET as == [k \in DOMAIN raw |-> AlertFromRaw(k - 1, raw[k])] IN IF Err \in ToSet(as) THEN Err ELSE as

InterSignalFromRaw(rd) ==
  LET width == CheckInt(Get(rd, "width", 1))
  IN IF CheckKeys(rd, {"name", "struct", "type", "act"}, {"desc", "package", "width", "default"}) = Err THEN Err
     ELSE IF width = Err \/ ~Spelling[rd.name].legal THEN Err
     ELSE IF width <= 0 THEN Err
     ELSE [name |-> rd.name, struct |-> rd.struct, package |-> Get(rd, "package", None), type |-> rd.type,
           act |-> rd.act, width |-> width, default |-> Get(rd, "default", None)]
InterSignalsFromRaw(raw) ==
  LET is == [k \in DOMAIN raw |-> InterSignalFromRaw(raw[k])] IN IF Err \in ToSet(is) THEN Err ELSE is

-----------------------------------------------------------------------------
\* The bus interfaces: the names of the hosts and of the devices, None for the one
\* that has no name
AddInterface(bi, rd) ==
  LET name == Get(rd, "name", None)
  IN IF bi = Err THEN Err
     ELSE IF \/ CheckKeys(rd, {"protocol", "direction"}, {"name"}) = Err
             \/ rd.protocol # "tlul" \/ rd.direction \notin {"host", "device"}
     THEN Err
     ELSE IF name \in ToSet(bi[rd.direction]) THEN Err
     ELSE [bi EXCEPT ![rd.direction] = Append(@, name)]
BusInterfacesFromRaw(raw) ==
  LET bi == FoldLeft(AddInterface, [host |-> <<>>, device |-> <<>>], raw)
  IN IF bi = Err THEN Err ELSE IF bi.device = <<>> THEN Err ELSE bi

\* _interfaces: hosts before devices, the one without a name before the others
UnnamedFirst(names) == SelectSeq(names, LAMBDA n : n = None) \o SelectSeq(names, LAMBDA n : n # None)
Interfaces(bi) ==
  LET side(is_host, names) == [k \in DOMAIN names |-> [is_host |-> is_host, name |-> names[k]]]
  IN side(TRUE, UnnamedFirst(bi.host)) \o side(FALSE, UnnamedFirst(bi.device))

\* get_port_name
PortName(bi, is_host, name) ==
  LET suffix == IF is_host THEN "tl_h" ELSE IF bi.host # <<>> THEN "tl_d" ELSE "tl"
  IN IF name = None THEN suffix ELSE name \o "_" \o suffix
PortNames(bi, inc_hosts, inc_devices) ==
  LET ifs == SelectSeq(Interfaces(bi), LAMBDA i : IF i.is_host THEN inc_hosts ELSE inc_devices)
  IN [k \in DOMAIN ifs |-> PortName(bi, ifs[k].is_host, ifs[k].name)]
BusInterSignals(bi) ==
  LET names == PortNames(bi, TRUE, TRUE)
  IN [k \in DOMAIN names |-> [name |-> names[k], struct |-> "tl", package |-> "tlul_pkg", type |-> "req_rsp",
                              act |-> "rsp", width |-> 1, default |-> None]]
\* find_port_name
HasInterface(bi, is_host, name) == name \in ToSet(bi[IF is_host THEN "host" ELSE "device"])
FindPortName(bi, is_host, name) == IF HasInterface(bi, is_host, name) THEN PortName(bi, is_host, name) ELSE Err

-----------------------------------------------------------------------------
IpKeys ==
  {"alert_list", "available_inout_list", "available_input_list", "available_output_list", "interrupt_list",
   "inter_signal_list", "no_auto_alert_regs", "no_auto_intr_regs", "other_clock_list", "other_reset_list",
   "param_list", "regwidth", "reset_primary", "reset_request_list", "scan", "scan_reset", "scan_en", "wakeup_list"}

\* The parameter NumAlerts of a block with alerts
NumAlertsParam(ps, alerts) ==
  LET p == [kind |-> "local", name |-> "NumAlerts", type |-> "int", value |-> Len(alerts)]
  IN IF alerts = <<>> THEN ps
     ELSE IF "NumAlerts" \notin DOMAIN ps THEN ("NumAlerts" :> p) @@ ps
     ELSE LET q == ps["NumAlerts"]
          IN IF q.kind # "local" THEN Err
             ELSE IF q.type # "int" \/ q.value # p.value THEN Err ELSE ps

\* The registers made for interrupts and alerts come before those of the description.
InitIntrs(b, interrupts, no_auto_intr) ==
  IF interrupts = <<>> \/ no_auto_intr THEN b
  ELSE IF Last(interrupts).bits.msb >= b.reg_width THEN Refuse(b)
  ELSE MakeIntrRegs(b, interrupts)
InitAlerts(b, alerts, no_auto_alert) ==
  IF alerts = <<>> \/ no_auto_alert \/ b.raised # None THEN b
  ELSE IF Len(alerts) > b.reg_width THEN Refuse(b)
  ELSE MakeAlertRegs(b, alerts)
InitBlock(regwidth, ps, interrupts, no_auto_intr, alerts, no_auto_alert) ==
  InitAlerts(InitIntrs(NewRegBlock(regwidth, ps), interrupts, no_auto_intr), alerts, no_auto_alert)

\* The first exception stops from_raw.
Refused == [raised |-> "ValueError"]
Need(x, F(_)) == IF x = Err THEN Refused ELSE F(x)
NeedAll(bs, F(_)) ==
  LET raised == {k \in DOMAIN bs : bs[k].raised # None}
  IN IF raised = {} THEN F(bs) ELSE [raised |-> bs[CHOOSE k \in raised : TRUE].raised]

\* The signals that come after the registers
SignalLists(rd) ==
  [inout |-> SignalsFromRaw(Get(rd, "available_inout_list", <<>>)), input |-> SignalsFromRaw(Get(rd, "available_input_list", <<>>)),
   output |-> SignalsFromRaw(Get(rd, "available_output_list", <<>>)), wakeups |-> SignalsFromRaw(Get(rd, "wakeup_list", <<>>)),
   rst_reqs |-> SignalsFromRaw(Get(rd, "reset_request_list", <<>>))]

\* The block, when its register blocks are those of its device interfaces
NewIpBlock(rd, regwidth, ps, blocks, interrupts, alerts, inter, bi, lists) ==
  IF Err \in {inter, bi} \/ \E l \in DOMAIN lists : lists[l] = Err THEN Refused
  ELSE IF DOMAIN blocks # ToSet(bi.device) THEN Refused
  ELSE [raised |-> None, name |-> rd.name, regwidth |-> regwidth, params |-> ps, reg_blocks |-> blocks,
        interrupts |-> interrupts, alerts |-> alerts, inter_signals |-> inter \o BusInterSignals(bi), bus_interfaces |-> bi,
        clock_signals |-> <<rd.clock_primary>> \o Get(rd, "other_clock_list", <<>>),
        reset_signals |-> <<Get(rd, "reset_primary", "rst_ni")>> \o Get(rd, "other_reset_list", <<>>),
        xputs |-> [d \in {"inout", "input", "output"} |-> lists[d]], wakeups |-> lists.wakeups,
        reset_requests |-> lists.rst_reqs, scan |-> Get(rd, "scan", FALSE),
        scan_reset |-> Get(rd, "scan_reset", FALSE), scan_en |-> Get(rd, "scan_en", FALSE)]

\* IpBlock.from_raw: the block, or the exception that stopped it
IpBlockFromRaw(rd, param_defaults) ==
  LET regwidth == CheckInt(Get(rd, "regwidth", 32))
  IN IF CheckKeys(rd, {"name", "clock_primary", "bus_interfaces", "registers"}, IpKeys) = Err THEN Refused
     ELSE IF regwidth = Err \/ CheckName(rd.name) = Err THEN Refused
     ELSE IF regwidth <= 0 THEN Refused
     ELSE
     Need(ApplyDefaults(ParamsFromRaw(Get(rd, "param_list", <<>>)), param_defaults), LAMBDA ps0 :
     Need(SignalsFromRaw(Get(rd, "interrupt_list", <<>>)), LAMBDA interrupts :
     Need(AlertsFromRaw(Get(rd, "alert_list", <<>>)), LAMBDA alerts :
     NeedAll(<<InitBlock(regwidth, ps0, interrupts, Get(rd, "no_auto_intr_regs", interrupts = <<>>),
                         alerts, Get(rd, "no_auto_alert_regs", alerts = <<>>))>>, LAMBDA init :
     Need(NumAlertsParam(ps0, alerts), LAMBDA ps :
     NeedAll(BuildBlocks([init[1] EXCEPT !.params = ps], rd.registers), LAMBDA blocks :
     NewIpBlock(rd, regwidth, ps, blocks, interrupts, alerts, InterSignalsFromRaw(Get(rd, "inter_signal_list", <<>>)),
                BusInterfacesFromRaw(rd.bus_interfaces), SignalLists(rd))))))))
=============================================================================
