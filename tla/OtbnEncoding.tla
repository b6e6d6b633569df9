---------------------------- MODULE OtbnEncoding ----------------------------
(***************************************************************************)
(* The OTBN instruction set description (hw/ip/otbn/util/shared): operand   *)
(* types and the three representations of an operand, text, operand value   *)
(* and encoded value (operand.py), encodings (bit_ranges.py,                *)
(* bool_literal.py, encoding_scheme.py, encoding.py), syntaxes,             *)
(* instructions and the instruction file (syntax.py, lsu_desc.py,           *)
(* insn_yaml.py), and the simulator's decoder                               *)
(* (hw/ip/otbn/dv/otbnsim/sim/decode.py).                                   *)
(*                                                                          *)
(* A width of 0 stands for None.  Text is a record [form, n]: a register,   *)
(* an integer, a PC-relative ". + n", an enum item, an option name.         *)
(***************************************************************************)
EXTENDS Integers, Sequences, FiniteSetsExt, SequencesExt

CONSTANTS
    RegBits,    \* width of a register operand (5)
    CsrBits,    \* width of a CSR index (12)
    WsrBits,    \* width of a WSR index (8)
    Broken      \* stands for a raised ValueError, RuntimeError or assertion

ASSUME OperandWidths == {RegBits, CsrBits, WsrBits} \subseteq Nat \ {0}

\* Results of op_val_to_enc_val that are not an encoded value.
Unknown == -1       \* None: no width, or PC-relative and no PC
Refused == -2       \* ValueError

NoPc == -1          \* cur_pc is None

\* The first error stops the reader.
Unless(x, F(_)) == IF x = Broken THEN Broken ELSE F(x)

Lowest(S) == CHOOSE x \in S : \A y \in S : x <= y

\* int.bit_length(n)
BitLength(n) == Lowest({w \in 0 .. n : 2 ^ w > n})

RegType(fmt) ==
    [class |-> "reg", width |-> RegBits, offset |-> 0, shift |-> 0, signed |-> FALSE,
     pcRel |-> FALSE, items |-> <<IF fmt \in {"grs", "grd"} THEN "x" ELSE "w">>]

MakeReg(fmt, fieldWidth) ==
    IF fieldWidth \notin {0, RegBits} THEN Broken ELSE RegType(fmt)

MakeImm(width, offset, shift, signed, pcRel, fieldWidth) ==
    LET w == IF fieldWidth # 0 /\ width = 0 THEN fieldWidth ELSE width IN
    IF fieldWidth \notin {0, w}
    THEN Broken
    ELSE [class |-> "imm", width |-> w, offset |-> offset, shift |-> shift,
          signed |-> signed, pcRel |-> pcRel, items |-> <<>>]

MakeEnum(items, fieldWidth) ==
    LET need == BitLength(Len(items) - 1)
        w    == IF fieldWidth = 0 THEN need ELSE fieldWidth IN
    IF w < need \/ w = 0
    THEN Broken
    ELSE [class |-> "enum", width |-> w, offset |-> 0, shift |-> 0, signed |-> FALSE,
          pcRel |-> FALSE, items |-> items]

MakeOption(items, fieldWidth) ==
    [class |-> "option", width |-> IF fieldWidth = 0 THEN 1 ELSE fieldWidth,
     offset |-> 0, shift |-> 0, signed |-> FALSE, pcRel |-> FALSE, items |-> items]

\* The type descriptions "grs", "csr", "simm12+1<<2", "enum(a, b)", "option(z)" are
\* records [base, width, offset, shift, items].
ParseOperandType(fmt, pcRel, fieldWidth) ==
    CASE fmt.base \in {"grs", "grd", "wrs", "wrd"} ->
            IF pcRel THEN Broken ELSE MakeReg(fmt.base, fieldWidth)
      [] fmt.base \in {"csr", "wsr"} ->
            IF pcRel THEN Broken
            ELSE MakeImm(IF fmt.base = "csr" THEN CsrBits ELSE WsrBits,
                         0, 0, FALSE, FALSE, fieldWidth)
      [] fmt.base \in {"simm", "uimm"} ->
            MakeImm(fmt.width, fmt.offset, fmt.shift, fmt.base = "simm", pcRel, fieldWidth)
      [] fmt.base = "enum" -> IF pcRel THEN Broken ELSE MakeEnum(fmt.items, fieldWidth)
      [] fmt.base = "option" -> IF pcRel THEN Broken ELSE MakeOption(fmt.items, fieldWidth)
      [] OTHER -> Broken

BareType(base) == [base |-> base, width |-> 0, offset |-> 0, shift |-> 0, items |-> <<>>]

\* The names a type can be guessed from.
InferOperandType(name, pcRel, fieldWidth) ==
    LET base == CASE name \in {"grs", "grs1", "grs2"} -> "grs"
                  [] name \in {"grd", "wrd", "csr", "wsr"} -> name
                  [] name \in {"wrs", "wrs1", "wrs2"} -> "wrs"
                  [] name \in {"imm", "imm0", "imm1", "offset"} -> "simm"
                  [] OTHER -> "none" IN
    ParseOperandType(BareType(base), pcRel, fieldWidth)

MakeOperandType(op, fieldWidth) ==
    IF op.type.base = "infer"
    THEN InferOperandType(op.name, op.pcRel, fieldWidth)
    ELSE ParseOperandType(op.type, op.pcRel, fieldWidth)

-----------------------------------------------------------------------------
(* Ranges *)

GetEncRange(t) ==
    IF t.signed THEN <<-(2 ^ t.width \div 2), 2 ^ t.width \div 2 - 1>>
                ELSE <<0, 2 ^ t.width - 1>>

GetDocRange(t) ==
    LET r == GetEncRange(t) IN
    <<(r[1] + t.offset) * 2 ^ t.shift, (r[2] + t.offset) * 2 ^ t.shift>>

GetMaxEncVal(t) ==
    CASE t.class = "enum" -> Len(t.items) - 1
      [] t.class = "option" -> 1
      [] OTHER -> 2 ^ t.width - 1

\* Every class but "imm" encodes an operand value as itself.
GetOpValRange(t, pc) ==
    IF t.class # "imm" THEN <<0, GetMaxEncVal(t)>>
    ELSE LET r == GetDocRange(t) off == IF t.pcRel THEN pc ELSE 0 IN
         <<r[1] + off, r[2] + off>>

-----------------------------------------------------------------------------
(* Conversions *)

BasicEncVal(t, v) ==
    IF t.width = 0 THEN Unknown
    ELSE IF v < 0 \/ v >= 2 ^ t.width THEN Refused ELSE v

ImmEncVal(t, v, pc) ==
    LET rel == IF t.pcRel THEN v - pc ELSE v
        off == rel \div 2 ^ t.shift - t.offset
        rng == GetEncRange(t) IN
    IF t.width = 0 \/ (t.pcRel /\ pc = NoPc) THEN Unknown
    ELSE IF rel % 2 ^ t.shift # 0 \/ ~(rng[1] <= off /\ off <= rng[2]) THEN Refused
    ELSE IF off < 0 THEN 2 ^ t.width + off ELSE off

OpValToEncVal(t, v, pc) ==
    IF t.class = "imm" THEN ImmEncVal(t, v, pc) ELSE BasicEncVal(t, v)

EncValToOpVal(t, e, pc) ==
    LET s == IF t.signed /\ e >= 2 ^ (t.width - 1) THEN e - 2 ^ t.width ELSE e IN
    IF t.class # "imm" THEN e
    ELSE (s + t.offset) * 2 ^ t.shift + (IF t.pcRel THEN pc ELSE 0)

RegToStr(t, v) == [form |-> t.items[1], n |-> v]
ImmToStr(t, v, pc) ==
    IF t.pcRel /\ pc # NoPc THEN [form |-> "rel", n |-> v - pc] ELSE [form |-> "int", n |-> v]
EnumToStr(t, v) ==
    [form |-> IF v \in 0 .. Len(t.items) - 1 THEN t.items[v + 1] ELSE "???", n |-> 0]
\* An option that is not set prints nothing.
OptionToStr(t, v) == [form |-> IF v = 1 THEN t.items[1] ELSE "", n |-> 0]

OpValToStr(t, v, pc) ==
    CASE t.class = "reg" -> RegToStr(t, v)
      [] t.class = "imm" -> ImmToStr(t, v, pc)
      [] t.class = "enum" -> EnumToStr(t, v)
      [] t.class = "option" -> OptionToStr(t, v)

\* A value is wrapped in a one-element sequence; the empty one is the soft failure (None)
\* of an immediate that is not a number.
StrToReg(t, s) == IF s.form = t.items[1] /\ s.n < 2 ^ RegBits THEN <<s.n>> ELSE Broken
StrToImm(t, s) == IF s.form = "int" THEN <<s.n>> ELSE <<>>
StrToEnum(t, s) ==
    LET found == {i \in 1 .. Len(t.items) : t.items[i] = s.form} IN
    IF found = {} THEN Broken ELSE <<Lowest(found) - 1>>
StrToOption(t, s) == IF s.form = t.items[1] THEN <<1>> ELSE Broken

StrToOpVal(t, s) ==
    CASE t.class = "reg" -> StrToReg(t, s)
      [] t.class = "imm" -> StrToImm(t, s)
      [] t.class = "enum" -> StrToEnum(t, s)
      [] t.class = "option" -> StrToOption(t, s)

-----------------------------------------------------------------------------
(***************************************************************************)
(* Instruction encodings: bit ranges, base-2 literals, encoding schemes     *)
(* with inheritance, encodings, syntaxes and the instruction file that is   *)
(* made of them (hw/ip/otbn/util/shared: bit_ranges.py, bool_literal.py,    *)
(* encoding_scheme.py, encoding.py, syntax.py, lsu_desc.py, insn_yaml.py).  *)
(*                                                                          *)
(* A word and a mask are sets of bit positions.  A literal is a sequence of *)
(* "0", "1", "x", most significant first; the empty one stands for None.    *)
(***************************************************************************)
CONSTANT WordBits   \* width of an instruction word (32)

ASSUME WordWidth == WordBits \in Nat \ {0}

AllBits == 0 .. WordBits - 1

BitsOf(v, width) == {i \in 0 .. width - 1 : (v \div 2 ^ i) % 2 = 1}
ValueOf(bits) == FoldSet(LAMBDA i, acc : acc + 2 ^ i, 0, bits)

-----------------------------------------------------------------------------
(* Bit ranges: sequences of <<msb, lsb>> *)

RangeWidth(r) == r[1] - r[2] + 1
WidthOf(ranges) == FoldSeq(LAMBDA r, acc : acc + RangeWidth(r), 0, ranges)

BitRangesFromYaml(ranges) ==
    IF \/ ranges = <<>>
       \/ \E r \in ToSet(ranges) : r[1] < r[2] \/ r[1] >= WordBits
       \/ \E i, j \in 1 .. Len(ranges) :
            i < j /\ (ranges[i][2] .. ranges[i][1]) \cap (ranges[j][2] .. ranges[j][1]) # {}
    THEN Broken
    ELSE [ranges |-> ranges, width |-> WidthOf(ranges),
          mask |-> UNION {r[2] .. r[1] : r \in ToSet(ranges)}]

\* The lowest bit of the value that goes to the i-th range.
ValueLsb(b, i) == b.width - WidthOf(SubSeq(b.ranges, 1, i))

EncodeBits(b, value) ==
    UNION {LET r == b.ranges[i] IN
           {r[2] + k : k \in BitsOf((value \div 2 ^ ValueLsb(b, i)) % 2 ^ RangeWidth(r),
                                    RangeWidth(r))}
           : i \in 1 .. Len(b.ranges)}

DecodeBits(b, raw) ==
    FoldLeft(LAMBDA acc, r : acc * 2 ^ RangeWidth(r)
                             + ValueOf({k - r[2] : k \in raw \cap (r[2] .. r[1])}),
             0, b.ranges)

\* char_for_bit
LiteralBit(lit, bit) == lit[Len(lit) - bit]

-----------------------------------------------------------------------------
(* Encoding schemes.  A scheme is [parents, fields]; a parent is [parent, settings], *)
(* a field is [bits, value].                                                         *)

FieldFromYaml(f) ==
    LET b == BitRangesFromYaml(f.bits) IN
    IF b = Broken \/ (b # Broken /\ f.value # <<>> /\ Len(f.value) # b.width)
    THEN Broken
    ELSE [bits |-> b, value |-> f.value]

Overlapping(fields) ==
    \E m, n \in DOMAIN fields : m # n /\ fields[m].bits.mask \cap fields[n].bits.mask # {}

SchemeFieldsFromYaml(raw) ==
    LET fields == [n \in DOMAIN raw |-> FieldFromYaml(raw[n])] IN
    IF \E n \in DOMAIN raw : fields[n] = Broken THEN Broken
    ELSE IF Overlapping(fields) THEN Broken ELSE fields

ApplySettings(imp, fields) ==
    IF \E n \in DOMAIN imp.settings :
            \/ n \notin DOMAIN fields
            \/ fields[n].bits.width # Len(imp.settings[n])
    THEN Broken
    ELSE [n \in DOMAIN fields |->
            IF n \in DOMAIN imp.settings THEN [fields[n] EXCEPT !.value = imp.settings[n]]
                                         ELSE fields[n]]

MaskOf(fields) == UNION {fields[n].bits.mask : n \in DOMAIN fields}

MergeIn(left, right) ==
    IF left = Broken \/ right = Broken THEN Broken
    ELSE IF DOMAIN left \cap DOMAIN right # {} \/ MaskOf(left) \cap MaskOf(right) # {}
    THEN Broken
    ELSE left @@ right

RECURSIVE ResolveScheme(_, _, _)
ResolveScheme(schemes, name, stack) ==
    IF name \in stack \/ name \notin DOMAIN schemes THEN Broken
    ELSE LET Parent(imp) ==
                 LET r == ResolveScheme(schemes, imp.parent, stack \cup {name}) IN
                 IF r = Broken THEN Broken ELSE ApplySettings(imp, r) IN
         MergeIn(FoldLeft(LAMBDA acc, imp : MergeIn(acc, Parent(imp)),
                          <<>>, schemes[name].parents),
                 SchemeFieldsFromYaml(schemes[name].fields))

\* EncSchemes.resolve: a scheme an instruction uses covers every bit of the word.
CompleteScheme(schemes, name) ==
    Unless(ResolveScheme(schemes, name, {}), LAMBDA f : IF MaskOf(f) # AllBits THEN Broken ELSE f)

\* A scheme that names no parent and no field, or one parent twice, is refused.
SchemesWellFormed(schemes) ==
    \A n \in DOMAIN schemes :
        LET ps == schemes[n].parents IN
        /\ ps # <<>> \/ DOMAIN schemes[n].fields # {}
        /\ \A i, j \in 1 .. Len(ps) : ps[i].parent = ps[j].parent => i = j
        /\ SchemeFieldsFromYaml(schemes[n].fields) # Broken

-----------------------------------------------------------------------------
(* Encodings.  A field of an encoding is [bits, op, lit]: op is an operand name, or "" *)
(* when the field holds the literal lit.                                              *)

MapFields(sf, enc) ==
    LET open == {n \in DOMAIN sf : sf[n].value = <<>>}
        map  == enc.mapping
        used == {n \in open : map[n].op # ""} IN
    IF DOMAIN map # open THEN Broken
    ELSE IF \/ \E n \in open \ used : Len(map[n].lit) # sf[n].bits.width
            \/ \E m, n \in used : m # n /\ map[m].op = map[n].op
    THEN Broken
    ELSE [n \in DOMAIN sf |->
            [bits |-> sf[n].bits,
             op   |-> IF n \in used THEN map[n].op ELSE "",
             lit  |-> CASE n \in used -> <<>>
                        [] n \in open \ used -> map[n].lit
                        [] OTHER -> sf[n].value]]

EncodingFrom(schemes, enc) ==
    Unless(CompleteScheme(schemes, enc.scheme), LAMBDA sf : MapFields(sf, enc))

OpFields(e) == {n \in DOMAIN e : e[n].op # ""}
FieldOf(e, op) == CHOOSE n \in OpFields(e) : e[n].op = op

\* The bits of a literal field whose description is one of descs.
LiteralMask(f, descs) ==
    UNION {LET r == f.bits.ranges[i] IN
           {r[2] + k : k \in {k \in 0 .. RangeWidth(r) - 1 :
                                LiteralBit(f.lit, ValueLsb(f.bits, i) + k) \in descs}}
           : i \in 1 .. Len(f.bits.ranges)}

FieldMask(f, descs) == IF f.op # "" THEN f.bits.mask ELSE LiteralMask(f, descs)

\* get_masks: the bits that may be zero, the bits that may be one.
ZerosMask(e) == UNION {FieldMask(e[n], {"0", "x"}) : n \in DOMAIN e}
OnesMask(e) == UNION {FieldMask(e[n], {"1", "x"}) : n \in DOMAIN e}

\* Encoding.assemble: a missing operand is encoded as zero.
AssembleWord(e, encVals) ==
    LET Val(n) == IF e[n].op \in DOMAIN encVals THEN encVals[e[n].op] ELSE 0 IN
    IF \E n \in OpFields(e) : Val(n) >= 2 ^ e[n].bits.width
    THEN Broken
    ELSE (OnesMask(e) \ ZerosMask(e))
         \cup UNION {EncodeBits(e[n].bits, Val(n)) : n \in OpFields(e)}

ExtractOperands(e, word) ==
    [op \in {e[n].op : n \in OpFields(e)} |-> DecodeBits(e[FieldOf(e, op)].bits, word)]

-----------------------------------------------------------------------------
(* Syntaxes.  A syntax is a sequence of hunks [optional, tokens]; a token is [lit, text], *)
(* a literal or the name of an operand.  A line of assembly is the sequence of the texts  *)
(* of its tokens.                                                                         *)

HunkOps(h) == SelectSeq(h.tokens, LAMBDA t : ~t.lit)
SyntaxOps(hunks) == FlattenSeq([i \in 1 .. Len(hunks) |-> HunkOps(hunks[i])])

Comma == [lit |-> TRUE, text |-> ","]

\* from_list: all operands, separated by commas.
SyntaxFromList(names) ==
    IF names = <<>> THEN <<>>
    ELSE <<[optional |-> FALSE,
            tokens |-> FlattenSeq([i \in 1 .. Len(names) |->
                          LET op == [lit |-> FALSE, text |-> names[i]] IN
                          IF i = 1 THEN <<op>> ELSE <<Comma, op>>])]>>

\* from_string and from_yaml: no empty hunk, no two operands side by side in a hunk, no
\* operand twice.
SyntaxFromYaml(hunks) ==
    LET ops == SyntaxOps(hunks) IN
    IF \/ \E i \in 1 .. Len(hunks) :
            \/ hunks[i].tokens = <<>>
            \/ \E k \in 1 .. Len(hunks[i].tokens) - 1 :
                 ~hunks[i].tokens[k].lit /\ ~hunks[i].tokens[k + 1].lit
       \/ \E i, j \in 1 .. Len(ops) : i # j /\ ops[i] = ops[j]
    THEN Broken
    ELSE hunks

\* Seeded fault: an optional hunk is printed only when all its operands are non-zero.
RenderHunkAllSet(h, insn, vals, pc) ==
    IF h.optional /\ \E t \in ToSet(HunkOps(h)) : vals[t.text] = 0
    THEN <<>>
    ELSE [i \in 1 .. Len(h.tokens) |->
            IF h.tokens[i].lit THEN [form |-> h.tokens[i].text, n |-> 0]
            ELSE OpValToStr(insn.types[h.tokens[i].text], vals[h.tokens[i].text], pc)]

RenderHunk(h, insn, vals, pc) ==
    IF h.optional /\ \A t \in ToSet(HunkOps(h)) : vals[t.text] = 0
    THEN <<>>
    ELSE [i \in 1 .. Len(h.tokens) |->
            IF h.tokens[i].lit THEN [form |-> h.tokens[i].text, n |-> 0]
            ELSE OpValToStr(insn.types[h.tokens[i].text], vals[h.tokens[i].text], pc)]

\* Insn.disassemble; an operand that prints as nothing leaves no token.
Disassemble(insn, vals, pc) ==
    SelectSeq(FlattenSeq([i \in 1 .. Len(insn.syntax) |->
                            RenderHunk(insn.syntax[i], insn, vals, pc)]),
              LAMBDA s : s.form # "")

-----------------------------------------------------------------------------
(* asm_pattern: the regular expression of a syntax, matched from the left; an optional *)
(* hunk is first tried, then skipped.                                                  *)

TokenMatches(tok, s) == IF tok.lit THEN s.form = tok.text ELSE s.form # ","

HunkMatches(h, line) ==
    /\ Len(h.tokens) <= Len(line)
    /\ \A i \in 1 .. Len(h.tokens) : TokenMatches(h.tokens[i], line[i])

HunkGroups(h, line) ==
    [op \in {t.text : t \in ToSet(HunkOps(h))} |->
        line[CHOOSE i \in 1 .. Len(h.tokens) : h.tokens[i] = [lit |-> FALSE, text |-> op]]]

RECURSIVE MatchSyntax(_, _)
MatchSyntax(hunks, line) ==
    IF hunks = <<>> THEN IF line = <<>> THEN <<>> ELSE Broken
    ELSE LET h    == Head(hunks)
             with == IF HunkMatches(h, line)
                     THEN MatchSyntax(Tail(hunks),
                                      SubSeq(line, Len(h.tokens) + 1, Len(line)))
                     ELSE Broken IN
         IF with # Broken THEN HunkGroups(h, line) @@ with
         ELSE IF h.optional THEN MatchSyntax(Tail(hunks), line) ELSE Broken

-----------------------------------------------------------------------------
(* Instructions *)

LsuTypes == {"mem-load", "mem-store", "csr", "wsr-load", "wsr-store"}

\* LSUDesc.from_yaml; bytes is 0 when the field is not given, lsu.type "none" when there
\* is no description.
LsuOK(lsu, names) ==
    \/ lsu.type = "none"
    \/ /\ lsu.type \in LsuTypes
       /\ lsu.type \in {"mem-load", "mem-store"} <=> lsu.bytes # 0
       /\ ToSet(lsu.target) \subseteq names

\* Operand: every operand has a field when the instruction has an encoding.
OperandFrom(op, enc) ==
    LET known  == {enc[n].op : n \in OpFields(enc)}
        fw     == IF DOMAIN enc = {} THEN 0 ELSE enc[FieldOf(enc, op.name)].bits.width IN
    IF DOMAIN enc # {} /\ op.name \notin known THEN Broken
    ELSE IF op.abbrev = op.name THEN Broken
    ELSE MakeOperandType(op, fw)

OperandsOK(raw) ==
    LET ops == raw.operands IN
    \A i, j \in 1 .. Len(ops) :
        /\ i # j => ops[i].name # ops[j].name
        /\ ops[i].abbrev # "" => /\ ops[i].abbrev # ops[j].name
                                 /\ i # j => ops[i].abbrev # ops[j].abbrev

\* Insn.__init__, once the encoding is known.  An instruction without one has enc = <<>>.
InsnWith(raw, enc) ==
    LET names  == {raw.operands[i].name : i \in 1 .. Len(raw.operands)}
        types  == [i \in 1 .. Len(raw.operands) |-> OperandFrom(raw.operands[i], enc)]
        syntax == IF raw.syntax = <<>>
                  THEN SyntaxFromList([i \in 1 .. Len(raw.operands) |-> raw.operands[i].name])
                  ELSE SyntaxFromYaml(raw.syntax) IN
    IF ~OperandsOK(raw) \/ \E i \in 1 .. Len(types) : types[i] = Broken THEN Broken
    ELSE IF {enc[n].op : n \in OpFields(enc)} \ names # {} THEN Broken
    ELSE IF syntax = Broken THEN Broken
    ELSE IF \/ {t.text : t \in ToSet(SyntaxOps(syntax))} # names
            \/ raw.pseudo # "none" /\ enc # <<>>
            \/ ~LsuOK(raw.lsu, names)
    THEN Broken
    ELSE [mnemonic |-> raw.mnemonic, enc |-> enc, syntax |-> syntax,
          types |-> [n \in names |-> types[CHOOSE i \in 1 .. Len(types) :
                                              raw.operands[i].name = n]]]

InsnFrom(raw, schemes) ==
    Unless(IF raw.encoding.scheme = "none" THEN <<>> ELSE EncodingFrom(schemes, raw.encoding),
           LAMBDA enc : InsnWith(raw, enc))

\* Seeded fault: two instructions clash only when no fixed bit of one is free in the other.
AmbiguousFixedOnly(a, b) ==
    ZerosMask(a.enc) = ZerosMask(b.enc) /\ OnesMask(a.enc) = OnesMask(b.enc)

\* find_ambiguous_encodings, for one pair.
Ambiguous(a, b) ==
    (ZerosMask(a.enc) \cap ZerosMask(b.enc)) \cup (OnesMask(a.enc) \cap OnesMask(b.enc)) = AllBits

\* InsnsFile.
InsnsFileFrom(file) ==
    LET Clash(a, b) == \/ a.mnemonic = b.mnemonic
                       \/ a.enc # <<>> /\ b.enc # <<>> /\ Ambiguous(a, b)
        Distinct(insns) ==
            IF \E i \in 1 .. Len(insns) : insns[i] = Broken THEN Broken
            ELSE IF \E i, j \in 1 .. Len(insns) : i < j /\ Clash(insns[i], insns[j]) THEN Broken
            ELSE insns IN
    IF ~SchemesWellFormed(file.schemes) THEN Broken
    ELSE Distinct([i \in 1 .. Len(file.insns) |-> InsnFrom(file.insns[i], file.schemes)])

-----------------------------------------------------------------------------
(* decode.py *)

\* get_insn_masks and the test of _decode_word: no bit set that must be zero, none clear
\* that must be one.
MatchesWord(insn, word) ==
    /\ insn.enc # <<>>
    /\ word \cap (ZerosMask(insn.enc) \ OnesMask(insn.enc)) = {}
    /\ (OnesMask(insn.enc) \ ZerosMask(insn.enc)) \subseteq word

EncValsToOpVals(insn, encVals, pc) ==
    [op \in DOMAIN encVals |-> EncValToOpVal(insn.types[op], encVals[op], pc)]

\* The instructions with two options (BN.LID, BN.SID and BN.MOVR, which may increment one
\* register or the other) raise DecodeError when both are set.
DecodeError(insn, vals) ==
    Cardinality({op \in DOMAIN vals : insn.types[op].class = "option" /\ vals[op] # 0}) > 1

\* An IllegalInsn has index 0.
IllegalInsn == [idx |-> 0, vals |-> <<>>]
DecodeWord(isa, pc, word) ==
    LET found == {i \in 1 .. Len(isa) : MatchesWord(isa[i], word)}
        i     == Lowest(found)
        vals  == EncValsToOpVals(isa[i], ExtractOperands(isa[i].enc, word), pc) IN
    IF found = {} THEN IllegalInsn
    ELSE IF DecodeError(isa[i], vals) THEN IllegalInsn ELSE [idx |-> i, vals |-> vals]
=============================================================================
