--------------------------- MODULE OtbnToolchain ---------------------------
(***************************************************************************)
(* From an instruction set description to a program in the simulator: the   *)
(* description is loaded (load_insns_yaml), a program is assembled          *)
(* (otbn-as), linked into an ELF file, loaded (sim/elf.py) and decoded      *)
(* (sim/decode.py), and its disassembly is assembled again.                 *)
(*                                                                          *)
(* The GNU assembler and linker are external: the first encodes the         *)
(* PC-relative instructions, the second chooses the segments.               *)
(***************************************************************************)
EXTENDS OtbnEncoding

CONSTANTS
    Files,          \* instruction set descriptions [schemes, insns]
    OperandVals,    \* operand values a programmer may write
    Imem, Dmem,     \* memory layout, pairs <<lma, size in bytes>>
    RawWords,       \* words of .word directives
    DataImages,     \* contents of the data segments, sequences of bytes
    MaxInsns        \* bound on the length of a program

VARIABLES
    phase,      \* "start", "asm", "linked", "loaded", "done", or "error"
    isa,        \* the InsnsFile: a sequence of instructions
    src,        \* the program: instructions [idx, vals] or raw words [idx |-> 0, word]
    text,       \* the words otbn-as wrote
    elf,        \* the loadable segments, in file order
    imem,       \* decoded instructions
    dmem,       \* bytes
    again       \* the words of the disassembled and re-assembled program

vars == <<phase, isa, src, text, elf, imem, dmem, again>>

ByteBits == WordBits \div 4
Zero == {}

\* struct.unpack('<I') and its inverse: a byte is a set of bits, as a word is.
ByteOf(word, k) == {b - k * ByteBits : b \in word \cap (k * ByteBits .. (k + 1) * ByteBits - 1)}
WordOf(bytes) == UNION {{b + (k - 1) * ByteBits : b \in bytes[k]} : k \in 1 .. 4}
BytesOf(words) == [i \in 1 .. 4 * Len(words) |-> ByteOf(words[(i - 1) \div 4 + 1], (i - 1) % 4)]

-----------------------------------------------------------------------------
(* otbn-as *)

\* mk_raw_line: the operands of a line, converted to encoded values; an operand that the
\* line leaves out has the value 0.  pc is known only to the GNU assembler.
EncodedOperand(t, expr, pc) ==
    LET v == IF expr = <<>> THEN <<0>>
             ELSE IF expr[1].form = "rel" /\ pc # NoPc THEN <<pc + expr[1].n>>
             ELSE StrToOpVal(t, expr[1]) IN
    IF v = Broken THEN Refused ELSE IF v = <<>> THEN Unknown ELSE OpValToEncVal(t, v[1], pc)

AssembleLine(insn, line, pc) ==
    LET groups == MatchSyntax(insn.syntax, line)
        known  == IF \E op \in DOMAIN insn.types : insn.types[op].pcRel THEN pc ELSE NoPc
        vals   == [op \in DOMAIN insn.types |->
                     EncodedOperand(insn.types[op],
                                    IF op \in DOMAIN groups THEN <<groups[op]>> ELSE <<>>,
                                    known)] IN
    IF groups = Broken THEN Broken
    ELSE IF \E op \in DOMAIN vals : vals[op] < 0 THEN Broken
    ELSE AssembleWord(insn.enc, vals)

-----------------------------------------------------------------------------
(* elf.py *)

\* Seeded fault: a gap between two segments is not filled.
FlattenNoGaps(segs, desc) ==
    FlattenSeq([i \in 1 .. Len(segs) |-> segs[i].data])

\* _flatten_segments
FlattenSegments(segs, desc) ==
    LET sorted == SortSeq(segs, LAMBDA a, b : a.lma < b.lma)
        Add(acc, s) ==
            IF acc = Broken THEN Broken
            ELSE IF s.lma < desc[1] + Len(acc) THEN Broken
            ELSE acc \o [i \in 1 .. s.lma - desc[1] - Len(acc) |-> Zero] \o s.data
        all == FoldLeft(Add, <<>>, sorted) IN
    IF all = Broken THEN Broken ELSE IF Len(all) > desc[2] THEN Broken ELSE all

StartsIn(s, desc) == desc[1] <= s.lma /\ s.lma <= desc[1] + desc[2]
EndsBeyond(s, desc) == s.lma + s.memsz > desc[1] + desc[2]

\* _get_elf_segments: a segment is refused when it starts in neither memory or leaves the
\* one it starts in; IMEM is asked first.
SegmentRefused(s) ==
    IF StartsIn(s, Imem) THEN EndsBeyond(s, Imem)
    ELSE ~StartsIn(s, Dmem) \/ EndsBeyond(s, Dmem)

ImemSegments == SelectSeq(elf, LAMBDA s : StartsIn(s, Imem))
DmemSegments == SelectSeq(elf, LAMBDA s : ~StartsIn(s, Imem))

DecodeBytes(bytes) ==
    [i \in 1 .. Len(bytes) \div 4 |->
        DecodeWord(isa, 4 * (i - 1), WordOf(SubSeq(bytes, 4 * i - 3, 4 * i)))]

-----------------------------------------------------------------------------
Init ==
    /\ phase = "start"
    /\ isa = <<>> /\ src = <<>> /\ text = <<>> /\ elf = <<>>
    /\ imem = <<>> /\ dmem = <<>> /\ again = <<>>

Stop == phase' = "error" /\ UNCHANGED <<isa, src, text, elf, imem, dmem, again>>

LoadIsa ==
    /\ phase = "start"
    /\ \E f \in Files : \E loaded \in {InsnsFileFrom(f)} :
        IF loaded = Broken THEN Stop
        ELSE /\ phase' = "asm" /\ isa' = loaded
             /\ UNCHANGED <<src, text, elf, imem, dmem, again>>

CurPc == 4 * Len(text)

\* A line of the source: an instruction with an encoding, written as it would be listed.
AssembleInsn ==
    /\ phase = "asm" /\ Len(text) < MaxInsns
    /\ \E i \in 1 .. Len(isa) :
       \E vals \in [DOMAIN isa[i].types -> OperandVals] :
        /\ isa[i].enc # <<>>
        /\ \A op \in DOMAIN vals :
             isa[i].types[op].class # "imm" => vals[op] \in 0 .. GetMaxEncVal(isa[i].types[op])
        /\ \E word \in {AssembleLine(isa[i], Disassemble(isa[i], vals, CurPc), CurPc)} :
             IF word = Broken THEN Stop
             ELSE /\ text' = Append(text, word)
                  /\ src' = Append(src, [idx |-> i, vals |-> vals])
                  /\ UNCHANGED <<phase, isa, elf, imem, dmem, again>>

\* A .word directive, passed on to the GNU assembler.
AssembleRaw ==
    /\ phase = "asm" /\ Len(text) < MaxInsns
    /\ \E word \in RawWords :
        /\ text' = Append(text, word)
        /\ src' = Append(src, [idx |-> 0, vals |-> <<>>])
    /\ UNCHANGED <<phase, isa, elf, imem, dmem, again>>

\* The linker places the code at the start of IMEM, in one segment or in two with a gap of
\* one word, and the data in DMEM, in either file order; a last byte may be missing.
Link ==
    /\ phase = "asm" /\ text # <<>>
    /\ \E cut \in 1 .. Len(text), gap \in {0, 4}, image \in DataImages, at \in {0, 2},
          dataFirst \in BOOLEAN, short \in {0, 1} :
        LET bytes == BytesOf(text)
            seg(lma, data) == [lma |-> lma, memsz |-> Len(data), data |-> data]
            one  == seg(Imem[1], SubSeq(bytes, 1, 4 * cut))
            two  == seg(Imem[1] + 4 * cut + gap,
                        SubSeq(bytes, 4 * cut + 1, Len(bytes) - short))
            code == IF cut = Len(text) THEN <<one>> ELSE <<two, one>>
            data == IF image = <<>> THEN <<>> ELSE <<seg(Dmem[1] + at, image)>> IN
        /\ cut = Len(text) => gap = 0 /\ short = 0
        /\ elf' = IF dataFirst THEN data \o code ELSE code \o data
    /\ phase' = "linked"
    /\ UNCHANGED <<isa, src, text, imem, dmem, again>>

\* load_elf
LoadElf ==
    /\ phase = "linked"
    /\ LET code == FlattenSegments(ImemSegments, Imem)
           data == FlattenSegments(DmemSegments, Dmem) IN
       IF \E i \in 1 .. Len(elf) : SegmentRefused(elf[i]) THEN Stop
       ELSE IF code = Broken \/ data = Broken THEN Stop
       ELSE IF Len(code) % 4 # 0 THEN Stop
       ELSE /\ phase' = "loaded" /\ imem' = DecodeBytes(code) /\ dmem' = data
            /\ UNCHANGED <<isa, src, text, elf, again>>

\* The disassembly of the program in IMEM goes back to the assembler; an illegal
\* instruction is listed as "?? <word>" and not assembled.
Relist ==
    /\ phase = "loaded"
    /\ again' = [k \in 1 .. Len(imem) |->
                    IF imem[k].idx = 0 THEN Broken
                    ELSE LET insn == isa[imem[k].idx] pc == 4 * (k - 1) IN
                         AssembleLine(insn, Disassemble(insn, imem[k].vals, pc), pc)]
    /\ phase' = "done"
    /\ UNCHANGED <<isa, src, text, elf, imem, dmem>>

Finished == phase \in {"done", "error"} /\ UNCHANGED vars

Next == LoadIsa \/ AssembleInsn \/ AssembleRaw \/ Link \/ LoadElf \/ Relist \/ Finished

Spec == Init /\ [][Next]_vars

-----------------------------------------------------------------------------
(* Properties *)

\* The bits of an encoding that are written x.
FreeBits(e) == UNION {IF e[n].op # "" THEN {} ELSE LiteralMask(e[n], {"x"}) : n \in DOMAIN e}

\* No word of any value matches two instructions, and a word that matches one is, up to
\* the bits the encoding does not care about, the word assembled from the operands that
\* are extracted from it.
Decodable ==
    \A word \in SUBSET AllBits :
        LET found == {i \in 1 .. Len(isa) : MatchesWord(isa[i], word)} IN
        /\ Cardinality(found) <= 1
        /\ \A i \in found :
             AssembleWord(isa[i].enc, ExtractOperands(isa[i].enc, word))
                 = word \ FreeBits(isa[i].enc)

\* The range promised for an operand, in steps of its shift, is exactly what can be
\* encoded and comes back from decoding; an enum or option field also has encodings that
\* no value of the range uses.
RangesHonest ==
    \A i \in 1 .. Len(isa), pc \in {0, 4, 8} :
    \A op \in DOMAIN isa[i].types :
        LET t   == isa[i].types[op]
            rng == GetOpValRange(t, pc)
            in  == {v \in rng[1] .. rng[2] : (v - rng[1]) % 2 ^ t.shift = 0} IN
        isa[i].enc # <<>> =>
        /\ {EncValToOpVal(t, e, pc) : e \in 0 .. GetMaxEncVal(t)} = in
        /\ \A v \in rng[1] - 4 .. rng[2] + 4 :
             LET e == OpValToEncVal(t, v, pc) IN
             IF v \in in THEN e >= 0 /\ EncValToOpVal(t, e, pc) = v
             ELSE e = Refused \/ t.class \in {"enum", "option"}

\* A description that InsnsFile accepts can be decoded (find_ambiguous_encodings,
\* get_masks, encode and decode of BitRanges), and it promises the generator the operand
\* values that can be encoded (get_op_val_range, get_max_enc_val).
LoadedIsaSound == phase = "asm" /\ text = <<>> => Decodable /\ RangesHonest

\* Where the linker put the j-th word of the program.
PlaceOf(j) ==
    LET first == Len((CHOOSE s \in ToSet(elf) : s.lma = Imem[1]).data) \div 4
        later == {s \in ToSet(ImemSegments) : s.lma > Imem[1]} IN
    IF j <= first THEN j
    ELSE ((CHOOSE s \in later : TRUE).lma - Imem[1]) \div 4 + j - first

\* The j-th instruction of the source comes out of the decoder with its operand values; a
\* PC-relative operand moves with its instruction. The assembler takes an instruction with
\* both of its options set, and it comes out as an illegal one.
SourceDecoded ==
    \A j \in 1 .. Len(src) : src[j].idx # 0 =>
        LET at == PlaceOf(j) IN
        /\ at \in 1 .. Len(imem)
        /\ imem[at].idx = IF DecodeError(isa[src[j].idx], src[j].vals) THEN 0 ELSE src[j].idx
        /\ \A op \in DOMAIN src[j].vals : imem[at].idx # 0 =>
             imem[at].vals[op] = src[j].vals[op]
                 + (IF isa[src[j].idx].types[op].pcRel THEN 4 * (at - j) ELSE 0)

\* The byte the segments of the ELF file put at an address, zero where they put none.
ByteAt(segs, addr) ==
    LET here == {s \in ToSet(segs) : s.lma <= addr /\ addr < s.lma + Len(s.data)} IN
    IF here = {} THEN Zero ELSE LET s == CHOOSE s \in here : TRUE IN s.data[addr - s.lma + 1]

\* Every instruction slot is decoded from the bytes that the file places there and every
\* data byte is the file's, whatever the order of the segments and the gaps between them.
ImageFaithful ==
    /\ \A k \in 1 .. Len(imem) :
         LET pc == 4 * (k - 1) IN
         imem[k] = DecodeWord(isa, pc,
                      WordOf([b \in 1 .. 4 |-> ByteAt(ImemSegments, Imem[1] + pc + b - 1)]))
    /\ \A a \in 1 .. Len(dmem) : dmem[a] = ByteAt(DmemSegments, Dmem[1] + a - 1)
    /\ \A s \in ToSet(elf) :
         IF StartsIn(s, Imem) THEN s.lma + Len(s.data) <= Imem[1] + 4 * Len(imem)
                              ELSE s.lma + Len(s.data) <= Dmem[1] + Len(dmem)

\* What the programmer wrote is what the simulator runs, and the memories hold the segments
\* of the file (otbn-as, elf.py: _flatten_segments and load_elf, _decode_word,
\* enc_vals_to_op_vals).
ProgramLoaded == phase = "loaded" => SourceDecoded /\ ImageFaithful

\* A listing can be assembled again: every instruction that was decoded, except one with a
\* value that its enum does not name, gives the same word, up to the free bits (render,
\* op_val_to_str, asm_pattern, str_to_op_val, op_val_to_enc_val).
ListingReassembles ==
    phase = "done" =>
        \A k \in 1 .. Len(imem) : imem[k].idx # 0 =>
            LET insn == isa[imem[k].idx]
                named == \A op \in DOMAIN insn.types :
                            insn.types[op].class = "enum" =>
                                imem[k].vals[op] < Len(insn.types[op].items)
                word == WordOf([b \in 1 .. 4 |->
                                  ByteAt(ImemSegments, Imem[1] + 4 * (k - 1) + b - 1)]) IN
            IF named THEN again[k] = word \ FreeBits(insn.enc) ELSE again[k] = Broken
=============================================================================
