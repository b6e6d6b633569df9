---------------------------- MODULE MCToolchain ----------------------------
(***************************************************************************)
(* Small instruction sets for OtbnToolchain: 8-bit words, 2-bit registers.  *)
(* The first three exercise each kind of operand, split fields, inherited    *)
(* schemes, free bits and optional syntax; each of the others has one       *)
(* mistake that the loader is written to find.                              *)
(***************************************************************************)
EXTENDS OtbnToolchain

Op(n) == [op |-> n, lit |-> <<>>]
Lit(l) == [op |-> "", lit |-> l]
Fld(bits) == [bits |-> bits, value |-> <<>>]
Fixed(bits, v) == [bits |-> bits, value |-> v]
Plain(n) == [name |-> n, type |-> [BareType("infer") EXCEPT !.width = 0],
             pcRel |-> FALSE, abbrev |-> ""]
Typed(n, base, w, off, sh, items, rel) ==
    [name |-> n, pcRel |-> rel, abbrev |-> "",
     type |-> [base |-> base, width |-> w, offset |-> off, shift |-> sh, items |-> items]]
NoLsu == [type |-> "none", target |-> <<>>, bytes |-> 0]
Insn(m, scheme, map, ops) ==
    [mnemonic |-> m, encoding |-> [scheme |-> scheme, mapping |-> map], operands |-> ops,
     syntax |-> <<>>, pseudo |-> "none", lsu |-> NoLsu]
Tok(n) == [lit |-> FALSE, text |-> n]
Hunk(opt, toks) == [optional |-> opt, tokens |-> toks]
Only(n, v) == [x \in {n} |-> v]

Schemes ==
    [base |-> [parents |-> <<>>, fields |-> [opc |-> Fld(<<<<7, 6>>>>)]],
     rr   |-> [parents |-> <<[parent |-> "base", settings |-> Only("opc", <<"0", "1">>)]>>,
               fields |-> [a |-> Fld(<<<<5, 4>>>>), b |-> Fld(<<<<3, 2>>>>),
                           f |-> Fld(<<<<1, 0>>>>)]],
     br   |-> [parents |-> <<[parent |-> "base", settings |-> Only("opc", <<"1", "1">>)]>>,
               fields |-> [off |-> Fld(<<<<5, 5>>, <<0, 0>>, <<2, 2>>>>),
                           r |-> Fld(<<<<4, 3>>>>), pad |-> Fixed(<<<<1, 1>>>>, <<"x">>)]],
     lp   |-> [parents |-> <<[parent |-> "base", settings |-> Only("opc", <<"1", "0">>)]>>,
               fields |-> [n |-> Fld(<<<<1, 0>>, <<5, 5>>>>), e |-> Fld(<<<<4, 3>>>>),
                           z |-> Fld(<<<<2, 2>>>>)]],
     mv   |-> [parents |-> <<[parent |-> "base", settings |-> Only("opc", <<"0", "0">>)]>>,
               fields |-> [d |-> Fld(<<<<5, 4>>>>), f |-> Fld(<<<<3, 2>>>>),
                           dpp |-> Fld(<<<<1, 1>>>>), spp |-> Fld(<<<<0, 0>>>>)]]]

Branch == [Insn("BEQ", "br", [off |-> Op("offset"), r |-> Op("grs")],
                <<Plain("grs"), Typed("offset", "simm", 0, 0, 2, <<>>, TRUE)>>)
           EXCEPT !.lsu = [type |-> "csr", target |-> <<"grs">>, bytes |-> 0]]
Add == Insn("ADD", "rr", [a |-> Op("grd"), b |-> Op("grs1"), f |-> Lit(<<"0", "x">>)],
            <<Plain("grd"), Plain("grs1")>>)
Load == [Insn("LD", "rr", [a |-> Op("wrd"), b |-> Op("imm"), f |-> Lit(<<"1", "1">>)],
              <<Plain("wrd"), Typed("imm", "simm", 2, 0, 1, <<>>, FALSE)>>)
         EXCEPT !.lsu = [type |-> "mem-load", target |-> <<"imm">>, bytes |-> 4],
                !.syntax = <<Hunk(FALSE, <<Tok("wrd")>>), Hunk(TRUE, <<Comma, Tok("imm")>>)>>]
Loop == [Insn("LOOPI", "lp", [n |-> Op("body"), e |-> Op("mode"), z |-> Op("inc")],
              <<Typed("body", "uimm", 3, 1, 0, <<>>, FALSE),
                Typed("mode", "enum", 0, 0, 0, <<"m0", "m1", "m2">>, FALSE),
                Typed("inc", "option", 0, 0, 0, <<"++">>, FALSE)>>)
         EXCEPT !.syntax = <<Hunk(FALSE, <<Tok("body")>>), Hunk(TRUE, <<Tok("inc")>>),
                             Hunk(TRUE, <<Comma, Tok("mode")>>)>>]
Shift == [Insn("RSHI", "lp", [n |-> Op("pos"), e |-> Op("csr"), z |-> Op("up")],
               <<Typed("pos", "simm", 0, 1, 1, <<>>, FALSE), Plain("csr"),
                 Typed("up", "uimm", 1, 0, 0, <<>>, FALSE)>>)
          EXCEPT !.syntax = <<Hunk(FALSE, <<Tok("csr")>>),
                              Hunk(TRUE, <<Comma, Tok("pos"), Comma, Tok("up")>>)>>]
Movr == [Insn("MOVR", "mv", [d |-> Op("grd"), f |-> Lit(<<"1", "x">>), dpp |-> Op("dinc"), spp |-> Op("sinc")],
              <<Plain("grd"), Typed("dinc", "option", 0, 0, 0, <<"++">>, FALSE),
                Typed("sinc", "option", 0, 0, 0, <<"++">>, FALSE)>>)
         EXCEPT !.syntax = <<Hunk(FALSE, <<Tok("grd")>>), Hunk(TRUE, <<Tok("dinc")>>),
                             Hunk(TRUE, <<Comma, Tok("sinc")>>)>>]
Li == [Insn("LI", "none", <<>>, <<Plain("grd"), Plain("imm")>>) EXCEPT !.pseudo = "python"]

File(insns) == [schemes |-> Schemes, insns |-> insns]
With(name, s) == [schemes |-> [Schemes EXCEPT ![name] = s], insns |-> <<Add, Branch>>]

Good1 == File(<<Li, Add, Branch, Load, Loop>>)
Good2 == File(<<Shift, Load>>)
Good3 == File(<<Movr>>)

Bad ==
    {File(<<Add, [Load EXCEPT !.encoding.mapping.f = Lit(<<"x", "1">>)]>>),     \* ambiguous
     File(<<Add, Add>>),                                                        \* mnemonic twice
     File(<<[Add EXCEPT !.operands = <<Plain("grd"), Plain("wrd")>>]>>),        \* no field
     File(<<[Add EXCEPT !.operands = <<Plain("grd")>>]>>),                      \* no operand
     File(<<[Add EXCEPT !.encoding.mapping.b = Op("grd")]>>),                   \* not linear
     File(<<[Add EXCEPT !.encoding.mapping.f = Lit(<<"1">>)]>>),                \* literal width
     File(<<[Add EXCEPT !.encoding.scheme = "none", !.operands = <<Plain("foo")>>]>>),
     File(<<[Li EXCEPT !.encoding = Add.encoding]>>),                           \* pseudo and encoding
     File(<<[Branch EXCEPT !.lsu.target = <<"grd">>]>>),
     File(<<[Load EXCEPT !.lsu.bytes = 0]>>),
     File(<<[Load EXCEPT !.operands[2].pcRel = TRUE, !.operands[1].pcRel = TRUE]>>),
     File(<<[Loop EXCEPT !.operands[2].type.items = <<"a", "b", "c", "d", "e">>]>>),
     File(<<[Loop EXCEPT !.operands[1].type.width = 2]>>),
     File(<<[Loop EXCEPT !.syntax = <<Hunk(FALSE, <<Tok("body"), Tok("mode")>>)>>]>>),
     File(<<[Loop EXCEPT !.syntax = <<Hunk(FALSE, <<Tok("body")>>)>>]>>),
     File(<<[Add EXCEPT !.operands[1].abbrev = "grs1"]>>),
     With("base", [parents |-> <<[parent |-> "rr", settings |-> <<>>]>>, fields |-> <<>>]),
     With("rr", [Schemes["rr"] EXCEPT !.parents[1].parent = "nowhere"]),
     With("rr", [Schemes["rr"] EXCEPT !.parents[1].settings = Only("b", <<"1", "0">>)]),
     With("rr", [Schemes["rr"] EXCEPT !.fields.b = Fld(<<<<4, 3>>>>)]),         \* overlap
     With("rr", [Schemes["rr"] EXCEPT !.fields.b = Fld(<<<<3, 3>>>>)]),         \* missing bits
     With("rr", [Schemes["rr"] EXCEPT !.fields.b = Fld(<<<<2, 3>>>>)]),
     With("rr", [Schemes["rr"] EXCEPT !.fields.b = Fld(<<<<8, 7>>>>)]),
     With("br", [parents |-> <<>>, fields |-> <<>>])}

MCFiles == {Good1, Good2, Good3} \cup Bad
MCOperandVals == {-4, 0, 1, 2, 3, 8}
MCRawWords == {{}, {7, 5, 4, 3}, {7, 6, 5, 1, 0}, {6, 1, 0, 2}}
MCDataImages == {<<>>, <<{1}, {0}, {0, 1}>>}
MCImem == <<16, 12>>
MCDmem == <<32, 4>>
=============================================================================
