------------------------------- MODULE MCRig -------------------------------
(***************************************************************************)
(* Small instance of the generator: every program it can generate in a     *)
(* memory of a few instructions, for configurations that each exercise one *)
(* part of it, run on a simulator with 8-bit narrow words.                 *)
(***************************************************************************)
EXTENDS RigGen

(* base gives every generator weight; the others switch off what they do not use. *)
Yml(parents, gens, ops) ==
    [inherit |-> {[names |-> p, weight |-> 1] : p \in parents},
     gens |-> [g \in GenNames \ gens |-> 0], insns |-> [op \in (Mnemonics \ {"ECALL"}) \ ops |-> 0]]
Links == {"BEQ", "BNE", "JAL"}
MCStraightOps == {"ADDI", "ADD", "LUI", "LW", "SW", "BN.LID", "BN.SID", "BN.MOV", "BN.MOVR", "BN.WSRR"}

MCFiles ==
    "base" :> [inherit |-> {}, gens |-> [g \in GenNames |-> 1], insns |-> << >>]
  @@ "calls" :> Yml({<<"base">>}, {"StraightLineInsn", "Jump", "ECall"}, Links \cup {"ADDI", "JALR"})
  @@ "circle" :> Yml({<<"base", "circle">>}, GenNames, Mnemonics)
  @@ "either" :> Yml({<<"base", "nothing">>, <<"alu">>}, GenNames, Mnemonics)
  @@ "nothing" :> Yml({}, {}, Mnemonics)
  @@ "sides" :> Yml({<<"base">>}, {"StraightLineInsn", "Jump", "Branch"}, Links \cup {"ADDI"})
  @@ "branches" :> Yml({<<"base">>}, {"StraightLineInsn", "Branch"}, Links \cup {"ADDI"})
  @@ "turns" :> Yml({<<"base">>}, {"Branch"}, {"BEQ", "JAL", "ADDI"})
  @@ "jumps" :> Yml({<<"base">>}, {"Branch", "Jump", "ECall"}, {"BEQ", "JAL", "ADDI"})
  @@ "blocked" :> Yml({<<"base">>}, {"StraightLineInsn"}, {"BN.MOV"})
  @@ "alu" :> Yml({<<"base">>}, {"StraightLineInsn"}, Links \cup {"ADDI", "ADD", "LUI"})
  @@ "loops" :> Yml({<<"base">>}, {"StraightLineInsn", "Loop"}, Links \cup {"ADDI", "LOOP", "LOOPI"})
  @@ "nested" :> Yml({<<"base">>}, {"StraightLineInsn", "Loop", "Branch"}, Links \cup {"ADDI", "LOOPI"})
  @@ "loop_jumps" :> Yml({<<"base">>}, {"StraightLineInsn", "Loop", "Jump"}, Links \cup {"ADDI", "LOOPI"})
  @@ "memory" :> Yml({<<"base">>}, {"StraightLineInsn"}, Links \cup {"ADDI", "LW", "SW"})
  @@ "wide_loops" :> Yml({<<"base">>}, {"StraightLineInsn", "Loop"}, Links \cup {"BN.WSRR", "BN.MOVR", "LOOPI"})
  @@ "wide" :> Yml({<<"base">>}, {"StraightLineInsn"}, Links \cup {"BN.WSRR", "BN.MOV", "BN.MOVR", "ADDI"})
  @@ "lid_loops" :> Yml({<<"base">>}, {"StraightLineInsn", "Loop"}, Links \cup {"BN.LID", "BN.MOV", "LOOPI"})
  @@ "indirect" :> Yml({<<"base">>}, {"StraightLineInsn"}, Links \cup {"ADDI", "BN.LID", "BN.SID"})

Request(config, fuel, blobs, gprs, imms) ==
    [config |-> config, fuel |-> fuel, blobs |-> blobs, gprs |-> gprs, imms |-> imms, imem |-> 28]
(* Room for a branch below a branch. *)
Roomy(r) == [r EXCEPT !.imem = 48]

MCRequests ==
    {Request("calls", 3, <<0>>, {0, 1}, {8}),
     Request("sides", 3, <<0>>, {0}, {4}),
     Request("branches", 3, <<0>>, {0, 1}, {4}),
     Request("branches", 3, <<0>>, {0, 2}, {4}),
     Request("loops", 6, <<0>>, {0, 2}, {2}),
     Request("nested", 6, <<0>>, {0}, {2}),
     Request("loop_jumps", 4, <<0>>, {0, 1}, {2}),
     Request("memory", 3, <<2, 0, 2>>, {0, 1, 2}, {4}),
     Request("wide_loops", 5, <<0>>, {0}, {0}),
     Request("wide", 3, <<0>>, {0, 2}, {0}),
     Request("lid_loops", 4, <<0>>, {0, 2}, {1}),
     Request("indirect", 3, <<0>>, {0, 1, 2}, {1}),
     Request("circle", 1, <<0>>, {0}, {0}),
     Roomy(Request("turns", 2, <<0>>, {0}, {4})),
     Roomy(Request("jumps", 2, <<0>>, {0}, {4})),
     Request("blocked", 2, <<0>>, {0}, {0}),
     Request("either", 3, <<0>>, {0, 2}, {4})}

MCLoadRange == <<-4, 11>>
MCWideRange == <<-8, 8>>
MCJalrRange == <<-8, 8>>
=============================================================================
