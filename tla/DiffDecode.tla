----------------------------- MODULE DiffDecode -----------------------------
(***************************************************************************)
(* prim_diff_decode, the decoder every receiver of a differential pair     *)
(* instantiates, in its synchronous variant (AsyncOn = 0).                 *)
(*                                                                         *)
(* A pair of wires (p, n) is one value of Diff:                            *)
(*    "hi" = (1,0)   "lo" = (0,1)   "err0" = (0,0)   "err1" = (1,1)        *)
(* The last two are the incorrect encodings the decoder reports.           *)
(***************************************************************************)

Diff == {"lo", "hi", "err0", "err1"}

\* The p wire of a pair.
DiffP(d) == d \in {"hi", "err1"}

\* sigint_o: both wires carry the same value.
SigIntO(d) == d \in {"err0", "err1"}

\* level_o: the decoded level, held at level_q while the encoding is wrong.
LevelO(d, level_q) == IF SigIntO(d) THEN level_q ELSE d = "hi"

\* event_o: the p wire changed against the edge register diff_pq, and the pair
\* is correctly encoded. diff_pq itself follows p even during a sigint.
EventO(d, diff_pq) == ~SigIntO(d) /\ DiffP(d) # diff_pq

\* A pair a driver with complementary outputs (q, ~q) puts on the wires.
Drive(q) == IF q THEN "hi" ELSE "lo"

\* The pair with its p wire, or its n wire, inverted.
FlipWire(d) == IF SigIntO(d) THEN {"lo", "hi"} ELSE {"err0", "err1"}
=============================================================================
