------------------------------ MODULE OtbnHost ------------------------------
(***************************************************************************)
(* What OTBN promises the host that drives it, whatever the program: the    *)
(* abstract specification that the simulator of OtbnSim implements.         *)
(*                                                                         *)
(*  - an operation runs from a start to a halt; the halt, and nothing else, *)
(*    raises the done interrupt, lowers busy and reports the error bits;    *)
(*  - an instruction either retires, with all of its effects, and leaves a  *)
(*    PC that can be fetched from, or halts the operation with none;        *)
(*  - memory and registers survive a start, the status registers do not.    *)
(***************************************************************************)
EXTENDS Integers

CONSTANTS Pcs,       \* fetchable addresses
          ErrBits,   \* the bits of ERR_BITS
          Status0    \* the status registers (flags, MOD, ACC) after a start

VARIABLES phase,     \* "idle", "starting" (waiting for entropy) or "busy"
          busy, done, err,   \* STATUS.busy, INTR_STATE.done, ERR_BITS
          pc,
          mem,       \* data memory
          regs,      \* GPRs, call stack and WDRs
          status     \* flags, MOD and ACC

vars == <<phase, busy, done, err, pc, mem, regs, status>>

Init == /\ phase = "idle"
        /\ busy = 0 /\ done = 0 /\ err = {}
        /\ status = Status0

(* The host writes data memory. *)
HostWrite == UNCHANGED <<phase, busy, done, err, pc, regs, status>>

(* Starting again while the first start still waits makes busy visible early. *)
Start == /\ phase' = "starting"
         /\ busy' = IF phase = "starting" THEN 1 ELSE busy
         /\ status' = Status0
         /\ pc' \in Int
         /\ UNCHANGED <<done, err, mem, regs>>

Begin == /\ phase = "starting"
         /\ phase' = "busy"
         /\ busy' = 1
         /\ UNCHANGED <<done, err, pc, mem, regs, status>>

Retire == /\ phase = "busy"
          /\ pc' \in Pcs
          /\ UNCHANGED <<phase, busy, done, err>>

Halt == /\ phase = "busy"
        /\ phase' = "idle"
        /\ busy' = 0 /\ done' = 1
        /\ err' \in SUBSET ErrBits
        /\ UNCHANGED <<pc, mem, regs, status>>

Next == HostWrite \/ Start \/ Begin \/ Retire \/ Halt

Spec == Init /\ [][Next]_vars
=============================================================================
