------------------------------ MODULE MCClass -------------------------------
EXTENDS AlertClass

\* Software disables the class or enables it with LOCK or without; two signals
\* of the four are mapped to phases other than their own.
MCCtrls ==
  {[en |-> en, lock |-> lock, esc_en |-> {0, 3}, esc_map |-> [s \in 0..3 |-> 3 - s]] :
     en \in BOOLEAN, lock \in BOOLEAN}
MCAlertClasses == [a \in Alerts |-> IF a = "b" THEN "B" ELSE "A"]
MCPhaseCyc == [k \in 0..3 |-> 3 - k]
=============================================================================
