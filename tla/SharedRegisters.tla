-------------------------- MODULE SharedRegisters --------------------------
(***************************************************************************)
(* What the machines of one workspace promise about its registers: every   *)
(* machine may write at any moment, without asking, and shows its write at *)
(* once; whatever else it comes to show is a write that was made, and later*)
(* than what it showed before.  No two writes that anybody remembers bear  *)
(* one stamp.  How a write gets from one machine to another, and that it   *)
(* does, is not said here.                                                 *)
(***************************************************************************)
CONSTANTS
  Machine,
  Field,        \* the registers
  Older(_, _)   \* the order of stamps

VARIABLES
  shown,    \* shown[m][f]: the value and the stamp of register f at machine m
  written   \* the writes somebody remembers: <<register, stamp, value>>

vars == <<shown, written>>

\* What m shows of register f is a write of f.
TheWrite(m, f) == <<f, shown[m][f].stamp, shown[m][f].value>>

ShownIsWritten == {TheWrite(m, f) : m \in Machine, f \in Field} \subseteq written

\* All machines show the same.
Init ==
  /\ written = {TheWrite(m, f) : m \in Machine, f \in Field}
  /\ \A m, k \in Machine : shown[m] = shown[k]

\* Nothing changes at any machine but m.
Alone(m) == \A k \in Machine \ {m} : shown'[k] = shown[k]

\* m writes register f, with a stamp of its own that is later than the one it shows and
\* belongs to no other write.
Write(m, f) ==
  /\ Alone(m) /\ \A g \in Field \ {f} : shown'[m][g] = shown[m][g]
  /\ shown'[m][f].stamp.origin = m
  /\ Older(shown[m][f].stamp, shown'[m][f].stamp)
  /\ \A w \in written : w[2] # shown'[m][f].stamp
  /\ written' \subseteq written \cup {TheWrite(m, f)'}

\* m takes over, register by register, a later write or none.
Learn(m) ==
  /\ Alone(m)
  /\ \A f \in Field : \/ shown'[m][f] = shown[m][f]
                      \/ /\ Older(shown[m][f].stamp, shown'[m][f].stamp)
                         /\ TheWrite(m, f)' \in written
  /\ written' \subseteq written

\* A write is forgotten when nobody shows it and it is no longer under way.
Next ==
  /\ ShownIsWritten'
  /\ \E m \in Machine : Learn(m) \/ \E f \in Field : Write(m, f)

Spec == Init /\ [][Next]_vars

=============================================================================
