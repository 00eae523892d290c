---------------------------- MODULE GroupSequence ----------------------------
(***************************************************************************)
(* What the list of a regular expression is for its users: a sequence of   *)
(* groups that grows at its end, then is rewritten in one pass, and is     *)
(* given up.  At the end of the pass merged is Optimised of what was read. *)
(***************************************************************************)
EXTENDS CharGroups

CONSTANT Groups          \* the groups of the expressions

VARIABLES merged, rest   \* what the pass has made, and the groups before it

Init == merged = << >> /\ rest = << >>

Add ==
    /\ merged = << >> /\ UNCHANGED merged
    /\ \E group \in Groups : rest' = Append(rest, group)

\* A step of the pass.
MergeNext ==
    /\ rest # << >>
    /\ merged' = Merge(merged, Head(rest))
    /\ rest' = Tail(rest)

GiveUp ==
    /\ rest = << >> /\ UNCHANGED rest
    /\ merged' = << >>

Next == Add \/ MergeNext \/ GiveUp

Spec == Init /\ [][Next]_<< merged, rest >>
==============================================================================
