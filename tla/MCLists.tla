------------------------------- MODULE MCLists -------------------------------
(* Lists of up to five groups, out of all operators on one set and two of   *)
(* them on another.                                                         *)
EXTENDS Lists

MCAlphabet == << "a", "b" >>
MCGroups ==
    {Group({"a"}, operator) : operator \in {"NOP", "ZOM", "OOM", "ZOO"}}
    \cup {Group({"b"}, operator) : operator \in {"NOP", "OOM"}}
MCTexts == {<< "a", "a", "b" >>, << "b", "a", "a", "a" >>}
==============================================================================
