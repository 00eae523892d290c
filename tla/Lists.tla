-------------------------------- MODULE Lists --------------------------------
(***************************************************************************)
(* The list of the groups of a regular expression as links in the heap     *)
(* (list.c): regexp_new adds to it, opti_regexp rewrites it in place and   *)
(* frees links while it walks, regexp_free deletes it.  One step per turn  *)
(* of the loops that change links; phase is the function that runs.        *)
(***************************************************************************)
EXTENDS CharGroups

CONSTANTS
    Groups,              \* the groups of the expressions
    LinkCount,           \* bound on the links of a list
    Texts                \* texts an expression may be matched with

ASSUME GroupsAssumption ==
    Groups \subseteq [chars : SUBSET Chars, operator : Operators]
ASSUME LinkCountAssumption == LinkCount \in Nat
ASSUME TextsAssumption == Texts \subseteq Seq(STRING)

VARIABLES heap, groups, p, l, same_group, phase

vars == << heap, groups, p, l, same_group, phase >>

NULL == 0
Links == 1 .. LinkCount

Init ==
    /\ heap = << >> /\ groups = NULL
    /\ p = NULL /\ l = NULL /\ same_group = TRUE
    /\ phase = "regexp_new"

Operator(link) == heap[link].content.operator

\* The links from first on, as far as they go.
LinksFrom(first) ==
    LET next(link) == IF link \in DOMAIN heap THEN heap[link].next ELSE NULL
        at[n \in 1 .. LinkCount + 1] ==
            IF n = 1 THEN first ELSE next(at[n - 1])
    IN  [n \in {k \in 1 .. LinkCount + 1 : at[k] # NULL} |-> at[n]]
Contents(links) == [k \in DOMAIN links |-> heap[links[k]].content]

\* The heap after free(link).
Freed(link) == [k \in DOMAIN heap \ {link} |-> heap[k]]

-----------------------------------------------------------------------------

\* list_add_last; list_add_first on an empty list.  The link malloc returns
\* is one that is not allocated: which one makes no difference.
AddLast ==
    /\ phase = "regexp_new"
    /\ Links \ DOMAIN heap # {}
    /\ \E group \in Groups :
          LET new == CHOOSE k \in Links : k \notin DOMAIN heap
              linked == IF groups = NULL THEN heap
                        ELSE [heap EXCEPT ![Last(LinksFrom(groups))].next = new]
          IN  /\ heap' = [k \in DOMAIN heap \cup {new} |->
                            IF k = new THEN [content |-> group, next |-> NULL]
                            ELSE linked[k]]
              /\ groups' = IF groups = NULL THEN new ELSE groups
    /\ UNCHANGED << p, l, same_group, phase >>

CallOpti ==
    /\ phase = "regexp_new"
    /\ p' = groups
    /\ l' = IF groups = NULL THEN NULL ELSE heap[groups].next
    /\ same_group' = TRUE
    /\ phase' = "opti_regexp"
    /\ UNCHANGED << heap, groups >>

\* The comparison at the beginning of a turn: the flag only goes down.
Walking == phase = "opti_regexp" /\ l # NULL
SameGroup == same_group /\ heap[p].content.chars = heap[l].content.chars

\* Faulty variant: a*a? becomes a+ as well.
StarredOrOptional ==
    SameGroup /\ Operator(p) = "ZOM" /\ Operator(l) # "ZOM"

Starred ==
    SameGroup /\ Operator(p) = "ZOM" /\ Operator(l) \in {"NOP", "OOM"}
Plus == SameGroup /\ Operator(p) = "OOM" /\ Operator(l) = "NOP"

\* Faulty variant: the walk does not go on.
NextLinkSame == p' = l /\ UNCHANGED l

NextLink == p' = l /\ l' = heap[l].next

\* a*a and a*a+: the second link is freed, and the walk stays at the first.
DropSecond ==
    /\ Walking /\ Starred
    /\ heap' = [Freed(l) EXCEPT ![p].content.operator = "OOM",
                                ![p].next = heap[l].next]
    /\ l' = heap[l].next
    /\ same_group' = SameGroup
    /\ UNCHANGED << groups, p, phase >>

\* a+a: the two operators change places.
Exchange ==
    /\ Walking /\ Plus
    /\ heap' = [heap EXCEPT ![p].content.operator = "NOP",
                            ![l].content.operator = "OOM"]
    /\ NextLink
    /\ same_group' = SameGroup
    /\ UNCHANGED << groups, phase >>

\* Faulty variant: the flag stays down.
FlagAfterDown == SameGroup

\* Up again for the next two groups, whatever the answer was.
FlagAfter == TRUE

StepOver ==
    /\ Walking /\ ~Starred /\ ~Plus
    /\ NextLink
    /\ same_group' = FlagAfter
    /\ UNCHANGED << heap, groups, phase >>

OptiEnds ==
    /\ phase = "opti_regexp" /\ l = NULL
    /\ phase' = "in_use"
    /\ UNCHANGED << heap, groups, p, l, same_group >>

\* list_delete, one link per turn: list_del_first reads the next link before
\* it frees the first.
CallDelete ==
    /\ phase = "in_use"
    /\ l' = groups
    /\ phase' = "list_delete"
    /\ UNCHANGED << heap, groups, p, same_group >>

\* Faulty variant: the walk stays at the link that is freed.
DelFirstSame ==
    /\ heap' = Freed(l)
    /\ UNCHANGED l

\* Faulty variant: the link is not freed.
DelFirstKeeping ==
    /\ l' = heap[l].next
    /\ UNCHANGED heap

DelFirst ==
    /\ l' = heap[l].next
    /\ heap' = Freed(l)

Delete ==
    /\ phase = "list_delete" /\ l # NULL
    /\ DelFirst
    /\ UNCHANGED << groups, p, same_group, phase >>

DeleteEnds ==
    /\ phase = "list_delete" /\ l = NULL
    /\ phase' = "regexp_free"
    /\ UNCHANGED << heap, groups, p, l, same_group >>

Terminated == phase = "regexp_free" /\ UNCHANGED vars

Next ==
    \/ AddLast \/ CallOpti \/ DropSecond \/ Exchange \/ StepOver \/ OptiEnds
    \/ CallDelete \/ Delete \/ DeleteEnds \/ Terminated

Spec == Init /\ [][Next]_vars

\* A sequential program that nothing holds up.  Whether regexp_new adds
\* another group is up to its source.
FairSpec == Spec /\ WF_vars(Next)

-----------------------------------------------------------------------------
(* Properties *)

TypeOK ==
    /\ DOMAIN heap \subseteq Links
    /\ \A k \in DOMAIN heap :
          /\ heap[k].next \in DOMAIN heap \cup {NULL}
          /\ heap[k].content.chars \subseteq Chars
          /\ heap[k].content.operator \in Operators
    /\ phase # "regexp_free" => l \in DOMAIN heap \cup {NULL}
    /\ same_group \in BOOLEAN

\* The links that are allocated are those of the list, each once: none is
\* lost while links are taken out of it, none is in it that was freed, and
\* deleting it leaves nothing (list.c:75-87, regexp.c:52-57).
LinksOwned ==
    LET links == LinksFrom(IF phase \in {"list_delete", "regexp_free"}
                           THEN l ELSE groups)
    IN  Range(links) = DOMAIN heap /\ IsInjective(links)

\* The list is the sequence its users take it for, and the walk that
\* rewrites it in place is one pass over that sequence, a merge per turn:
\* links that are dropped, operators that move and the flag change nothing
\* before p or after l.
UpToP ==
    LET links == LinksFrom(groups)
    IN  SubSeq(links, 1, CHOOSE k \in DOMAIN links : links[k] = p)
merged ==
    IF phase \in {"opti_regexp", "in_use"} /\ groups # NULL
    THEN Contents(UpToP) ELSE << >>
rest ==
    CASE phase = "regexp_new" -> Contents(LinksFrom(groups))
      [] phase = "opti_regexp" -> Contents(LinksFrom(l))
      [] OTHER -> << >>
Abstract == INSTANCE GroupSequence
ImplementsSequence == Abstract!Spec

\* Whatever a turn of opti_regexp does to links and operators, the list stays
\* an expression for the same words: what matches before the walk, halfway
\* and after it is the same.
WordsKept ==
    [][phase = "opti_regexp" =>
         LET before == Contents(LinksFrom(groups))
             after  == Contents(LinksFrom(groups))'
         IN  \A text \in Texts : \A from \in DOMAIN text :
                Reached(after, text, from) = Reached(before, text, from)]_vars

\* Rewriting comes to its end, and so does deleting.
ListsEnd == phase = "opti_regexp" ~> phase = "regexp_free"
==============================================================================
