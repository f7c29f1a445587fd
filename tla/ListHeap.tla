------------------------------ MODULE ListHeap ------------------------------
(***************************************************************************)
(* A client of the linked list (src/ds/list) that holds the nodes it got   *)
(* and hands each to Remove at most once.  The heap of nodes implements    *)
(* the sequence of SeqList.                                                *)
(***************************************************************************)
EXTENDS LinkedList, SequencesExt

CONSTANTS
    ListValues,   \* values stored
    MaxNodes      \* bound on the nodes allocated

ASSUME ListHeapAssumption == MaxNodes \in Nat

VARIABLES
    list,    \* the list and its heap
    kept     \* the nodes that were not removed

listVars == <<list, kept>>

ListInit == list = EmptyList /\ kept = {}

Fresh == Len(list.val) < MaxNodes

DoAppend(v) ==
    /\ Fresh
    /\ list' = AppendList(list, v)
    /\ kept' = kept \cup {NewNode(list)}

DoInsert(v, n) ==
    /\ Fresh
    /\ list' = Insert(list, v, n)
    /\ kept' = kept \cup {NewNode(list)}

DoChange(v, n) ==
    /\ list' = ChangeValue(list, n, v)
    /\ UNCHANGED kept

DoRemove(n) ==
    /\ list' = RemoveNode(list, n)
    /\ kept' = kept \ {n}

DoPop ==
    /\ list.head # Nil
    /\ list' = PopList(list)
    /\ kept' = kept \ {list.head}

ListNext ==
    \/ \E v \in ListValues :
        DoAppend(v) \/ \E n \in kept : DoInsert(v, n) \/ DoChange(v, n)
    \/ \E n \in kept : DoRemove(n)
    \/ DoPop

ListSpec == ListInit /\ [][ListNext]_listVars

-----------------------------------------------------------------------------
ListTypeOK ==
    /\ list.size \in 0 .. MaxNodes
    /\ {list.head, list.tail} \subseteq 0 .. MaxNodes
    /\ kept \subseteq 1 .. Len(list.val)

\* Both directions visit exactly the nodes the client holds, in opposite
\* orders, and Size counts them: Array() is never indexed out of range and
\* IterateReverse counts down to 0.
LinksAgree ==
    /\ {Nodes(list)[i] : i \in DOMAIN Nodes(list)} = kept
    /\ Len(Nodes(list)) = list.size
    /\ NodesReverse(list) = Reverse(Nodes(list))

Abstract == INSTANCE SeqList WITH Values <- ListValues, seq <- Array(list)

\* Every operation on the heap of nodes is one operation on the sequence of
\* their values, in the order of an iteration, and the nodes of the list stay
\* well linked in both directions.
ImplementsSeq == Abstract!Spec /\ [](ListTypeOK /\ LinksAgree)
=============================================================================
