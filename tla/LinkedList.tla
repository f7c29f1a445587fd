----------------------------- MODULE LinkedList -----------------------------
(***************************************************************************)
(* The doubly linked list of src/ds/list/list.go as a value: the fields of *)
(* Generic and a heap with the fields of every node ever allocated.  Nodes *)
(* are numbered in the order of their allocation; 0 is nil.  A node that   *)
(* was removed keeps its links, as in the code.  Size is a uint32: a       *)
(* negative size stands for the value 2^32 above it.                       *)
(***************************************************************************)
EXTENDS Integers, Sequences, FiniteSets

Nil == 0

\* CreateGeneric
EmptyList == [size |-> 0, head |-> Nil, tail |-> Nil,
              next |-> <<>>, prev |-> <<>>, val |-> <<>>]

Allocated(l) == DOMAIN l.val

\* &Node[T]{next: n, prev: p, value: v}
New(l, v, p, n) == [l EXCEPT !.val = Append(@, v), !.prev = Append(@, p),
                             !.next = Append(@, n)]

NewNode(l) == Len(l.val) + 1

AppendList(l, v) ==
    LET n == NewNode(l)
        m == [New(l, v, l.tail, Nil) EXCEPT !.size = @ + 1, !.tail = n] IN
    IF l.tail = Nil THEN [m EXCEPT !.head = n]
    ELSE [m EXCEPT !.next[l.tail] = n]

RemoveNode(l, n) ==
    LET p == l.prev[n]
        x == l.next[n]
        m == [l EXCEPT !.size = @ - 1] IN
    CASE p = Nil /\ x = Nil -> [m EXCEPT !.head = Nil, !.tail = Nil]
      [] p = Nil /\ x # Nil -> [m EXCEPT !.head = x, !.prev[x] = Nil]
      [] p # Nil /\ x = Nil -> [m EXCEPT !.tail = p, !.next[p] = Nil]
      [] OTHER -> [m EXCEPT !.next[p] = x, !.prev[x] = p]

\* Pop
PopList(l) == IF l.head = Nil THEN l ELSE RemoveNode(l, l.head)

\* Mutant: the value also overwrites that of the node it is put after.
InsertOverwrites(l, v, n) ==
    LET x == l.next[n]
        new == NewNode(l)
        m == [New(l, v, IF x = Nil THEN l.tail ELSE n, x)
                EXCEPT !.size = @ + 1, !.val[n] = v] IN
    IF x = Nil THEN [m EXCEPT !.tail = new, !.next[l.tail] = new]
    ELSE [m EXCEPT !.next[n] = new, !.prev[x] = new]

\* Insert(v, prevNode), prevNode # nil; at the end it goes after the tail of
\* the list, whatever prevNode is.
Insert(l, v, n) ==
    LET x == l.next[n]
        new == NewNode(l)
        m == [New(l, v, IF x = Nil THEN l.tail ELSE n, x)
                EXCEPT !.size = @ + 1] IN
    IF x = Nil THEN [m EXCEPT !.tail = new, !.next[l.tail] = new]
    ELSE [m EXCEPT !.next[n] = new, !.prev[x] = new]

ChangeValue(l, n, v) == [l EXCEPT !.val[n] = v]

\* The nodes an iteration visits, in order, up to the first nil; Iterate and
\* Array follow next, IterateReverse follows prev.
Walk(l, first, link) ==
    LET at[k \in 1 .. Len(l.val)] ==
            IF k = 1 THEN first
            ELSE IF at[k - 1] = Nil THEN Nil ELSE link[at[k - 1]] IN
    at

Visit(l, first, link) ==
    LET at == Walk(l, first, link) IN
    [k \in 1 .. Cardinality({k \in 1 .. Len(l.val) : at[k] # Nil}) |-> at[k]]

Nodes(l) == Visit(l, l.head, l.next)
NodesReverse(l) == Visit(l, l.tail, l.prev)
Array(l) == [i \in DOMAIN Nodes(l) |-> l.val[Nodes(l)[i]]]
=============================================================================
