------------------------------ MODULE SeqList ------------------------------
(***************************************************************************)
(* What src/ds/list promises: a finite sequence to which values are        *)
(* appended, in which a value is put after or in place of another, and     *)
(* from which one is taken.                                                *)
(***************************************************************************)
EXTENDS Naturals, Sequences, SequencesExt

CONSTANT Values

VARIABLE seq

Init == seq = <<>>

Add(v) == seq' = Append(seq, v)
PutAfter(i, v) == seq' = InsertAt(seq, i + 1, v)
Replace(i, v) == seq' = [seq EXCEPT ![i] = v]
Take(i) == seq' = RemoveAt(seq, i)

Next ==
    \/ \E v \in Values : Add(v)
    \/ \E i \in DOMAIN seq : Take(i) \/ \E v \in Values : PutAfter(i, v) \/ Replace(i, v)

Spec == Init /\ [][Next]_seq
=============================================================================
