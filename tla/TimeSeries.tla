----------------------------- MODULE TimeSeries -----------------------------
(***************************************************************************)
(* The SQLite store of src/ds/ts/lite, as the outcomes of its operations:  *)
(* the rows afterwards and whether the caller gets an error.  SQLite does  *)
(* not enforce the foreign keys of the tables, only their unique keys.     *)
(* Every transaction may fail for a reason of its own and then leaves the  *)
(* rows as they were.                                                      *)
(***************************************************************************)
EXTENDS Naturals

\* Initialize: the time table starts with one slot.
EmptyStore == [time |-> 1, pipeline |-> {}, payout |-> {}, network |-> {}, stake |-> {}]

Stored(db) == [db |-> db, ok |-> TRUE]
Refused(db) == [db |-> db, ok |-> FALSE]

\* tx: all of the rows or none.
Insert(db, fresh, after) == {Refused(db)} \cup (IF fresh THEN {Stored(after)} ELSE {})

PipelineAdd(db, p) ==
    Insert(db, p \notin db.pipeline, [db EXCEPT !.pipeline = @ \cup {p}])

\* The unique key is the address of the payout (or its pipeline and start).
PayoutAppend(db, x) ==
    Insert(db, x \notin db.payout, [db EXCEPT !.payout = @ \cup {x}])

NetworkAppend(db, slot) ==
    Insert(db, slot \notin db.network, [db EXCEPT !.network = @ \cup {slot}])

\* Nothing is inserted, which is an error, for a pipeline that is not there.
StakeAppend(db, slot, p) ==
    Insert(db, p \in db.pipeline /\ <<slot, p>> \notin db.stake,
           [db EXCEPT !.stake = @ \cup {<<slot, p>>}])

\* The statement names a table that does not exist and does not parse.
BidAppend(db, x) == {Refused(db)}

\* inside_time_append commits, and so does tx, which reports that the
\* transaction has already been committed: the rows are there, and an error.
TimeAppend(db, length) == {Refused(db), Refused([db EXCEPT !.time = @ + length])}
=============================================================================
