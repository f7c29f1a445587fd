------------------------------ MODULE Objects ------------------------------
(***************************************************************************)
(* The router and the state objects it makes: the pipeline, the validator  *)
(* with its receipts, and the receipts with their stakers.  Each has its   *)
(* own goroutines and answers through its own channels; what they promise  *)
(* their callers together is stated here.                                  *)
(***************************************************************************)
EXTENDS Router, PipelineState, ValidatorState

\* The variables of the components hold values of the shapes the Go types
\* allow, and no channel holds more than its capacity.
ObjectsTypeOK == TypeOK /\ PpTypeOK /\ VdTypeOK

\* The indexes agree with what they index while objects close under them: the
\* pipeline's list with payoutById and the order of the periods, the two
\* receipt maps of a validator with each other, and the registered stake of
\* a receipt with its stakers, however often an update is repeated.  The
\* variables keep their types meanwhile.
IndexesExact ==
    /\ ObjectsTypeOK
    /\ PayoutsSorted /\ IndexExact
    /\ IndexesAgree
    /\ RegisteredOnce
=============================================================================
