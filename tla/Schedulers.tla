----------------------------- MODULE Schedulers -----------------------------
(***************************************************************************)
(* The validator, staker and receipt schedulers and the transaction        *)
(* wrapper that the agents hand their triggers to, side by side.  They     *)
(* share no state: each keeps the variables and the specification of its   *)
(* own module, and the property below says of two of them what they        *)
(* promise together.                                                       *)
(***************************************************************************)
EXTENDS ValidatorSchedule, StakerSchedule, ReceiptSchedule, ScriptWrapper

\* A request that the staker and receipt schedulers keep alive is one that
\* still makes sense: no live request adds a staker that was added, none
\* withdraws one that was not, and none approves a count that is approved or
\* overtaken.  The variables keep their types meanwhile.
RequestsCurrent ==
    /\ SkTypeOK /\ RsTypeOK
    /\ AddRequestCanceled /\ WithdrawAfterAdd
    /\ LiveApproveCurrent
=============================================================================
