------------------------------- MODULE Agents -------------------------------
(***************************************************************************)
(* The agents side by side: the cranker and CrankPayout, the pipeline and  *)
(* the validator agent, and the way all of them are closed.  They share no *)
(* state: each component keeps the variables and the specification of its  *)
(* own module, and the properties below say of two of them at a time what  *)
(* they promise together.                                                  *)
(***************************************************************************)
EXTENDS Cranker, CrankPayout, PipelineAgent, ValidatorAgent, AgentClose

\* Cranks are made when they are due: the cranker asks for a pipeline only
\* after it was told a ring with a period that was over, and never again
\* within RETRY_SLOT slots, and CrankPayout submits nothing before the period
\* is over unless the slot home or the payout object has ended.  The variables
\* of both keep their types meanwhile.
CranksDue == KTypeOK /\ CpTypeOK /\ CrankPaced /\ NoEarlyCrank

\* However often a payout is reported to the pipeline and the validator
\* agent, by the listing, the subscription or a pipeline that is selected
\* again, each of its triggers starts one transaction.  The variables of the
\* pipeline agent keep their types meanwhile.
OneTaskPerTrigger == PaTypeOK /\ OneTransaction /\ OneSetPayout
=============================================================================
