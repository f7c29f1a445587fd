--------------------------- MODULE ScriptBuilder ---------------------------
(***************************************************************************)
(* The builders of src/script: functions that add instructions and keys to *)
(* the transaction of a Script.  A Script is its txBuilder (not open if it *)
(* is nil) and its keyMap; a builder yields the set of its possible        *)
(* outcomes, each with the script it leaves behind, also when it fails     *)
(* half way.  Reading a state object, an RPC or the making of a key may    *)
(* fail.  An instruction is its name and the accounts that have to sign    *)
(* it, as far as the builder shows them by appending their key or by       *)
(* naming them as payer.                                                   *)
(***************************************************************************)
EXTENDS Naturals, Sequences

\* txBuilder == nil
Blank(s) == ~s.open

Ok(s) == [s |-> s, ok |-> TRUE]
Fail(s) == [s |-> s, ok |-> FALSE]

\* Go on with F unless the outcome is an error.
Then(O, F(_)) == UNION {IF o.ok THEN F(o.s) ELSE {o} : o \in O}

\* An if err != nil { return err } that does not touch the script.
Reads(s) == {Ok(s), Fail(s)}

\* Create
NewScript == [open |-> FALSE, tx |-> <<>>, keys |-> {}]

\* AppendKey
AppendKeys(s, K) == [s EXCEPT !.keys = @ \cup K]

\* AppendInstruction
AppendInstruction(s, op, signers) ==
    IF Blank(s) THEN {Fail(s)}
    ELSE {Ok([s EXCEPT !.tx = Append(@, [op |-> op, sign |-> signers])])}

\* A builder that reads nothing: its keys, then its instruction.
Builds(s, op, K) ==
    IF Blank(s) THEN {Fail(s)}
    ELSE AppendInstruction(AppendKeys(s, K), op, K)

\* One that reads state objects first.
ReadsAndBuilds(s, op, K) ==
    IF Blank(s) THEN {Fail(s)}
    ELSE Then(Reads(s), LAMBDA t : Builds(t, op, K))

CreateAccount(s, payer, new) == ReadsAndBuilds(s, "create_account", {payer, new})
CreateTokenAccount(s, payer) == Builds(s, "token_account", {payer})

\* The token account of somebody: created if GetAccountInfo does not find it.
token_account(s, payer) == {Ok(s)} \cup CreateTokenAccount(s, payer)

CloseBids(s) == ReadsAndBuilds(s, "close_bids", {"admin"})

\* The key is appended before the bidder is compared with it.
Bid(s) ==
    IF Blank(s) THEN {Fail(s)}
    ELSE Then(Reads(s), LAMBDA t :
            {Fail(AppendKeys(t, {"bidder"}))} \cup Builds(t, "insert_bid", {"bidder"}))

\* The token account is in the transaction when the bid list is missing.
Crank(s) ==
    IF Blank(s) THEN {Fail(s)}
    ELSE Then(Reads(s), LAMBDA t :
            Then(token_account(AppendKeys(t, {"cranker"}), "cranker"), LAMBDA u :
                {Fail(u)} \cup Builds(u, "crank", {"cranker"})))

ClosePayout(s) == ReadsAndBuilds(s, "close_payout", {"admin"})

\* admin is a signer whose key CreateAccount has appended.
AppendPeriod(s) ==
    IF Blank(s) THEN {Fail(s)}
    ELSE Then(Reads(s), LAMBDA t :
            Then(CreateAccount(t, "admin", "bidlist"), LAMBDA u :
                AppendInstruction(AppendKeys(u, {"payout"}), "append_period",
                                  {"admin", "payout"})))

ClaimRefund(s) ==
    IF Blank(s) THEN {Fail(s)}
    ELSE Then(Reads(s), LAMBDA t :
            Then(token_account(t, "payer"), LAMBDA u : Builds(u, "claim_refund", {})))

\* One ClaimRefund per entry of AllClaim(); two entries here.
MultipleClaimRefund(s) ==
    Then(Reads(s), LAMBDA t : Then(ClaimRefund(t), LAMBDA u : ClaimRefund(u)))

Transfer(s) == Builds(s, "transfer", {"payer"})

CreateController(s) == ReadsAndBuilds(s, "create", {"admin", "cranker"})

\* payer pays for the account but its key is not appended.
CreateMint(s) ==
    IF Blank(s) THEN {Fail(s)}
    ELSE Then(Reads(AppendKeys(s, {"mint"})), LAMBDA t :
            Then(AppendInstruction(t, "create_account", {"payer", "mint"}), LAMBDA u :
                AppendInstruction(u, "initialize_mint", {})))

MintIssue(s) == ReadsAndBuilds(s, "mint_to", {"authority"})

AddPipeline(s) ==
    IF Blank(s) THEN {Fail(s)}
    ELSE Then(Reads(s), LAMBDA t :
            Then(CreateAccount(t, "admin", "refunds"), LAMBDA u :
                Then(CreateAccount(u, "admin", "periods"), LAMBDA v :
                    Builds(v, "add_pipeline", {"pipeline", "admin"}))))

UpdatePipeline(s) == Builds(s, "update_pipeline", {"admin"})

AddStaker(s) == ReadsAndBuilds(s, "add_staker", {"stake", "admin"})
AddStakerToReceipt(s) == ReadsAndBuilds(s, "add_staker_to_receipt", {"admin"})

\* The keys are appended before the id is derived.
AddValidator(s) ==
    IF Blank(s) THEN {Fail(s)}
    ELSE Then(Reads(AppendKeys(s, {"vote", "admin"})), LAMBDA t :
            AppendInstruction(t, "add_validator", {"vote", "admin"}))

ValidatorSetPipeline(s) == ReadsAndBuilds(s, "validator_set_payout", {"receipt", "admin"})

ValidatorWithdrawReceipt(s) ==
    IF Blank(s) THEN {Fail(s)}
    ELSE Then(Reads(s), LAMBDA t :
            Then(token_account(t, "payer"), LAMBDA u :
                Builds(u, "validator_withdraw_receipt", {})))

BuilderNames == {"CloseBids", "Bid", "Crank", "ClosePayout", "AppendPeriod",
    "MultipleClaimRefund", "Transfer", "CreateController", "CreateMint",
    "MintIssue", "AddPipeline", "UpdatePipeline", "AddStaker",
    "AddStakerToReceipt", "AddValidator", "ValidatorSetPipeline",
    "ValidatorWithdrawReceipt"}

Build(b, s) ==
    CASE b = "CloseBids" -> CloseBids(s)
      [] b = "Bid" -> Bid(s)
      [] b = "Crank" -> Crank(s)
      [] b = "ClosePayout" -> ClosePayout(s)
      [] b = "AppendPeriod" -> AppendPeriod(s)
      [] b = "MultipleClaimRefund" -> MultipleClaimRefund(s)
      [] b = "Transfer" -> Transfer(s)
      [] b = "CreateController" -> CreateController(s)
      [] b = "CreateMint" -> CreateMint(s)
      [] b = "MintIssue" -> MintIssue(s)
      [] b = "AddPipeline" -> AddPipeline(s)
      [] b = "UpdatePipeline" -> UpdatePipeline(s)
      [] b = "AddStaker" -> AddStaker(s)
      [] b = "AddStakerToReceipt" -> AddStakerToReceipt(s)
      [] b = "AddValidator" -> AddValidator(s)
      [] b = "ValidatorSetPipeline" -> ValidatorSetPipeline(s)
      [] b = "ValidatorWithdrawReceipt" -> ValidatorWithdrawReceipt(s)

-----------------------------------------------------------------------------
(* The life of the transaction.                                            *)

\* txBuilder = nil
Cleared(s) == [s EXCEPT !.open = FALSE, !.tx = <<>>]

\* SetTx: a builder that was left behind is an error.
SetTx(s, payer) ==
    IF Blank(s) THEN Ok([open |-> TRUE, tx |-> <<>>, keys |-> {payer}]) ELSE Fail(s)

\* The accounts that tx.Sign asks for.
Signers(s) == {"payer"} \cup UNION {s.tx[i].sign : i \in DOMAIN s.tx}

\* tx.Sign in FinishTx; only after it is the builder cleared.
Signed(s) == ~Blank(s) /\ Signers(s) \subseteq s.keys

-----------------------------------------------------------------------------
(* The callbacks of the agents: the builders that each one calls between   *)
(* SetTx and FinishTx.                                                     *)

RunCloseBids == <<"CloseBids">>
RunClosePayout == <<"ClosePayout">>
RunAppendPeriod == <<"UpdatePipeline", "AppendPeriod">>
runCrank == <<"Crank">>
runValidatorSetPayout == <<"ValidatorSetPipeline">>
runValidatorWithdrawReceipt == <<"ValidatorWithdrawReceipt">>

Callbacks == {RunCloseBids, RunClosePayout, RunAppendPeriod, runCrank,
              runValidatorSetPayout, runValidatorWithdrawReceipt}
=============================================================================
