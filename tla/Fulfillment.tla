----------------------------- MODULE Fulfillment -----------------------------
(***************************************************************************)
(* The fulfillment boundary of crates/oracleguard-adapter: consensus       *)
(* receipts (intake.rs), the settlement request and the branches of        *)
(* fulfill (settlement.rs).  Pure operators; what a settlement backend     *)
(* does between being called and returning is in Disbursement.             *)
(***************************************************************************)
EXTENDS Authorize

CONSTANT TxHashes   \* Cardano transaction ids

-----------------------------------------------------------------------------
(* Receipts                                                                *)

IntentStatuses == {"Committed", "Pending"}

IntentReceipts ==
    [intent_id : IntentIds,
     status : IntentStatuses,
     committed_height : Nat,
     output : AuthorizationResults]

CommittedReceipt(id, height, output) ==
    [intent_id |-> id, status |-> "Committed",
     committed_height |-> height, output |-> output]

(* A pending receipt has height 0 and still carries an output, which means *)
(* nothing.                                                                *)
PendingReceipt(id, output) ==
    [intent_id |-> id, status |-> "Pending",
     committed_height |-> 0, output |-> output]

-----------------------------------------------------------------------------
(* Settlement requests                                                     *)

SettlementRequests ==
    [destination : Addresses,
     asset : AssetIds,
     amount_lovelace : U64,
     intent_id : IntentIds]

GuardMvpAsset(effect) == effect.asset = ADA

(* Fault: destination and asset swapped.                                   *)
SwappedRequestFromEffect(effect, id) ==
    [destination |-> effect.asset,
     asset |-> effect.destination,
     amount_lovelace |-> effect.authorized_amount_lovelace,
     intent_id |-> id]

(* Fault: the cap is taken for the amount.                                 *)
CapRequestFromEffect(effect, id) ==
    [destination |-> effect.destination,
     asset |-> effect.asset,
     amount_lovelace |-> effect.release_cap_basis_points,
     intent_id |-> id]

SettlementRequestFromEffect(effect, id) ==
    [destination |-> effect.destination,
     asset |-> effect.asset,
     amount_lovelace |-> effect.authorized_amount_lovelace,
     intent_id |-> id]

-----------------------------------------------------------------------------
(* Outcomes                                                                *)

FulfillmentRejections == {"NonAdaAsset", "ReceiptNotCommitted"}

Settled(tx_hash) == [outcome |-> "Settled", tx_hash |-> tx_hash]

DeniedUpstream(reason, gate) ==
    [outcome |-> "DeniedUpstream", reason |-> reason, gate |-> gate]

RejectedAtFulfillment(kind) ==
    [outcome |-> "RejectedAtFulfillment", kind |-> kind]

FulfillmentOutcomes ==
    [outcome : {"Settled"}, tx_hash : TxHashes]
        \cup [outcome : {"DeniedUpstream"}, reason : DisbursementReasonCodes,
              gate : AuthorizationGates]
        \cup [outcome : {"RejectedAtFulfillment"}, kind : FulfillmentRejections]

(* Fault: the status of the receipt is not looked at.                      *)
ReachesBackendWhilePending(receipt) ==
    /\ receipt.output.verdict = "Authorized"
    /\ GuardMvpAsset(receipt.output.effect)

(* The only branch of fulfill from which the backend can be reached.       *)
ReachesBackend(receipt) ==
    /\ receipt.status = "Committed"
    /\ receipt.output.verdict = "Authorized"
    /\ GuardMvpAsset(receipt.output.effect)

(* The request that branch hands to the backend.                           *)
RequestOf(receipt) ==
    SettlementRequestFromEffect(receipt.output.effect, receipt.intent_id)

(* The other branches, in the order in which fulfill takes them.           *)
OutcomeWithoutBackend(receipt) ==
    IF receipt.status # "Committed"
    THEN RejectedAtFulfillment("ReceiptNotCommitted")
    ELSE IF receipt.output.verdict = "Denied"
    THEN DeniedUpstream(receipt.output.reason, receipt.output.gate)
    ELSE RejectedAtFulfillment("NonAdaAsset")

=============================================================================
