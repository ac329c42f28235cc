------------------------------- MODULE Evidence -------------------------------
(***************************************************************************)
(* The evidence record of crates/oracleguard-schemas/src/evidence.rs and   *)
(* its assembly in crates/oracleguard-adapter/src/artifacts.rs.            *)
(*                                                                         *)
(* AuthorizationSnapshotV1 and ExecutionOutcomeV1 mirror the results and   *)
(* outcomes of Authorize and Fulfillment variant for variant, and the      *)
(* From impls copy every field, so one set of values stands for both.      *)
(***************************************************************************)
EXTENDS Fulfillment

EVIDENCE_VERSION_V1 == 1
EvidenceVersions == {EVIDENCE_VERSION_V1, 2}

DisbursementEvidence ==
    [evidence_version : EvidenceVersions,
     intent : DisbursementIntents,
     intent_id : IntentIds,
     allocation_basis_lovelace : U64,
     now_unix_ms : U64,
     committed_height : Nat,
     authorization : AuthorizationResults,
     execution : FulfillmentOutcomes]

(* assemble_disbursement_evidence returns Err(IntentIdMismatch) when this  *)
(* does not hold.                                                          *)
CanAssemble(intent, receipt) == IntentId(intent) = receipt.intent_id

AssembleEvidence(intent, receipt, outcome, basis, now) ==
    [evidence_version |-> EVIDENCE_VERSION_V1,
     intent |-> intent,
     intent_id |-> IntentId(intent),
     allocation_basis_lovelace |-> basis,
     now_unix_ms |-> now,
     committed_height |-> receipt.committed_height,
     authorization |-> receipt.output,
     execution |-> outcome]

=============================================================================
