----------------------------- MODULE VerifierAudit -----------------------------
(***************************************************************************)
(* An audit: a record is assembled from a decision and its outcome, fields *)
(* of it are altered between the operator and the auditor, and the offline *)
(* verifier looks at the result.                                           *)
(***************************************************************************)
EXTENDS Verifier, FiniteSets

CONSTANTS
    Records,         \* what an operator can have assembled
    OtherIntents,    \* intents a record may be made to carry
    OtherResults,    \* authorizations it may be made to carry
    OtherOutcomes,   \* executions it may be made to carry
    MaxAlterations   \* bound on the altered fields

ASSUME VerifierAuditAssumption ==
    /\ Records \subseteq DisbursementEvidence
    /\ OtherIntents \subseteq DisbursementIntents
    /\ OtherResults \subseteq AuthorizationResults
    /\ OtherOutcomes \subseteq FulfillmentOutcomes
    /\ MaxAlterations \in Nat

VARIABLES
    assembled,   \* the record as it was assembled
    evidence,    \* the record as the auditor has it
    altered,     \* the fields in which alterations were made
    report       \* the verifier's findings on what the auditor has

vars == <<assembled, evidence, altered, report>>

EvidenceFields ==
    {"evidence_version", "intent", "intent_id", "allocation_basis_lovelace",
     "now_unix_ms", "committed_height", "authorization", "execution"}

ValuesOf(field) ==
    CASE field = "evidence_version" -> EvidenceVersions
      [] field = "intent" -> OtherIntents
      [] field = "intent_id" -> {IntentId(other) : other \in OtherIntents}
      [] field = "allocation_basis_lovelace" -> U64
      [] field = "now_unix_ms" -> {0, U64Max}
      [] field = "committed_height" -> {0, 1}
      [] field = "authorization" -> OtherResults
      [] field = "execution" -> OtherOutcomes

TypeOK ==
    /\ assembled \in Records
    /\ evidence \in DisbursementEvidence
    /\ altered \subseteq EvidenceFields
    /\ report \subseteq Findings

Init ==
    /\ assembled \in Records
    /\ evidence = assembled
    /\ altered = {}
    /\ report = VerifyEvidence(assembled)

Alter(field) ==
    /\ field \notin altered
    /\ Cardinality(altered) < MaxAlterations
    /\ \E value \in ValuesOf(field) \ {evidence[field]} :
          LET record == [evidence EXCEPT ![field] = value]
          IN  /\ evidence' = record
              /\ report' = VerifyEvidence(record)
    /\ altered' = altered \cup {field}
    /\ UNCHANGED assembled

Next == \E field \in EvidenceFields : Alter(field)

Spec == Init /\ [][Next]_vars

-----------------------------------------------------------------------------
(* A clean report means exactly that the record is consistent and that its *)
(* grant replays (integrity.rs, replay.rs, lib.rs).                        *)
CleanIffConsistent ==
    IsOk(report) <=> CrossFieldInvariants(evidence) /\ GrantIsReplayable(evidence)

(* A single altered field of a clean record stays unnoticed only where the *)
(* record leaves it open: the time and the height, the provenance of the   *)
(* intent, a basis that calls for the same verdict, and how an authorized  *)
(* request closed (integrity.rs, replay.rs).                               *)
IsLeftOpen(field) ==
    CASE field \in {"now_unix_ms", "committed_height"} -> TRUE
      [] field = "intent" -> IntentId(evidence.intent) = IntentId(assembled.intent)
      [] field = "allocation_basis_lovelace" -> GrantIsReplayable(evidence)
      [] field = "execution" -> /\ assembled.authorization.verdict = "Authorized"
                                /\ evidence.execution.outcome # "DeniedUpstream"
      [] OTHER -> FALSE

SingleAlterationIsCaught ==
    \A field \in EvidenceFields :
        /\ IsOk(VerifyEvidence(assembled))
        /\ altered = {field}
        => (IsOk(report) <=> IsLeftOpen(field))

(* No alteration of a clean record makes a denied one clean as a settled   *)
(* one without also changing its authorization, nor moves a settled record *)
(* to another payee or amount without changing intent, id and              *)
(* authorization together (integrity.rs).                                  *)
PayeeIsBound ==
    /\ IsOk(VerifyEvidence(assembled))
    /\ IsOk(report)
    /\ evidence.execution.outcome = "Settled"
    => /\ assembled.authorization.verdict = "Denied" => "authorization" \in altered
       /\ \/ {"intent", "intent_id", "authorization"} \subseteq altered
          \/ /\ evidence.intent.destination = assembled.intent.destination
             /\ evidence.intent.requested_amount_lovelace
                  = assembled.intent.requested_amount_lovelace

=============================================================================
