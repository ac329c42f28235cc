------------------------------- MODULE Verifier -------------------------------
(***************************************************************************)
(* The offline verifier of crates/oracleguard-verifier: integrity.rs and   *)
(* replay.rs over one evidence record.                                     *)
(*                                                                         *)
(* A report is the set of its findings: every check appends and none       *)
(* stops the others, so the order only matters to a reader's diff.  A      *)
(* finding is its variant with the detail that tells two findings of the   *)
(* same variant apart.                                                     *)
(***************************************************************************)
EXTENDS Evidence

Finding(variant, detail) == [finding |-> variant, detail |-> detail]

(* The findings a decoded record can give.                                 *)
Findings ==
    {Finding(variant, "") : variant \in
        {"EvidenceVersionUnsupported", "IntentVersionUnsupported", "IntentIdMismatch",
         "GateInvariantBroken", "ReplayDiverged"}}
    \cup {Finding("AuthorizedEffectMismatch", field) : field \in
        {"policy_ref", "allocation_id", "requester_id", "destination", "asset",
         "authorized_amount_lovelace"}}
    \cup {Finding("AuthorizationExecutionInconsistent", kind) : kind \in
        {"AuthorizedButDeniedExecution", "DeniedButSettledExecution",
         "DeniedButFulfillmentRejection", "DeniedReasonMismatch", "DeniedGateMismatch"}}

FindingIf(broken, variant, detail) ==
    IF broken THEN {Finding(variant, detail)} ELSE {}

-----------------------------------------------------------------------------
(* integrity.rs                                                            *)

CheckVersions(evidence) ==
    FindingIf(evidence.evidence_version # EVIDENCE_VERSION_V1,
              "EvidenceVersionUnsupported", "")
        \cup
    FindingIf(evidence.intent.intent_version # INTENT_VERSION_V1,
              "IntentVersionUnsupported", "")

(* Fault: the recorded id is believed.                                     *)
TrustIntentId(evidence) == {}

(* Fault: a mismatch is reported as a failure to recompute the id, which a *)
(* well-formed intent never gives.                                         *)
MisreportIntentId(evidence) ==
    FindingIf(IntentId(evidence.intent) # evidence.intent_id, "IntentIdRecomputeFailed", "")

CheckIntentId(evidence) ==
    FindingIf(IntentId(evidence.intent) # evidence.intent_id, "IntentIdMismatch", "")

(* Fault: the payee is not compared.                                       *)
CopiedFieldsButPayee == {"policy_ref", "allocation_id", "requester_id", "asset"}

(* The fields an effect copies from its intent under the same name.        *)
CopiedFields ==
    {"policy_ref", "allocation_id", "requester_id", "destination", "asset"}

CheckAuthorizationConsistency(evidence) ==
    LET authorization == evidence.authorization
    IN  IF authorization.verdict = "Authorized"
        THEN {Finding("AuthorizedEffectMismatch", field) : field \in
                 {f \in CopiedFields : authorization.effect[f] # evidence.intent[f]}}
             \cup
             FindingIf(authorization.effect.authorized_amount_lovelace
                           # evidence.intent.requested_amount_lovelace,
                       "AuthorizedEffectMismatch", "authorized_amount_lovelace")
        ELSE FindingIf(authorization.gate # GateOf(authorization.reason),
                       "GateInvariantBroken", "")

CheckCrossVariantConsistency(evidence) ==
    LET authorization == evidence.authorization
        execution == evidence.execution
        Inconsistent(broken, kind) ==
            FindingIf(broken, "AuthorizationExecutionInconsistent", kind)
    IN  IF authorization.verdict = "Authorized"
        THEN Inconsistent(execution.outcome = "DeniedUpstream",
                          "AuthorizedButDeniedExecution")
        ELSE IF execution.outcome = "DeniedUpstream"
        THEN Inconsistent(authorization.reason # execution.reason,
                          "DeniedReasonMismatch")
             \cup
             Inconsistent(authorization.gate # execution.gate,
                          "DeniedGateMismatch")
        ELSE Inconsistent(execution.outcome = "Settled",
                          "DeniedButSettledExecution")
             \cup
             Inconsistent(execution.outcome = "RejectedAtFulfillment",
                          "DeniedButFulfillmentRejection")

CheckIntegrity(evidence) ==
    CheckVersions(evidence)
        \cup CheckIntentId(evidence)
        \cup CheckAuthorizationConsistency(evidence)
        \cup CheckCrossVariantConsistency(evidence)

-----------------------------------------------------------------------------
(* replay.rs                                                               *)

(* Fault: a reason of the evaluator is taken for one of a gate.            *)
TwoEvaluatorReasons == {"OraclePriceZero", "ReleaseCapExceeded"}

EvaluatorReasons == {"AmountZero", "OraclePriceZero", "ReleaseCapExceeded"}

(* Some(result) when the evaluator ran for this verdict, as a set.  Every  *)
(* other denial comes from a check before it, and is not replayed.         *)
ExpectedFromSnapshot(authorization) ==
    IF authorization.verdict = "Authorized"
    THEN {Allow(authorization.effect.authorized_amount_lovelace,
                authorization.effect.release_cap_basis_points)}
    ELSE {Deny(reason) : reason \in {authorization.reason} \cap EvaluatorReasons}

CheckReplayEquivalence(evidence) ==
    FindingIf(
        /\ evidence.intent.intent_version = INTENT_VERSION_V1
        /\ \E expected \in ExpectedFromSnapshot(evidence.authorization) :
              EvaluateDisbursement(evidence.intent, evidence.allocation_basis_lovelace)
                  # expected,
        "ReplayDiverged", "")

-----------------------------------------------------------------------------

VerifyEvidence(evidence) == CheckIntegrity(evidence) \cup CheckReplayEquivalence(evidence)

(* VerifierReport::is_ok                                                   *)
IsOk(findings) == findings = {}

-----------------------------------------------------------------------------
(* What a clean report promises, stated without the checks: the            *)
(* cross-field invariants of DisbursementEvidenceV1 as evidence.rs lists   *)
(* them, and that the grant is the one the caps call for.                  *)
CrossFieldInvariants(e) ==
    /\ e.evidence_version = EVIDENCE_VERSION_V1
    /\ e.intent.intent_version = INTENT_VERSION_V1
    /\ e.intent_id = IntentId(e.intent)
    /\ e.authorization.verdict = "Authorized" =>
          /\ \A field \in {"policy_ref", "allocation_id", "requester_id", "destination",
                         "asset"} : e.authorization.effect[field] = e.intent[field]
          /\ e.authorization.effect.authorized_amount_lovelace
                = e.intent.requested_amount_lovelace
          /\ e.execution.outcome \in {"Settled", "RejectedAtFulfillment"}
    /\ e.authorization.verdict = "Denied" =>
          /\ e.authorization.reason \in ReasonsAt(e.authorization.gate)
          /\ e.execution = DeniedUpstream(e.authorization.reason, e.authorization.gate)

(* The grant the record claims is what the caps allow, or the denial it    *)
(* claims is one that they call for.                                       *)
WithinBand(e) ==
    IsReleasable(e.intent.requested_amount_lovelace, e.allocation_basis_lovelace,
                 e.intent.oracle_fact.price_microusd)

GrantIsReplayable(e) ==
    LET amount == e.intent.requested_amount_lovelace
        price == e.intent.oracle_fact.price_microusd
    IN  IF e.authorization.verdict = "Authorized"
        THEN /\ amount > 0 /\ price > 0 /\ WithinBand(e)
             /\ e.authorization.effect.release_cap_basis_points = SelectReleaseBand(price)
        ELSE CASE e.authorization.reason = "AmountZero" -> amount = 0
               [] e.authorization.reason = "OraclePriceZero" -> amount > 0 /\ price = 0
               [] e.authorization.reason = "ReleaseCapExceeded" ->
                    amount > 0 /\ price > 0 /\ ~WithinBand(e)
               [] OTHER -> TRUE

=============================================================================
