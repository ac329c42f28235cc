------------------------------ MODULE Authorize ------------------------------
(***************************************************************************)
(* The three-gate closure of crates/oracleguard-policy/src/authorize.rs:   *)
(* anchor, registry, grant, in that order, first failure wins.  Pure       *)
(* operators over a validator's configuration snapshot and a commit time.  *)
(***************************************************************************)
EXTENDS Evaluator

AllocationFacts ==
    [basis_lovelace : U64,
     authorized_subjects : SUBSET RequesterIds,
     approved_asset : AssetIds,
     approved_destinations : SUBSET Addresses]

(* PolicyAnchorView and AllocationRegistryView as a validator's            *)
(* ConfigSnapshot implements them: a set of registered policies, and the   *)
(* facts of the known allocations.                                         *)
IsConfigSnapshot(config) ==
    /\ config.policies \subseteq PolicyRefs
    /\ DOMAIN config.allocations \subseteq AllocationIds
    /\ \A id \in DOMAIN config.allocations : config.allocations[id] \in AllocationFacts

Pass == "Pass"

RunAnchorGate(intent, config) ==
    IF \/ intent.intent_version # INTENT_VERSION_V1
       \/ intent.policy_ref \notin config.policies
    THEN "PolicyNotFound"
    ELSE Pass

(* A destination outside the approved set shares the reason of an          *)
(* unauthorized requester, and is looked at after the asset.               *)
RunRegistryGate(intent, config) ==
    IF intent.allocation_id \notin DOMAIN config.allocations
    THEN "AllocationNotFound"
    ELSE LET facts == config.allocations[intent.allocation_id]
         IN  IF intent.requester_id \notin facts.authorized_subjects
             THEN "SubjectNotAuthorized"
             ELSE IF intent.asset # facts.approved_asset
             THEN "AssetMismatch"
             ELSE IF intent.destination \notin facts.approved_destinations
             THEN "SubjectNotAuthorized"
             ELSE Pass

BasisOf(intent, config) == config.allocations[intent.allocation_id].basis_lovelace

(* The amount and the band are the evaluator's, the rest the intent's.     *)
EffectOf(intent, allowed) ==
    [policy_ref |-> intent.policy_ref,
     allocation_id |-> intent.allocation_id,
     requester_id |-> intent.requester_id,
     destination |-> intent.destination,
     asset |-> intent.asset,
     authorized_amount_lovelace |-> allowed.authorized_amount_lovelace,
     release_cap_basis_points |-> allowed.release_cap_basis_points]

(* Freshness first, so that a stale price never reaches the evaluator.     *)
RunGrantGate(intent, basis, now) ==
    IF ~IsFresh(intent.oracle_provenance, now)
    THEN Deny("OracleStale")
    ELSE EvaluateDisbursement(intent, basis)

Authorized(effect) == [verdict |-> "Authorized", effect |-> effect]

Denied(reason, gate) == [verdict |-> "Denied", reason |-> reason, gate |-> gate]

AuthorizationResults ==
    [verdict : {"Authorized"}, effect : AuthorizedEffects]
        \cup [verdict : {"Denied"}, reason : DisbursementReasonCodes,
              gate : AuthorizationGates]

AuthorizeDisbursement(intent, config, now) ==
    IF RunAnchorGate(intent, config) # Pass
    THEN Denied(RunAnchorGate(intent, config), "Anchor")
    ELSE IF RunRegistryGate(intent, config) # Pass
    THEN Denied(RunRegistryGate(intent, config), "Registry")
    ELSE LET grant == RunGrantGate(intent, BasisOf(intent, config), now)
         IN  IF grant.decision = "Allow"
             THEN Authorized(EffectOf(intent, grant))
             ELSE Denied(grant.reason, "Grant")

-----------------------------------------------------------------------------
(* What the closure promises, stated without the order of its checks.      *)

(* The rows of the table of docs/evaluator-contract.md: from which price   *)
(* on which share of an allocation can be released.                        *)
ReleaseTable ==
    {[threshold |-> 0, bps |-> BAND_LOW_BPS],
     [threshold |-> THRESHOLD_MID_MICROUSD, bps |-> BAND_MID_BPS],
     [threshold |-> THRESHOLD_HIGH_MICROUSD, bps |-> BAND_HIGH_BPS]}

IsReleasable(amount, basis, price) ==
    \E row \in ReleaseTable :
        row.threshold <= price /\ amount * BASIS_POINT_SCALE <= basis * row.bps

(* The conditions an authorized request meets, in no order.                *)
Permitted(intent, config, now) ==
    /\ intent.intent_version = INTENT_VERSION_V1
    /\ intent.policy_ref \in config.policies
    /\ intent.allocation_id \in DOMAIN config.allocations
    /\ LET facts == config.allocations[intent.allocation_id]
       IN  /\ intent.requester_id \in facts.authorized_subjects
           /\ intent.asset = facts.approved_asset
           /\ intent.destination \in facts.approved_destinations
           /\ now < intent.oracle_provenance.expiry_unix
           /\ intent.oracle_fact.price_microusd > 0
           /\ intent.requested_amount_lovelace > 0
           /\ IsReleasable(intent.requested_amount_lovelace, facts.basis_lovelace,
                           intent.oracle_fact.price_microusd)

=============================================================================
