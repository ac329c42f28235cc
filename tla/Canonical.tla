------------------------------ MODULE Canonical ------------------------------
(***************************************************************************)
(* The canonical types of crates/oracleguard-schemas: intents, oracle      *)
(* facts, effects, denial reasons and gates, and the identity projection   *)
(* that intent_id hashes.                                                  *)
(*                                                                         *)
(* A 32-byte id, an address, an asset or a UTxO reference is a member of a *)
(* small set; the pair and the source of an oracle fact have one canonical *)
(* value each and are left out.  A u64 is a number of U64, whose bound is  *)
(* a parameter so that its edge can be reached.                            *)
(***************************************************************************)
EXTENDS Integers

CONSTANTS
    PolicyRefs,      \* policy identities (digests of canonical policies)
    AllocationIds,   \* managed-pool allocations
    RequesterIds,    \* requesting subjects
    Addresses,       \* Cardano addresses, compared with their length byte
    AssetIds,        \* assets an intent may name
    ADA,             \* AssetIdV1::ADA
    UtxoRefs,        \* references of oracle UTxOs
    U64Max           \* largest u64

ASSUME CanonicalAssumption ==
    /\ ADA \in AssetIds
    /\ U64Max \in Nat \ {0}

U64 == 0 .. U64Max

(* Version 1 is the only supported one; 2 stands for every other value.    *)
INTENT_VERSION_V1 == 1
IntentVersions == {INTENT_VERSION_V1, 2}

-----------------------------------------------------------------------------
(* Reasons and gates                                                       *)

AuthorizationGates == {"Anchor", "Registry", "Grant"}

ReasonsAt(gate) ==
    CASE gate = "Anchor"   -> {"PolicyNotFound"}
      [] gate = "Registry" -> {"AllocationNotFound", "SubjectNotAuthorized",
                               "AssetMismatch"}
      [] gate = "Grant"    -> {"OracleStale", "OraclePriceZero", "AmountZero",
                               "ReleaseCapExceeded"}

DisbursementReasonCodes ==
    ReasonsAt("Anchor") \cup ReasonsAt("Registry") \cup ReasonsAt("Grant")

(* DisbursementReasonCode::gate: every reason belongs to exactly one gate. *)
GateOf(reason) == CHOOSE gate \in AuthorizationGates : reason \in ReasonsAt(gate)

-----------------------------------------------------------------------------
(* Oracle facts, intents and effects                                       *)

OracleFactEval == [price_microusd : U64]

OracleFactProvenance ==
    [timestamp_unix : U64, expiry_unix : U64, aggregator_utxo_ref : UtxoRefs]

(* Fault: still fresh at the instant of expiry.                            *)
IsFreshAtExpiry(provenance, now) == now <= provenance.expiry_unix

(* check_freshness: at the expiry instant a datum is already stale.        *)
IsFresh(provenance, now) == now < provenance.expiry_unix

DisbursementIntents ==
    [intent_version : IntentVersions,
     policy_ref : PolicyRefs,
     allocation_id : AllocationIds,
     requester_id : RequesterIds,
     oracle_fact : OracleFactEval,
     oracle_provenance : OracleFactProvenance,
     requested_amount_lovelace : U64,
     destination : Addresses,
     asset : AssetIds]

(* What the requester asks for, before the oracle's part is filled in.     *)
Asks ==
    [policy_ref : PolicyRefs,
     allocation_id : AllocationIds,
     requester_id : RequesterIds,
     requested_amount_lovelace : U64,
     destination : Addresses,
     asset : AssetIds]

(* DisbursementIntentV1::new_v1                                            *)
NewIntent(ask, fact, provenance) ==
    [intent_version |-> INTENT_VERSION_V1,
     policy_ref |-> ask.policy_ref,
     allocation_id |-> ask.allocation_id,
     requester_id |-> ask.requester_id,
     oracle_fact |-> fact,
     oracle_provenance |-> provenance,
     requested_amount_lovelace |-> ask.requested_amount_lovelace,
     destination |-> ask.destination,
     asset |-> ask.asset]

(* Fault: the amount is blanked like the provenance.                       *)
IntentIdWithoutAmount(intent) ==
    [intent_version |-> intent.intent_version,
     policy_ref |-> intent.policy_ref,
     allocation_id |-> intent.allocation_id,
     requester_id |-> intent.requester_id,
     oracle_fact |-> intent.oracle_fact,
     requested_amount_lovelace |-> 0,
     destination |-> intent.destination,
     asset |-> intent.asset]

(* intent_id is a keyed BLAKE3 hash of the identity projection: every      *)
(* field but oracle_provenance.  The hash is taken to be injective, so the *)
(* projection itself serves as the id.                                     *)
IntentId(intent) ==
    [intent_version |-> intent.intent_version,
     policy_ref |-> intent.policy_ref,
     allocation_id |-> intent.allocation_id,
     requester_id |-> intent.requester_id,
     oracle_fact |-> intent.oracle_fact,
     requested_amount_lovelace |-> intent.requested_amount_lovelace,
     destination |-> intent.destination,
     asset |-> intent.asset]

IntentIds ==
    [intent_version : IntentVersions,
     policy_ref : PolicyRefs,
     allocation_id : AllocationIds,
     requester_id : RequesterIds,
     oracle_fact : OracleFactEval,
     requested_amount_lovelace : U64,
     destination : Addresses,
     asset : AssetIds]

AuthorizedEffects ==
    [policy_ref : PolicyRefs,
     allocation_id : AllocationIds,
     requester_id : RequesterIds,
     destination : Addresses,
     asset : AssetIds,
     authorized_amount_lovelace : U64,
     release_cap_basis_points : U64]

=============================================================================
