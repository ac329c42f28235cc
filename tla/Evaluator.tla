------------------------------ MODULE Evaluator ------------------------------
(***************************************************************************)
(* The release-cap evaluator of crates/oracleguard-policy (math.rs and     *)
(* evaluate.rs): price -> band, band and allocation -> cap, cap and        *)
(* request -> allow or deny.  Pure operators.                              *)
(*                                                                         *)
(* The thresholds, the bands and the scale are fixed numbers in the code;  *)
(* they are parameters here, with the orderings that math.rs asserts at    *)
(* compile time as the assumption.                                         *)
(***************************************************************************)
EXTENDS Canonical

CONSTANTS
    THRESHOLD_HIGH_MICROUSD, THRESHOLD_MID_MICROUSD,
    BAND_HIGH_BPS, BAND_MID_BPS, BAND_LOW_BPS,
    BASIS_POINT_SCALE

ASSUME EvaluatorAssumption ==
    /\ {THRESHOLD_HIGH_MICROUSD, THRESHOLD_MID_MICROUSD} \subseteq U64 \ {0}
    /\ THRESHOLD_HIGH_MICROUSD > THRESHOLD_MID_MICROUSD
    /\ {BAND_HIGH_BPS, BAND_MID_BPS, BAND_LOW_BPS} \subseteq U64 \ {0}
    /\ BAND_HIGH_BPS > BAND_MID_BPS
    /\ BAND_MID_BPS > BAND_LOW_BPS
    /\ BAND_HIGH_BPS = BASIS_POINT_SCALE

SelectReleaseBand(price) ==
    IF price >= THRESHOLD_HIGH_MICROUSD THEN BAND_HIGH_BPS
    ELSE IF price >= THRESHOLD_MID_MICROUSD THEN BAND_MID_BPS
    ELSE BAND_LOW_BPS

(* The product is a u128, so it cannot wrap; the quotient is rounded down  *)
(* and must fit a u64 again.  Some(cap) is {cap} and None is {}.           *)
MaxReleasable(allocation, bps) ==
    {cap \in {(allocation * bps) \div BASIS_POINT_SCALE} : cap <= U64Max}

(* Fault: the cap itself cannot be requested.                              *)
StrictlyWithinCap(requested, cap) == requested < cap

(* decide_grant: a request that equals the cap is within it.               *)
WithinCap(requested, cap) == requested <= cap

Allow(amount, bps) ==
    [decision |-> "Allow",
     authorized_amount_lovelace |-> amount,
     release_cap_basis_points |-> bps]

Deny(reason) == [decision |-> "Deny", reason |-> reason]

EvaluateDisbursement(intent, basis) ==
    LET requested == intent.requested_amount_lovelace
        band == SelectReleaseBand(intent.oracle_fact.price_microusd)
    IN  IF requested = 0 THEN Deny("AmountZero")
        ELSE IF intent.oracle_fact.price_microusd = 0 THEN Deny("OraclePriceZero")
        ELSE IF \E cap \in MaxReleasable(basis, band) : WithinCap(requested, cap)
             THEN Allow(requested, band)
             ELSE Deny("ReleaseCapExceeded")

=============================================================================
