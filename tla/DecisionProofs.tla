---------------------------- MODULE DecisionProofs ----------------------------
(***************************************************************************)
(* What is decided about an intent and what is verified of the record of   *)
(* it, for every value of the constants: an intent is authorized exactly   *)
(* when all conditions of Permitted hold, and the effect is the intent's   *)
(* own; a clean report is given exactly to the records that keep the       *)
(* cross-field invariants and whose grant replays; and every record made   *)
(* of a committed decision and the outcome that fulfill gives it is clean. *)
(***************************************************************************)
EXTENDS Verifier, TLAPS

-----------------------------------------------------------------------------
(* Arithmetic                                                              *)

(* The integer quotient bounds a number exactly when the number times the  *)
(* divisor stays within the dividend: no lovelace is lost or gained by     *)
(* rounding the cap down (math.rs).                                        *)
LEMMA QuotientBound ==
    ASSUME NEW a \in Nat, NEW d \in Nat \ {0}, NEW n \in Nat
    PROVE  n <= a \div d <=> n * d <= a
<1> DEFINE q == a \div d
<1>1. q \in Nat /\ q * d <= a /\ a < (q + 1) * d
  BY SMT
<1> HIDE DEF q
<1>2. ASSUME n <= q PROVE n * d <= a
  BY <1>1, <1>2, SMT
<1>3. ASSUME n * d <= a PROVE n <= q
  <2>1. SUFFICES ASSUME n >= q + 1 PROVE FALSE
    BY <1>1, SMT
  <2>2. n * d >= (q + 1) * d
    BY <1>1, <2>1, SMT
  <2>. QED
    BY <1>1, <1>3, <2>2, SMT
<1>. QED
  BY <1>2, <1>3 DEF q

(* A price of U64 selects one of the three bands, none of them above the   *)
(* full basis.                                                             *)
LEMMA BandIsAShare ==
    ASSUME NEW price \in U64
    PROVE  /\ SelectReleaseBand(price) \in {BAND_HIGH_BPS, BAND_MID_BPS, BAND_LOW_BPS}
           /\ SelectReleaseBand(price) \in U64
           /\ SelectReleaseBand(price) \in 1 .. BASIS_POINT_SCALE
  BY EvaluatorAssumption, CanonicalAssumption DEF SelectReleaseBand, U64

(* The cap is never above the basis, so the conversion of the u128 product *)
(* back to a u64 never fails (compute_max_releasable_lovelace).            *)
LEMMA CapFits ==
    ASSUME NEW basis \in U64, NEW bps \in 1 .. BASIS_POINT_SCALE
    PROVE  /\ (basis * bps) \div BASIS_POINT_SCALE \in 0 .. basis
           /\ MaxReleasable(basis, bps) = {(basis * bps) \div BASIS_POINT_SCALE}
<1> DEFINE cap == (basis * bps) \div BASIS_POINT_SCALE
<1>1. BASIS_POINT_SCALE \in Nat \ {0} /\ basis \in Nat /\ bps \in Nat /\ U64Max \in Nat
  BY EvaluatorAssumption, CanonicalAssumption DEF U64
<1>2. basis * bps \in Nat
  BY <1>1
<1>3. cap \in Nat
  BY <1>1, <1>2
<1>4. basis * bps <= basis * BASIS_POINT_SCALE
  BY <1>1
<1>5. ~(basis + 1 <= cap)
  <2>1. ~((basis + 1) * BASIS_POINT_SCALE <= basis * bps)
    BY <1>1, <1>4
  <2>. QED
    BY <1>1, <1>2, <2>1, QuotientBound
<1>6. cap <= basis
  BY <1>1, <1>3, <1>5
<1>7. cap <= U64Max
  BY <1>1, <1>3, <1>6 DEF U64
<1>. QED
  BY <1>1, <1>3, <1>6, <1>7 DEF MaxReleasable

(* The band picked by the comparisons of select_release_band_bps is the    *)
(* best row of the release table that the price reaches.                   *)
LEMMA BandIsBestRow ==
    ASSUME NEW amount \in U64, NEW basis \in U64, NEW price \in U64
    PROVE  IsReleasable(amount, basis, price)
               <=> amount * BASIS_POINT_SCALE <= basis * SelectReleaseBand(price)
<1>1. /\ {BAND_HIGH_BPS, BAND_MID_BPS, BAND_LOW_BPS} \subseteq Nat
      /\ BAND_HIGH_BPS > BAND_MID_BPS /\ BAND_MID_BPS > BAND_LOW_BPS
      /\ {THRESHOLD_HIGH_MICROUSD, THRESHOLD_MID_MICROUSD} \subseteq Nat
      /\ THRESHOLD_HIGH_MICROUSD > THRESHOLD_MID_MICROUSD
      /\ BASIS_POINT_SCALE \in Nat
      /\ amount \in Nat /\ basis \in Nat /\ price \in Nat
  BY EvaluatorAssumption, CanonicalAssumption DEF U64
<1>2. /\ basis * BAND_LOW_BPS <= basis * BAND_MID_BPS
      /\ basis * BAND_MID_BPS <= basis * BAND_HIGH_BPS
      /\ basis * BAND_LOW_BPS \in Nat /\ basis * BAND_MID_BPS \in Nat
      /\ basis * BAND_HIGH_BPS \in Nat /\ amount * BASIS_POINT_SCALE \in Nat
  BY <1>1
<1>3. IsReleasable(amount, basis, price) <=>
         \/ amount * BASIS_POINT_SCALE <= basis * BAND_LOW_BPS
         \/ /\ THRESHOLD_MID_MICROUSD <= price
            /\ amount * BASIS_POINT_SCALE <= basis * BAND_MID_BPS
         \/ /\ THRESHOLD_HIGH_MICROUSD <= price
            /\ amount * BASIS_POINT_SCALE <= basis * BAND_HIGH_BPS
  BY <1>1 DEF IsReleasable, ReleaseTable
<1>4. CASE price >= THRESHOLD_HIGH_MICROUSD
  BY <1>1, <1>2, <1>3, <1>4 DEF SelectReleaseBand
<1>5. CASE price < THRESHOLD_HIGH_MICROUSD /\ price >= THRESHOLD_MID_MICROUSD
  BY <1>1, <1>2, <1>3, <1>5 DEF SelectReleaseBand
<1>6. CASE price < THRESHOLD_MID_MICROUSD
  BY <1>1, <1>2, <1>3, <1>6 DEF SelectReleaseBand
<1>. QED
  BY <1>1, <1>4, <1>5, <1>6

-----------------------------------------------------------------------------
(* The evaluator and the gates                                             *)

(* What a request has to meet for the evaluator to allow it.               *)
IsAllowed(intent, basis) ==
    /\ intent.oracle_fact.price_microusd > 0
    /\ intent.requested_amount_lovelace > 0
    /\ IsReleasable(intent.requested_amount_lovelace, basis,
                    intent.oracle_fact.price_microusd)

(* The evaluator allows exactly what is releasable, for the requested      *)
(* amount and the band of the price, and denies the rest for one of its    *)
(* own reasons (evaluate_disbursement).                                    *)
LEMMA EvaluatorIsExact ==
    ASSUME NEW intent \in DisbursementIntents, NEW basis \in U64
    PROVE  IF IsAllowed(intent, basis)
           THEN EvaluateDisbursement(intent, basis)
                   = Allow(intent.requested_amount_lovelace,
                           SelectReleaseBand(intent.oracle_fact.price_microusd))
           ELSE \E reason \in {"AmountZero", "OraclePriceZero", "ReleaseCapExceeded"} :
                   EvaluateDisbursement(intent, basis) = Deny(reason)
<1> DEFINE amount == intent.requested_amount_lovelace
           price == intent.oracle_fact.price_microusd
           band == SelectReleaseBand(price)
           cap == (basis * band) \div BASIS_POINT_SCALE
<1>1. amount \in U64 /\ price \in U64
  BY DEF DisbursementIntents, OracleFactEval
<1>2. band \in 1 .. BASIS_POINT_SCALE
  BY <1>1, BandIsAShare
<1>3. BASIS_POINT_SCALE \in Nat \ {0} /\ basis \in Nat /\ amount \in Nat /\ price \in Nat
  BY <1>1, EvaluatorAssumption, CanonicalAssumption DEF U64
<1>4. basis * band \in Nat
  BY <1>2, <1>3
<1>5. MaxReleasable(basis, band) = {cap}
  BY <1>2, CapFits
<1>6. IsReleasable(amount, basis, price) <=> amount <= cap
  <2>1. amount <= cap <=> amount * BASIS_POINT_SCALE <= basis * band
    BY <1>3, <1>4, QuotientBound
  <2>. QED
    BY <1>1, <2>1, BandIsBestRow
<1>7. (\E c \in MaxReleasable(basis, band) : WithinCap(amount, c)) <=> amount <= cap
  BY <1>5 DEF WithinCap
<1>. HIDE DEF amount, price, band, cap
<1>8. EvaluateDisbursement(intent, basis) =
        IF amount = 0 THEN Deny("AmountZero")
        ELSE IF price = 0 THEN Deny("OraclePriceZero")
        ELSE IF amount <= cap THEN Allow(amount, band) ELSE Deny("ReleaseCapExceeded")
  BY <1>7 DEF EvaluateDisbursement, amount, price, band
<1>9. IsAllowed(intent, basis) <=> price > 0 /\ amount > 0 /\ amount <= cap
  BY <1>6 DEF IsAllowed, amount, price
<1>10. CASE IsAllowed(intent, basis)
  BY <1>3, <1>8, <1>9, <1>10 DEF amount, price, band
<1>11. CASE ~IsAllowed(intent, basis)
  BY <1>3, <1>8, <1>9, <1>11
<1>. QED
  BY <1>10, <1>11

(* The evaluator is reached for the intents that have passed the first two *)
(* gates and carry a live price.                                           *)
IsKnown(intent, config) ==
    /\ intent.intent_version = INTENT_VERSION_V1
    /\ intent.policy_ref \in config.policies
    /\ intent.allocation_id \in DOMAIN config.allocations
    /\ LET facts == config.allocations[intent.allocation_id]
       IN  /\ intent.requester_id \in facts.authorized_subjects
           /\ intent.asset = facts.approved_asset
           /\ intent.destination \in facts.approved_destinations

(* The effect of an allowed request, for the whole of what was asked.      *)
FullEffect(intent) ==
    EffectOf(intent, Allow(intent.requested_amount_lovelace,
                           SelectReleaseBand(intent.oracle_fact.price_microusd)))

(* A gate passes or gives a reason of its own.                             *)
LEMMA GatesOwnTheirReasons ==
    ASSUME NEW intent, NEW config
    PROVE  /\ RunAnchorGate(intent, config) \in {Pass} \cup ReasonsAt("Anchor")
           /\ RunRegistryGate(intent, config) \in {Pass} \cup ReasonsAt("Registry")
           /\ /\ RunAnchorGate(intent, config) = Pass
              /\ RunRegistryGate(intent, config) = Pass
              <=> IsKnown(intent, config)
  BY DEF RunAnchorGate, RunRegistryGate, ReasonsAt, Pass, IsKnown

(* The reasons of the table are all the reasons there are.                 *)
LEMMA DenialsAreResults ==
    ASSUME NEW gate \in AuthorizationGates, NEW reason \in ReasonsAt(gate)
    PROVE  Denied(reason, gate) \in AuthorizationResults
  BY DEF AuthorizationGates, DisbursementReasonCodes, Denied, AuthorizationResults

LEMMA EffectsAreTyped ==
    ASSUME NEW intent \in DisbursementIntents
    PROVE  FullEffect(intent) \in AuthorizedEffects
<1>1. SelectReleaseBand(intent.oracle_fact.price_microusd) \in U64
  BY BandIsAShare DEF DisbursementIntents, OracleFactEval
<1>. QED
  BY <1>1 DEF FullEffect, EffectOf, Allow, DisbursementIntents, AuthorizedEffects

(* An intent is authorized exactly when it meets every condition of        *)
(* Permitted, whatever the order of the checks; the effect is then the     *)
(* intent's own, for the whole of what was asked.  Every other intent gets *)
(* a denial whose gate is the one its reason belongs to                    *)
(* (authorize_disbursement).                                               *)
THEOREM AuthorizedIffPermitted ==
    ASSUME NEW intent \in DisbursementIntents,
           NEW config, IsConfigSnapshot(config),
           NEW now \in U64
    PROVE  /\ AuthorizeDisbursement(intent, config, now) \in AuthorizationResults
           /\ IF Permitted(intent, config, now)
              THEN AuthorizeDisbursement(intent, config, now)
                      = Authorized(FullEffect(intent))
              ELSE \E gate \in AuthorizationGates : \E reason \in ReasonsAt(gate) :
                      AuthorizeDisbursement(intent, config, now) = Denied(reason, gate)
<1> DEFINE result == AuthorizeDisbursement(intent, config, now)
           basis == BasisOf(intent, config)
           IsDenial == \E gate \in AuthorizationGates : \E reason \in ReasonsAt(gate) :
                          result = Denied(reason, gate)
<1>1. Permitted(intent, config, now) <=>
         /\ IsKnown(intent, config)
         /\ IsFresh(intent.oracle_provenance, now)
         /\ IsAllowed(intent, basis)
  BY DEF Permitted, IsKnown, IsAllowed, IsFresh, BasisOf
<1>2. CASE ~IsKnown(intent, config)
  <2>1. \/ /\ RunAnchorGate(intent, config) \in ReasonsAt("Anchor")
           /\ result = Denied(RunAnchorGate(intent, config), "Anchor")
        \/ /\ RunRegistryGate(intent, config) \in ReasonsAt("Registry")
           /\ result = Denied(RunRegistryGate(intent, config), "Registry")
    BY <1>2, GatesOwnTheirReasons DEF AuthorizeDisbursement
  <2>2. IsDenial
    BY <2>1 DEF AuthorizationGates
  <2>. QED
    BY <1>1, <1>2, <2>2, DenialsAreResults
<1>3. CASE IsKnown(intent, config)
  <2>1. basis \in U64
    BY <1>3 DEF IsKnown, BasisOf, IsConfigSnapshot, AllocationFacts
  <2>2. result = LET grant == RunGrantGate(intent, basis, now)
                 IN  IF grant.decision = "Allow"
                     THEN Authorized(EffectOf(intent, grant))
                     ELSE Denied(grant.reason, "Grant")
    BY <1>3, GatesOwnTheirReasons DEF AuthorizeDisbursement
  <2>3. CASE ~IsFresh(intent.oracle_provenance, now)
    <3>1. result = Denied("OracleStale", "Grant")
      BY <2>2, <2>3 DEF RunGrantGate, Deny
    <3>2. IsDenial
      BY <3>1 DEF AuthorizationGates, ReasonsAt
    <3>. QED
      BY <1>1, <2>3, <3>2, DenialsAreResults
  <2>4. CASE IsFresh(intent.oracle_provenance, now) /\ IsAllowed(intent, basis)
    <3>1. result = Authorized(FullEffect(intent))
      BY <2>1, <2>2, <2>4, EvaluatorIsExact DEF RunGrantGate, Allow, FullEffect
    <3>. QED
      BY <1>1, <1>3, <2>4, <3>1, EffectsAreTyped DEF Authorized, AuthorizationResults
  <2>5. CASE IsFresh(intent.oracle_provenance, now) /\ ~IsAllowed(intent, basis)
    <3>1. \E reason \in ReasonsAt("Grant") : result = Denied(reason, "Grant")
      BY <2>1, <2>2, <2>5, EvaluatorIsExact DEF RunGrantGate, Deny, ReasonsAt
    <3>2. IsDenial
      BY <3>1 DEF AuthorizationGates
    <3>. QED
      BY <1>1, <2>5, <3>2, DenialsAreResults
  <2>. QED
    BY <2>3, <2>4, <2>5
<1>. QED
  BY <1>2, <1>3

-----------------------------------------------------------------------------
(* What of an intent the closure reads                                     *)

(* Two intents with one id differ for the closure only in their freshness. *)
LEMMA OnlyTheExpiryIsReadBesidesTheId ==
    ASSUME NEW i, NEW j, NEW c, NEW time,
           IntentId(i) = IntentId(j),
           IsFresh(i.oracle_provenance, time) <=> IsFresh(j.oracle_provenance, time)
    PROVE  AuthorizeDisbursement(i, c, time) = AuthorizeDisbursement(j, c, time)
<1>1. /\ i.intent_version = j.intent_version
      /\ i.policy_ref = j.policy_ref
      /\ i.allocation_id = j.allocation_id
      /\ i.requester_id = j.requester_id
      /\ i.oracle_fact = j.oracle_fact
      /\ i.requested_amount_lovelace = j.requested_amount_lovelace
      /\ i.destination = j.destination
      /\ i.asset = j.asset
  BY DEF IntentId
<1>2. RunAnchorGate(i, c) = RunAnchorGate(j, c)
  BY <1>1 DEF RunAnchorGate
<1>3. RunRegistryGate(i, c) = RunRegistryGate(j, c)
  BY <1>1 DEF RunRegistryGate
<1>4. BasisOf(i, c) = BasisOf(j, c)
  BY <1>1 DEF BasisOf
<1>5. \A basis : RunGrantGate(i, basis, time) = RunGrantGate(j, basis, time)
  BY <1>1 DEF RunGrantGate, EvaluateDisbursement
<1>6. \A grant : EffectOf(i, grant) = EffectOf(j, grant)
  BY <1>1 DEF EffectOf
<1>. QED
  BY <1>2, <1>3, <1>4, <1>5, <1>6 DEF AuthorizeDisbursement

-----------------------------------------------------------------------------
(* Clean reports                                                           *)

(* The gate a reason names is the only one that owns it.                   *)
LEMMA GateOfItsReason ==
    ASSUME NEW gate \in AuthorizationGates, NEW reason \in DisbursementReasonCodes
    PROVE  gate = GateOf(reason) <=> reason \in ReasonsAt(gate)
<1>1. \E g \in AuthorizationGates : reason \in ReasonsAt(g)
  BY DEF DisbursementReasonCodes, AuthorizationGates
<1>2. GateOf(reason) \in AuthorizationGates /\ reason \in ReasonsAt(GateOf(reason))
  BY <1>1 DEF GateOf
<1>3. \A g, h \in AuthorizationGates :
         reason \in ReasonsAt(g) /\ reason \in ReasonsAt(h) => g = h
  BY DEF AuthorizationGates, ReasonsAt
<1>. QED
  BY <1>2, <1>3

(* integrity.rs has nothing to say exactly about the records that keep the *)
(* invariants evidence.rs lists.                                           *)
LEMMA IntegrityIsExact ==
    ASSUME NEW e \in DisbursementEvidence
    PROVE  CheckIntegrity(e) = {} <=> CrossFieldInvariants(e)
<1> DEFINE authorization == e.authorization
           execution == e.execution
<1>1. CheckVersions(e) = {} <=>
         e.evidence_version = EVIDENCE_VERSION_V1 /\ e.intent.intent_version = INTENT_VERSION_V1
  BY DEF CheckVersions, FindingIf
<1>2. CheckIntentId(e) = {} <=> e.intent_id = IntentId(e.intent)
  BY DEF CheckIntentId, FindingIf
<1>3. \/ authorization.verdict = "Authorized"
      \/ /\ authorization.verdict = "Denied"
         /\ authorization.reason \in DisbursementReasonCodes
         /\ authorization.gate \in AuthorizationGates
  BY DEF DisbursementEvidence, AuthorizationResults
<1>4. \/ execution.outcome = "Settled"
      \/ execution.outcome = "RejectedAtFulfillment"
      \/ /\ execution.outcome = "DeniedUpstream"
         /\ execution = DeniedUpstream(execution.reason, execution.gate)
  <2>1. execution \in FulfillmentOutcomes
    BY DEF DisbursementEvidence
  <2>. QED
    BY <2>1 DEF FulfillmentOutcomes, DeniedUpstream
<1>5. CASE authorization.verdict = "Authorized"
  <2>1. CheckAuthorizationConsistency(e) = {} <=>
           /\ \A field \in CopiedFields : authorization.effect[field] = e.intent[field]
           /\ authorization.effect.authorized_amount_lovelace
                = e.intent.requested_amount_lovelace
    BY <1>5 DEF CheckAuthorizationConsistency, FindingIf
  <2>2. CheckCrossVariantConsistency(e) = {} <=> execution.outcome # "DeniedUpstream"
    BY <1>5 DEF CheckCrossVariantConsistency, FindingIf
  <2>. QED
    BY <1>1, <1>2, <1>4, <1>5, <2>1, <2>2 DEF CheckIntegrity, CrossFieldInvariants, CopiedFields
<1>6. CASE authorization.verdict = "Denied"
  <2>1. CheckAuthorizationConsistency(e) = {} <=>
           authorization.reason \in ReasonsAt(authorization.gate)
    BY <1>3, <1>6, GateOfItsReason DEF CheckAuthorizationConsistency, FindingIf
  <2>2. CheckCrossVariantConsistency(e) = {} <=>
           execution = DeniedUpstream(authorization.reason, authorization.gate)
    <3>1. CASE execution.outcome = "DeniedUpstream"
      BY <1>4, <1>6, <3>1 DEF CheckCrossVariantConsistency, FindingIf, DeniedUpstream
    <3>2. CASE execution.outcome # "DeniedUpstream"
      BY <1>4, <1>6, <3>2 DEF CheckCrossVariantConsistency, FindingIf, DeniedUpstream
    <3>. QED
      BY <3>1, <3>2
  <2>. QED
    BY <1>1, <1>2, <1>6, <2>1, <2>2 DEF CheckIntegrity, CrossFieldInvariants
<1>. QED
  BY <1>3, <1>5, <1>6

(* replay.rs has nothing to say exactly about the records whose grant is   *)
(* the one the caps call for.                                              *)
LEMMA ReplayIsExact ==
    ASSUME NEW e \in DisbursementEvidence, CrossFieldInvariants(e)
    PROVE  CheckReplayEquivalence(e) = {} <=> GrantIsReplayable(e)
<1> DEFINE amount == e.intent.requested_amount_lovelace
           price == e.intent.oracle_fact.price_microusd
           basis == e.allocation_basis_lovelace
           replayed == EvaluateDisbursement(e.intent, basis)
<1>1. /\ e.intent \in DisbursementIntents /\ basis \in U64
      /\ amount \in Nat /\ price \in Nat
      /\ e.authorization \in AuthorizationResults
  BY CanonicalAssumption
  DEF DisbursementEvidence, DisbursementIntents, OracleFactEval, U64
<1>2. e.intent.intent_version = INTENT_VERSION_V1
  BY DEF CrossFieldInvariants
<1>3. IsAllowed(e.intent, basis) <=> amount > 0 /\ price > 0 /\ WithinBand(e)
  BY DEF IsAllowed, WithinBand
<1>4. CheckReplayEquivalence(e) = {} <=>
         \A expected \in ExpectedFromSnapshot(e.authorization) : replayed = expected
  BY <1>2 DEF CheckReplayEquivalence, FindingIf
<1>5. CASE e.authorization.verdict = "Authorized"
  <2>1. CheckReplayEquivalence(e) = {} <=>
           replayed = Allow(amount, e.authorization.effect.release_cap_basis_points)
    BY <1>4, <1>5 DEF ExpectedFromSnapshot, CrossFieldInvariants
  <2>2. replayed = Allow(amount, e.authorization.effect.release_cap_basis_points)
           <=> /\ IsAllowed(e.intent, basis)
               /\ e.authorization.effect.release_cap_basis_points = SelectReleaseBand(price)
    BY <1>1, EvaluatorIsExact DEF Allow, Deny
  <2>. QED
    BY <1>3, <1>5, <2>1, <2>2 DEF GrantIsReplayable
<1>6. CASE e.authorization.verdict = "Denied" /\ e.authorization.reason \in EvaluatorReasons
  <2>1. CheckReplayEquivalence(e) = {} <=> replayed = Deny(e.authorization.reason)
    BY <1>4, <1>6 DEF ExpectedFromSnapshot
  <2>2. replayed = Deny("AmountZero") <=> amount = 0
    BY <1>1 DEF EvaluateDisbursement, Allow, Deny
  <2>3. replayed = Deny("OraclePriceZero") <=> amount > 0 /\ price = 0
    BY <1>1 DEF EvaluateDisbursement, Allow, Deny
  <2>4. replayed = Deny("ReleaseCapExceeded") <=> amount > 0 /\ price > 0 /\ ~WithinBand(e)
    BY <1>1, <1>3, <2>2, <2>3, EvaluatorIsExact DEF Allow, Deny
  <2>. QED
    BY <1>6, <2>1, <2>2, <2>3, <2>4 DEF GrantIsReplayable, EvaluatorReasons
<1>7. CASE e.authorization.verdict = "Denied" /\ e.authorization.reason \notin EvaluatorReasons
  <2>1. CheckReplayEquivalence(e) = {}
    BY <1>4, <1>7 DEF ExpectedFromSnapshot
  <2>2. GrantIsReplayable(e)
    BY <1>7 DEF GrantIsReplayable, EvaluatorReasons
  <2>. QED
    BY <2>1, <2>2
<1>. QED
  BY <1>1, <1>5, <1>6, <1>7 DEF AuthorizationResults

(* A clean report means exactly that the record is consistent and that its *)
(* grant replays (verify_evidence).                                        *)
THEOREM CleanReportIsExact ==
    ASSUME NEW e \in DisbursementEvidence
    PROVE  IsOk(VerifyEvidence(e)) <=> CrossFieldInvariants(e) /\ GrantIsReplayable(e)
  BY IntegrityIsExact, ReplayIsExact DEF IsOk, VerifyEvidence

-----------------------------------------------------------------------------
(* Honest records                                                          *)

(* What fulfill returns for a receipt, when it returns.                    *)
IsOutcomeOf(outcome, receipt) ==
    IF ReachesBackend(receipt)
    THEN outcome.outcome = "Settled"
    ELSE outcome = OutcomeWithoutBackend(receipt)

(* A verdict the evaluator took part in is replayed from the basis of the  *)
(* allocation, which was then known.                                       *)
LEMMA VerdictIsReplayable ==
    ASSUME NEW i \in DisbursementIntents,
           NEW config, IsConfigSnapshot(config), NEW now \in U64
    PROVE  \A expected \in ExpectedFromSnapshot(AuthorizeDisbursement(i, config, now)) :
              /\ i.allocation_id \in DOMAIN config.allocations
              /\ EvaluateDisbursement(i, BasisOf(i, config)) = expected
<1> DEFINE result == AuthorizeDisbursement(i, config, now)
           basis == BasisOf(i, config)
           grant == EvaluateDisbursement(i, basis)
<1>1. CASE ~IsKnown(i, config)
  <2>1. \/ \E reason \in ReasonsAt("Anchor") : result = Denied(reason, "Anchor")
        \/ \E reason \in ReasonsAt("Registry") : result = Denied(reason, "Registry")
    BY <1>1, GatesOwnTheirReasons DEF AuthorizeDisbursement
  <2>2. ExpectedFromSnapshot(result) = {}
    BY <2>1 DEF ExpectedFromSnapshot, Denied, ReasonsAt, EvaluatorReasons
  <2>. QED
    BY <2>2
<1>2. CASE IsKnown(i, config) /\ ~IsFresh(i.oracle_provenance, now)
  <2>1. result = Denied("OracleStale", "Grant")
    BY <1>2, GatesOwnTheirReasons DEF AuthorizeDisbursement, RunGrantGate, Deny
  <2>2. ExpectedFromSnapshot(result) = {}
    BY <2>1 DEF ExpectedFromSnapshot, Denied, EvaluatorReasons
  <2>. QED
    BY <2>2
<1>3. CASE IsKnown(i, config) /\ IsFresh(i.oracle_provenance, now)
  <2>1. basis \in U64 /\ i.allocation_id \in DOMAIN config.allocations
    BY <1>3 DEF IsKnown, BasisOf, IsConfigSnapshot, AllocationFacts
  <2>2. result = IF grant.decision = "Allow"
                 THEN Authorized(EffectOf(i, grant))
                 ELSE Denied(grant.reason, "Grant")
    BY <1>3, GatesOwnTheirReasons DEF AuthorizeDisbursement, RunGrantGate
  <2>3. \/ \E amount, band : grant = Allow(amount, band)
        \/ \E reason : grant = Deny(reason)
    BY <2>1, EvaluatorIsExact
  <2>4. \A expected \in ExpectedFromSnapshot(result) : grant = expected
    BY <2>2, <2>3 DEF ExpectedFromSnapshot, Authorized, Denied, EffectOf, Allow, Deny
  <2>. QED
    BY <2>1, <2>4
<1>. QED
  BY <1>1, <1>2, <1>3

(* An outcome a record may have beside a result: a payment or a refusal    *)
(* beside a grant, and beside a denial the denial itself.                  *)
Fits(outcome, result) ==
    IF result.verdict = "Authorized"
    THEN outcome.outcome \in {"Settled", "RejectedAtFulfillment"}
    ELSE outcome = DeniedUpstream(result.reason, result.gate)

LEMMA FittingRecordIsClean ==
    ASSUME NEW i \in DisbursementIntents, i.intent_version = INTENT_VERSION_V1,
           NEW config, IsConfigSnapshot(config), NEW now \in U64, NEW height \in Nat,
           NEW outcome \in FulfillmentOutcomes,
           Fits(outcome, AuthorizeDisbursement(i, config, now)),
           NEW basis \in U64,
           i.allocation_id \in DOMAIN config.allocations => basis = BasisOf(i, config),
           NEW time \in U64
    PROVE  IsOk(VerifyEvidence(
               AssembleEvidence(i, CommittedReceipt(IntentId(i), height,
                                                    AuthorizeDisbursement(i, config, now)),
                                outcome, basis, time)))
<1> DEFINE result == AuthorizeDisbursement(i, config, now)
           receipt == CommittedReceipt(IntentId(i), height, result)
           e == AssembleEvidence(i, receipt, outcome, basis, time)
<1>1. result \in AuthorizationResults
  BY AuthorizedIffPermitted
<1>2. e \in DisbursementEvidence
  BY <1>1 DEF AssembleEvidence, CommittedReceipt, DisbursementEvidence, EvidenceVersions,
              EVIDENCE_VERSION_V1, IntentId, IntentIds, DisbursementIntents
<1>3. /\ e.evidence_version = EVIDENCE_VERSION_V1 /\ e.intent = i
      /\ e.intent_id = IntentId(i) /\ e.authorization = result /\ e.execution = outcome
      /\ e.allocation_basis_lovelace = basis
  BY DEF AssembleEvidence, CommittedReceipt
<1>. HIDE DEF result, receipt, e
<1>4. CrossFieldInvariants(e)
  <2>1. CASE Permitted(i, config, now)
    <3>1. result = Authorized(FullEffect(i))
      BY <2>1, AuthorizedIffPermitted DEF result
    <3>2. outcome.outcome \in {"Settled", "RejectedAtFulfillment"}
      BY <3>1 DEF Fits, result, Authorized
    <3>. QED
      BY <1>3, <3>1, <3>2 DEF CrossFieldInvariants, Authorized, FullEffect, EffectOf, Allow
  <2>2. CASE ~Permitted(i, config, now)
    <3>1. PICK gate \in AuthorizationGates :
             \E reason \in ReasonsAt(gate) : result = Denied(reason, gate)
      BY <2>2, AuthorizedIffPermitted DEF result
    <3>2. PICK reason \in ReasonsAt(gate) : result = Denied(reason, gate)
      BY <3>1
    <3>3. outcome = DeniedUpstream(reason, gate)
      BY <3>2 DEF Fits, result, Denied
    <3>. QED
      BY <1>3, <3>2, <3>3 DEF CrossFieldInvariants, Denied
  <2>. QED
    BY <2>1, <2>2
<1>5. CheckReplayEquivalence(e) = {}
  <2>1. \A expected \in ExpectedFromSnapshot(result) : EvaluateDisbursement(i, basis) = expected
    BY VerdictIsReplayable DEF result
  <2>. QED
    BY <1>3, <2>1 DEF CheckReplayEquivalence, FindingIf
<1>6. CheckIntegrity(e) = {}
  BY <1>2, <1>4, IntegrityIsExact
<1>. QED
  BY <1>5, <1>6 DEF IsOk, VerifyEvidence, e, receipt, result

(* A record of a committed decision and of the outcome fulfill gives it    *)
(* passes the verifier, whatever time is recorded with it                  *)
(* (assemble_disbursement_evidence, verify_evidence).                      *)
THEOREM HonestRecordIsClean ==
    ASSUME NEW i \in DisbursementIntents, i.intent_version = INTENT_VERSION_V1,
           NEW config, IsConfigSnapshot(config), NEW now \in U64, NEW height \in Nat,
           NEW outcome \in FulfillmentOutcomes,
           IsOutcomeOf(outcome, CommittedReceipt(IntentId(i), height,
                                                 AuthorizeDisbursement(i, config, now))),
           NEW basis \in U64,
           i.allocation_id \in DOMAIN config.allocations => basis = BasisOf(i, config),
           NEW time \in U64
    PROVE  IsOk(VerifyEvidence(
               AssembleEvidence(i, CommittedReceipt(IntentId(i), height,
                                                    AuthorizeDisbursement(i, config, now)),
                                outcome, basis, time)))
<1> DEFINE result == AuthorizeDisbursement(i, config, now)
           receipt == CommittedReceipt(IntentId(i), height, result)
<1>1. result.verdict \in {"Authorized", "Denied"}
  <2>1. result \in AuthorizationResults
    BY AuthorizedIffPermitted
  <2>. QED
    BY <2>1 DEF AuthorizationResults
<1>2. receipt.status = "Committed" /\ receipt.output = result
  BY DEF CommittedReceipt
<1>3. IsOutcomeOf(outcome, receipt)
  OBVIOUS
<1>. HIDE DEF result, receipt
<1>4. Fits(outcome, result)
  BY <1>1, <1>2, <1>3
  DEF IsOutcomeOf, Fits, OutcomeWithoutBackend, ReachesBackend, RejectedAtFulfillment
<1>. QED
  BY <1>4, FittingRecordIsClean DEF result

===============================================================================
