--------------------------- MODULE VerifierAuditProofs ---------------------------
(***************************************************************************)
(* Safety of an audit, for any records and any number of alterations.  The *)
(* report is always the verifier's on the record at hand, and CleanReport- *)
(* IsExact says what a clean one means.                                    *)
(***************************************************************************)
EXTENDS VerifierAudit, DecisionProofs

IInv ==
    /\ assembled \in Records
    /\ evidence \in DisbursementEvidence
    /\ altered \subseteq EvidenceFields
    /\ \A field \in EvidenceFields \ altered : evidence[field] = assembled[field]
    /\ \A field \in EvidenceFields : altered = {field} => evidence[field] # assembled[field]
    /\ report = VerifyEvidence(evidence)

-----------------------------------------------------------------------------

(* Altered fields still decode.                                            *)
LEMMA ValuesAreTyped ==
    ASSUME NEW e \in DisbursementEvidence, NEW field \in EvidenceFields,
           NEW value \in ValuesOf(field)
    PROVE  [e EXCEPT ![field] = value] \in DisbursementEvidence
<1>1. /\ \A i \in OtherIntents : IntentId(i) \in IntentIds
      /\ {0, U64Max} \subseteq U64
  BY VerifierAuditAssumption, CanonicalAssumption DEF IntentId, IntentIds, DisbursementIntents, U64
<1>2. CASE field \in {"evidence_version", "intent", "intent_id", "allocation_basis_lovelace"}
  BY <1>1, <1>2, VerifierAuditAssumption DEF ValuesOf, DisbursementEvidence
<1>3. CASE field \in {"now_unix_ms", "committed_height", "authorization", "execution"}
  BY <1>1, <1>3, VerifierAuditAssumption DEF ValuesOf, DisbursementEvidence
<1>. QED
  BY <1>2, <1>3 DEF EvidenceFields

LEMMA IInvIsInvariant == Spec => []IInv
<1>1. Init => IInv
  BY VerifierAuditAssumption DEF Init, IInv
<1>2. IInv /\ [Next]_vars => IInv'
  <2>. SUFFICES ASSUME IInv, [Next]_vars PROVE IInv'
    OBVIOUS
  <2>1. ASSUME NEW field \in EvidenceFields, Alter(field) PROVE IInv'
    <3>1. PICK value \in ValuesOf(field) \ {evidence[field]} :
             /\ evidence' = [evidence EXCEPT ![field] = value]
             /\ report' = VerifyEvidence(evidence')
      BY <2>1 DEF Alter
    <3>2. evidence' \in DisbursementEvidence
      BY <3>1, ValuesAreTyped DEF IInv
    <3>3. \A other \in EvidenceFields \ {field} : evidence'[other] = evidence[other]
      BY <3>1 DEF IInv, DisbursementEvidence, EvidenceFields
    <3>4. \A other \in EvidenceFields \ altered' : evidence'[other] = assembled'[other]
      BY <2>1, <3>3 DEF Alter, IInv
    <3>5. ASSUME NEW other \in EvidenceFields, altered' = {other}
          PROVE  evidence'[other] # assembled'[other]
      <4>1. other = field /\ altered = {}
        BY <2>1, <3>5 DEF Alter
      <4>2. evidence'[field] = value
        BY <3>1 DEF IInv, DisbursementEvidence, EvidenceFields
      <4>. QED
        BY <2>1, <3>1, <4>1, <4>2 DEF Alter, IInv
    <3>. QED
      BY <2>1, <3>1, <3>2, <3>4, <3>5 DEF Alter, IInv
  <2>2. CASE UNCHANGED vars
    BY <2>2 DEF vars, IInv
  <2>. QED
    BY <2>1, <2>2 DEF Next
<1>. QED
  BY <1>1, <1>2, PTL DEF Spec

-----------------------------------------------------------------------------

(* What the verifier finds in a record that decodes is one of its findings. *)
LEMMA FindingsAreTyped ==
    ASSUME NEW e \in DisbursementEvidence
    PROVE  VerifyEvidence(e) \subseteq Findings
<1>1. CheckVersions(e) \subseteq Findings
  BY DEF CheckVersions, FindingIf, Findings
<1>2. CheckIntentId(e) \subseteq Findings
  BY DEF CheckIntentId, FindingIf, Findings
<1>3. CheckAuthorizationConsistency(e) \subseteq Findings
  <2>1. \A field \in CopiedFields \cup {"authorized_amount_lovelace"} :
           Finding("AuthorizedEffectMismatch", field) \in Findings
    BY DEF CopiedFields, Findings
  <2>2. Finding("GateInvariantBroken", "") \in Findings
    BY DEF Findings
  <2>. QED
    BY <2>1, <2>2 DEF CheckAuthorizationConsistency, FindingIf
<1>4. CheckCrossVariantConsistency(e) \subseteq Findings
  <2>1. \A kind \in {"AuthorizedButDeniedExecution", "DeniedButSettledExecution",
                     "DeniedButFulfillmentRejection", "DeniedReasonMismatch",
                     "DeniedGateMismatch"} :
           Finding("AuthorizationExecutionInconsistent", kind) \in Findings
    BY DEF Findings
  <2>. QED
    BY <2>1 DEF CheckCrossVariantConsistency, FindingIf
<1>5. CheckReplayEquivalence(e) \subseteq Findings
  BY DEF CheckReplayEquivalence, FindingIf, Findings
<1>. QED
  BY <1>1, <1>2, <1>3, <1>4, <1>5 DEF VerifyEvidence, CheckIntegrity

(* The record, its alterations and the findings are well typed whatever    *)
(* the operator assembled and whoever altered it.                          *)
THEOREM TypeCorrect == Spec => []TypeOK
<1>1. IInv => TypeOK
  BY FindingsAreTyped DEF IInv, TypeOK
<1>. QED
  BY <1>1, IInvIsInvariant, PTL

(* However many fields are altered, a clean report means that what the     *)
(* auditor has is consistent and that its grant replays.                   *)
THEOREM CleanReportsMeanConsistent == Spec => []CleanIffConsistent
<1>1. IInv => CleanIffConsistent
  BY CleanReportIsExact DEF IInv, CleanIffConsistent
<1>. QED
  BY <1>1, IInvIsInvariant, PTL

(* A clean settled record has the payee and the amount of its own          *)
(* authorization and is bound to them by its id.                           *)
LEMMA SettledIsAuthorized ==
    ASSUME NEW e \in DisbursementEvidence, IsOk(VerifyEvidence(e)),
           \/ e.authorization.verdict = "Authorized"
           \/ e.execution.outcome = "Settled"
    PROVE  /\ e.authorization.verdict = "Authorized"
           /\ e.intent_id = IntentId(e.intent)
           /\ e.authorization.effect.destination = e.intent.destination
           /\ e.authorization.effect.authorized_amount_lovelace
                = e.intent.requested_amount_lovelace
<1>1. CrossFieldInvariants(e)
  BY CleanReportIsExact
<1>2. e.authorization.verdict = "Authorized" \/ e.authorization.verdict = "Denied"
  BY DEF DisbursementEvidence, AuthorizationResults
<1>3. e.authorization.verdict # "Denied"
  BY <1>1 DEF CrossFieldInvariants, DeniedUpstream
<1>. QED
  BY <1>1, <1>2, <1>3 DEF CrossFieldInvariants

(* A denied record cannot be made into a clean settled one, nor a settled  *)
(* one be moved to another payee or amount, without a change of the intent *)
(* together with its id and its authorization.                             *)
THEOREM PayeesAreBound == Spec => []PayeeIsBound
<1>1. IInv => PayeeIsBound
  <2>. SUFFICES ASSUME IInv,
                       IsOk(VerifyEvidence(assembled)), IsOk(report),
                       evidence.execution.outcome = "Settled"
                PROVE  /\ assembled.authorization.verdict = "Denied"
                             => "authorization" \in altered
                       /\ \/ {"intent", "intent_id", "authorization"} \subseteq altered
                          \/ /\ evidence.intent.destination = assembled.intent.destination
                             /\ evidence.intent.requested_amount_lovelace
                                  = assembled.intent.requested_amount_lovelace
    BY DEF PayeeIsBound
  <2>1. assembled \in DisbursementEvidence /\ evidence \in DisbursementEvidence
    BY VerifierAuditAssumption DEF IInv
  <2>2. /\ evidence.authorization.verdict = "Authorized"
        /\ evidence.intent_id = IntentId(evidence.intent)
        /\ evidence.authorization.effect.destination = evidence.intent.destination
        /\ evidence.authorization.effect.authorized_amount_lovelace
             = evidence.intent.requested_amount_lovelace
    BY <2>1, SettledIsAuthorized DEF IInv
  <2>3. CASE "authorization" \notin altered
    <3>1. evidence.authorization = assembled.authorization
      BY <2>3 DEF IInv, EvidenceFields
    <3>. QED
      BY <2>1, <2>2, <3>1, SettledIsAuthorized
  <2>4. CASE "intent" \notin altered
    <3>1. evidence.intent = assembled.intent
      BY <2>4 DEF IInv, EvidenceFields
    <3>. QED
      BY <2>3, <3>1
  <2>5. CASE "intent_id" \notin altered
    <3>1. evidence.intent_id = assembled.intent_id
      BY <2>5 DEF IInv, EvidenceFields
    <3>2. assembled.intent_id = IntentId(assembled.intent)
      BY <2>1, CleanReportIsExact DEF CrossFieldInvariants
    <3>. QED
      BY <2>2, <2>3, <3>1, <3>2 DEF IntentId
  <2>. QED
    BY <2>3, <2>4, <2>5
<1>. QED
  BY <1>1, IInvIsInvariant, PTL

-----------------------------------------------------------------------------
(* A single alteration                                                     *)

(* Of an intent the verifier reads what its id covers, and the time and    *)
(* the height not at all.                                                  *)
LEMMA OnlyTheIdIsRead ==
    ASSUME NEW d \in DisbursementEvidence, NEW e \in DisbursementEvidence,
           IntentId(d.intent) = IntentId(e.intent),
           \A field \in {"evidence_version", "intent_id", "allocation_basis_lovelace",
                        "authorization", "execution"} : d[field] = e[field],
           CrossFieldInvariants(d), GrantIsReplayable(d)
    PROVE  CrossFieldInvariants(e) /\ GrantIsReplayable(e)
<1>1. \A field \in {"intent_version", "policy_ref", "allocation_id", "requester_id",
                   "oracle_fact", "requested_amount_lovelace", "destination", "asset"} :
         d.intent[field] = e.intent[field]
  BY DEF IntentId
<1>2. CrossFieldInvariants(e)
  BY <1>1 DEF CrossFieldInvariants
<1>3. WithinBand(d) <=> WithinBand(e)
  BY <1>1 DEF WithinBand
<1>4. GrantIsReplayable(e)
  <2>1. /\ d.intent.requested_amount_lovelace = e.intent.requested_amount_lovelace
        /\ d.intent.oracle_fact.price_microusd = e.intent.oracle_fact.price_microusd
        /\ d.authorization = e.authorization
    BY <1>1
  <2>. QED
    BY <2>1, <1>3 DEF GrantIsReplayable
<1>. QED
  BY <1>2, <1>4

(* The execution of an authorized record may be any but a denial.          *)
LEMMA ExecutionOfAnAuthorization ==
    ASSUME NEW d \in DisbursementEvidence, NEW e \in DisbursementEvidence,
           \A field \in EvidenceFields \ {"execution"} : d[field] = e[field],
           CrossFieldInvariants(d), GrantIsReplayable(d)
    PROVE  CrossFieldInvariants(e) /\ GrantIsReplayable(e)
              <=> \/ d.execution = e.execution
                  \/ /\ d.authorization.verdict = "Authorized"
                     /\ e.execution.outcome # "DeniedUpstream"
<1>1. /\ d.evidence_version = e.evidence_version
      /\ d.intent = e.intent /\ d.intent_id = e.intent_id
      /\ d.allocation_basis_lovelace = e.allocation_basis_lovelace
      /\ d.authorization = e.authorization
  BY DEF EvidenceFields
<1>2. GrantIsReplayable(e)
  <2>1. WithinBand(d) <=> WithinBand(e)
    BY <1>1 DEF WithinBand
  <2>. QED
    BY <1>1, <2>1 DEF GrantIsReplayable
<1>3. e.execution.outcome \in {"Settled", "RejectedAtFulfillment", "DeniedUpstream"}
  BY DEF DisbursementEvidence, FulfillmentOutcomes
<1>4. d.authorization.verdict \in {"Authorized", "Denied"}
  BY DEF DisbursementEvidence, AuthorizationResults
<1>5. CASE d.authorization.verdict = "Authorized"
  <2>1. CrossFieldInvariants(e) <=> e.execution.outcome # "DeniedUpstream"
    BY <1>1, <1>3, <1>5 DEF CrossFieldInvariants
  <2>2. d.execution.outcome # "DeniedUpstream"
    BY <1>5 DEF CrossFieldInvariants
  <2>. QED
    BY <1>2, <1>5, <2>1, <2>2
<1>6. CASE d.authorization.verdict = "Denied"
  <2>1. CrossFieldInvariants(e) <=> d.execution = e.execution
    BY <1>1, <1>6 DEF CrossFieldInvariants
  <2>. QED
    BY <1>2, <1>6, <2>1
<1>. QED
  BY <1>4, <1>5, <1>6

(* A record has one authorization for an intent, a basis and an execution: *)
(* of two that differ in nothing else, at most one is clean.               *)
LEMMA AuthorizationIsDetermined ==
    ASSUME NEW d \in DisbursementEvidence, NEW e \in DisbursementEvidence,
           d.intent = e.intent, d.execution = e.execution,
           CrossFieldInvariants(d), GrantIsReplayable(d),
           CrossFieldInvariants(e), GrantIsReplayable(e)
    PROVE  d.authorization = e.authorization
<1>1. /\ d.authorization \in AuthorizationResults
      /\ e.authorization \in AuthorizationResults
  BY DEF DisbursementEvidence
<1>2. CASE d.authorization.verdict = "Authorized" /\ e.authorization.verdict = "Authorized"
  <2>1. /\ d.authorization = [verdict |-> "Authorized", effect |-> d.authorization.effect]
        /\ e.authorization = [verdict |-> "Authorized", effect |-> e.authorization.effect]
        /\ d.authorization.effect \in AuthorizedEffects
        /\ e.authorization.effect \in AuthorizedEffects
    BY <1>1, <1>2 DEF AuthorizationResults
  <2>2. \A field \in {"policy_ref", "allocation_id", "requester_id", "destination", "asset",
                     "authorized_amount_lovelace", "release_cap_basis_points"} :
           d.authorization.effect[field] = e.authorization.effect[field]
    BY <1>2 DEF CrossFieldInvariants, GrantIsReplayable
  <2>3. d.authorization.effect = e.authorization.effect
    BY <2>1, <2>2 DEF AuthorizedEffects
  <2>. QED
    BY <2>1, <2>3
<1>3. CASE d.authorization.verdict = "Denied" /\ e.authorization.verdict = "Denied"
  <2>1. /\ d.authorization = Denied(d.authorization.reason, d.authorization.gate)
        /\ e.authorization = Denied(e.authorization.reason, e.authorization.gate)
    BY <1>1, <1>3 DEF AuthorizationResults, Denied
  <2>2. DeniedUpstream(d.authorization.reason, d.authorization.gate)
           = DeniedUpstream(e.authorization.reason, e.authorization.gate)
    BY <1>3 DEF CrossFieldInvariants
  <2>3. d.authorization.reason = e.authorization.reason
        /\ d.authorization.gate = e.authorization.gate
    BY <2>2 DEF DeniedUpstream
  <2>. QED
    BY <2>1, <2>3
<1>4. d.authorization.verdict = e.authorization.verdict
  BY <1>1 DEF AuthorizationResults, CrossFieldInvariants, DeniedUpstream
<1>. QED
  BY <1>1, <1>2, <1>3, <1>4 DEF AuthorizationResults

(* One altered field of a clean record is noticed unless the record leaves *)
(* it open.                                                                *)
THEOREM SingleAlterationsAreCaught == Spec => []SingleAlterationIsCaught
<1>1. IInv => SingleAlterationIsCaught
  <2>. SUFFICES ASSUME IInv, NEW field \in EvidenceFields,
                       IsOk(VerifyEvidence(assembled)), altered = {field}
                PROVE  IsOk(report) <=> IsLeftOpen(field)
    BY DEF SingleAlterationIsCaught
  <2> DEFINE Clean == CrossFieldInvariants(evidence) /\ GrantIsReplayable(evidence)
  <2>1. /\ assembled \in DisbursementEvidence /\ evidence \in DisbursementEvidence
        /\ \A other \in EvidenceFields \ {field} : evidence[other] = assembled[other]
        /\ evidence[field] # assembled[field]
    BY VerifierAuditAssumption DEF IInv
  <2>2. CrossFieldInvariants(assembled) /\ GrantIsReplayable(assembled)
    BY <2>1, CleanReportIsExact
  <2>3. IsOk(report) <=> Clean
    BY <2>1, CleanReportIsExact DEF IInv
  <2>4. CASE field = "evidence_version"
    <3>1. evidence.evidence_version # assembled.evidence_version
      BY <2>1, <2>4
    <3>. QED
      BY <2>2, <2>3, <2>4, <3>1 DEF IsLeftOpen, CrossFieldInvariants
  <2>5. CASE field = "intent"
    <3>1. /\ evidence.evidence_version = assembled.evidence_version
          /\ evidence.intent_id = assembled.intent_id
          /\ evidence.allocation_basis_lovelace = assembled.allocation_basis_lovelace
          /\ evidence.authorization = assembled.authorization
          /\ evidence.execution = assembled.execution
      BY <2>1, <2>5 DEF EvidenceFields
    <3>2. Clean => IntentId(evidence.intent) = IntentId(assembled.intent)
      BY <2>2, <3>1 DEF CrossFieldInvariants
    <3>3. IntentId(evidence.intent) = IntentId(assembled.intent) => Clean
      BY <2>1, <2>2, <3>1, OnlyTheIdIsRead
    <3>. QED
      BY <2>3, <2>5, <3>2, <3>3 DEF IsLeftOpen
  <2>6. CASE field = "intent_id"
    <3>1. evidence.intent = assembled.intent /\ evidence.intent_id # assembled.intent_id
      BY <2>1, <2>6 DEF EvidenceFields
    <3>. QED
      BY <2>2, <2>3, <2>6, <3>1 DEF IsLeftOpen, CrossFieldInvariants
  <2>7. CASE field = "allocation_basis_lovelace"
    <3>1. CrossFieldInvariants(evidence)
      BY <2>1, <2>2, <2>7 DEF EvidenceFields, CrossFieldInvariants
    <3>. QED
      BY <2>3, <2>7, <3>1 DEF IsLeftOpen
  <2>8. CASE field \in {"now_unix_ms", "committed_height"}
    <3>1. /\ evidence.evidence_version = assembled.evidence_version
          /\ evidence.intent = assembled.intent
          /\ evidence.intent_id = assembled.intent_id
          /\ evidence.allocation_basis_lovelace = assembled.allocation_basis_lovelace
          /\ evidence.authorization = assembled.authorization
          /\ evidence.execution = assembled.execution
      BY <2>1, <2>8 DEF EvidenceFields
    <3>2. Clean
      BY <2>1, <2>2, <3>1, OnlyTheIdIsRead
    <3>. QED
      BY <2>3, <2>8, <3>2 DEF IsLeftOpen
  <2>9. CASE field = "authorization"
    <3>1. /\ evidence.intent = assembled.intent
          /\ evidence.execution = assembled.execution
          /\ evidence.authorization # assembled.authorization
      BY <2>1, <2>9 DEF EvidenceFields
    <3>2. ~Clean
      BY <2>1, <2>2, <3>1, AuthorizationIsDetermined
    <3>. QED
      BY <2>3, <2>9, <3>2 DEF IsLeftOpen
  <2>10. CASE field = "execution"
    <3>1. evidence.execution # assembled.execution
      BY <2>1, <2>10
    <3>2. Clean <=> /\ assembled.authorization.verdict = "Authorized"
                    /\ evidence.execution.outcome # "DeniedUpstream"
      BY <2>1, <2>2, <2>10, <3>1, ExecutionOfAnAuthorization
    <3>. QED
      BY <2>3, <2>10, <3>2 DEF IsLeftOpen
  <2>. QED
    BY <2>4, <2>5, <2>6, <2>7, <2>8, <2>9, <2>10 DEF EvidenceFields
<1>. QED
  BY <1>1, IInvIsInvariant, PTL

=============================================================================
