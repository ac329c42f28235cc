--------------------------- MODULE DisbursementProofs ---------------------------
(***************************************************************************)
(* Safety of Disbursement for any number of requests, configurations,      *)
(* prices and retries.                                                     *)
(*                                                                         *)
(* TypeOK is not inductive: a commit evaluates the intent of a request of  *)
(* the mempool, and a helper reads the effect of a receipt, so it needs to *)
(* be known that these exist.  Trail collects what each stage has left for *)
(* the next one: a decision is the evaluation of the intent, a committed   *)
(* receipt repeats the decision, and what the adapter did with it follows  *)
(* the branch of fulfill that the receipt calls for.                       *)
(***************************************************************************)
EXTENDS Disbursement, DecisionProofs, FiniteSetTheorems

-----------------------------------------------------------------------------
(* The inductive invariant                                                 *)

(* Only built intents are submitted, and what is committed is their        *)
(* evaluation by the configuration and at the time of the commit.          *)
DecisionFollowsIntent(r) ==
    /\ r \in mempool => intent[r] # None /\ decision[r] = None
    /\ decision[r] # None =>
          /\ intent[r] # None
          /\ decision[r].height > 0
          /\ decision[r].output =
                AuthorizeDisbursement(intent[r], decision[r].config, decision[r].now)

(* A receipt is for the request's intent; a committed one repeats the      *)
(* decision, a pending one has no height.                                  *)
ReceiptFollowsDecision(r) ==
    receipt[r] # None =>
        /\ intent[r] # None
        /\ receipt[r].intent_id = IntentId(intent[r])
        /\ receipt[r].status = "Committed" =>
              /\ decision[r] # None
              /\ receipt[r].output = decision[r].output
              /\ receipt[r].committed_height = decision[r].height
        /\ receipt[r].status = "Pending" => receipt[r].committed_height = 0

(* A receipt that is in the branch of fulfill that calls the backend.      *)
IsPayable(r) == receipt[r] # None /\ ReachesBackend(receipt[r])

(* The transaction the helper makes of a payable receipt.                  *)
PaymentFor(r, tx_hash) ==
    [tx_hash |-> tx_hash,
     destination |-> RequestOf(receipt[r]).destination,
     amount_lovelace |-> RequestOf(receipt[r]).amount_lovelace,
     intent_id |-> RequestOf(receipt[r]).intent_id]

(* A helper runs only for a payable receipt, and what it has submitted is  *)
(* on the ledger.                                                          *)
HelperFollowsReceipt(r) ==
    helper[r] # None =>
        /\ IsPayable(r)
        /\ \A tx_hash \in helper[r].submitted : PaymentFor(r, tx_hash) \in ledger[r]

(* Transactions are payments of a payable receipt.                         *)
LedgerFollowsReceipt(r) ==
    \A tx \in ledger[r] : IsPayable(r) /\ tx = PaymentFor(r, tx.tx_hash)

(* The outcome is that of the branch the receipt calls for.                *)
OutcomeFollowsReceipt(r) ==
    outcome[r] # None =>
        /\ receipt[r] # None
        /\ IF ReachesBackend(receipt[r])
           THEN \E tx \in ledger[r] : outcome[r] = Settled(tx.tx_hash)
           ELSE outcome[r] = OutcomeWithoutBackend(receipt[r])

Trail ==
    \A r \in Requests :
        /\ DecisionFollowsIntent(r)
        /\ ReceiptFollowsDecision(r)
        /\ HelperFollowsReceipt(r)
        /\ LedgerFollowsReceipt(r)
        /\ OutcomeFollowsReceipt(r)

IInv == TypeOK /\ Trail

-----------------------------------------------------------------------------
(* What the stages hand to each other has its type                         *)

LEMMA TimeFits ==
    ASSUME NEW time \in 0 .. MaxNow
    PROVE  time \in U64 /\ time + Validity \in U64
  BY DisbursementAssumption, CanonicalAssumption DEF U64

LEMMA NewIntentIsTyped ==
    ASSUME NEW ask \in RequestedAsks, NEW datum \in OracleData
    PROVE  NewIntent(ask, datum.fact, datum.provenance) \in DisbursementIntents
  BY DisbursementAssumption
  DEF NewIntent, Asks, OracleData, DisbursementIntents, IntentVersions, INTENT_VERSION_V1

LEMMA IntentIdIsTyped ==
    ASSUME NEW i \in DisbursementIntents
    PROVE  IntentId(i) \in IntentIds
  BY DEF IntentId, IntentIds, DisbursementIntents

(* The result of an evaluation by a configuration of the operators.        *)
LEMMA ResultIsTyped ==
    ASSUME NEW i \in DisbursementIntents, NEW c \in Configs, NEW time \in 0 .. MaxNow
    PROVE  AuthorizeDisbursement(i, c, time) \in AuthorizationResults
  BY DisbursementAssumption, TimeFits, AuthorizedIffPermitted

(* The backend is called with a complete request.                          *)
LEMMA RequestIsTyped ==
    ASSUME NEW rcpt \in IntentReceipts, ReachesBackend(rcpt)
    PROVE  RequestOf(rcpt) \in SettlementRequests
<1>1. rcpt.output.effect \in AuthorizedEffects
  BY DEF IntentReceipts, AuthorizationResults, ReachesBackend
<1>. QED
  BY <1>1 DEF RequestOf, SettlementRequestFromEffect, SettlementRequests, IntentReceipts,
              AuthorizedEffects

(* The branches without the backend are closed as something else than a    *)
(* settlement.                                                             *)
LEMMA OutcomeIsTyped ==
    ASSUME NEW rcpt \in IntentReceipts, ~ReachesBackend(rcpt)
    PROVE  /\ OutcomeWithoutBackend(rcpt) \in FulfillmentOutcomes
           /\ OutcomeWithoutBackend(rcpt).outcome # "Settled"
<1>1. CASE rcpt.status # "Committed"
  BY <1>1 DEF OutcomeWithoutBackend, FulfillmentOutcomes, RejectedAtFulfillment,
              FulfillmentRejections
<1>2. CASE rcpt.status = "Committed" /\ rcpt.output.verdict = "Denied"
  <2>1. /\ rcpt.output.reason \in DisbursementReasonCodes
        /\ rcpt.output.gate \in AuthorizationGates
    BY <1>2 DEF IntentReceipts, AuthorizationResults
  <2>. QED
    BY <1>2, <2>1 DEF OutcomeWithoutBackend, FulfillmentOutcomes, DeniedUpstream
<1>3. CASE rcpt.status = "Committed" /\ rcpt.output.verdict # "Denied"
  BY <1>3 DEF OutcomeWithoutBackend, FulfillmentOutcomes, RejectedAtFulfillment,
              FulfillmentRejections
<1>. QED
  BY <1>1, <1>2, <1>3

LEMMA EvidenceIsTyped ==
    ASSUME NEW i \in DisbursementIntents, NEW rcpt \in IntentReceipts,
           NEW o \in FulfillmentOutcomes, NEW basis \in U64
    PROVE  AssembleEvidence(i, rcpt, o, basis, i.oracle_provenance.timestamp_unix)
               \in DisbursementEvidence
<1>1. i.oracle_provenance.timestamp_unix \in U64
  BY DEF DisbursementIntents, OracleFactProvenance
<1>. QED
  BY <1>1, IntentIdIsTyped
  DEF AssembleEvidence, DisbursementEvidence, IntentReceipts, EvidenceVersions,
      EVIDENCE_VERSION_V1

-----------------------------------------------------------------------------
(* IInv is inductive                                                       *)

(* Nothing has happened at the start.                                      *)
LEMMA InitEstablishesIInv == Init => IInv
<1>. SUFFICES ASSUME Init PROVE IInv
  OBVIOUS
<1>1. TypeOK
  BY DisbursementAssumption DEF Init, TypeOK
<1>2. Trail
  BY DEF Init, Trail, DecisionFollowsIntent, ReceiptFollowsDecision, HelperFollowsReceipt,
         LedgerFollowsReceipt, OutcomeFollowsReceipt
<1>. QED
  BY <1>1, <1>2 DEF IInv

(* A step that leaves the variables of a stage alone keeps its part of the *)
(* trail.                                                                  *)
LEMMA DecisionFrame ==
    ASSUME NEW r \in Requests, DecisionFollowsIntent(r),
           mempool' = mempool, decision' = decision, intent'[r] = intent[r]
    PROVE  DecisionFollowsIntent(r)'
  BY DEF DecisionFollowsIntent

LEMMA ReceiptFrame ==
    ASSUME NEW r \in Requests, ReceiptFollowsDecision(r),
           decision'[r] = decision[r], intent'[r] = intent[r], receipt'[r] = receipt[r]
    PROVE  ReceiptFollowsDecision(r)'
  BY DEF ReceiptFollowsDecision

LEMMA SettlementFrame ==
    ASSUME NEW r \in Requests,
           HelperFollowsReceipt(r), LedgerFollowsReceipt(r), OutcomeFollowsReceipt(r),
           receipt'[r] = receipt[r], helper'[r] = helper[r], ledger'[r] = ledger[r],
           outcome'[r] = outcome[r]
    PROVE  /\ HelperFollowsReceipt(r)'
           /\ LedgerFollowsReceipt(r)'
           /\ OutcomeFollowsReceipt(r)'
  BY DEF HelperFollowsReceipt, LedgerFollowsReceipt, OutcomeFollowsReceipt, IsPayable,
         PaymentFor

(* The environment changes nothing that the trail depends on.              *)
LEMMA EnvironmentKeepsIInv ==
    ASSUME IInv, Tick \/ PublishDatum \/ Reconfigure
    PROVE  IInv'
<1>. USE DEF IInv
<1>1. UNCHANGED <<intent, mempool, height, decision, receipt, attempts, helper, outcome,
                  ledger, bundles>>
  BY DEF Tick, PublishDatum, Reconfigure, consensus, settlement
<1>2. now' \in 0 .. MaxNow
  BY DisbursementAssumption DEF TypeOK, Tick, PublishDatum, Reconfigure
<1>3. feed' \in OracleData \cup {None}
  <2>1. CASE PublishDatum
    <3>1. PICK price \in Prices, ref \in UtxoRefs :
             feed' = [fact |-> [price_microusd |-> price],
                      provenance |-> [timestamp_unix |-> now,
                                      expiry_unix |-> now + Validity,
                                      aggregator_utxo_ref |-> ref]]
      BY <2>1 DEF PublishDatum
    <3>2. price \in U64 /\ now \in U64 /\ now + Validity \in U64
      BY DisbursementAssumption, TimeFits DEF TypeOK
    <3>. QED
      BY <3>1, <3>2 DEF OracleData, OracleFactEval, OracleFactProvenance
  <2>2. CASE Tick \/ Reconfigure
    BY <2>2 DEF TypeOK, Tick, Reconfigure
  <2>. QED
    BY <2>1, <2>2
<1>4. config' \in Configs
  BY DEF TypeOK, Tick, PublishDatum, Reconfigure
<1>5. TypeOK'
  BY <1>1, <1>2, <1>3, <1>4 DEF TypeOK
<1>6. Trail'
  BY <1>1, DecisionFrame, ReceiptFrame, SettlementFrame DEF Trail
<1>. QED
  BY <1>5, <1>6

(* Building comes before everything else that happens to a request.        *)
LEMMA BuildIntentKeepsIInv ==
    ASSUME IInv, NEW r \in Requests, BuildIntent(r)
    PROVE  IInv'
<1>. USE DEF IInv
<1>1. /\ UNCHANGED <<now, feed, config, mempool, height, decision, receipt, attempts,
                    helper, outcome, ledger, bundles>>
      /\ intent[r] = None
      /\ \A s \in Requests \ {r} : intent'[s] = intent[s]
  BY DEF BuildIntent, environment, consensus, settlement, TypeOK
<1>2. intent' \in [Requests -> DisbursementIntents \cup {None}]
  <2>1. feed \in OracleData
    BY DEF BuildIntent, TypeOK
  <2>. QED
    BY <2>1, NewIntentIsTyped DEF BuildIntent, TypeOK
<1>3. TypeOK'
  BY <1>1, <1>2 DEF TypeOK
<1>4. Trail'
  <2>1. ASSUME NEW s \in Requests \ {r}
        PROVE  DecisionFollowsIntent(s)' /\ ReceiptFollowsDecision(s)'
    BY <1>1, <2>1, DecisionFrame, ReceiptFrame DEF Trail
  <2>2. DecisionFollowsIntent(r)' /\ ReceiptFollowsDecision(r)'
    BY <1>1 DEF Trail, DecisionFollowsIntent, ReceiptFollowsDecision
  <2>. QED
    BY <1>1, <2>1, <2>2, SettlementFrame DEF Trail
<1>. QED
  BY <1>3, <1>4

LEMMA SubmitIntentKeepsIInv ==
    ASSUME IInv, NEW r \in Requests, SubmitIntent(r)
    PROVE  IInv'
<1>. USE DEF IInv
<1>1. /\ UNCHANGED <<now, feed, config, intent, height, decision, receipt, attempts,
                    helper, outcome, ledger, bundles>>
      /\ mempool' = mempool \cup {r}
      /\ intent[r] # None /\ decision[r] = None
  BY DEF SubmitIntent, environment, settlement
<1>2. TypeOK'
  BY <1>1 DEF TypeOK
<1>3. \A s \in Requests : DecisionFollowsIntent(s)'
  BY <1>1 DEF Trail, DecisionFollowsIntent
<1>4. Trail'
  BY <1>1, <1>3, ReceiptFrame, SettlementFrame DEF Trail
<1>. QED
  BY <1>2, <1>4

(* A commit is the first decision of its request, so no committed receipt  *)
(* can precede it.                                                         *)
LEMMA CommitKeepsIInv ==
    ASSUME IInv, NEW r \in Requests, Commit(r)
    PROVE  IInv'
<1>. USE DEF IInv
<1>1. /\ UNCHANGED <<now, feed, config, intent, receipt, attempts, helper, outcome,
                    ledger, bundles>>
      /\ mempool' = mempool \ {r}
      /\ height' = height + 1
      /\ decision' = [decision EXCEPT ![r] =
            [output |-> AuthorizeDisbursement(intent[r], config, now),
             now |-> now, config |-> config, height |-> height + 1]]
      /\ intent[r] # None /\ decision[r] = None
  BY DEF Commit, environment, settlement, Trail, DecisionFollowsIntent
<1>2. /\ [output |-> AuthorizeDisbursement(intent[r], config, now),
          now |-> now, config |-> config, height |-> height + 1] \in Decisions
      /\ height + 1 \in Nat /\ height + 1 > 0
  BY <1>1, ResultIsTyped, TimeFits DEF TypeOK, Decisions
<1>3. TypeOK'
  BY <1>1, <1>2 DEF TypeOK
<1>4. /\ decision'[r] = [output |-> AuthorizeDisbursement(intent[r], config, now),
                         now |-> now, config |-> config, height |-> height + 1]
      /\ \A s \in Requests \ {r} : decision'[s] = decision[s]
  BY <1>1 DEF TypeOK
<1>5. \A s \in Requests : DecisionFollowsIntent(s)'
  BY <1>1, <1>2, <1>4 DEF Trail, DecisionFollowsIntent
<1>6. \A s \in Requests : ReceiptFollowsDecision(s)'
  BY <1>1, <1>4 DEF Trail, ReceiptFollowsDecision
<1>7. Trail'
  BY <1>1, <1>5, <1>6, SettlementFrame DEF Trail
<1>. QED
  BY <1>3, <1>7

(* A pending receipt is only given while there is none, so no payable      *)
(* receipt is lost to it.                                                  *)
LEMMA ReturnPendingKeepsIInv ==
    ASSUME IInv, NEW r \in Requests, ReturnPending(r)
    PROVE  IInv'
<1>. USE DEF IInv
<1>1. /\ UNCHANGED <<now, feed, config, intent, mempool, height, decision, attempts, helper,
                    outcome, ledger, bundles>>
      /\ receipt' = [receipt EXCEPT ![r] =
            PendingReceipt(IntentId(intent[r]),
                           AuthorizeDisbursement(intent[r], config, now))]
      /\ intent[r] # None /\ receipt[r] = None
  BY DEF ReturnPending, environment, consensus, settlement, Trail, DecisionFollowsIntent
<1>2. PendingReceipt(IntentId(intent[r]), AuthorizeDisbursement(intent[r], config, now))
         \in IntentReceipts
  BY <1>1, ResultIsTyped, IntentIdIsTyped
  DEF TypeOK, PendingReceipt, IntentReceipts, IntentStatuses
<1>3. TypeOK'
  BY <1>1, <1>2 DEF TypeOK
<1>4. /\ receipt'[r] = PendingReceipt(IntentId(intent[r]),
                                     AuthorizeDisbursement(intent[r], config, now))
      /\ \A s \in Requests \ {r} : receipt'[s] = receipt[s]
  BY <1>1 DEF TypeOK
<1>5. \A s \in Requests : DecisionFollowsIntent(s)'
  BY <1>1, DecisionFrame DEF Trail
<1>6. \A s \in Requests \ {r} : ReceiptFollowsDecision(s)'
  BY <1>1, <1>4, ReceiptFrame DEF Trail
<1>7. ReceiptFollowsDecision(r)'
  BY <1>1, <1>4 DEF ReceiptFollowsDecision, PendingReceipt
<1>8. \A s \in Requests \ {r} :
         HelperFollowsReceipt(s)' /\ LedgerFollowsReceipt(s)' /\ OutcomeFollowsReceipt(s)'
  BY <1>1, <1>4, SettlementFrame DEF Trail
<1>9. HelperFollowsReceipt(r)' /\ LedgerFollowsReceipt(r)' /\ OutcomeFollowsReceipt(r)'
  BY <1>1 DEF Trail, HelperFollowsReceipt, LedgerFollowsReceipt, OutcomeFollowsReceipt,
              IsPayable
<1>. QED
  BY <1>3, <1>5, <1>6, <1>7, <1>8, <1>9 DEF Trail

(* The receipt that is replaced is not payable, so no helper runs for it   *)
(* and no transaction was made for it; the outcome it had is dropped.      *)
LEMMA ReturnCommittedKeepsIInv ==
    ASSUME IInv, NEW r \in Requests, ReturnCommitted(r)
    PROVE  IInv'
<1>. USE DEF IInv
<1>1. /\ UNCHANGED <<now, feed, config, intent, mempool, height, decision, attempts, helper,
                    ledger, bundles>>
      /\ receipt' = [receipt EXCEPT ![r] =
            CommittedReceipt(IntentId(intent[r]), decision[r].height, decision[r].output)]
      /\ outcome' = [outcome EXCEPT ![r] = None]
      /\ decision[r] # None /\ intent[r] # None
  BY DEF ReturnCommitted, MayReturn, environment, consensus, settlement, Trail,
         DecisionFollowsIntent
<1>2. ~IsPayable(r)
  BY DEF ReturnCommitted, MayReturn, IsPayable, ReachesBackend
<1>3. CommittedReceipt(IntentId(intent[r]), decision[r].height, decision[r].output)
         \in IntentReceipts
  BY <1>1, IntentIdIsTyped
  DEF TypeOK, Decisions, CommittedReceipt, IntentReceipts, IntentStatuses
<1>4. TypeOK'
  BY <1>1, <1>3 DEF TypeOK
<1>5. /\ receipt'[r] =
            CommittedReceipt(IntentId(intent[r]), decision[r].height, decision[r].output)
      /\ outcome'[r] = None
      /\ \A s \in Requests \ {r} : receipt'[s] = receipt[s] /\ outcome'[s] = outcome[s]
  BY <1>1 DEF TypeOK
<1>6. \A s \in Requests : DecisionFollowsIntent(s)'
  BY <1>1, DecisionFrame DEF Trail
<1>7. \A s \in Requests \ {r} : ReceiptFollowsDecision(s)'
  BY <1>1, <1>5, ReceiptFrame DEF Trail
<1>8. ReceiptFollowsDecision(r)'
  BY <1>1, <1>5 DEF ReceiptFollowsDecision, CommittedReceipt
<1>9. \A s \in Requests \ {r} :
         HelperFollowsReceipt(s)' /\ LedgerFollowsReceipt(s)' /\ OutcomeFollowsReceipt(s)'
  BY <1>1, <1>5, SettlementFrame DEF Trail
<1>10. helper'[r] = None /\ ledger'[r] = {}
  BY <1>1, <1>2 DEF Trail, HelperFollowsReceipt, LedgerFollowsReceipt
<1>11. HelperFollowsReceipt(r)' /\ LedgerFollowsReceipt(r)' /\ OutcomeFollowsReceipt(r)'
  BY <1>5, <1>10 DEF HelperFollowsReceipt, LedgerFollowsReceipt, OutcomeFollowsReceipt
<1>. QED
  BY <1>4, <1>6, <1>7, <1>8, <1>9, <1>11 DEF Trail

(* The settlement steps leave the earlier stages alone.                    *)
LEMMA SettlementStepsKeepTheRest ==
    ASSUME IInv,
           UNCHANGED <<intent, receipt>>, UNCHANGED consensus
    PROVE  \A s \in Requests : DecisionFollowsIntent(s)' /\ ReceiptFollowsDecision(s)'
  BY DecisionFrame, ReceiptFrame DEF IInv, Trail, consensus

LEMMA FulfillWithoutBackendKeepsIInv ==
    ASSUME IInv, NEW r \in Requests, FulfillWithoutBackend(r)
    PROVE  IInv'
<1>. USE DEF IInv
<1>1. /\ UNCHANGED <<now, feed, config, intent, mempool, height, decision, receipt, attempts,
                    helper, ledger, bundles>>
      /\ outcome' = [outcome EXCEPT ![r] = OutcomeWithoutBackend(receipt[r])]
      /\ receipt[r] # None /\ ~ReachesBackend(receipt[r])
      /\ helper[r] = None
  BY DEF FulfillWithoutBackend, MayFulfill, environment, consensus, settlement
<1>2. OutcomeWithoutBackend(receipt[r]) \in FulfillmentOutcomes
  BY <1>1, OutcomeIsTyped DEF TypeOK
<1>3. TypeOK'
  BY <1>1, <1>2 DEF TypeOK
<1>4. /\ outcome'[r] = OutcomeWithoutBackend(receipt[r])
      /\ \A s \in Requests \ {r} : outcome'[s] = outcome[s]
  BY <1>1 DEF TypeOK
<1>5. \A s \in Requests \ {r} :
         HelperFollowsReceipt(s)' /\ LedgerFollowsReceipt(s)' /\ OutcomeFollowsReceipt(s)'
  BY <1>1, <1>4, SettlementFrame DEF Trail
<1>6. HelperFollowsReceipt(r)' /\ LedgerFollowsReceipt(r)' /\ OutcomeFollowsReceipt(r)'
  BY <1>1, <1>4
  DEF Trail, HelperFollowsReceipt, LedgerFollowsReceipt, OutcomeFollowsReceipt, IsPayable,
      PaymentFor
<1>. QED
  BY <1>1, <1>3, <1>5, <1>6, SettlementStepsKeepTheRest DEF Trail, consensus

LEMMA CallBackendKeepsIInv ==
    ASSUME IInv, NEW r \in Requests, CallBackend(r)
    PROVE  IInv'
<1>. USE DEF IInv
<1>1. /\ UNCHANGED <<now, feed, config, intent, mempool, height, decision, receipt,
                    outcome, ledger, bundles>>
      /\ attempts' = [attempts EXCEPT ![r] = @ + 1]
      /\ helper' = [helper EXCEPT ![r] = [submitted |-> {}]]
      /\ attempts[r] < MaxAttempts
      /\ IsPayable(r)
  BY DEF CallBackend, MayFulfill, IsPayable, environment, consensus
<1>2. attempts[r] + 1 \in 0 .. MaxAttempts
  BY <1>1, DisbursementAssumption DEF TypeOK
<1>3. TypeOK'
  BY <1>1, <1>2 DEF TypeOK, Helpers
<1>4. /\ helper'[r] = [submitted |-> {}]
      /\ \A s \in Requests \ {r} : helper'[s] = helper[s]
  BY <1>1 DEF TypeOK
<1>5. \A s \in Requests \ {r} :
         HelperFollowsReceipt(s)' /\ LedgerFollowsReceipt(s)' /\ OutcomeFollowsReceipt(s)'
  BY <1>1, <1>4, SettlementFrame DEF Trail
<1>6. HelperFollowsReceipt(r)' /\ LedgerFollowsReceipt(r)' /\ OutcomeFollowsReceipt(r)'
  BY <1>1, <1>4
  DEF Trail, HelperFollowsReceipt, LedgerFollowsReceipt, OutcomeFollowsReceipt, IsPayable,
      PaymentFor
<1>. QED
  BY <1>1, <1>3, <1>5, <1>6, SettlementStepsKeepTheRest DEF Trail, consensus

(* The transaction is the payment for the receipt the helper was called    *)
(* with, because that receipt is not replaced while the helper runs.       *)
LEMMA HelperSubmitsKeepsIInv ==
    ASSUME IInv, NEW r \in Requests, HelperSubmits(r)
    PROVE  IInv'
<1>. USE DEF IInv
<1>1. PICK tx_hash \in TxHashes :
         /\ helper' = [helper EXCEPT ![r] = [submitted |-> {tx_hash}]]
         /\ ledger' = [ledger EXCEPT ![r] = @ \cup {PaymentFor(r, tx_hash)}]
  BY DEF HelperSubmits, PaymentFor
<1>2. /\ UNCHANGED <<now, feed, config, intent, mempool, height, decision, receipt, attempts,
                    outcome, bundles>>
      /\ IsPayable(r)
  BY DEF HelperSubmits, environment, consensus, Trail, HelperFollowsReceipt
<1>3. PaymentFor(r, tx_hash) \in Transactions
  <2>1. RequestOf(receipt[r]) \in SettlementRequests
    BY <1>2, RequestIsTyped DEF TypeOK, IsPayable
  <2>. QED
    BY <2>1 DEF PaymentFor, SettlementRequests, Transactions
<1>4. TypeOK'
  BY <1>1, <1>2, <1>3 DEF TypeOK, Helpers
<1>5. /\ helper'[r] = [submitted |-> {tx_hash}]
      /\ ledger'[r] = ledger[r] \cup {PaymentFor(r, tx_hash)}
      /\ \A s \in Requests \ {r} : helper'[s] = helper[s] /\ ledger'[s] = ledger[s]
  BY <1>1 DEF TypeOK
<1>6. \A s \in Requests \ {r} :
         HelperFollowsReceipt(s)' /\ LedgerFollowsReceipt(s)' /\ OutcomeFollowsReceipt(s)'
  BY <1>2, <1>5, SettlementFrame DEF Trail
<1>7. IsPayable(r)' /\ \A hash : PaymentFor(r, hash)' = PaymentFor(r, hash)
  BY <1>2 DEF IsPayable, PaymentFor
<1>8. HelperFollowsReceipt(r)'
  BY <1>2, <1>5, <1>7 DEF HelperFollowsReceipt
<1>9. LedgerFollowsReceipt(r)'
  <2>1. PaymentFor(r, tx_hash).tx_hash = tx_hash
    BY DEF PaymentFor
  <2>. QED
    BY <1>5, <1>7, <2>1 DEF Trail, LedgerFollowsReceipt
<1>10. OutcomeFollowsReceipt(r)'
  BY <1>2, <1>5 DEF Trail, OutcomeFollowsReceipt, IsPayable
<1>. QED
  BY <1>2, <1>4, <1>6, <1>8, <1>9, <1>10, SettlementStepsKeepTheRest DEF Trail, consensus

LEMMA HelperSucceedsKeepsIInv ==
    ASSUME IInv, NEW r \in Requests, HelperSucceeds(r)
    PROVE  IInv'
<1>. USE DEF IInv
<1>1. PICK tx_hash \in helper[r].submitted :
         outcome' = [outcome EXCEPT ![r] = Settled(tx_hash)]
  BY DEF HelperSucceeds
<1>2. /\ UNCHANGED <<now, feed, config, intent, mempool, height, decision, receipt, attempts,
                    ledger, bundles>>
      /\ helper' = [helper EXCEPT ![r] = None]
      /\ helper[r] # None
  BY DEF HelperSucceeds, environment, consensus
<1>3. IsPayable(r) /\ PaymentFor(r, tx_hash) \in ledger[r]
  BY <1>2 DEF Trail, HelperFollowsReceipt
<1>4. tx_hash \in TxHashes /\ Settled(tx_hash) \in FulfillmentOutcomes
  BY <1>2 DEF TypeOK, Helpers, Settled, FulfillmentOutcomes
<1>5. TypeOK'
  BY <1>1, <1>2, <1>4 DEF TypeOK
<1>6. /\ outcome'[r] = Settled(tx_hash) /\ helper'[r] = None
      /\ \A s \in Requests \ {r} : helper'[s] = helper[s] /\ outcome'[s] = outcome[s]
  BY <1>1, <1>2 DEF TypeOK
<1>7. \A s \in Requests \ {r} :
         HelperFollowsReceipt(s)' /\ LedgerFollowsReceipt(s)' /\ OutcomeFollowsReceipt(s)'
  BY <1>2, <1>6, SettlementFrame DEF Trail
<1>8. HelperFollowsReceipt(r)' /\ LedgerFollowsReceipt(r)'
  BY <1>2, <1>6
  DEF Trail, HelperFollowsReceipt, LedgerFollowsReceipt, IsPayable, PaymentFor
<1>9. OutcomeFollowsReceipt(r)'
  <2>1. PaymentFor(r, tx_hash).tx_hash = tx_hash
    BY DEF PaymentFor
  <2>. QED
    BY <1>2, <1>3, <1>6, <2>1 DEF OutcomeFollowsReceipt, IsPayable
<1>. QED
  BY <1>2, <1>5, <1>7, <1>8, <1>9, SettlementStepsKeepTheRest DEF Trail, consensus

LEMMA HelperFailsKeepsIInv ==
    ASSUME IInv, NEW r \in Requests, HelperFails(r)
    PROVE  IInv'
<1>. USE DEF IInv
<1>1. /\ UNCHANGED <<now, feed, config, intent, mempool, height, decision, receipt, attempts,
                    outcome, ledger, bundles>>
      /\ helper' = [helper EXCEPT ![r] = None]
  BY DEF HelperFails, environment, consensus
<1>2. TypeOK'
  BY <1>1 DEF TypeOK
<1>3. /\ helper'[r] = None
      /\ \A s \in Requests \ {r} : helper'[s] = helper[s]
  BY <1>1 DEF TypeOK
<1>4. \A s \in Requests :
         HelperFollowsReceipt(s)' /\ LedgerFollowsReceipt(s)' /\ OutcomeFollowsReceipt(s)'
  BY <1>1, <1>3
  DEF Trail, HelperFollowsReceipt, LedgerFollowsReceipt, OutcomeFollowsReceipt, IsPayable,
      PaymentFor
<1>. QED
  BY <1>1, <1>2, <1>4, SettlementStepsKeepTheRest DEF Trail, consensus

(* An outcome is only there after a receipt, and a receipt after an        *)
(* intent, so the record is complete.                                      *)
LEMMA AssembleBundleKeepsIInv ==
    ASSUME IInv, NEW r \in Requests, AssembleBundle(r)
    PROVE  IInv'
<1>. USE DEF IInv
<1>1. /\ UNCHANGED <<now, feed, config, intent, mempool, height, decision, receipt, attempts,
                    helper, outcome, ledger>>
      /\ bundles' = [bundles EXCEPT ![r] = @ \cup {EvidenceFor(r)}]
      /\ outcome[r] # None
  BY DEF AssembleBundle, MayRecord, environment, consensus, settlement
<1>2. receipt[r] # None /\ intent[r] # None
  BY <1>1 DEF Trail, OutcomeFollowsReceipt, ReceiptFollowsDecision
<1>3. BasisFor(r) \in U64
  <2>1. EvaluatedConfig(r) \in Configs
    BY DEF TypeOK, EvaluatedConfig, Decisions
  <2>2. IsConfigSnapshot(EvaluatedConfig(r))
    BY <2>1, DisbursementAssumption
  <2>3. 0 \in U64
    BY CanonicalAssumption DEF U64
  <2>. QED
    BY <2>2, <2>3 DEF BasisFor, BasisOf, IsConfigSnapshot, AllocationFacts
<1>4. EvidenceFor(r) \in DisbursementEvidence
  BY <1>1, <1>2, <1>3, EvidenceIsTyped DEF TypeOK, EvidenceFor
<1>5. TypeOK'
  BY <1>1, <1>4 DEF TypeOK
<1>6. Trail'
  BY <1>1, DecisionFrame, ReceiptFrame, SettlementFrame DEF Trail
<1>. QED
  BY <1>5, <1>6

LEMMA StutteringKeepsIInv ==
    ASSUME IInv, UNCHANGED vars
    PROVE  IInv'
<1>1. TypeOK'
  BY DEF IInv, TypeOK, vars
<1>2. Trail'
  BY DecisionFrame, ReceiptFrame, SettlementFrame DEF IInv, Trail, vars
<1>. QED
  BY <1>1, <1>2 DEF IInv

THEOREM IInvIsInvariant == Spec => []IInv
<1>1. IInv /\ [Next]_vars => IInv'
  <2>. SUFFICES ASSUME IInv, [Next]_vars PROVE IInv'
    OBVIOUS
  <2>1. CASE Tick \/ PublishDatum \/ Reconfigure
    BY <2>1, EnvironmentKeepsIInv
  <2>2. ASSUME NEW r \in Requests,
               \/ BuildIntent(r) \/ SubmitIntent(r) \/ Commit(r)
               \/ ReturnPending(r) \/ ReturnCommitted(r)
        PROVE  IInv'
    BY <2>2, BuildIntentKeepsIInv, SubmitIntentKeepsIInv, CommitKeepsIInv,
       ReturnPendingKeepsIInv, ReturnCommittedKeepsIInv
  <2>3. ASSUME NEW r \in Requests,
               \/ FulfillWithoutBackend(r) \/ CallBackend(r) \/ HelperSubmits(r)
               \/ HelperSucceeds(r) \/ HelperFails(r) \/ AssembleBundle(r)
        PROVE  IInv'
    BY <2>3, FulfillWithoutBackendKeepsIInv, CallBackendKeepsIInv, HelperSubmitsKeepsIInv,
       HelperSucceedsKeepsIInv, HelperFailsKeepsIInv, AssembleBundleKeepsIInv
  <2>4. CASE UNCHANGED vars
    BY <2>4, StutteringKeepsIInv
  <2>. QED
    BY <2>1, <2>2, <2>3, <2>4 DEF Next
<1>. QED
  BY <1>1, InitEstablishesIInv, PTL DEF Spec

(* TypeOK, for every value of the constants.                               *)
THEOREM TypeCorrect == Spec => []TypeOK
  BY IInvIsInvariant, PTL DEF IInv

-----------------------------------------------------------------------------
(* Payments                                                                *)

(* An authorized request met every condition at the commit, and its effect *)
(* is that of its own intent.                                              *)
LEMMA AuthorizedMeansPermitted ==
    ASSUME IInv, NEW r \in Requests, IsAuthorized(r)
    PROVE  /\ Permitted(intent[r], decision[r].config, decision[r].now)
           /\ decision[r].output.effect = FullEffect(intent[r])
<1>1. /\ intent[r] \in DisbursementIntents
      /\ decision[r] \in Decisions
      /\ decision[r].output =
            AuthorizeDisbursement(intent[r], decision[r].config, decision[r].now)
  BY DEF IInv, TypeOK, Trail, DecisionFollowsIntent, IsAuthorized
<1>2. IsConfigSnapshot(decision[r].config) /\ decision[r].now \in U64
  BY <1>1, DisbursementAssumption DEF Decisions
<1>3. decision[r].output.verdict # "Denied"
  BY DEF IsAuthorized
<1>. QED
  BY <1>1, <1>2, <1>3, AuthorizedIffPermitted DEF Authorized, Denied

(* A payable receipt is for an authorized request.                         *)
LEMMA PayableMeansAuthorized ==
    ASSUME IInv, NEW r \in Requests, IsPayable(r)
    PROVE  /\ IsAuthorized(r)
           /\ RequestOf(receipt[r]).destination = intent[r].destination
           /\ RequestOf(receipt[r]).amount_lovelace = intent[r].requested_amount_lovelace
           /\ RequestOf(receipt[r]).intent_id = IntentId(intent[r])
           /\ intent[r].asset = ADA
<1>1. /\ IsAuthorized(r)
      /\ receipt[r].output = decision[r].output
      /\ receipt[r].intent_id = IntentId(intent[r])
      /\ receipt[r].output.effect.asset = ADA
  BY DEF IInv, Trail, ReceiptFollowsDecision, IsPayable, ReachesBackend, GuardMvpAsset,
         IsAuthorized
<1>2. receipt[r].output.effect = FullEffect(intent[r])
  BY <1>1, AuthorizedMeansPermitted
<1>. QED
  BY <1>1, <1>2
  DEF RequestOf, SettlementRequestFromEffect, FullEffect, EffectOf, Allow

(* Every transaction of the pool, whatever happened before it, is granted. *)
THEOREM PaymentsAreGranted == Spec => []EveryPaymentIsGranted
<1>1. IInv => EveryPaymentIsGranted
  <2>. SUFFICES ASSUME IInv, NEW r \in Requests, NEW tx \in ledger[r]
                PROVE  PaymentIsGranted(r, tx)
    BY DEF EveryPaymentIsGranted
  <2>1. IsPayable(r) /\ tx = PaymentFor(r, tx.tx_hash)
    BY DEF IInv, Trail, LedgerFollowsReceipt
  <2>2. /\ tx.destination = RequestOf(receipt[r]).destination
        /\ tx.amount_lovelace = RequestOf(receipt[r]).amount_lovelace
        /\ tx.intent_id = RequestOf(receipt[r]).intent_id
    BY <2>1 DEF PaymentFor
  <2>. QED
    BY <2>1, <2>2, PayableMeansAuthorized, AuthorizedMeansPermitted DEF PaymentIsGranted
<1>. QED
  BY <1>1, IInvIsInvariant, PTL

(* What fulfill reports agrees with the chain, although the helper may die *)
(* on either side of the submission.                                       *)
THEOREM OutcomesAgree == Spec => []OutcomeAgreesWithLedger
<1>1. IInv => OutcomeAgreesWithLedger
  <2>. SUFFICES ASSUME IInv, NEW r \in Requests, outcome[r] # None
                PROVE  IF outcome[r].outcome = "Settled"
                       THEN \E tx \in ledger[r] : tx.tx_hash = outcome[r].tx_hash
                       ELSE ledger[r] = {}
    BY DEF OutcomeAgreesWithLedger
  <2>1. CASE ReachesBackend(receipt[r])
    <3>1. PICK tx \in ledger[r] : outcome[r] = Settled(tx.tx_hash)
      BY <2>1 DEF IInv, Trail, OutcomeFollowsReceipt
    <3>. QED
      BY <3>1 DEF Settled
  <2>2. CASE ~ReachesBackend(receipt[r])
    <3>1. ledger[r] = {}
      BY <2>2 DEF IInv, Trail, LedgerFollowsReceipt, IsPayable
    <3>2. receipt[r] \in IntentReceipts /\ outcome[r] = OutcomeWithoutBackend(receipt[r])
      BY <2>2 DEF IInv, TypeOK, Trail, OutcomeFollowsReceipt
    <3>. QED
      BY <2>2, <3>1, <3>2, OutcomeIsTyped
  <2>. QED
    BY <2>1, <2>2
<1>. QED
  BY <1>1, IInvIsInvariant, PTL

-----------------------------------------------------------------------------
(* Attempts                                                                *)

(* A running helper that has not submitted yet has its call still to use.  *)
Unused(r) == IF helper[r] # None THEN IF helper[r].submitted = {} THEN 1 ELSE 0 ELSE 0

AttemptsCoverPayments ==
    \A r \in Requests :
        /\ IsFiniteSet(ledger[r])
        /\ Cardinality(ledger[r]) + Unused(r) <= attempts[r]

LEMMA AttemptsKeepCovering ==
    ASSUME IInv, AttemptsCoverPayments, [Next]_vars
    PROVE  AttemptsCoverPayments'
<1>. SUFFICES ASSUME NEW r \in Requests
              PROVE  /\ IsFiniteSet(ledger'[r])
                     /\ Cardinality(ledger'[r]) + Unused(r)' <= attempts'[r]
  BY DEF AttemptsCoverPayments
<1>1. /\ IsFiniteSet(ledger[r]) /\ Cardinality(ledger[r]) \in Nat
      /\ Cardinality(ledger[r]) + Unused(r) <= attempts[r]
      /\ attempts[r] \in Nat
  BY FS_CardinalityType, DisbursementAssumption DEF AttemptsCoverPayments, IInv, TypeOK
<1>2. CASE UNCHANGED settlement
  BY <1>1, <1>2 DEF settlement, Unused
<1>3. ASSUME NEW s \in Requests, CallBackend(s)
      PROVE  /\ IsFiniteSet(ledger'[r])
             /\ Cardinality(ledger'[r]) + Unused(r)' <= attempts'[r]
  <2>1. CASE s = r
    <3>1. helper[r] = None /\ ledger' = ledger /\ attempts'[r] = attempts[r] + 1
      BY <1>3, <2>1 DEF CallBackend, MayFulfill, IInv, TypeOK
    <3>2. Unused(r) = 0 /\ Unused(r)' \in {0, 1}
      BY <3>1 DEF Unused
    <3>. QED
      BY <1>1, <3>1, <3>2
  <2>2. CASE s # r
    BY <1>1, <1>3, <2>2 DEF CallBackend, Unused, IInv, TypeOK
  <2>. QED
    BY <2>1, <2>2
<1>4. ASSUME NEW s \in Requests, HelperSubmits(s)
      PROVE  /\ IsFiniteSet(ledger'[r])
             /\ Cardinality(ledger'[r]) + Unused(r)' <= attempts'[r]
  <2>1. CASE s = r
    <3>1. PICK tx_hash \in TxHashes :
             /\ helper' = [helper EXCEPT ![r] = [submitted |-> {tx_hash}]]
             /\ ledger' = [ledger EXCEPT ![r] = @ \cup {PaymentFor(r, tx_hash)}]
      BY <1>4, <2>1 DEF HelperSubmits, PaymentFor
    <3>2. /\ helper'[r] = [submitted |-> {tx_hash}]
          /\ ledger'[r] = ledger[r] \cup {PaymentFor(r, tx_hash)}
          /\ attempts' = attempts
      BY <1>4, <3>1 DEF HelperSubmits, IInv, TypeOK
    <3>3. Unused(r) = 1 /\ Unused(r)' = 0
      BY <1>4, <2>1, <3>2 DEF HelperSubmits, Unused
    <3>4. /\ IsFiniteSet(ledger'[r])
          /\ Cardinality(ledger'[r]) \in {Cardinality(ledger[r]), Cardinality(ledger[r]) + 1}
      <4> DEFINE paid == ledger[r]
                 payment == PaymentFor(r, tx_hash)
      <4>1. /\ IsFiniteSet(paid \cup {payment})
            /\ Cardinality(paid \cup {payment}) =
                  IF payment \in paid THEN Cardinality(paid) ELSE Cardinality(paid) + 1
        <5>. HIDE DEF paid, payment
        <5>. QED
          BY <1>1, FS_AddElement DEF paid
      <4>. QED
        BY <3>2, <4>1
    <3>. QED
      BY <1>1, <3>2, <3>3, <3>4
  <2>2. CASE s # r
    BY <1>1, <1>4, <2>2 DEF HelperSubmits, Unused, IInv, TypeOK
  <2>. QED
    BY <2>1, <2>2
<1>5. ASSUME NEW s \in Requests, HelperSucceeds(s) \/ HelperFails(s)
      PROVE  /\ IsFiniteSet(ledger'[r])
             /\ Cardinality(ledger'[r]) + Unused(r)' <= attempts'[r]
  <2>1. ledger' = ledger /\ attempts' = attempts
    BY <1>5 DEF HelperSucceeds, HelperFails
  <2>2. Unused(r)' = 0 \/ Unused(r)' = Unused(r)
    BY <1>5 DEF HelperSucceeds, HelperFails, Unused, IInv, TypeOK
  <2>3. Unused(r) \in {0, 1}
    BY DEF Unused
  <2>. QED
    BY <1>1, <2>1, <2>2, <2>3
<1>6. ASSUME NEW s \in Requests,
             \/ BuildIntent(s) \/ SubmitIntent(s) \/ Commit(s) \/ ReturnPending(s)
             \/ ReturnCommitted(s) \/ FulfillWithoutBackend(s) \/ AssembleBundle(s)
      PROVE  UNCHANGED settlement
  BY <1>6 DEF BuildIntent, SubmitIntent, Commit, ReturnPending, ReturnCommitted,
              FulfillWithoutBackend, AssembleBundle
<1>7. Tick \/ PublishDatum \/ Reconfigure \/ UNCHANGED vars => UNCHANGED settlement
  BY DEF Tick, PublishDatum, Reconfigure, vars, settlement
<1>. QED
  BY <1>2, <1>3, <1>4, <1>5, <1>6, <1>7 DEF Next

(* No call of the backend pays twice: a request that was paid n times was  *)
(* fulfilled at least n times.                                             *)
THEOREM PaymentsAreWithinAttempts == Spec => []PaymentsWithinAttempts
<1>1. Init => AttemptsCoverPayments
  BY FS_EmptySet DEF Init, AttemptsCoverPayments, Unused
<1>2. IInv /\ AttemptsCoverPayments => PaymentsWithinAttempts
  <2>. SUFFICES ASSUME IInv, AttemptsCoverPayments, NEW r \in Requests
                PROVE  Cardinality(ledger[r]) <= attempts[r]
    BY DEF PaymentsWithinAttempts
  <2>1. Cardinality(ledger[r]) \in Nat /\ attempts[r] \in Nat /\ Unused(r) \in {0, 1}
    BY FS_CardinalityType, DisbursementAssumption
    DEF AttemptsCoverPayments, IInv, TypeOK, Unused
  <2>. QED
    BY <2>1 DEF AttemptsCoverPayments
<1>. QED
  BY <1>1, <1>2, AttemptsKeepCovering, IInvIsInvariant, PTL DEF Spec

-----------------------------------------------------------------------------
(* Prices                                                                  *)

(* The provenance of a datum that was published before a time and lives    *)
(* for Validity.                                                           *)
IsQuote(provenance, time) ==
    /\ provenance.timestamp_unix \in Nat
    /\ provenance.timestamp_unix <= time
    /\ provenance.expiry_unix = provenance.timestamp_unix + Validity

(* Every intent carries a quote of its past, and was decided after it.     *)
QuotesAreOld ==
    /\ feed # None => IsQuote(feed.provenance, now)
    /\ \A r \in Requests :
          /\ intent[r] # None => IsQuote(intent[r].oracle_provenance, now)
          /\ decision[r] # None => IsQuote(intent[r].oracle_provenance, decision[r].now)

LEMMA QuotesStayOld ==
    ASSUME IInv, IInv', QuotesAreOld, [Next]_vars
    PROVE  QuotesAreOld'
<1>. USE DEF IInv, QuotesAreOld
<1>0. now \in Nat /\ now' \in Nat
  BY DisbursementAssumption DEF TypeOK
<1>1. CASE Tick
  BY <1>0, <1>1 DEF Tick, IsQuote, consensus
<1>2. CASE PublishDatum
  <2>1. feed' # None => IsQuote(feed'.provenance, now)
    BY <1>0, <1>2 DEF PublishDatum, IsQuote
  <2>. QED
    BY <1>2, <2>1 DEF PublishDatum, consensus, IsQuote
<1>3. ASSUME NEW r \in Requests, BuildIntent(r) PROVE QuotesAreOld'
  <2>1. \A s \in Requests : \/ intent'[s] = intent[s]
                            \/ /\ intent[s] = None
                               /\ intent'[s].oracle_provenance = feed.provenance
    BY <1>3 DEF BuildIntent, TypeOK, NewIntent
  <2>2. UNCHANGED <<now, feed, decision>> /\ feed # None
    BY <1>3 DEF BuildIntent, environment, consensus
  <2>3. \A s \in Requests : decision[s] # None => intent[s] # None
    BY DEF Trail, DecisionFollowsIntent
  <2>. QED
    BY <2>1, <2>2, <2>3 DEF IsQuote
<1>4. ASSUME NEW r \in Requests, Commit(r) PROVE QuotesAreOld'
  <2>1. \A s \in Requests : \/ decision'[s] = decision[s]
                            \/ intent[s] # None /\ decision'[s].now = now
    BY <1>4 DEF Commit, TypeOK, Trail, DecisionFollowsIntent
  <2>2. UNCHANGED <<now, feed, intent>>
    BY <1>4 DEF Commit, environment
  <2>. QED
    BY <2>1, <2>2 DEF IsQuote
<1>5. CASE UNCHANGED <<now, feed, intent, decision>>
  BY <1>5 DEF IsQuote
<1>6. ASSUME NEW r \in Requests,
             \/ SubmitIntent(r) \/ ReturnPending(r) \/ ReturnCommitted(r)
             \/ FulfillWithoutBackend(r) \/ CallBackend(r) \/ HelperSubmits(r)
             \/ HelperSucceeds(r) \/ HelperFails(r) \/ AssembleBundle(r)
      PROVE  UNCHANGED <<now, feed, intent, decision>>
  BY <1>6
  DEF SubmitIntent, ReturnPending, ReturnCommitted, FulfillWithoutBackend, CallBackend,
      HelperSubmits, HelperSucceeds, HelperFails, AssembleBundle, environment, consensus
<1>7. Reconfigure \/ UNCHANGED vars => UNCHANGED <<now, feed, intent, decision>>
  BY DEF Reconfigure, consensus, vars
<1>. QED
  BY <1>1, <1>2, <1>3, <1>4, <1>5, <1>6, <1>7 DEF Next

(* No price is used outside of its lifetime, however long the intent       *)
(* waited for its commit.                                                  *)
THEOREM PricesAreLive == Spec => []PriceWasLive
<1>1. Init => QuotesAreOld
  BY DEF Init, QuotesAreOld
<1>2. IInv /\ QuotesAreOld => PriceWasLive
  <2>. SUFFICES ASSUME IInv, QuotesAreOld, NEW r \in Requests, IsAuthorized(r)
                PROVE  LET published == intent[r].oracle_provenance.timestamp_unix
                       IN  /\ published <= decision[r].now
                           /\ decision[r].now < published + Validity
    BY DEF PriceWasLive
  <2>1. decision[r].now < intent[r].oracle_provenance.expiry_unix
    BY AuthorizedMeansPermitted DEF Permitted
  <2>. QED
    BY <2>1 DEF QuotesAreOld, IsQuote, IsAuthorized
<1>. QED
  BY <1>1, <1>2, QuotesStayOld, IInvIsInvariant, PTL DEF Spec

-----------------------------------------------------------------------------
(* One id, one verdict                                                     *)

LEMMA IInvGivesOneVerdict == IInv => OneIdOneVerdict
<1>. SUFFICES ASSUME IInv, NEW r \in Requests, NEW s \in Requests,
                     decision[r] # None, decision[s] # None,
                     IntentId(intent[r]) = IntentId(intent[s]),
                     decision[r].now = decision[s].now,
                     decision[r].config = decision[s].config
              PROVE  \/ decision[r].output = decision[s].output
                     \/ IsDeniedAsStale(r) \/ IsDeniedAsStale(s)
  BY DEF OneIdOneVerdict
<1>. DEFINE time == decision[r].now
            c == decision[r].config
            Fresh(i) == IsFresh(i.oracle_provenance, time)
<1>1. /\ decision[r].output = AuthorizeDisbursement(intent[r], c, time)
      /\ decision[s].output = AuthorizeDisbursement(intent[s], c, time)
  BY DEF IInv, Trail, DecisionFollowsIntent
<1>2. CASE Fresh(intent[r]) <=> Fresh(intent[s])
  BY <1>1, <1>2, OnlyTheExpiryIsReadBesidesTheId
<1>3. ASSUME NEW p \in {r, s}, NEW q \in {r, s}, ~Fresh(intent[p]), Fresh(intent[q])
      PROVE  decision[p].output = decision[q].output \/ IsDeniedAsStale(p)
  <2>1. /\ intent[p] \in DisbursementIntents
        /\ time \in U64
    BY <1>1 DEF IInv, Trail, DecisionFollowsIntent, TypeOK, Decisions
  <2>2. intent[p].oracle_provenance.expiry_unix <= time
    BY <1>3, <2>1 DEF IsFresh, DisbursementIntents, OracleFactProvenance, U64
  <2>3. /\ RunAnchorGate(intent[p], c) = RunAnchorGate(intent[q], c)
        /\ RunRegistryGate(intent[p], c) = RunRegistryGate(intent[q], c)
    BY DEF IntentId, RunAnchorGate, RunRegistryGate
  <2>4. RunGrantGate(intent[p], BasisOf(intent[p], c), time) = Deny("OracleStale")
    BY <1>3 DEF RunGrantGate
  <2>5. \/ AuthorizeDisbursement(intent[p], c, time)
              = AuthorizeDisbursement(intent[q], c, time)
        \/ AuthorizeDisbursement(intent[p], c, time) = Denied("OracleStale", "Grant")
    BY <2>3, <2>4 DEF AuthorizeDisbursement, Deny
  <2>. QED
    BY <1>1, <2>2, <2>5 DEF IsDeniedAsStale
<1>. QED
  BY <1>2, <1>3

(* For any intents, configurations and times: the id of an intent and the  *)
(* freshness of its datum determine what consensus commits for it.         *)
THEOREM OneIdHasOneVerdict == Spec => []OneIdOneVerdict
<1>. QED
  BY IInvIsInvariant, IInvGivesOneVerdict, PTL

-----------------------------------------------------------------------------
(* Progress.  Nothing in the code queries a pending request again, calls   *)
(* fulfill again or limits the helper, so no liveness follows; but a step  *)
(* is always there for the caller, the operator or the helper to take.     *)

IsSubmitted(r) == r \in mempool \/ decision[r] # None

IsRecordedAsCommitted(r) == \E evidence \in bundles[r] : evidence.committed_height # 0

(* The backend's errors have used up the calls the caller makes.           *)
IsExhausted(r) == attempts[r] = MaxAttempts /\ outcome[r] = None /\ helper[r] = None

(* A call of fulfill that could give a first outcome.                      *)
MayAct(r) ==
    /\ outcome[r] = None
    /\ MayFulfill(r)
    /\ ReachesBackend(receipt[r]) => attempts[r] < MaxAttempts

(* A request that was submitted is done, or somebody can go on with it.    *)
NoRequestIsStuck ==
    \A r \in Requests : IsSubmitted(r) =>
        \/ IsRecordedAsCommitted(r)
        \/ IsExhausted(r)
        \/ r \in mempool \/ MayReturn(r) \/ MayAct(r) \/ helper[r] # None \/ MayRecord(r)

(* How many steps a request has left at most.                              *)
OneIf(condition) == IF condition THEN 1 ELSE 0

StepsToDecide(r) ==
    OneIf(intent[r] = None) + OneIf(decision[r] = None)
        + OneIf(decision[r] = None /\ r \notin mempool)

StepsToClose(r) == OneIf(outcome[r] = None) + OneIf(~IsRecorded(r))

StepsToRecord(r) ==
    IF receipt[r] = None THEN 6
    ELSE IF receipt[r].status = "Pending" THEN 3 + StepsToClose(r)
    ELSE StepsToClose(r)

StepsOfHelper(r) ==
    IF helper[r] = None THEN 0 ELSE 1 + OneIf(helper[r].submitted = {})

StepsLeft(r) ==
    StepsToDecide(r) + StepsToRecord(r) + StepsOfHelper(r) + 3 * (MaxAttempts - attempts[r])

StateOf(r) ==
    <<intent[r], r \in mempool, decision[r], receipt[r], attempts[r], helper[r],
      outcome[r], ledger[r], bundles[r]>>

(* Whatever changes a request uses up one of its steps.                    *)
EveryChangeIsProgress ==
    [][\A r \in Requests : StateOf(r)' = StateOf(r) \/ StepsLeft(r)' < StepsLeft(r)]_vars

(* A committed receipt that was acted on is recorded as committed, because *)
(* its height is the block's; the adapter can always assemble a record.    *)
LEMMA NobodyIsStuck == IInv => NoRequestIsStuck
<1>1. ASSUME IInv, NEW r \in Requests, IsSubmitted(r), ~IsRecordedAsCommitted(r),
             ~IsExhausted(r), r \notin mempool, ~MayReturn(r), ~MayAct(r), helper[r] = None
      PROVE  MayRecord(r)
  <2>1. decision[r] # None /\ receipt[r] # None /\ receipt[r].status # "Pending"
    BY <1>1 DEF IsSubmitted, MayReturn
  <2>2. /\ receipt[r].status = "Committed"
        /\ receipt[r].intent_id = IntentId(intent[r])
        /\ receipt[r].committed_height = decision[r].height /\ decision[r].height > 0
    <3>1. receipt[r] \in IntentReceipts
      BY <1>1, <2>1 DEF IInv, TypeOK
    <3>2. receipt[r].status = "Committed"
      BY <2>1, <3>1 DEF IntentReceipts, IntentStatuses
    <3>. QED
      BY <1>1, <2>1, <3>2
      DEF IInv, Trail, DecisionFollowsIntent, ReceiptFollowsDecision
  <2>3. outcome[r] # None
    <3>1. attempts[r] <= MaxAttempts /\ attempts[r] \in Nat /\ MaxAttempts \in Nat
      BY <1>1, DisbursementAssumption DEF IInv, TypeOK
    <3>2. outcome[r] = None => ReachesBackend(receipt[r]) /\ ~(attempts[r] < MaxAttempts)
      BY <1>1, <2>1 DEF MayAct, MayFulfill
    <3>. QED
      BY <1>1, <3>1, <3>2 DEF IsExhausted
  <2>4. ~IsRecorded(r)
    <3>1. decision[r].height # 0
      BY <1>1, <2>1, <2>2 DEF IInv, TypeOK, Decisions
    <3>. QED
      BY <1>1, <2>2, <3>1 DEF IsRecorded, IsRecordedAsCommitted
  <2>. QED
    BY <2>2, <2>3, <2>4 DEF MayRecord, CanAssemble
<1>. QED
  BY <1>1 DEF NoRequestIsStuck

LEMMA ClosingTakesTwo ==
    ASSUME NEW r \in Requests
    PROVE  StepsToClose(r) \in 0 .. 2 /\ StepsToClose(r)' \in 0 .. 2
  BY DEF StepsToClose, OneIf

(* The steps up to the commit use up the first summand.                    *)
LEMMA DecidingIsProgress ==
    ASSUME IInv, NEW r \in Requests, BuildIntent(r) \/ SubmitIntent(r) \/ Commit(r)
    PROVE  StepsLeft(r)' < StepsLeft(r)
<1>1. UNCHANGED <<receipt, attempts, helper, outcome, bundles>>
  BY DEF BuildIntent, SubmitIntent, Commit, settlement
<1>2. StepsToDecide(r) \in Nat /\ StepsToDecide(r)' \in Nat
  BY DEF StepsToDecide, OneIf
<1>3. StepsToDecide(r)' < StepsToDecide(r)
  <2>1. CASE BuildIntent(r)
    <3>1. intent[r] = None /\ intent'[r] # None /\ UNCHANGED <<decision, mempool>>
      <4>1. feed \in OracleData
        BY <2>1 DEF BuildIntent, IInv, TypeOK
      <4>2. PICK ask \in RequestedAsks :
               intent' = [intent EXCEPT ![r] = NewIntent(ask, feed.fact, feed.provenance)]
        BY <2>1 DEF BuildIntent
      <4>3. NewIntent(ask, feed.fact, feed.provenance) # None
        BY <4>1, NewIntentIsTyped, NoneAssumption
      <4>. QED
        BY <2>1, <4>2, <4>3 DEF BuildIntent, IInv, TypeOK, consensus
    <3>. QED
      BY <3>1 DEF StepsToDecide, OneIf
  <2>2. CASE SubmitIntent(r)
    <3>1. decision[r] = None /\ r \notin mempool /\ r \in mempool' /\ UNCHANGED <<decision, intent>>
      BY <2>2 DEF SubmitIntent
    <3>. QED
      BY <3>1 DEF StepsToDecide, OneIf
  <2>3. CASE Commit(r)
    <3>1. r \in mempool /\ decision[r] = None /\ intent[r] # None /\ UNCHANGED intent
      BY <2>3 DEF Commit, IInv, Trail, DecisionFollowsIntent
    <3>2. decision'[r] # None
      <4>1. decision'[r] = [output |-> AuthorizeDisbursement(intent[r], config, now),
                            now |-> now, config |-> config, height |-> height + 1]
        BY <2>3 DEF Commit, IInv, TypeOK
      <4>2. decision'[r] \in Decisions
        BY <3>1, <4>1, ResultIsTyped, TimeFits DEF IInv, TypeOK, Decisions
      <4>. QED
        BY <4>2, NoneAssumption
    <3>. QED
      BY <3>1, <3>2 DEF StepsToDecide, OneIf
  <2>. QED
    BY <2>1, <2>2, <2>3
<1>4. StepsToRecord(r)' = StepsToRecord(r) /\ StepsOfHelper(r)' = StepsOfHelper(r)
  BY <1>1 DEF StepsToRecord, StepsToClose, IsRecorded, StepsOfHelper
<1>5. StepsToRecord(r) \in Nat /\ StepsOfHelper(r) \in Nat
  BY ClosingTakesTwo DEF StepsToRecord, StepsOfHelper, OneIf
<1>6. attempts[r] \in Nat /\ MaxAttempts \in Nat /\ attempts'[r] = attempts[r]
  BY <1>1, DisbursementAssumption DEF IInv, TypeOK
<1>. QED
  BY <1>2, <1>3, <1>4, <1>5, <1>6 DEF StepsLeft

(* A receipt moves from none over pending to committed, and what is done   *)
(* with the earlier one cannot be more than a new one allows.              *)
LEMMA ReturningIsProgress ==
    ASSUME IInv, NEW r \in Requests, ReturnPending(r) \/ ReturnCommitted(r)
    PROVE  StepsLeft(r)' < StepsLeft(r)
<1>1. UNCHANGED <<intent, mempool, decision, attempts, helper>>
  BY DEF ReturnPending, ReturnCommitted, consensus, settlement
<1>2. StepsToRecord(r)' < StepsToRecord(r)
  <2>1. /\ receipt'[r] \in {PendingReceipt(IntentId(intent[r]),
                                           AuthorizeDisbursement(intent[r], config, now)),
                            CommittedReceipt(IntentId(intent[r]), decision[r].height,
                                             decision[r].output)}
        /\ ReturnPending(r) => receipt[r] = None
        /\ ReturnCommitted(r) => receipt'[r].status = "Committed"
        /\ receipt[r] # None => receipt[r].status = "Pending"
    BY DEF ReturnPending, ReturnCommitted, MayReturn, IInv, TypeOK, CommittedReceipt
  <2>2. /\ receipt'[r].status \in {"Pending", "Committed"}
        /\ receipt'[r].status = "Pending" => receipt[r] = None
    BY <2>1 DEF PendingReceipt, CommittedReceipt
  <2>. HIDE DEF IInv
  <2>3. receipt'[r] # None
    <3>1. receipt'[r] \in IntentReceipts \cup {None}
      BY ReturnPendingKeepsIInv, ReturnCommittedKeepsIInv DEF IInv, TypeOK
    <3>2. receipt'[r] \in IntentReceipts
      <4>1. intent[r] \in DisbursementIntents
        BY DEF ReturnPending, ReturnCommitted, MayReturn, IInv, TypeOK, Trail,
               DecisionFollowsIntent
      <4>2. ReturnCommitted(r) => decision[r] \in Decisions
        BY DEF ReturnCommitted, MayReturn, IInv, TypeOK
      <4>3. ReturnCommitted(r) =>
               decision[r].height \in Nat /\ decision[r].output \in AuthorizationResults
        BY <4>2 DEF Decisions
      <4>4. CASE ReturnPending(r)
        <5>1. receipt'[r] = PendingReceipt(IntentId(intent[r]),
                                           AuthorizeDisbursement(intent[r], config, now))
          BY <4>4 DEF ReturnPending, IInv, TypeOK
        <5>. QED
          BY <4>1, <5>1, ResultIsTyped, IntentIdIsTyped
          DEF IInv, TypeOK, PendingReceipt, IntentReceipts, IntentStatuses
      <4>5. CASE ReturnCommitted(r)
        <5>1. receipt'[r] = CommittedReceipt(IntentId(intent[r]), decision[r].height,
                                             decision[r].output)
          BY <4>5 DEF ReturnCommitted, IInv, TypeOK
        <5>. QED
          BY <4>1, <4>3, <4>5, <5>1, IntentIdIsTyped
          DEF CommittedReceipt, IntentReceipts, IntentStatuses
      <4>. QED
        BY <4>4, <4>5
    <3>. QED
      BY <3>2, NoneAssumption
  <2>. QED
    BY <2>1, <2>2, <2>3, ClosingTakesTwo DEF StepsToRecord
<1>3. StepsToDecide(r)' = StepsToDecide(r) /\ StepsOfHelper(r)' = StepsOfHelper(r)
  BY <1>1 DEF StepsToDecide, StepsOfHelper
<1>4. /\ StepsToDecide(r) \in Nat /\ StepsOfHelper(r) \in Nat
      /\ StepsToRecord(r) \in Nat /\ StepsToRecord(r)' \in Nat
  BY ClosingTakesTwo DEF StepsToDecide, StepsToRecord, StepsOfHelper, OneIf
<1>5. attempts[r] \in Nat /\ MaxAttempts \in Nat /\ attempts'[r] = attempts[r]
  BY <1>1, DisbursementAssumption DEF IInv, TypeOK
<1>. QED
  BY <1>2, <1>3, <1>4, <1>5 DEF StepsLeft

(* Without the backend fulfill returns the same outcome every time.        *)
LEMMA RepeatedRefusalIsTheSame ==
    ASSUME IInv, NEW r \in Requests, FulfillWithoutBackend(r), outcome[r] # None
    PROVE  StateOf(r)' = StateOf(r)
<1>1. outcome'[r] = outcome[r]
  BY DEF FulfillWithoutBackend, IInv, TypeOK, Trail, OutcomeFollowsReceipt
<1>2. UNCHANGED <<intent, mempool, decision, receipt, attempts, helper, ledger, bundles>>
  BY DEF FulfillWithoutBackend, consensus, settlement
<1>. QED
  BY <1>1, <1>2 DEF StateOf

(* A receipt gets its first outcome once and is recorded once.             *)
LEMMA ClosingIsProgress ==
    ASSUME IInv, NEW r \in Requests,
           (FulfillWithoutBackend(r) /\ outcome[r] = None) \/ AssembleBundle(r)
    PROVE  StepsLeft(r)' < StepsLeft(r)
<1>1. UNCHANGED <<intent, mempool, decision, receipt, attempts, helper>>
  BY DEF FulfillWithoutBackend, AssembleBundle, consensus, settlement
<1>2. StepsToClose(r)' < StepsToClose(r)
  <2>1. CASE FulfillWithoutBackend(r) /\ outcome[r] = None
    <3>1. outcome[r] = None /\ UNCHANGED bundles
      BY <2>1 DEF FulfillWithoutBackend
    <3>2. outcome'[r] # None
      <4>1. receipt[r] \in IntentReceipts /\ outcome'[r] = OutcomeWithoutBackend(receipt[r])
        BY <2>1 DEF FulfillWithoutBackend, MayFulfill, IInv, TypeOK
      <4>. QED
        BY <2>1, <4>1, OutcomeIsTyped, NoneAssumption DEF FulfillWithoutBackend
    <3>3. IsRecorded(r)' = IsRecorded(r)
      BY <1>1, <3>1 DEF IsRecorded
    <3>. QED
      BY <3>1, <3>2, <3>3 DEF StepsToClose, OneIf
  <2>2. CASE AssembleBundle(r)
    <3>1. ~IsRecorded(r) /\ UNCHANGED outcome
      BY <2>2 DEF AssembleBundle, MayRecord
    <3>2. IsRecorded(r)'
      <4>1. EvidenceFor(r) \in bundles'[r]
        BY <2>2 DEF AssembleBundle, IInv, TypeOK
      <4>2. EvidenceFor(r).committed_height = receipt[r].committed_height
        BY DEF EvidenceFor, AssembleEvidence
      <4>. QED
        BY <1>1, <4>1, <4>2 DEF IsRecorded
    <3>. QED
      BY <3>1, <3>2 DEF StepsToClose, OneIf
  <2>. QED
    BY <2>1, <2>2
<1>3. receipt[r] # None
  BY DEF FulfillWithoutBackend, AssembleBundle, MayRecord, MayFulfill, IInv, Trail,
         OutcomeFollowsReceipt
<1>4. StepsToRecord(r)' < StepsToRecord(r)
  BY <1>1, <1>2, <1>3, ClosingTakesTwo DEF StepsToRecord
<1>5. StepsToDecide(r)' = StepsToDecide(r) /\ StepsOfHelper(r)' = StepsOfHelper(r)
  BY <1>1 DEF StepsToDecide, StepsOfHelper
<1>6. /\ StepsToDecide(r) \in Nat /\ StepsOfHelper(r) \in Nat
      /\ StepsToRecord(r) \in Nat /\ StepsToRecord(r)' \in Nat
  BY ClosingTakesTwo DEF StepsToDecide, StepsToRecord, StepsOfHelper, OneIf
<1>7. attempts[r] \in Nat /\ MaxAttempts \in Nat /\ attempts'[r] = attempts[r]
  BY <1>1, DisbursementAssumption DEF IInv, TypeOK
<1>. QED
  BY <1>4, <1>5, <1>6, <1>7 DEF StepsLeft

(* A call of the backend costs an attempt, and a helper submits once and   *)
(* ends once.                                                              *)
LEMMA HelpingIsProgress ==
    ASSUME IInv, NEW r \in Requests,
           CallBackend(r) \/ HelperSubmits(r) \/ HelperSucceeds(r) \/ HelperFails(r)
    PROVE  StepsLeft(r)' < StepsLeft(r)
<1>1. UNCHANGED <<intent, mempool, decision, receipt, bundles>>
  BY DEF CallBackend, HelperSubmits, HelperSucceeds, HelperFails, consensus
<1>2. attempts[r] \in Nat /\ MaxAttempts \in Nat
  BY DisbursementAssumption DEF IInv, TypeOK
<1>3. StepsToDecide(r)' = StepsToDecide(r) /\ StepsToDecide(r) \in Nat
  BY <1>1 DEF StepsToDecide, OneIf
<1>4. /\ StepsToRecord(r) \in Nat /\ StepsToRecord(r)' \in Nat
      /\ StepsToRecord(r)' <= StepsToRecord(r)
  <2>1. outcome'[r] = outcome[r] \/ outcome'[r] # None
    <3>1. CASE HelperSucceeds(r)
      <4>1. PICK tx_hash \in helper[r].submitted :
               outcome' = [outcome EXCEPT ![r] = Settled(tx_hash)]
        BY <3>1 DEF HelperSucceeds
      <4>2. Settled(tx_hash) \in FulfillmentOutcomes /\ outcome'[r] = Settled(tx_hash)
        BY <3>1, <4>1 DEF HelperSucceeds, IInv, TypeOK, Helpers, Settled, FulfillmentOutcomes
      <4>. QED
        BY <4>2, NoneAssumption
    <3>. QED
      BY <3>1 DEF CallBackend, HelperSubmits, HelperFails
  <2>2. StepsToClose(r)' <= StepsToClose(r)
    <3>1. IsRecorded(r)' = IsRecorded(r)
      BY <1>1 DEF IsRecorded
    <3>. QED
      BY <2>1, <3>1 DEF StepsToClose, OneIf
  <2>. QED
    BY <1>1, <2>2, ClosingTakesTwo DEF StepsToRecord
<1>5. CASE CallBackend(r)
  <2>1. attempts'[r] = attempts[r] + 1 /\ helper[r] = None /\ helper'[r].submitted = {}
    BY <1>5 DEF CallBackend, MayFulfill, IInv, TypeOK
  <2>2. StepsOfHelper(r) = 0 /\ StepsOfHelper(r)' \in 0 .. 2
    BY <2>1 DEF StepsOfHelper, OneIf
  <2>. QED
    BY <1>2, <1>3, <1>4, <2>1, <2>2 DEF StepsLeft
<1>6. CASE ~CallBackend(r)
  <2>1. UNCHANGED attempts /\ helper[r] # None
    BY <1>6 DEF HelperSubmits, HelperSucceeds, HelperFails
  <2>2. /\ StepsOfHelper(r) \in Nat /\ StepsOfHelper(r)' \in Nat
        /\ StepsOfHelper(r)' < StepsOfHelper(r)
    <3>1. CASE HelperSubmits(r)
      <4>1. PICK tx_hash \in TxHashes : helper' = [helper EXCEPT ![r] = [submitted |-> {tx_hash}]]
        BY <3>1 DEF HelperSubmits
      <4>2. helper[r].submitted = {} /\ helper'[r].submitted # {}
        <5>1. helper'[r] = [submitted |-> {tx_hash}]
          BY <4>1 DEF IInv, TypeOK
        <5>. QED
          BY <3>1, <5>1 DEF HelperSubmits
      <4>. QED
        BY <2>1, <4>2 DEF StepsOfHelper, OneIf
    <3>2. CASE HelperSucceeds(r) \/ HelperFails(r)
      <4>1. helper'[r] = None
        BY <3>2 DEF HelperSucceeds, HelperFails, IInv, TypeOK
      <4>. QED
        BY <2>1, <4>1 DEF StepsOfHelper, OneIf
    <3>. QED
      BY <1>6, <3>1, <3>2
  <2>. QED
    BY <1>2, <1>3, <1>4, <2>1, <2>2 DEF StepsLeft
<1>. QED
  BY <1>5, <1>6

(* The steps of one request, and those of the environment, leave another   *)
(* request as it is.                                                       *)
LEMMA OthersAreLeftAlone ==
    ASSUME IInv, NEW r \in Requests,
           \/ Tick \/ PublishDatum \/ Reconfigure \/ UNCHANGED vars
           \/ \E s \in Requests \ {r} :
                 \/ BuildIntent(s) \/ SubmitIntent(s) \/ Commit(s)
                 \/ ReturnPending(s) \/ ReturnCommitted(s)
                 \/ FulfillWithoutBackend(s) \/ CallBackend(s) \/ HelperSubmits(s)
                 \/ HelperSucceeds(s) \/ HelperFails(s) \/ AssembleBundle(s)
    PROVE  StateOf(r)' = StateOf(r)
<1>1. CASE Tick \/ PublishDatum \/ Reconfigure \/ UNCHANGED vars
  BY <1>1 DEF Tick, PublishDatum, Reconfigure, vars, consensus, settlement, StateOf
<1>2. ASSUME NEW s \in Requests \ {r},
             \/ BuildIntent(s) \/ SubmitIntent(s) \/ Commit(s)
             \/ ReturnPending(s) \/ ReturnCommitted(s)
      PROVE  StateOf(r)' = StateOf(r)
  BY <1>2 DEF BuildIntent, SubmitIntent, Commit, ReturnPending, ReturnCommitted, consensus,
              settlement, StateOf, IInv, TypeOK
<1>3. ASSUME NEW s \in Requests \ {r},
             \/ FulfillWithoutBackend(s) \/ CallBackend(s) \/ HelperSubmits(s)
             \/ HelperSucceeds(s) \/ HelperFails(s) \/ AssembleBundle(s)
      PROVE  StateOf(r)' = StateOf(r)
  BY <1>3 DEF FulfillWithoutBackend, CallBackend, HelperSubmits, HelperSucceeds, HelperFails,
              AssembleBundle, consensus, settlement, StateOf, IInv, TypeOK
<1>. QED
  BY <1>1, <1>2, <1>3

(* Submitted requests are recorded or out of attempts, or a step is there  *)
(* that goes on with them, of consensus, the operator, the caller or the   *)
(* helper: no state is a dead end, although nothing makes them take it     *)
(* (intake.rs, settlement.rs, artifacts.rs).                               *)
THEOREM NoRequestIsEverStuck == Spec => []NoRequestIsStuck
  BY IInvIsInvariant, NobodyIsStuck, PTL

(* A request changes only finitely often: each change uses up one of at    *)
(* most 3 * MaxAttempts + 9 steps, retries, pending receipts and failing   *)
(* helpers included (intake.rs, settlement.rs, cardano_disburse.rs).       *)
THEOREM RequestsTakeFinitelyManySteps ==
    /\ Spec => EveryChangeIsProgress
    /\ Spec => [](\A r \in Requests : StepsLeft(r) \in 0 .. 3 * MaxAttempts + 9)
<1>1. ASSUME IInv, [Next]_vars, NEW r \in Requests
      PROVE  StateOf(r)' = StateOf(r) \/ StepsLeft(r)' < StepsLeft(r)
  <2>1. ASSUME NEW s \in Requests,
               \/ BuildIntent(s) \/ SubmitIntent(s) \/ Commit(s)
               \/ ReturnPending(s) \/ ReturnCommitted(s)
               \/ FulfillWithoutBackend(s) \/ CallBackend(s) \/ HelperSubmits(s)
               \/ HelperSucceeds(s) \/ HelperFails(s) \/ AssembleBundle(s)
        PROVE  StateOf(r)' = StateOf(r) \/ StepsLeft(r)' < StepsLeft(r)
    <3>1. CASE s = r
      BY <1>1, <2>1, <3>1, DecidingIsProgress, ReturningIsProgress, ClosingIsProgress,
         RepeatedRefusalIsTheSame, HelpingIsProgress
    <3>2. CASE s # r
      BY <1>1, <2>1, <3>2, OthersAreLeftAlone
    <3>. QED
      BY <3>1, <3>2
  <2>2. CASE Tick \/ PublishDatum \/ Reconfigure \/ UNCHANGED vars
    BY <1>1, <2>2, OthersAreLeftAlone
  <2>. QED
    BY <1>1, <2>1, <2>2 DEF Next
<1>2. IInv /\ [Next]_vars =>
         [\A r \in Requests : StateOf(r)' = StateOf(r) \/ StepsLeft(r)' < StepsLeft(r)]_vars
  BY <1>1
<1>3. ASSUME IInv, NEW r \in Requests
      PROVE  StepsLeft(r) \in 0 .. 3 * MaxAttempts + 9
  <2>1. StepsToDecide(r) \in 0 .. 3 /\ StepsToRecord(r) \in 0 .. 6 /\ StepsOfHelper(r) \in 0 .. 2
    BY ClosingTakesTwo DEF StepsToDecide, StepsToRecord, StepsOfHelper, OneIf
  <2>2. StepsToRecord(r) <= 2 \/ StepsOfHelper(r) = 0
    <3>1. helper[r] # None => receipt[r] # None /\ receipt[r].status = "Committed"
      BY <1>3 DEF IInv, Trail, HelperFollowsReceipt, IsPayable, ReachesBackend
    <3>. QED
      BY <3>1, ClosingTakesTwo DEF StepsToRecord, StepsOfHelper
  <2>3. attempts[r] \in Nat /\ attempts[r] <= MaxAttempts /\ MaxAttempts \in Nat
    BY <1>3, DisbursementAssumption DEF IInv, TypeOK
  <2> DEFINE decide == StepsToDecide(r)
             record == StepsToRecord(r)
             help == StepsOfHelper(r)
             unused == MaxAttempts - attempts[r]
  <2>4. unused \in Nat /\ unused <= MaxAttempts
    BY <2>3
  <2>5. /\ decide \in Nat /\ decide <= 3
        /\ record \in Nat /\ record <= 6
        /\ help \in Nat /\ help <= 2
        /\ record <= 2 \/ help = 0
    BY <2>1, <2>2
  <2>6. StepsLeft(r) = decide + record + help + 3 * unused
    BY DEF StepsLeft
  <2>. HIDE DEF decide, record, help, unused
  <2>7. decide + record + help + 3 * unused \in 0 .. 3 * MaxAttempts + 9
    BY <2>3, <2>4, <2>5
  <2>. QED
    BY <2>6, <2>7
<1>4. IInv => \A r \in Requests : StepsLeft(r) \in 0 .. 3 * MaxAttempts + 9
  BY <1>3
<1>. QED
  BY <1>2, <1>4, IInvIsInvariant, PTL DEF Spec, EveryChangeIsProgress

=============================================================================
