------------------------------ MODULE PromiseProofs ------------------------------
(***************************************************************************)
(* What Disbursement keeps towards others, for every value of the          *)
(* constants.  It implements DisbursementPromise: each step of the         *)
(* adapter, the consensus or a helper is a step of the promise or leaves   *)
(* it unchanged.  And a record made of a committed receipt stays true,     *)
(* also when fulfill is called again after it: it passes the offline       *)
(* verifier and tells what was decided and paid.                           *)
(***************************************************************************)
EXTENDS DisbursementRefinement, DisbursementProofs

-----------------------------------------------------------------------------
(* What the promise sees of a request                                      *)

VerdictOn(r) ==
    IF decision[r] = None THEN [verdict |-> "Undecided"]
    ELSE IF IsGranted(r) THEN [verdict |-> "Granted", grant |-> GrantOf(r)]
    ELSE [verdict |-> "Refused"]

PaymentsOf(r) == {PaymentOf(tx) : tx \in ledger[r]}

ReportOn(r) ==
    IF outcome[r] = None THEN [report |-> "None"]
    ELSE IF outcome[r].outcome = "Settled"
    THEN [report |-> "Paid", tx_hash |-> outcome[r].tx_hash]
    ELSE [report |-> "NothingPaid"]

LEMMA MappingIsPointwise ==
    /\ PromisedVerdict = [r \in Requests |-> VerdictOn(r)]
    /\ PromisedPayments = [r \in Requests |-> PaymentsOf(r)]
    /\ PromisedReport = [r \in Requests |-> ReportOn(r)]
  BY DEF PromisedVerdict, PromisedPayments, PromisedReport, VerdictOn, PaymentsOf, ReportOn

LEMMA MappingIsPointwiseNext ==
    /\ PromisedVerdict' = [r \in Requests |-> VerdictOn(r)']
    /\ PromisedPayments' = [r \in Requests |-> PaymentsOf(r)']
    /\ PromisedReport' = [r \in Requests |-> ReportOn(r)']
  BY DEF PromisedVerdict, PromisedPayments, PromisedReport, VerdictOn, PaymentsOf, ReportOn

(* The verdict on a request depends on its decision, and on its intent     *)
(* once there is a decision.                                               *)
LEMMA VerdictFrame ==
    ASSUME NEW r \in Requests, decision'[r] = decision[r],
           decision[r] # None => intent'[r] = intent[r]
    PROVE  VerdictOn(r)' = VerdictOn(r)
  BY DEF VerdictOn, IsGranted, IsAuthorized, GrantOf

LEMMA PaymentsFrame ==
    ASSUME NEW r \in Requests, ledger'[r] = ledger[r]
    PROVE  PaymentsOf(r)' = PaymentsOf(r)
  BY DEF PaymentsOf, PaymentOf

LEMMA ReportFrame ==
    ASSUME NEW r \in Requests, outcome'[r] = outcome[r]
    PROVE  ReportOn(r)' = ReportOn(r)
  BY DEF ReportOn

(* A step that keeps what the promise looks at.                            *)
LEMMA InvisibleSteps ==
    ASSUME UNCHANGED <<decision, ledger, outcome>>,
           \A r \in Requests : decision[r] # None => intent'[r] = intent[r]
    PROVE  UNCHANGED Promise!promiseVars
  BY MappingIsPointwise, MappingIsPointwiseNext, VerdictFrame, PaymentsFrame, ReportFrame
  DEF Promise!promiseVars

-----------------------------------------------------------------------------
(* The visible steps                                                       *)

LEMMA GrantsAreTyped ==
    ASSUME NEW i \in DisbursementIntents, NEW d \in Decisions, d.output.verdict = "Authorized"
    PROVE  [destination |-> d.output.effect.destination,
            amount_lovelace |-> d.output.effect.authorized_amount_lovelace,
            intent_id |-> IntentId(i)] \in Grants
<1>1. d.output.effect \in AuthorizedEffects
  BY DEF Decisions, AuthorizationResults
<1>. QED
  BY <1>1, IntentIdIsTyped DEF Grants, AuthorizedEffects

LEMMA CommitDecides ==
    ASSUME IInv, IInv', NEW r \in Requests, Commit(r)
    PROVE  Promise!Decide(r)
<1>1. /\ decision[r] = None /\ decision'[r] # None
      /\ \A s \in Requests \ {r} : decision'[s] = decision[s]
      /\ UNCHANGED <<intent, ledger, outcome>>
  <2>1. /\ intent[r] \in DisbursementIntents /\ decision[r] = None
        /\ decision'[r] = [output |-> AuthorizeDisbursement(intent[r], config, now),
                           now |-> now, config |-> config, height |-> height + 1]
        /\ \A s \in Requests \ {r} : decision'[s] = decision[s]
        /\ UNCHANGED <<intent, ledger, outcome>>
    BY DEF Commit, environment, settlement, IInv, TypeOK, Trail, DecisionFollowsIntent
  <2>2. decision'[r] \in Decisions
    BY <2>1, ResultIsTyped, TimeFits DEF IInv, TypeOK, Decisions
  <2>. QED
    BY <2>1, <2>2, NoneAssumption
<1>2. VerdictOn(r) = Promise!Undecided
  BY <1>1 DEF VerdictOn, Promise!Undecided
<1>3. VerdictOn(r)' \in {Promise!Refused} \cup Promise!Grantings
  <2>1. IsGranted(r)' => GrantOf(r)' \in Grants
    <3>1. intent'[r] \in DisbursementIntents /\ decision'[r] \in Decisions
      BY <1>1 DEF IInv, TypeOK, Trail, DecisionFollowsIntent
    <3>. QED
      BY <3>1, GrantsAreTyped DEF IsGranted, IsAuthorized, GrantOf
  <2>. QED
    BY <1>1, <2>1 DEF VerdictOn, Promise!Refused, Promise!Grantings
<1>4. \A s \in Requests \ {r} : VerdictOn(s)' = VerdictOn(s)
  BY <1>1, VerdictFrame
<1>5. UNCHANGED <<PromisedPayments, PromisedReport>>
  BY <1>1, MappingIsPointwise, MappingIsPointwiseNext, PaymentsFrame, ReportFrame
<1>6. /\ PromisedVerdict[r] = VerdictOn(r) /\ PromisedVerdict'[r] = VerdictOn(r)'
      /\ PromisedVerdict' = [PromisedVerdict EXCEPT ![r] = PromisedVerdict'[r]]
  BY <1>4, MappingIsPointwise, MappingIsPointwiseNext
<1>. QED
  BY <1>2, <1>3, <1>5, <1>6 DEF Promise!Decide

(* What was reported of a payable receipt is nothing or a payment.         *)
LEMMA PayableIsNotRefused ==
    ASSUME IInv, NEW r \in Requests, IsPayable(r)
    PROVE  ReportOn(r) # Promise!NothingPaid
<1>1. outcome[r] # None => \E tx \in ledger[r] : outcome[r] = Settled(tx.tx_hash)
  BY DEF IInv, Trail, OutcomeFollowsReceipt, IsPayable
<1>2. ASSUME outcome[r] # None PROVE outcome[r].outcome = "Settled"
  <2>1. PICK tx \in ledger[r] : outcome[r] = Settled(tx.tx_hash)
    BY <1>1, <1>2
  <2>. QED
    BY <2>1 DEF Settled
<1>3. ReportOn(r).report # "NothingPaid"
  BY <1>2 DEF ReportOn
<1>. QED
  BY <1>3 DEF Promise!NothingPaid

(* What the helper submits is the grant, under a name nobody has used.     *)
LEMMA SubmissionPays ==
    ASSUME IInv, IInv', NEW r \in Requests, HelperSubmits(r)
    PROVE  Promise!Pay(r)
<1>1. PICK tx_hash \in TxHashes \ UsedTxHashes :
         ledger' = [ledger EXCEPT ![r] = @ \cup {PaymentFor(r, tx_hash)}]
  BY DEF HelperSubmits, PaymentFor
<1>2. /\ UNCHANGED <<intent, decision, outcome>>
      /\ IsPayable(r)
  BY DEF HelperSubmits, environment, consensus, IInv, Trail, HelperFollowsReceipt
<1>3. /\ decision[r] # None /\ receipt[r].output = decision[r].output
      /\ receipt[r].intent_id = IntentId(intent[r])
      /\ IsGranted(r)
  BY <1>2 DEF IInv, Trail, ReceiptFollowsDecision, IsPayable, ReachesBackend, GuardMvpAsset,
              IsGranted, IsAuthorized
<1>4. PaymentOf(PaymentFor(r, tx_hash)) = [tx_hash |-> tx_hash, grant |-> GrantOf(r)]
  BY <1>3 DEF PaymentOf, PaymentFor, RequestOf, SettlementRequestFromEffect, GrantOf
<1>5. /\ ledger'[r] = ledger[r] \cup {PaymentFor(r, tx_hash)}
      /\ \A s \in Requests \ {r} : ledger'[s] = ledger[s]
  BY <1>1 DEF IInv, TypeOK
<1>6. /\ PaymentsOf(r)' = PaymentsOf(r) \cup {[tx_hash |-> tx_hash, grant |-> GrantOf(r)]}
      /\ \A s \in Requests \ {r} : PaymentsOf(s)' = PaymentsOf(s)
  <2>1. PaymentsOf(r)' = {PaymentOf(tx) : tx \in ledger'[r]}
    BY DEF PaymentsOf, PaymentOf
  <2>. QED
    BY <1>4, <1>5, <2>1, PaymentsFrame DEF PaymentsOf
<1>7. PromisedPayments' = [PromisedPayments EXCEPT ![r] =
         @ \cup {[tx_hash |-> tx_hash, grant |-> GrantOf(r)]}]
  BY <1>6, MappingIsPointwise, MappingIsPointwiseNext
<1>8. PromisedVerdict[r] = [verdict |-> "Granted", grant |-> GrantOf(r)]
  BY <1>3, MappingIsPointwise DEF VerdictOn
<1>9. PromisedVerdict[r] \in Promise!Grantings
  <2>1. intent[r] \in DisbursementIntents /\ decision[r] \in Decisions
    BY <1>3 DEF IInv, TypeOK, Trail, DecisionFollowsIntent
  <2>2. GrantOf(r) \in Grants
    BY <1>3, <2>1, GrantsAreTyped DEF IsGranted, IsAuthorized, GrantOf
  <2>. QED
    BY <1>8, <2>2 DEF Promise!Grantings
<1>10. Promise!IsUnused(tx_hash)
  <2>1. \A s \in Requests : \A tx \in ledger[s] : tx.tx_hash # tx_hash
    BY DEF UsedTxHashes
  <2>. QED
    BY <2>1, MappingIsPointwise DEF Promise!IsUnused, PaymentsOf, PaymentOf
<1>11. PromisedReport[r] # Promise!NothingPaid
  BY <1>2, PayableIsNotRefused, MappingIsPointwise
<1>12. UNCHANGED <<PromisedVerdict, PromisedReport>>
  BY <1>2, MappingIsPointwise, MappingIsPointwiseNext, VerdictFrame, ReportFrame
<1>13. PromisedPayments' = [PromisedPayments EXCEPT ![r] =
          @ \cup {[tx_hash |-> tx_hash, grant |-> PromisedVerdict[r].grant]}]
  BY <1>7, <1>8
<1>. QED
  BY <1>9, <1>10, <1>11, <1>12, <1>13 DEF Promise!Pay

(* The steps that change nothing but what is reported of one request.      *)
LEMMA OnlyTheReportChanges ==
    ASSUME IInv, NEW r \in Requests, UNCHANGED <<intent, decision, ledger>>,
           \A s \in Requests \ {r} : outcome'[s] = outcome[s]
    PROVE  /\ PromisedReport' = [PromisedReport EXCEPT ![r] = ReportOn(r)']
           /\ PromisedReport[r] = ReportOn(r)
           /\ UNCHANGED <<PromisedVerdict, PromisedPayments>>
  BY MappingIsPointwise, MappingIsPointwiseNext, VerdictFrame, PaymentsFrame, ReportFrame

LEMMA SuccessReports ==
    ASSUME IInv, NEW r \in Requests, HelperSucceeds(r)
    PROVE  Promise!ReportPayment(r)
<1>1. PICK tx_hash \in helper[r].submitted :
         outcome' = [outcome EXCEPT ![r] = Settled(tx_hash)]
  BY DEF HelperSucceeds
<1>2. /\ UNCHANGED <<intent, decision, ledger>>
      /\ IsPayable(r) /\ PaymentFor(r, tx_hash) \in ledger[r]
  BY DEF HelperSucceeds, environment, consensus, IInv, Trail, HelperFollowsReceipt
<1>3. /\ outcome'[r] = Settled(tx_hash)
      /\ \A s \in Requests \ {r} : outcome'[s] = outcome[s]
  BY <1>1 DEF IInv, TypeOK
<1>4. outcome'[r] # None
  <2>1. Settled(tx_hash) \in FulfillmentOutcomes
    BY DEF HelperSucceeds, IInv, TypeOK, Helpers, Settled, FulfillmentOutcomes
  <2>. QED
    BY <1>3, <2>1, NoneAssumption
<1>5. ReportOn(r) # Promise!NothingPaid /\ ReportOn(r)' = Promise!PaidBy(tx_hash)
  BY <1>2, <1>3, <1>4, PayableIsNotRefused DEF ReportOn, Settled, Promise!PaidBy
<1>6. \E payment \in PromisedPayments[r] : payment.tx_hash = tx_hash
  <2>1. PaymentOf(PaymentFor(r, tx_hash)) \in PromisedPayments[r]
    BY <1>2, MappingIsPointwise DEF PaymentsOf
  <2>2. PaymentOf(PaymentFor(r, tx_hash)).tx_hash = tx_hash
    BY DEF PaymentOf, PaymentFor
  <2>. QED
    BY <2>1, <2>2
<1>. QED
  BY <1>2, <1>3, <1>5, <1>6, OnlyTheReportChanges DEF Promise!ReportPayment

(* Only the first refusal is seen: the later ones repeat it.               *)
LEMMA RefusalReports ==
    ASSUME IInv, NEW r \in Requests, FulfillWithoutBackend(r)
    PROVE  Promise!ReportNoPayment(r) \/ UNCHANGED Promise!promiseVars
<1>1. /\ receipt[r] # None /\ ~ReachesBackend(receipt[r])
      /\ UNCHANGED <<intent, decision, ledger>>
      /\ outcome'[r] = OutcomeWithoutBackend(receipt[r])
      /\ \A s \in Requests \ {r} : outcome'[s] = outcome[s]
  BY DEF FulfillWithoutBackend, MayFulfill, environment, consensus, settlement, IInv, TypeOK
<1>2. outcome'[r] # None /\ outcome'[r].outcome # "Settled"
  BY <1>1, OutcomeIsTyped, NoneAssumption DEF IInv, TypeOK
<1>3. PromisedPayments[r] = {}
  <2>1. ledger[r] = {}
    BY <1>1 DEF IInv, Trail, LedgerFollowsReceipt, IsPayable
  <2>. QED
    BY <2>1, MappingIsPointwise DEF PaymentsOf
<1>4. CASE outcome[r] = None
  <2>1. ReportOn(r) = Promise!NoReport /\ ReportOn(r)' = Promise!NothingPaid
    BY <1>1, <1>2, <1>4 DEF ReportOn, Promise!NoReport, Promise!NothingPaid
  <2>. QED
    BY <1>1, <1>3, <2>1, OnlyTheReportChanges DEF Promise!ReportNoPayment
<1>5. CASE outcome[r] # None
  <2>1. outcome'[r] = outcome[r]
    BY <1>1, <1>5 DEF IInv, Trail, OutcomeFollowsReceipt
  <2>2. outcome' = outcome
    BY <1>1, <2>1 DEF FulfillWithoutBackend, IInv, TypeOK
  <2>. QED
    BY <1>1, <2>2, InvisibleSteps
<1>. QED
  BY <1>4, <1>5

(* A committed receipt after a pending one withdraws the refusal, if that  *)
(* was already reported; no payment can have been.                         *)
LEMMA CommittedReceiptWithdraws ==
    ASSUME IInv, NEW r \in Requests, ReturnCommitted(r)
    PROVE  Promise!Withdraw(r) \/ UNCHANGED Promise!promiseVars
<1>1. /\ UNCHANGED <<intent, decision, ledger>>
      /\ decision[r] # None
      /\ outcome'[r] = None
      /\ \A s \in Requests \ {r} : outcome'[s] = outcome[s]
  BY DEF ReturnCommitted, MayReturn, environment, consensus, settlement, IInv, TypeOK
<1>2. CASE outcome[r] = None
  <2>1. outcome' = outcome
    BY <1>1, <1>2 DEF ReturnCommitted, IInv, TypeOK
  <2>. QED
    BY <1>1, <2>1, InvisibleSteps
<1>3. CASE outcome[r] # None
  <2>1. receipt[r] \in IntentReceipts /\ ~ReachesBackend(receipt[r])
    BY <1>3 DEF ReturnCommitted, MayReturn, ReachesBackend, IInv, TypeOK, Trail,
                OutcomeFollowsReceipt
  <2>2. outcome[r] = OutcomeWithoutBackend(receipt[r])
    BY <1>3, <2>1 DEF IInv, Trail, OutcomeFollowsReceipt
  <2>3. ReportOn(r) = Promise!NothingPaid /\ ReportOn(r)' = Promise!NoReport
    BY <1>1, <1>3, <2>1, <2>2, OutcomeIsTyped
    DEF ReportOn, Promise!NoReport, Promise!NothingPaid
  <2>4. PromisedVerdict[r] # Promise!Undecided
    BY <1>1, MappingIsPointwise DEF VerdictOn, Promise!Undecided
  <2>. QED
    BY <1>1, <2>3, <2>4, OnlyTheReportChanges DEF Promise!Withdraw
<1>. QED
  BY <1>2, <1>3

-----------------------------------------------------------------------------

LEMMA OtherStepsAreInvisible ==
    ASSUME IInv, NEW r \in Requests,
           \/ BuildIntent(r) \/ SubmitIntent(r) \/ ReturnPending(r)
           \/ CallBackend(r) \/ HelperFails(r) \/ AssembleBundle(r)
    PROVE  UNCHANGED Promise!promiseVars
<1>1. UNCHANGED <<decision, ledger, outcome>>
  BY DEF BuildIntent, SubmitIntent, ReturnPending, CallBackend, HelperFails, AssembleBundle,
         consensus, settlement
<1>2. \A s \in Requests : decision[s] # None => intent'[s] = intent[s]
  BY DEF BuildIntent, SubmitIntent, ReturnPending, CallBackend, HelperFails, AssembleBundle,
         IInv, TypeOK, Trail, DecisionFollowsIntent
<1>. QED
  BY <1>1, <1>2, InvisibleSteps

LEMMA StepsAreSimulated ==
    ASSUME IInv, IInv', [Next]_vars
    PROVE  [Promise!PromiseNext]_(Promise!promiseVars)
<1>1. CASE Tick \/ PublishDatum \/ Reconfigure \/ UNCHANGED vars
  <2>1. UNCHANGED <<intent, decision, ledger, outcome>>
    BY <1>1 DEF Tick, PublishDatum, Reconfigure, vars, consensus, settlement
  <2>. QED
    BY <2>1, InvisibleSteps
<1>2. ASSUME NEW r \in Requests,
             Commit(r) \/ HelperSubmits(r) \/ HelperSucceeds(r)
      PROVE  Promise!PromiseNext
  BY <1>2, CommitDecides, SubmissionPays, SuccessReports DEF Promise!PromiseNext
<1>3. ASSUME NEW r \in Requests, ReturnCommitted(r) \/ FulfillWithoutBackend(r)
      PROVE  Promise!PromiseNext \/ UNCHANGED Promise!promiseVars
  BY <1>3, CommittedReceiptWithdraws, RefusalReports DEF Promise!PromiseNext
<1>4. ASSUME NEW r \in Requests,
             \/ BuildIntent(r) \/ SubmitIntent(r) \/ ReturnPending(r)
             \/ CallBackend(r) \/ HelperFails(r) \/ AssembleBundle(r)
      PROVE  UNCHANGED Promise!promiseVars
  BY <1>4, OtherStepsAreInvisible
<1>. QED
  BY <1>1, <1>2, <1>3, <1>4 DEF Next

(* The detailed life of a request implements the promise.                  *)
THEOREM DisbursementKeepsItsPromise == Spec => KeepsPromise
<1>1. Init => Promise!PromiseInit
  BY MappingIsPointwise
  DEF Init, Promise!PromiseInit, Promise!Undecided, Promise!NoReport, VerdictOn, PaymentsOf,
      ReportOn
<1>. QED
  BY <1>1, StepsAreSimulated, IInvIsInvariant, PTL DEF Spec, KeepsPromise, Promise!PromiseSpec

-----------------------------------------------------------------------------
(* The records                                                             *)

(* What a call of fulfill for the receipt can have returned.               *)
IsReturnedFor(r, o) ==
    IF ReachesBackend(receipt[r])
    THEN \E tx \in ledger[r] : o = Settled(tx.tx_hash)
    ELSE o = OutcomeWithoutBackend(receipt[r])

RecordWith(r, o) ==
    AssembleEvidence(intent[r], receipt[r], o, BasisFor(r),
                     intent[r].oracle_provenance.timestamp_unix)

IsFinal(r) == receipt[r] # None /\ receipt[r].status = "Committed"

(* A record with a height is made of the request's committed receipt and   *)
(* of something fulfill has returned for it, perhaps not the last.         *)
RecordsAreOfTheReceipt ==
    \A r \in Requests :
        /\ intent[r] # None => intent[r].intent_version = INTENT_VERSION_V1
        /\ \A evidence \in bundles[r] : evidence.committed_height # 0 =>
              /\ IsFinal(r)
              /\ \E o \in FulfillmentOutcomes :
                    IsReturnedFor(r, o) /\ evidence = RecordWith(r, o)

-----------------------------------------------------------------------------
(* Records stay of the receipt                                             *)

(* A committed receipt, its decision and its intent stay, and the payments *)
(* only grow: whatever was returned for the receipt could be again.        *)
LEMMA FinalReceiptsStay ==
    ASSUME IInv, [Next]_vars, NEW r \in Requests, IsFinal(r)
    PROVE  /\ intent'[r] = intent[r] /\ decision'[r] = decision[r]
           /\ receipt'[r] = receipt[r] /\ ledger[r] \subseteq ledger'[r]
<1>1. /\ intent[r] # None /\ decision[r] # None /\ r \notin mempool
  BY DEF IInv, Trail, DecisionFollowsIntent, ReceiptFollowsDecision, IsFinal
<1>2. CASE Tick \/ PublishDatum \/ Reconfigure \/ UNCHANGED vars
  BY <1>2 DEF Tick, PublishDatum, Reconfigure, vars, consensus, settlement
<1>3. ASSUME NEW s \in Requests,
             \/ BuildIntent(s) \/ SubmitIntent(s) \/ Commit(s)
             \/ ReturnPending(s) \/ ReturnCommitted(s)
      PROVE  /\ intent'[r] = intent[r] /\ decision'[r] = decision[r]
             /\ receipt'[r] = receipt[r] /\ ledger' = ledger
  BY <1>1, <1>3
  DEF BuildIntent, SubmitIntent, Commit, ReturnPending, ReturnCommitted, MayReturn,
      IsFinal, consensus, settlement, IInv, TypeOK
<1>4. ASSUME NEW s \in Requests,
             \/ FulfillWithoutBackend(s) \/ CallBackend(s) \/ HelperSucceeds(s)
             \/ HelperFails(s) \/ AssembleBundle(s)
      PROVE  UNCHANGED <<intent, decision, receipt, ledger>>
  BY <1>4
  DEF FulfillWithoutBackend, CallBackend, HelperSucceeds, HelperFails, AssembleBundle,
      consensus, settlement
<1>5. ASSUME NEW s \in Requests, HelperSubmits(s)
      PROVE  UNCHANGED <<intent, decision, receipt>> /\ ledger[r] \subseteq ledger'[r]
  BY <1>5 DEF HelperSubmits, consensus, IInv, TypeOK
<1>. QED
  BY <1>2, <1>3, <1>4, <1>5 DEF Next

(* Only AssembleBundle adds a record, and it adds the current one.         *)
LEMMA OnlyCurrentRecordsAreAdded ==
    ASSUME IInv, [Next]_vars, NEW r \in Requests, NEW evidence \in bundles'[r]
    PROVE  \/ evidence \in bundles[r]
           \/ /\ evidence = EvidenceFor(r) /\ outcome[r] # None
              /\ intent' = intent /\ decision' = decision /\ receipt' = receipt
              /\ outcome' = outcome /\ config' = config
<1>1. ASSUME NEW s \in Requests, AssembleBundle(s)
      PROVE  /\ intent' = intent /\ decision' = decision /\ receipt' = receipt
             /\ outcome' = outcome /\ config' = config
             /\ \/ bundles'[r] = bundles[r]
                \/ bundles'[r] = bundles[r] \cup {EvidenceFor(r)} /\ outcome[r] # None
  BY <1>1 DEF AssembleBundle, MayRecord, environment, consensus, IInv, TypeOK
<1>2. ASSUME \A s \in Requests : ~AssembleBundle(s)
      PROVE  bundles' = bundles
  BY <1>2 DEF Next, vars, Tick, PublishDatum, Reconfigure, BuildIntent, SubmitIntent, Commit,
              ReturnPending, ReturnCommitted, FulfillWithoutBackend, CallBackend,
              HelperSubmits, HelperSucceeds, HelperFails
<1>. QED
  BY <1>1, <1>2

LEMMA IntentsAreVersion1 ==
    ASSUME IInv, [Next]_vars, NEW r \in Requests,
           intent[r] # None => intent[r].intent_version = INTENT_VERSION_V1
    PROVE  intent'[r] # None => intent'[r].intent_version = INTENT_VERSION_V1
<1>1. ASSUME NEW s \in Requests, BuildIntent(s)
      PROVE  \/ intent'[r] = intent[r]
             \/ intent'[r].intent_version = INTENT_VERSION_V1
  BY <1>1 DEF BuildIntent, NewIntent, IInv, TypeOK
<1>2. ASSUME \A s \in Requests : ~BuildIntent(s)
      PROVE  intent' = intent
  BY <1>2 DEF Next, vars, Tick, PublishDatum, Reconfigure, AssembleBundle, SubmitIntent,
              Commit,
              ReturnPending, ReturnCommitted, FulfillWithoutBackend, CallBackend,
              HelperSubmits, HelperSucceeds, HelperFails
<1>. QED
  BY <1>1, <1>2

(* What a record is made of stays.                                         *)
LEMMA RecordFrame ==
    ASSUME NEW r \in Requests, decision[r] # None,
           intent'[r] = intent[r], decision'[r] = decision[r],
           receipt'[r] = receipt[r], ledger[r] \subseteq ledger'[r]
    PROVE  \A o : /\ RecordWith(r, o)' = RecordWith(r, o)
                  /\ IsReturnedFor(r, o) => IsReturnedFor(r, o)'
  BY DEF RecordWith, BasisFor, EvaluatedConfig, IsReturnedFor

(* A receipt that was acted on gives a record without a height when it is  *)
(* not committed.                                                          *)
LEMMA HeightsTellReceipts ==
    ASSUME IInv, NEW r \in Requests, outcome[r] # None,
           EvidenceFor(r).committed_height # 0
    PROVE  IsFinal(r)
<1>1. receipt[r] \in IntentReceipts /\ receipt[r] # None
  BY DEF IInv, TypeOK, Trail, OutcomeFollowsReceipt
<1>2. receipt[r].status = "Committed" \/ receipt[r].status = "Pending"
  BY <1>1 DEF IntentReceipts, IntentStatuses
<1>. QED
  BY <1>1, <1>2 DEF IInv, Trail, ReceiptFollowsDecision, EvidenceFor, AssembleEvidence,
                    IsFinal

(* The record made now has the outcome returned last.                      *)
LEMMA LastOutcomeIsReturned ==
    ASSUME IInv, NEW r \in Requests, outcome[r] # None
    PROVE  /\ outcome[r] \in FulfillmentOutcomes
           /\ IsReturnedFor(r, outcome[r])
           /\ EvidenceFor(r) = RecordWith(r, outcome[r])
  BY DEF IInv, TypeOK, Trail, OutcomeFollowsReceipt, IsReturnedFor, EvidenceFor, RecordWith

LEMMA RecordsStayOfTheReceipt ==
    ASSUME IInv, RecordsAreOfTheReceipt, [Next]_vars
    PROVE  RecordsAreOfTheReceipt'
<1>1. ASSUME NEW r \in Requests, IsFinal(r), NEW o \in FulfillmentOutcomes,
             IsReturnedFor(r, o)
      PROVE  /\ IsFinal(r)'
             /\ IsReturnedFor(r, o)' /\ RecordWith(r, o)' = RecordWith(r, o)
  <2>1. decision[r] # None
    BY <1>1 DEF IInv, Trail, ReceiptFollowsDecision, IsFinal
  <2>2. /\ intent'[r] = intent[r] /\ decision'[r] = decision[r]
        /\ receipt'[r] = receipt[r] /\ ledger[r] \subseteq ledger'[r]
    BY <1>1, FinalReceiptsStay
  <2>3. IsFinal(r)'
    BY <1>1, <2>2 DEF IsFinal
  <2>. QED
    BY <1>1, <2>1, <2>2, <2>3, RecordFrame
<1>2. ASSUME NEW r \in Requests, NEW evidence \in bundles'[r], evidence.committed_height # 0
      PROVE  /\ IsFinal(r)
             /\ \E o \in FulfillmentOutcomes :
                   IsReturnedFor(r, o) /\ evidence = RecordWith(r, o)
  <2>1. CASE evidence \in bundles[r]
    BY <1>2, <2>1 DEF RecordsAreOfTheReceipt
  <2>2. CASE evidence \notin bundles[r]
    <3>1. evidence = EvidenceFor(r) /\ outcome[r] # None
      BY <1>2, <2>2, OnlyCurrentRecordsAreAdded
    <3>. QED
      BY <1>2, <3>1, HeightsTellReceipts, LastOutcomeIsReturned
  <2>. QED
    BY <2>1, <2>2
<1>3. ASSUME NEW r \in Requests, NEW evidence \in bundles'[r], evidence.committed_height # 0
      PROVE  /\ IsFinal(r)'
             /\ \E o \in FulfillmentOutcomes :
                   IsReturnedFor(r, o)' /\ evidence = RecordWith(r, o)'
  <2>1. PICK o \in FulfillmentOutcomes :
           IsFinal(r) /\ IsReturnedFor(r, o) /\ evidence = RecordWith(r, o)
    BY <1>2, <1>3
  <2>. QED
    BY <1>1, <2>1
<1>. QED
  BY <1>3, IntentsAreVersion1 DEF RecordsAreOfTheReceipt

LEMMA RecordsAreAlwaysOfTheReceipt == Spec => [](IInv /\ RecordsAreOfTheReceipt)
<1>1. Init => RecordsAreOfTheReceipt
  BY DEF Init, RecordsAreOfTheReceipt
<1>. QED
  BY <1>1, RecordsStayOfTheReceipt, IInvIsInvariant, PTL DEF Spec

-----------------------------------------------------------------------------
(* What the records say                                                    *)

(* The parts of a record with a height, and the outcome it was made with.  *)
LEMMA PartsOfARecord ==
    ASSUME IInv, RecordsAreOfTheReceipt, NEW r \in Requests, NEW evidence \in bundles[r],
           evidence.committed_height # 0
    PROVE  /\ decision[r] \in Decisions
           /\ decision[r].output =
                 AuthorizeDisbursement(intent[r], decision[r].config, decision[r].now)
           /\ receipt[r] =
                 CommittedReceipt(IntentId(intent[r]), decision[r].height, decision[r].output)
           /\ receipt[r] \in IntentReceipts
           /\ intent[r] \in DisbursementIntents
           /\ intent[r].intent_version = INTENT_VERSION_V1
           /\ \E o \in FulfillmentOutcomes :
                 /\ evidence = RecordWith(r, o)
                 /\ IsReturnedFor(r, o)
                 /\ IsOutcomeOf(o, receipt[r])
<1>1. PICK o \in FulfillmentOutcomes : IsReturnedFor(r, o) /\ evidence = RecordWith(r, o)
  BY DEF RecordsAreOfTheReceipt
<1>2. IsFinal(r)
  BY DEF RecordsAreOfTheReceipt
<1>3. /\ receipt[r] \in IntentReceipts /\ intent[r] \in DisbursementIntents
      /\ decision[r] \in Decisions
      /\ decision[r].output =
            AuthorizeDisbursement(intent[r], decision[r].config, decision[r].now)
  BY <1>2 DEF IInv, TypeOK, Trail, ReceiptFollowsDecision, DecisionFollowsIntent, IsFinal
<1>4. receipt[r] = CommittedReceipt(IntentId(intent[r]), decision[r].height, decision[r].output)
  <2>1. /\ receipt[r].intent_id = IntentId(intent[r])
        /\ receipt[r].output = decision[r].output
        /\ receipt[r].committed_height = decision[r].height
        /\ receipt[r].status = "Committed"
    BY <1>2 DEF IInv, Trail, ReceiptFollowsDecision, IsFinal
  <2>. QED
    BY <1>3, <2>1 DEF CommittedReceipt, IntentReceipts
<1>5. IsOutcomeOf(o, receipt[r])
  BY <1>1 DEF IsReturnedFor, IsOutcomeOf, Settled
<1>6. intent[r].intent_version = INTENT_VERSION_V1
  BY <1>3, NoneAssumption DEF RecordsAreOfTheReceipt
<1>. QED
  BY <1>1, <1>3, <1>4, <1>5, <1>6

(* Records of committed receipts pass the verifier, whatever configuration *)
(* and price have become since.                                            *)
THEOREM RecordsPassTheVerifier == Spec => []RecordsVerify
<1>1. IInv /\ RecordsAreOfTheReceipt => RecordsVerify
  <2>. SUFFICES ASSUME IInv, RecordsAreOfTheReceipt, NEW r \in Requests,
                       NEW evidence \in bundles[r], evidence.committed_height # 0
                PROVE  IsOk(VerifyEvidence(evidence))
    BY DEF RecordsVerify
  <2> DEFINE i == intent[r]
             c == decision[r].config
             time == i.oracle_provenance.timestamp_unix
             result == AuthorizeDisbursement(i, c, decision[r].now)
             rcpt == CommittedReceipt(IntentId(i), decision[r].height, result)
  <2>1. /\ i \in DisbursementIntents
        /\ i.intent_version = INTENT_VERSION_V1
        /\ decision[r] \in Decisions /\ receipt[r] = rcpt
    BY PartsOfARecord
  <2>0. PICK o \in FulfillmentOutcomes :
           evidence = RecordWith(r, o) /\ IsOutcomeOf(o, rcpt)
    BY <2>1, PartsOfARecord
  <2>2. /\ IsConfigSnapshot(c) /\ decision[r].now \in U64 /\ decision[r].height \in Nat
        /\ time \in U64 /\ EvaluatedConfig(r) = c
    BY <2>1, DisbursementAssumption, NoneAssumption
    DEF Decisions, DisbursementIntents, OracleFactProvenance, EvaluatedConfig
  <2>3. /\ BasisFor(r) \in U64
        /\ i.allocation_id \in DOMAIN c.allocations => BasisFor(r) = BasisOf(i, c)
    <3>1. 0 \in U64
      BY CanonicalAssumption DEF U64
    <3>. QED
      BY <2>2, <3>1 DEF BasisFor, BasisOf, IsConfigSnapshot, AllocationFacts
  <2>4. evidence = AssembleEvidence(i, rcpt, o, BasisFor(r), time)
    BY <2>0, <2>1 DEF RecordWith
  <2>. QED
    BY <2>0, <2>1, <2>2, <2>3, <2>4, HonestRecordIsClean
<1>. QED
  BY <1>1, RecordsAreAlwaysOfTheReceipt, PTL

(* They tell the committed decision, and the payment if and only if there  *)
(* is one.                                                                 *)
THEOREM RecordsTellTheTruth == Spec => []RecordsAreTrue
<1>1. IInv /\ RecordsAreOfTheReceipt => RecordsAreTrue
  <2>. SUFFICES ASSUME IInv, RecordsAreOfTheReceipt, NEW r \in Requests,
                       NEW evidence \in bundles[r], evidence.committed_height # 0
                PROVE  /\ evidence.committed_height = decision[r].height
                       /\ evidence.authorization = decision[r].output
                       /\ IF evidence.execution.outcome = "Settled"
                          THEN \E tx \in ledger[r] :
                                  /\ tx.tx_hash = evidence.execution.tx_hash
                                  /\ tx.amount_lovelace =
                                        evidence.authorization.effect.authorized_amount_lovelace
                          ELSE ledger[r] = {}
    BY DEF RecordsAreTrue
  <2>0. PICK o \in FulfillmentOutcomes : evidence = RecordWith(r, o) /\ IsReturnedFor(r, o)
    BY PartsOfARecord
  <2>1. /\ evidence.committed_height = decision[r].height
        /\ evidence.authorization = decision[r].output
        /\ evidence.execution = o
        /\ receipt[r].output = decision[r].output
    <3>1. receipt[r] =
             CommittedReceipt(IntentId(intent[r]), decision[r].height, decision[r].output)
      BY PartsOfARecord
    <3>2. /\ receipt[r].committed_height = decision[r].height
          /\ receipt[r].output = decision[r].output
      BY <3>1 DEF CommittedReceipt
    <3>. QED
      BY <2>0, <3>2 DEF RecordWith, AssembleEvidence
  <2>3. CASE ReachesBackend(receipt[r])
    <3>1. PICK tx \in ledger[r] : o = Settled(tx.tx_hash)
      BY <2>0, <2>3 DEF IsReturnedFor
    <3>2. tx = PaymentFor(r, tx.tx_hash)
      BY <3>1 DEF IInv, Trail, LedgerFollowsReceipt
    <3>3. tx.amount_lovelace = receipt[r].output.effect.authorized_amount_lovelace
      BY <3>2 DEF PaymentFor, RequestOf, SettlementRequestFromEffect
    <3>. QED
      BY <2>1, <3>1, <3>3 DEF Settled
  <2>4. CASE ~ReachesBackend(receipt[r])
    <3>1. ledger[r] = {}
      BY <2>4 DEF IInv, Trail, LedgerFollowsReceipt, IsPayable
    <3>2. receipt[r] \in IntentReceipts /\ o = OutcomeWithoutBackend(receipt[r])
      BY <2>0, <2>4, PartsOfARecord DEF IsReturnedFor
    <3>. QED
      BY <2>1, <2>4, <3>1, <3>2, OutcomeIsTyped
  <2>. QED
    BY <2>1, <2>3, <2>4
<1>. QED
  BY <1>1, RecordsAreAlwaysOfTheReceipt, PTL

=============================================================================
