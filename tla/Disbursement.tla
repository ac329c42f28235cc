---------------------------- MODULE Disbursement ----------------------------
(***************************************************************************)
(* The life of disbursement requests, from the oracle's price to the       *)
(* evidence record: an intent is built over the live price, submitted,     *)
(* decided by consensus, reported back in a receipt, fulfilled on Cardano  *)
(* through the disburse helper process, and recorded.                      *)
(*                                                                         *)
(* The oracle, the Ziranity consensus, the clock and the Cardano ledger    *)
(* are external; they are modelled by what the code expects of them.       *)
(* A request is one submission: two requests may carry the same intent.    *)
(***************************************************************************)
EXTENDS Verifier, FiniteSets

CONSTANTS
    Requests,      \* requests handled by the adapter
    None,          \* the absent value
    Configs,       \* configurations the operators may install
    RequestedAsks, \* what requesters may ask for
    Prices,        \* prices the oracle may publish
    Validity,      \* lifetime of an oracle datum
    MaxNow,        \* bound on the clock
    MaxAttempts    \* bound on the calls of fulfill for one request

OracleData == [fact : OracleFactEval, provenance : OracleFactProvenance]

Decisions ==
    [output : AuthorizationResults, now : U64,
     config : Configs, height : Nat]

(* A running helper, with the transaction it has submitted, if any.        *)
Helpers == [submitted : SUBSET TxHashes]

Transactions ==
    [tx_hash : TxHashes, destination : Addresses,
     amount_lovelace : U64, intent_id : IntentIds]

ASSUME DisbursementAssumption ==
    /\ \A c \in Configs : IsConfigSnapshot(c)
    /\ RequestedAsks \subseteq Asks
    /\ Prices \subseteq U64
    /\ Validity \in Nat \ {0}
    /\ MaxNow \in Nat
    /\ MaxNow + Validity <= U64Max
    /\ MaxAttempts \in Nat \ {0}
    /\ UtxoRefs # {}

ASSUME NoneAssumption ==
    /\ None \notin DisbursementIntents
    /\ None \notin IntentReceipts
    /\ None \notin FulfillmentOutcomes
    /\ None \notin Helpers
    /\ None \notin OracleData
    /\ None \notin Decisions

VARIABLES
    now,       \* wall clock, and the consensus-committed time of a commit
    feed,      \* the oracle datum on chain
    config,    \* the validators' configuration
    intent,    \* the canonical intent of each request
    mempool,   \* requests submitted and not yet committed
    height,    \* height of the last committed block
    decision,  \* what consensus committed for each request
    receipt,   \* the last receipt the CLI returned
    attempts,  \* calls of fulfill that reached the backend
    helper,    \* the helper process of a call in progress
    outcome,   \* what fulfill last returned for the receipt at hand
    ledger,    \* Cardano transactions, by the request they were made for
    bundles    \* evidence records

vars == <<now, feed, config, intent, mempool, height, decision, receipt,
          attempts, helper, outcome, ledger, bundles>>

environment == <<now, feed, config>>
consensus == <<mempool, height, decision>>
settlement == <<attempts, helper, ledger>>

-----------------------------------------------------------------------------

TypeOK ==
    /\ now \in 0 .. MaxNow
    /\ feed \in OracleData \cup {None}
    /\ config \in Configs
    /\ intent \in [Requests -> DisbursementIntents \cup {None}]
    /\ mempool \subseteq Requests
    /\ height \in Nat
    /\ decision \in [Requests -> Decisions \cup {None}]
    /\ receipt \in [Requests -> IntentReceipts \cup {None}]
    /\ attempts \in [Requests -> 0 .. MaxAttempts]
    /\ helper \in [Requests -> Helpers \cup {None}]
    /\ outcome \in [Requests -> FulfillmentOutcomes \cup {None}]
    /\ ledger \in [Requests -> SUBSET Transactions]
    /\ bundles \in [Requests -> SUBSET DisbursementEvidence]

Init ==
    /\ now = 0
    /\ feed = None
    /\ config \in Configs
    /\ intent = [r \in Requests |-> None]
    /\ mempool = {}
    /\ height = 0
    /\ decision = [r \in Requests |-> None]
    /\ receipt = [r \in Requests |-> None]
    /\ attempts = [r \in Requests |-> 0]
    /\ helper = [r \in Requests |-> None]
    /\ outcome = [r \in Requests |-> None]
    /\ ledger = [r \in Requests |-> {}]
    /\ bundles = [r \in Requests |-> {}]

-----------------------------------------------------------------------------
(* The environment                                                         *)

Tick ==
    /\ now < MaxNow
    /\ now' = now + 1
    /\ UNCHANGED <<feed, config, intent, receipt, outcome, bundles>>
    /\ UNCHANGED <<consensus, settlement>>

(* The oracle replaces its datum.                                          *)
PublishDatum ==
    /\ \E price \in Prices, ref \in UtxoRefs :
          feed' = [fact |-> [price_microusd |-> price],
                   provenance |-> [timestamp_unix |-> now,
                                   expiry_unix |-> now + Validity,
                                   aggregator_utxo_ref |-> ref]]
    /\ UNCHANGED <<now, config, intent, receipt, outcome, bundles>>
    /\ UNCHANGED <<consensus, settlement>>

(* The operators restart the validators with another configuration.        *)
Reconfigure ==
    /\ config' \in Configs
    /\ UNCHANGED <<now, feed, intent, receipt, outcome, bundles>>
    /\ UNCHANGED <<consensus, settlement>>

-----------------------------------------------------------------------------
(* Submission and consensus                                                *)

(* The datum is read as it stands: neither its age nor its price is        *)
(* checked here.                                                           *)
BuildIntent(r) ==
    /\ intent[r] = None
    /\ feed # None
    /\ \E ask \in RequestedAsks :
          intent' = [intent EXCEPT ![r] = NewIntent(ask, feed.fact, feed.provenance)]
    /\ UNCHANGED <<receipt, outcome, bundles>>
    /\ UNCHANGED <<environment, consensus, settlement>>

SubmitIntent(r) ==
    /\ intent[r] # None
    /\ decision[r] = None
    /\ r \notin mempool
    /\ mempool' = mempool \cup {r}
    /\ UNCHANGED <<height, decision, intent, receipt, outcome, bundles>>
    /\ UNCHANGED <<environment, settlement>>

(* The validators evaluate the intent with the committed time and their    *)
(* configuration, and commit the result.                                   *)
Commit(r) ==
    /\ r \in mempool
    /\ mempool' = mempool \ {r}
    /\ height' = height + 1
    /\ decision' = [decision EXCEPT ![r] =
          [output |-> AuthorizeDisbursement(intent[r], config, now),
           now |-> now, config |-> config, height |-> height + 1]]
    /\ UNCHANGED <<intent, receipt, outcome, bundles>>
    /\ UNCHANGED <<environment, settlement>>

(* The wait ran out before the commit.  The output of a pending receipt is *)
(* whatever the node would have answered then.                             *)
ReturnPending(r) ==
    /\ r \in mempool
    /\ receipt[r] = None
    /\ receipt' = [receipt EXCEPT ![r] =
          PendingReceipt(IntentId(intent[r]),
                         AuthorizeDisbursement(intent[r], config, now))]
    /\ UNCHANGED <<intent, outcome, bundles>>
    /\ UNCHANGED <<environment, consensus, settlement>>

(* A first answer, or the answer to a query after a pending receipt, which *)
(* an operator may make or not.                                            *)
MayReturn(r) ==
    /\ decision[r] # None
    /\ receipt[r] # None => receipt[r].status = "Pending"

ReturnCommitted(r) ==
    /\ MayReturn(r)
    /\ receipt' = [receipt EXCEPT ![r] =
          CommittedReceipt(IntentId(intent[r]), decision[r].height, decision[r].output)]
    /\ outcome' = [outcome EXCEPT ![r] = None]
    /\ UNCHANGED <<intent, bundles>>
    /\ UNCHANGED <<environment, consensus, settlement>>

-----------------------------------------------------------------------------
(* Fulfillment                                                             *)

(* fulfill keeps nothing of its earlier calls: it may be called again on a *)
(* receipt whether they returned an outcome or an error.  It returns to    *)
(* its caller before that.                                                 *)
MayFulfill(r) ==
    /\ receipt[r] # None
    /\ helper[r] = None

FulfillWithoutBackend(r) ==
    /\ MayFulfill(r)
    /\ ~ReachesBackend(receipt[r])
    /\ outcome' = [outcome EXCEPT ![r] = OutcomeWithoutBackend(receipt[r])]
    /\ UNCHANGED <<intent, receipt, bundles>>
    /\ UNCHANGED <<environment, consensus, settlement>>

(* backend.submit spawns the helper with the request as its arguments.     *)
CallBackend(r) ==
    /\ MayFulfill(r)
    /\ ReachesBackend(receipt[r])
    /\ attempts[r] < MaxAttempts
    /\ attempts' = [attempts EXCEPT ![r] = @ + 1]
    /\ helper' = [helper EXCEPT ![r] = [submitted |-> {}]]
    /\ UNCHANGED <<ledger, intent, receipt, outcome, bundles>>
    /\ UNCHANGED <<environment, consensus>>

UsedTxHashes == {tx.tx_hash : tx \in UNION {ledger[r] : r \in Requests}}

(* Fault: the helper resubmits on its own.                                 *)
HelperResubmits(r) ==
    /\ helper[r] # None
    /\ \E tx_hash \in TxHashes \ UsedTxHashes :
          /\ helper' = [helper EXCEPT ![r] = [submitted |-> {tx_hash}]]
          /\ ledger' = [ledger EXCEPT ![r] = @ \cup
                {[tx_hash |-> tx_hash,
                  destination |-> RequestOf(receipt[r]).destination,
                  amount_lovelace |-> RequestOf(receipt[r]).amount_lovelace,
                  intent_id |-> RequestOf(receipt[r]).intent_id]}]
    /\ UNCHANGED <<attempts, intent, receipt, outcome, bundles>>
    /\ UNCHANGED <<environment, consensus>>

(* context.submit_tx: a new transaction with one output and the intent id  *)
(* as metadata.                                                            *)
HelperSubmits(r) ==
    /\ helper[r] # None
    /\ helper[r].submitted = {}
    /\ \E tx_hash \in TxHashes \ UsedTxHashes :
          /\ helper' = [helper EXCEPT ![r] = [submitted |-> {tx_hash}]]
          /\ ledger' = [ledger EXCEPT ![r] = @ \cup
                {[tx_hash |-> tx_hash,
                  destination |-> RequestOf(receipt[r]).destination,
                  amount_lovelace |-> RequestOf(receipt[r]).amount_lovelace,
                  intent_id |-> RequestOf(receipt[r]).intent_id]}]
    /\ UNCHANGED <<attempts, intent, receipt, outcome, bundles>>
    /\ UNCHANGED <<environment, consensus>>

(* The helper prints the transaction id and exits with 0.                  *)
HelperSucceeds(r) ==
    /\ helper[r] # None
    /\ \E tx_hash \in helper[r].submitted :
          outcome' = [outcome EXCEPT ![r] = Settled(tx_hash)]
    /\ helper' = [helper EXCEPT ![r] = None]
    /\ UNCHANGED <<attempts, ledger, intent, receipt, bundles>>
    /\ UNCHANGED <<environment, consensus>>

(* Fault: an error of the backend is reported as a refusal.                *)
HelperErrorAsRefusal(r) ==
    /\ helper[r] # None
    /\ helper' = [helper EXCEPT ![r] = None]
    /\ outcome' = [outcome EXCEPT ![r] = RejectedAtFulfillment("ReceiptNotCommitted")]
    /\ UNCHANGED <<attempts, ledger, intent, receipt, bundles>>
    /\ UNCHANGED <<environment, consensus>>

(* The helper cannot be spawned, or fails before or after submit_tx, or    *)
(* prints something else: fulfill returns the error and no outcome.  The   *)
(* outcome of an earlier call is still with the caller.                    *)
HelperFails(r) ==
    /\ helper[r] # None
    /\ helper' = [helper EXCEPT ![r] = None]
    /\ UNCHANGED <<attempts, ledger, intent, receipt, outcome, bundles>>
    /\ UNCHANGED <<environment, consensus>>

-----------------------------------------------------------------------------
(* Evidence                                                                *)

(* Fault: the basis is looked up when the record is made.                  *)
LatestConfig(r) == config

(* The configuration the operator takes the allocation basis from.         *)
EvaluatedConfig(r) == IF decision[r] = None THEN config ELSE decision[r].config

(* 0 when the allocation is not known.                                     *)
BasisFor(r) ==
    IF intent[r].allocation_id \in DOMAIN EvaluatedConfig(r).allocations
    THEN BasisOf(intent[r], EvaluatedConfig(r))
    ELSE 0

(* One record is made for each receipt that was acted on.                  *)
IsRecorded(r) ==
    \E evidence \in bundles[r] :
        evidence.committed_height = receipt[r].committed_height

(* verify_live_bundle passes the datum's own timestamp as the time of the  *)
(* decision.                                                               *)
EvidenceFor(r) ==
    AssembleEvidence(intent[r], receipt[r], outcome[r], BasisFor(r),
                     intent[r].oracle_provenance.timestamp_unix)

MayRecord(r) ==
    /\ outcome[r] # None
    /\ CanAssemble(intent[r], receipt[r])
    /\ ~IsRecorded(r)

AssembleBundle(r) ==
    /\ MayRecord(r)
    /\ bundles' = [bundles EXCEPT ![r] = @ \cup {EvidenceFor(r)}]
    /\ UNCHANGED <<intent, receipt, outcome>>
    /\ UNCHANGED <<environment, consensus, settlement>>

-----------------------------------------------------------------------------

Next ==
    \/ Tick
    \/ PublishDatum
    \/ Reconfigure
    \/ \E r \in Requests :
          \/ BuildIntent(r)
          \/ SubmitIntent(r)
          \/ Commit(r)
          \/ ReturnPending(r)
          \/ ReturnCommitted(r)
          \/ FulfillWithoutBackend(r)
          \/ CallBackend(r)
          \/ HelperSubmits(r)
          \/ HelperSucceeds(r)
          \/ HelperFails(r)
          \/ AssembleBundle(r)

Spec == Init /\ [][Next]_vars

-----------------------------------------------------------------------------
(* Safety                                                                  *)

IsAuthorized(r) == decision[r] # None /\ decision[r].output.verdict = "Authorized"

(* Every transaction of the pool pays what consensus authorized for its    *)
(* request: the gates held for the intent under the configuration and at   *)
(* the time of the commit, whatever has changed since, and destination,    *)
(* amount and id are the intent's (authorize.rs, settlement.rs).           *)
PaymentIsGranted(r, tx) ==
    /\ IsAuthorized(r)
    /\ Permitted(intent[r], decision[r].config, decision[r].now)
    /\ intent[r].asset = ADA
    /\ tx.destination = intent[r].destination
    /\ tx.amount_lovelace = intent[r].requested_amount_lovelace
    /\ tx.intent_id = IntentId(intent[r])

EveryPaymentIsGranted ==
    \A r \in Requests : \A tx \in ledger[r] : PaymentIsGranted(r, tx)

(* What fulfill reported agrees with the chain: a Settled outcome names a  *)
(* transaction of this request, and after any other outcome the request    *)
(* has none (settlement.rs).                                               *)
OutcomeAgreesWithLedger ==
    \A r \in Requests : outcome[r] # None =>
        IF outcome[r].outcome = "Settled"
        THEN \E tx \in ledger[r] : tx.tx_hash = outcome[r].tx_hash
        ELSE ledger[r] = {}

(* Every transaction comes from a call of its own.  A request is paid more *)
(* than once only by calling fulfill more than once, after an error or     *)
(* after it has settled: the id in the request stops neither               *)
(* (settlement.rs, cardano_disburse.rs).                                   *)
PaymentsWithinAttempts ==
    \A r \in Requests : Cardinality(ledger[r]) <= attempts[r]

(* An authorized price was published less than Validity ago at the commit, *)
(* however long the intent waited in between (oracle.rs, authorize.rs).    *)
PriceWasLive ==
    \A r \in Requests : IsAuthorized(r) =>
        LET published == intent[r].oracle_provenance.timestamp_unix
        IN  published <= decision[r].now /\ decision[r].now < published + Validity

(* Intents with one id that are committed at one time under one            *)
(* configuration get one result: of the provenance, which the id leaves    *)
(* out, nothing but the expiry makes a difference, and only by denying the *)
(* one whose datum had expired (intent.rs, authorize.rs).                  *)
IsDeniedAsStale(r) ==
    /\ decision[r].output = Denied("OracleStale", "Grant")
    /\ intent[r].oracle_provenance.expiry_unix <= decision[r].now

OneIdOneVerdict ==
    \A r, s \in Requests :
        /\ decision[r] # None /\ decision[s] # None
        /\ IntentId(intent[r]) = IntentId(intent[s])
        /\ decision[r].now = decision[s].now
        /\ decision[r].config = decision[s].config
        => \/ decision[r].output = decision[s].output
           \/ IsDeniedAsStale(r) \/ IsDeniedAsStale(s)

(* A record made for a committed receipt passes the offline verifier, with *)
(* the basis and the band of the commit replayed after any change of       *)
(* configuration (artifacts.rs, integrity.rs, replay.rs).                  *)
RecordsVerify ==
    \A r \in Requests : \A evidence \in bundles[r] :
        evidence.committed_height # 0 => IsOk(VerifyEvidence(evidence))

(* Such a record tells what happened: the committed decision, and a        *)
(* transaction of the authorized amount exactly when it records one.       *)
RecordsAreTrue ==
    \A r \in Requests : \A evidence \in bundles[r] :
        evidence.committed_height # 0 =>
            /\ evidence.committed_height = decision[r].height
            /\ evidence.authorization = decision[r].output
            /\ IF evidence.execution.outcome = "Settled"
               THEN \E tx \in ledger[r] :
                       /\ tx.tx_hash = evidence.execution.tx_hash
                       /\ tx.amount_lovelace =
                             evidence.authorization.effect.authorized_amount_lovelace
               ELSE ledger[r] = {}

=============================================================================
