------------------------ MODULE DisbursementRefinement ------------------------
(***************************************************************************)
(* Disbursement implements DisbursementPromise: the commit decides, the    *)
(* helper's submission pays, the return of fulfill reports.                *)
(***************************************************************************)
EXTENDS Disbursement

Grants ==
    [destination : Addresses, amount_lovelace : U64, intent_id : IntentIds]

(* An effect in another asset than ADA is authorized and never granted:    *)
(* fulfill refuses it.                                                     *)
IsGranted(r) == IsAuthorized(r) /\ decision[r].output.effect.asset = ADA

GrantOf(r) ==
    [destination |-> decision[r].output.effect.destination,
     amount_lovelace |-> decision[r].output.effect.authorized_amount_lovelace,
     intent_id |-> IntentId(intent[r])]

PromisedVerdict ==
    [r \in Requests |->
        IF decision[r] = None THEN [verdict |-> "Undecided"]
        ELSE IF IsGranted(r) THEN [verdict |-> "Granted", grant |-> GrantOf(r)]
        ELSE [verdict |-> "Refused"]]

PaymentOf(tx) ==
    [tx_hash |-> tx.tx_hash,
     grant |-> [destination |-> tx.destination,
                amount_lovelace |-> tx.amount_lovelace,
                intent_id |-> tx.intent_id]]

PromisedPayments == [r \in Requests |-> {PaymentOf(tx) : tx \in ledger[r]}]

PromisedReport ==
    [r \in Requests |->
        IF outcome[r] = None THEN [report |-> "None"]
        ELSE IF outcome[r].outcome = "Settled"
        THEN [report |-> "Paid", tx_hash |-> outcome[r].tx_hash]
        ELSE [report |-> "NothingPaid"]]

Promise == INSTANCE DisbursementPromise
    WITH verdict <- PromisedVerdict, paid <- PromisedPayments, report <- PromisedReport

(* Every behaviour of the adapter, the consensus and the helpers keeps the *)
(* promise (authorize.rs, intake.rs, settlement.rs, cardano_disburse.rs).  *)
KeepsPromise == Promise!PromiseSpec

=============================================================================
