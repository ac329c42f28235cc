------------------------- MODULE DisbursementPromise -------------------------
(***************************************************************************)
(* What disbursement promises, with nothing of how it is done: a request   *)
(* is decided once; only a granted request is paid, and every payment is   *)
(* an exact copy of the grant; a report of payment names a payment, a      *)
(* report of no payment is true, and after it nothing is paid until it is  *)
(* withdrawn.  That a request is paid only once is not promised.           *)
(***************************************************************************)

CONSTANTS
    Requests,
    Grants,     \* what can be granted to a request
    TxHashes    \* names of payments

VARIABLES
    verdict,    \* the decision on each request
    paid,       \* the payments made for each request
    report      \* what is reported of each request

promiseVars == <<verdict, paid, report>>

Undecided == [verdict |-> "Undecided"]
Refused == [verdict |-> "Refused"]
Grantings == [verdict : {"Granted"}, grant : Grants]

NoReport == [report |-> "None"]
NothingPaid == [report |-> "NothingPaid"]
PaidBy(tx_hash) == [report |-> "Paid", tx_hash |-> tx_hash]

PromiseInit ==
    /\ verdict = [r \in Requests |-> Undecided]
    /\ paid = [r \in Requests |-> {}]
    /\ report = [r \in Requests |-> NoReport]

Decide(r) ==
    /\ verdict[r] = Undecided
    /\ verdict'[r] \in {Refused} \cup Grantings
    /\ verdict' = [verdict EXCEPT ![r] = verdict'[r]]
    /\ UNCHANGED <<paid, report>>

(* A payment bears a name no other payment has.                            *)
IsUnused(tx_hash) == \A r \in Requests : \A payment \in paid[r] : payment.tx_hash # tx_hash

Pay(r) ==
    /\ report[r] # NothingPaid
    /\ verdict[r] \in Grantings
    /\ \E tx_hash \in TxHashes :
          /\ IsUnused(tx_hash)
          /\ paid' = [paid EXCEPT ![r] =
                @ \cup {[tx_hash |-> tx_hash, grant |-> verdict[r].grant]}]
    /\ UNCHANGED <<verdict, report>>

(* Of several payments the last to be reported is the one that is named.   *)
ReportPayment(r) ==
    /\ report[r] # NothingPaid
    /\ \E payment \in paid[r] :
          report' = [report EXCEPT ![r] = PaidBy(payment.tx_hash)]
    /\ UNCHANGED <<verdict, paid>>

ReportNoPayment(r) ==
    /\ report[r] = NoReport
    /\ paid[r] = {}
    /\ report' = [report EXCEPT ![r] = NothingPaid]
    /\ UNCHANGED <<verdict, paid>>

(* Only a report of no payment can be withdrawn, and only of a request     *)
(* that is decided since.                                                  *)
Withdraw(r) ==
    /\ report[r] = NothingPaid
    /\ verdict[r] # Undecided
    /\ report' = [report EXCEPT ![r] = NoReport]
    /\ UNCHANGED <<verdict, paid>>

PromiseNext ==
    \E r \in Requests :
        Decide(r) \/ Pay(r) \/ ReportPayment(r) \/ ReportNoPayment(r) \/ Withdraw(r)

PromiseSpec == PromiseInit /\ [][PromiseNext]_promiseVars

=============================================================================
