----------------------------- MODULE OracleFetch -----------------------------
(***************************************************************************)
(* How the price of an intent is read from the chain: the aggregation of   *)
(* crates/oracleguard-adapter/src/charli3_aggregate.rs, when there is one, *)
(* the two requests of kupo.rs to a Kupo index, and the normalisation of   *)
(* what they bring, while the oracle goes on replacing its outputs.        *)
(*                                                                         *)
(* The chain, the oracle, its CLI and Kupo are external.  The oracle's     *)
(* address holds outputs with the AggState token, of which an aggregation  *)
(* spends one and creates one, and others.  Kupo shows the outputs unspent *)
(* when it last synchronised, the most recent first.  A datum's hash is    *)
(* taken to be injective, so the document itself serves as its hash.       *)
(***************************************************************************)
EXTENDS AggState, FiniteSets

CONSTANTS
    Documents(_),     \* documents the oracle may publish for a datum
    Prices,           \* prices the oracle may publish
    Validity,         \* lifetime of an oracle datum
    Timeout,          \* time limit of one HTTP request
    MaxNow,           \* bound on the clock
    MaxTransactions   \* bound on the oracle's transactions

(* Transactions are numbered in the order of their slots.  Nothing is      *)
(* taken for granted of what the oracle publishes.                         *)
ASSUME OracleFetchAssumption ==
    /\ UtxoRefs = 1 .. MaxTransactions
    /\ MaxTransactions \in Nat \ {0}
    /\ Prices \subseteq U64
    /\ Validity \in Nat \ {0}
    /\ Timeout \in Nat \ {0}
    /\ MaxNow \in Nat
    /\ MaxNow + Validity <= U64Max
    /\ \A datum \in AggStateData : Documents(datum) \subseteq Seq(Items)

(* Some(hash) is {document} and None is {}.                                *)
Output(transaction, token, datum_hash) ==
    [transaction_id |-> transaction, token |-> token, datum_hash |-> datum_hash]

(* A pull may be left out; only its exit status is looked at.              *)
PullStatuses == {"None", "Running", "Ok", "Failed"}

Waiting == {"Matches", "Datum"}
Fetching == {"Idle"} \cup Waiting
Ended == {"Normalized", "Failed"}
Phases == Fetching \cup {"Fetched"} \cup Ended

(* A request fails over HTTP, or with a body that is not as expected; why  *)
(* makes no difference to anything.                                        *)
KupoErrors == {"RequestFailed", "NoMatchingUtxo", "MissingDatumHash"}

NoError == "None"

VARIABLES
    now,       \* wall clock
    pull,      \* where the aggregation of the adapter is
    pending,   \* whether its CLI's transaction is submitted and not on chain
    pulled,    \* that transaction, once it is on chain
    outputs,   \* every output the oracle ever made
    spent,     \* those spent by a later transaction
    index,     \* the unspent outputs as Kupo last saw them
    phase,     \* where the fetch is
    began,     \* when the fetch began
    waited,    \* how long the request at hand has been waiting
    asked,     \* the chain when the first request was answered
    record,    \* the match it gave
    document,  \* the datum the second request gave
    fetched,   \* when
    error,     \* why the fetch failed
    result     \* what normalisation made of it

charli3 == <<pull, pending, pulled>>
oracle == <<outputs, spent>>
fetch == <<phase, began, waited, asked, record, document, fetched,
           error, result>>
vars == <<now, charli3, oracle, index, fetch>>

Unspent == outputs \ spent

AggStates(set) == {o \in set : o.token}

TransactionsOf(set) == {o.transaction_id : o \in set}

Init ==
    /\ now = 0
    /\ pull = "None"
    /\ pending = FALSE
    /\ pulled = {}
    /\ outputs = {}
    /\ spent = {}
    /\ index = {}
    /\ phase = "Idle"
    /\ began = 0
    /\ waited = 0
    /\ asked = [at |-> 0, behind |-> FALSE, pending |-> FALSE, unspent |-> {}]
    /\ record = {}
    /\ document = {}
    /\ fetched = 0
    /\ error = NoError
    /\ result = {}

-----------------------------------------------------------------------------
(* The environment: the oracle and Kupo up to the end of the fetch, the    *)
(* clock up to the normalisation                                           *)

(* Fault: the HTTP agent is given no limit.                                *)
TickUnlimited ==
    /\ phase \notin Ended
    /\ now < MaxNow
    /\ now' = now + 1
    /\ waited' = IF phase \in Waiting THEN waited + 1 ELSE waited
    /\ UNCHANGED <<charli3, oracle, index, phase, began, asked, record, document,
                   fetched, error, result>>

(* No request waits longer than its limit.                                 *)
Tick ==
    /\ phase \notin Ended
    /\ now < MaxNow
    /\ phase \in Waiting => waited < Timeout
    /\ now' = now + 1
    /\ waited' = IF phase \in Waiting THEN waited + 1 ELSE waited
    /\ UNCHANGED <<charli3, oracle, index, phase, began, asked, record, document,
                   fetched, error, result>>

Published(price) ==
    [price_microusd |-> price, created_unix_ms |-> now, expiry_unix_ms |-> now + Validity]

NextTransaction == Cardinality(TransactionsOf(outputs)) + 1

(* An aggregation spends an output with the token, or the oracle makes one *)
(* more.  The new one may come without a datum, and comes with a companion *)
(* that carries a datum and no token.                                      *)
AggregateAs(transaction) ==
    /\ transaction <= MaxTransactions
    /\ \E price \in Prices : \E datum_hash \in {{}} \cup {{d} : d \in Documents(Published(price))} :
          outputs' = outputs \cup {Output(transaction, TRUE, datum_hash),
                                 Output(transaction, FALSE, {<<Other>>})}
    /\ \E old \in {{}} \cup {{o} : o \in AggStates(Unspent)} : spent' = spent \cup old
    /\ UNCHANGED <<now, index, fetch>>

Aggregate ==
    /\ phase \in Fetching
    /\ AggregateAs(NextTransaction)
    /\ UNCHANGED charli3

Synchronise ==
    /\ phase \in Fetching
    /\ index # Unspent
    /\ index' = Unspent
    /\ UNCHANGED <<now, charli3, oracle, fetch>>

-----------------------------------------------------------------------------
(* The aggregation the adapter runs itself, before it fetches              *)

(* AggregateConfig::new_mvp; the paths are the deployment's.               *)
NewMvpAggregate == [auto_submit |-> TRUE]

(* Fault: the flag is left out.                                            *)
AggregateArgsWithoutFlag(config) == {"aggregate"}

BuildAggregateArgs(config) ==
    {"aggregate"} \cup IF config.auto_submit THEN {"--auto-submit"} ELSE {}

SubmitsItself == "--auto-submit" \in BuildAggregateArgs(NewMvpAggregate)

(* aggregate spawns the CLI and waits for it, for as long as it takes.     *)
StartPull ==
    /\ phase = "Idle"
    /\ pull = "None"
    /\ pull' \in {"Running", "Failed"}
    /\ UNCHANGED <<now, pending, pulled, oracle, index, fetch>>

HasSubmitted == pending \/ pulled # {}

(* With the flag the CLI submits the transaction it built.                 *)
PullSubmits ==
    /\ pull = "Running"
    /\ SubmitsItself
    /\ ~HasSubmitted
    /\ pending' = TRUE
    /\ UNCHANGED <<now, pull, pulled, oracle, index, fetch>>

(* The transaction is on chain a few blocks later, or never; neither the   *)
(* CLI nor the adapter waits for it.                                       *)
PullLands ==
    /\ pending
    /\ phase \in Fetching
    /\ AggregateAs(NextTransaction)
    /\ pending' = FALSE
    /\ pulled' = {NextTransaction}
    /\ UNCHANGED pull

(* It exits with 0 when it has done what it was told to, or otherwise at   *)
(* any time.                                                               *)
PullReturns ==
    /\ pull = "Running"
    /\ \/ pull' = "Ok" /\ (SubmitsItself => HasSubmitted)
       \/ pull' = "Failed"
    /\ UNCHANGED <<now, pending, pulled, oracle, index, fetch>>

-----------------------------------------------------------------------------
(* The fetch                                                               *)

StartFetch ==
    /\ phase = "Idle"
    /\ pull # "Running"
    /\ now + 2 * Timeout <= MaxNow
    /\ phase' = "Matches"
    /\ began' = now
    /\ waited' = 0
    /\ UNCHANGED <<now, charli3, oracle, index, asked, record, document, fetched,
                   error, result>>

Fail(why) ==
    /\ phase' = "Failed"
    /\ error' = why

(* The answers Kupo may give to /matches: newest transaction first, the    *)
(* outputs of one transaction in any order.                                *)
Listings(set) ==
    {list \in [1 .. Cardinality(set) -> set] :
        /\ \A o \in set : \E i \in DOMAIN list : list[i] = o
        /\ \A i, j \in DOMAIN list :
              i < j => list[i].transaction_id >= list[j].transaction_id}

Matches(list) == {i \in DOMAIN list : list[i].token}

(* Fault: the last match is taken.                                         *)
LastMatch(list) ==
    {list[i] : i \in {i \in Matches(list) : \A j \in Matches(list) : j <= i}}

FirstMatch(list) ==
    {list[i] : i \in {i \in Matches(list) : \A j \in Matches(list) : i <= j}}

AnswerMatches ==
    /\ phase = "Matches"
    /\ asked' = [at |-> now, behind |-> index # Unspent, pending |-> pending,
                 unspent |-> TransactionsOf(AggStates(Unspent))]
    /\ \E list \in Listings(index) :
          \/ /\ FirstMatch(list) = {}
             /\ Fail("NoMatchingUtxo")
             /\ UNCHANGED <<waited, record>>
          \/ /\ \E match \in FirstMatch(list) : match.datum_hash = {}
             /\ Fail("MissingDatumHash")
             /\ UNCHANGED <<waited, record>>
          \/ /\ \E match \in FirstMatch(list) : match.datum_hash # {} /\ record' = {match}
             /\ phase' = "Datum"
             /\ waited' = 0
             /\ UNCHANGED error
    /\ UNCHANGED <<now, charli3, oracle, index, began, document, fetched, result>>

AnswerDatum ==
    /\ phase = "Datum"
    /\ \E match \in record : document' = match.datum_hash
    /\ fetched' = now
    /\ phase' = "Fetched"
    /\ UNCHANGED <<now, charli3, oracle, index, began, waited, asked, record, error,
                   result>>

(* No connection, a status other than 200, a body that ends early, or one  *)
(* of another shape: so Kupo answers for a datum it no longer holds.       *)
RequestFails ==
    /\ phase \in Waiting
    /\ Fail("RequestFailed")
    /\ UNCHANGED <<now, charli3, oracle, index, began, waited, asked, record, document,
                   fetched, result>>

(* Fault: the limit is one for the first request only.                     *)
TimeOutOnMatches ==
    /\ phase = "Matches"
    /\ waited = Timeout
    /\ Fail("RequestFailed")
    /\ UNCHANGED <<now, charli3, oracle, index, began, waited, asked, record, document,
                   fetched, result>>

TimeOut ==
    /\ phase \in Waiting
    /\ waited = Timeout
    /\ Fail("RequestFailed")
    /\ UNCHANGED <<now, charli3, oracle, index, began, waited, asked, record, document,
                   fetched, result>>

(* build_live_scenario.rs takes a datum as it is.  The 32 bytes of the     *)
(* transaction id become the provenance; the index of the output within    *)
(* the transaction is dropped.                                             *)
Normalize ==
    /\ phase = "Fetched"
    /\ result' = {NormalizeAggStateDatum(d, match.transaction_id) :
                     match \in record, d \in document}
    /\ phase' = "Normalized"
    /\ UNCHANGED <<now, charli3, oracle, index, began, waited, asked, record, document,
                   fetched, error>>

-----------------------------------------------------------------------------

Next ==
    \/ Tick
    \/ Aggregate
    \/ Synchronise
    \/ StartPull
    \/ PullSubmits
    \/ PullLands
    \/ PullReturns
    \/ StartFetch
    \/ AnswerMatches
    \/ AnswerDatum
    \/ RequestFails
    \/ TimeOut
    \/ Normalize

Spec == Init /\ [][Next]_vars

(* Time passes, the HTTP agent gives up at the limit, and the process goes *)
(* on; each is fair by the variable it moves.  Nothing makes Kupo answer   *)
(* or the CLI end.                                                         *)
Fairness == WF_now(Tick) /\ WF_phase(TimeOut) /\ WF_phase(Normalize)

FairSpec == Spec /\ Fairness

-----------------------------------------------------------------------------
(* Safety                                                                  *)

TypeOK ==
    /\ now \in 0 .. MaxNow
    /\ pull \in PullStatuses
    /\ pending \in BOOLEAN
    /\ pulled \subseteq TransactionsOf(outputs)
    /\ \A o \in outputs : o.transaction_id \in UtxoRefs /\ o.token \in BOOLEAN
    /\ spent \subseteq outputs
    /\ index \subseteq outputs
    /\ phase \in Phases
    /\ {began, fetched} \subseteq 0 .. MaxNow
    /\ waited \in 0 .. Timeout
    /\ record \subseteq AggStates(outputs)
    /\ error \in KupoErrors \cup {NoError}
    /\ result \subseteq NormalizeResults

(* A price that is taken is the one its provenance names: some output with *)
(* the token has that transaction id, and the map of its datum says the    *)
(* price and the two timestamps, however the oracle replaced its outputs   *)
(* between the two requests (kupo.rs, charli3.rs).                         *)
FactIsOfItsUtxo ==
    \A taken \in result : taken.result = "Ok" =>
        \E o \in AggStates(outputs) : \E d \in o.datum_hash :
            /\ o.transaction_id = taken.provenance.aggregator_utxo_ref
            /\ Says(d, [price_microusd |-> taken.fact.price_microusd,
                        created_unix_ms |-> taken.provenance.timestamp_unix,
                        expiry_unix_ms |-> taken.provenance.expiry_unix])

(* The datum that was fetched belonged to the most recent output with the  *)
(* token at most two time limits before it arrived, unless Kupo was behind *)
(* the chain then (kupo.rs).                                               *)
ReadIsRecent ==
    phase \in {"Fetched", "Normalized"} =>
        /\ began <= asked.at /\ asked.at <= fetched
        /\ fetched - began <= 2 * Timeout
        /\ ~asked.behind => \A match \in record :
              /\ match.transaction_id \in asked.unspent
              /\ \A transaction \in asked.unspent : transaction <= match.transaction_id

(* After an aggregation that is reported as done, the datum that is read   *)
(* is its own or a later one, unless Kupo was behind the chain or the      *)
(* aggregation's transaction was not yet on it (charli3_aggregate.rs,      *)
(* kupo.rs).                                                               *)
PullIsRead ==
    /\ pull = "Ok" /\ phase \in {"Fetched", "Normalized"}
    /\ ~asked.behind /\ ~asked.pending
    => \E transaction \in pulled : \A match \in record : transaction <= match.transaction_id

(* Of a document: an error of the parser has a reason in its form, a zero  *)
(* price and an age in what it says.                                       *)
IsJustified(refusal, d, time) ==
    \/ /\ refusal \in Charli3ParseErrors
       /\ ~IsAggState(d, {IndefiniteArray})
    \/ /\ refusal = "OraclePriceZero"
       /\ \E created, expiry \in U64 :
             Says(d, [price_microusd |-> 0, created_unix_ms |-> created,
                      expiry_unix_ms |-> expiry])
    \/ /\ refusal = "OracleStale"
       /\ \E price, created \in U64, expiry \in 0 .. time :
             Says(d, [price_microusd |-> price, created_unix_ms |-> created,
                      expiry_unix_ms |-> expiry])

(* A document with the arrays the oracle uses on chain is never refused as *)
(* malformed, whatever the order of its entries; the live pipeline refuses *)
(* nothing else.  The validating one, which nothing but an example calls,  *)
(* would refuse besides it only a document that says a zero price or an    *)
(* expiry that has come, and take no such one (charli3.rs).                *)
RefusalIsJustified ==
    \A d \in document :
        /\ \A refused \in result : refused.result = "Err" =>
              refused.error \in Charli3ParseErrors /\ IsJustified(refused.error, d, now)
        /\ \A match \in record :
              LET validated == NormalizeParseValidate(d, match.transaction_id, now)
              IN  IF validated.result = "Err"
                  THEN IsJustified(validated.error, d, now)
                  ELSE /\ validated.fact.price_microusd > 0
                       /\ now < validated.provenance.expiry_unix

-----------------------------------------------------------------------------
(* Liveness                                                                *)

(* A fetch ends, also when Kupo never answers (kupo.rs).                   *)
FetchEnds == phase = "Matches" ~> phase \in Ended

=============================================================================
