# OracleGuard in TLA+

OracleGuard releases money from a managed Cardano pool. A requester asks for an
amount of a pre-approved allocation; the ADA/USD price decides how much of the
allocation may be released now; a set of Ziranity validators decides the request;
an adapter pays it on Cardano; and an evidence record lets an auditor replay the
decision offline. These modules model that path, TLC checks them on small
instances, and TLAPS proves the safety properties for all of them.

Run a model with `tlc -workers 2 -config <cfg> <module>` and a proof with
`tlapm <module>.tla`.

## The system

| part | state | operations | correct when |
|---|---|---|---|
| canonical types (`oracleguard-schemas`) | none | build an intent, compute its id, check freshness, encode and decode strictly | one id per authorization-relevant content |
| policy identity (`policy.rs`, `show_policy_ref.rs`) | none | canonicalise a JSON policy, hash it | one identity per content, another for another cap |
| evaluator (`oracleguard-policy/math.rs`, `evaluate.rs`) | none | price to band, band and basis to cap, cap and request to verdict | the verdict is what the release table says, at every edge |
| authorization closure (`authorize.rs`) | none | anchor, registry, grant gate | authorized exactly when every condition holds |
| validator configuration (`integrations/ziranity/config.rs`) | a snapshot frozen at the start of the node | load, look up | what is served is a file without mistakes, and all of it |
| disbursement handler (`integrations/ziranity/lib.rs`) | its snapshot | `handle(call, commit context)` | every validator with one snapshot answers alike |
| aggregation call (`charli3_aggregate.rs`) | the client's process | spawn the Charli3 client, wait | a success is a transaction that was submitted; its datum is on chain later, or never |
| oracle fetch (`kupo.rs`, `charli3.rs`) | none; the datum is on chain | ask for the matches, ask for the datum, parse, normalise | the price and its times are those of one recent datum |
| submission and intake (`ziranity_submit.rs`, `intake.rs`) | payload files, the CLI's process | write, submit, wait, parse the receipt | a receipt that is taken for committed is the commit's |
| fulfillment (`settlement.rs`) | none | `fulfill(receipt, backend)` | paid only as granted, reported as paid |
| settlement helper (`cardano_disburse.rs`, `cardano_disburse.py`) | a child process, the pool's UTxOs | spawn, build, submit, print the id | one transaction per call, reported |
| cardano-cli backend (`cardano.rs`) | signed files in a directory | read the id of the file of a request | one transaction per intent id |
| evidence (`evidence.rs`, `artifacts.rs`, `verify_live_bundle.rs`) | a record per acted-on receipt, a bundle file | assemble, encode, save | the record tells what happened |
| verifier (`oracleguard-verifier`) | none | load a bundle, integrity and replay checks, walk through bundles | clean exactly for records that are consistent and replay |
| demo (`demo.sh`, `build_live_scenario.rs`) | files in `/tmp`, shell variables | pull, size two scenarios by the live price, run consensus, settle, verify | pays after the allow scenario only, and shows evidence of this run |
| other scripts (`preflight.sh`, displays, repository checks) | none | probe, print, compare builds | not modelled |

The parts interact by values handed from one to the next (intent bytes to the
validators, result bytes in a receipt to `fulfill`, a request as process arguments
to the helper, records to the verifier); what makes this hard is that the
oracle, the clock, the configuration and the ledger move between those steps. An
intent carries the price it was built with; the validators judge its age at the
commit; a receipt can be pending; the helper can fail after it has submitted; the
evidence is assembled later, under a configuration that may be another one. Inside
the validators the hard part is agreement: clocks, files and restarts differ, and
the committed bytes must not.

Around this path every part is a process that can stop half way: a payload file
another request is writing too, a CLI that gives up waiting, a frame that is cut, a
bundle that was not finished, a demo script that masks the failures of its steps.

The hazards of `PROJECT.json` name each of these at its line with the properties
that watch it. One has no property: the sum of the grants from one allocation, of
which the code keeps no account.

## Modules

Each layer EXTENDS the one before it.

| module | models | form |
|---|---|---|
| `Canonical` | types, reasons and gates, `check_freshness`, `intent_id` | operators |
| `Evaluator` | `select_release_band_bps`, `compute_max_releasable_lovelace`, `decide_grant`, `evaluate_disbursement` | operators |
| `Authorize` | the three gates; `Permitted` and `ReleaseTable` as an independent reference | operators |
| `Fulfillment` | receipts, settlement requests, the branches of `fulfill` | operators |
| `Evidence` | the record and `assemble_disbursement_evidence` | operators |
| `Verifier` | `verify_evidence` with all its findings; `CrossFieldInvariants` and `GrantIsReplayable` as an independent reference | operators |
| `Disbursement` | the life of requests from the oracle's datum to the record | state machine, composes all of the above |
| `DisbursementPromise` | what disbursement promises, without how | abstract state machine |
| `DisbursementRefinement` | the refinement mapping from `Disbursement` to the promise | `INSTANCE ... WITH` |
| `DisbursementClaims` | statements of docs and comments that the code does not keep | properties |
| `NodeConfig` | which files load, and into what snapshot | operators |
| `ValidatorSet` | handlers in validators with their own files, clocks and lives, and quorums over their replies | state machine |
| `VerifierAudit` | records altered between the operator and the auditor | state machine |
| `AggState` | the parser of the oracle's datum and its normalisation; `IsAggState` and `Says` as an independent reference | operators |
| `OracleFetch` | the aggregation call and the fetch, against a chain and an index that move | state machine |
| `Wire` | strict decoding, the CLI's arguments and frames, signed files, bundle files | operators |
| `Submission` | requests submitted, settled by `cardano-cli` and saved side by side | state machine |
| `PolicyDoc` | canonical policies and their references; `SayTheSame` as an independent reference | operators |
| `DemoFlow` | the course of `demo.sh` | state machine |
| `MCDisbursement`, `MCValidatorSet`, `MCVerifierAudit`, `MCOracleFetch`, `MCSubmission`, `MCDemoFlow` | values for the constants | for TLC |
| `*Proofs` | theorems | for TLAPS |

`Disbursement` is the whole path with each neighbour reduced to what it can do to a
request; `OracleFetch`, `Submission` and `DemoFlow` open up what it takes as one step:
the fetch within `BuildIntent`, the submission and the receipt, and the script around
them. They share the operators (`Canonical` up to `Verifier`) and not the state.

An operator named `Fault: ...` in its comment stands before the definition it would
break. It is used by no behaviour; putting it in the place of the definition shows
that the properties notice.

### State and actions of `Disbursement`

`now`, `feed` and `config` are the environment: the clock (which is also the
committed time of a commit), the datum on chain and the validators' configuration.
Per request, `intent` is the intent file, `mempool`, `height` and `decision` are the
consensus, `receipt` is what the CLI returned, `attempts` and `helper` are the calls of
the backend and the child process, `outcome` is what `fulfill` returned, `ledger` the
transactions on chain, and `bundles` the records.

| action | code |
|---|---|
| `Tick`, `PublishDatum`, `Reconfigure` | external: clock, Charli3, operators restarting all validators |
| `BuildIntent` | `build_live_scenario.rs`: the live datum is taken with neither age nor price checked |
| `SubmitIntent` | `submit_intent` (`ziranity_submit.rs`) |
| `Commit` | `handle` (`integrations/ziranity/lib.rs`), agreed on by the validators |
| `ReturnPending`, `ReturnCommitted` | `parse_cli_receipt` (`intake.rs`) on what the CLI printed |
| `FulfillWithoutBackend` | the three branches of `fulfill` that return without the backend |
| `CallBackend` | the fourth branch up to `Command::output` |
| `HelperSubmits`, `HelperSucceeds`, `HelperFails` | `_build_and_submit` and `main` of `cardano_disburse.py`; the parse of the printed id; every error `?` returns |
| `AssembleBundle` | `verify_live_bundle.rs` and `assemble_disbursement_evidence` |

The step from `CallBackend` to the helper's end is split because the helper is
another process: other requests, the oracle and the operators move meanwhile.
`fulfill` keeps no state, and neither does the model for it: any receipt at hand may be
passed to it again, whether the last call returned an outcome or an error, and each
call of the backend may pay. `MaxAttempts` bounds these calls and nothing in the code
does.

### State and actions of `ValidatorSet`

`file` and `handler` are a validator's file on disk and the snapshot its handler
froze at `StartNode` (`build_disbursement_handler`); `EditFile` changes only the
first. `Propose` fixes a call and the committed time, the leader's clock;
`Evaluate` is `handle`, which reads the committed time and not the local clock;
`CommitBlock` is a quorum with equal bytes, and a vote counts also when its
validator has since stopped. `reply` and `blocks` keep the snapshot a reply was made
with, which no code keeps: it is there for the properties and read by no guard.

### State and actions of `OracleFetch`

`outputs` and `spent` are the oracle's address on chain, `index` what Kupo last saw of
it; `pull` and `pulled` are the aggregation the adapter runs itself; the rest is one
`fetch_aggstate_datum` and what became of its result. `asked` keeps the chain at the
answer to the first request and is there for the properties only. A transaction
that the client submitted is `pending` until `PullLands` puts it on chain, at any time
or never: the client returns before that, and the adapter does not wait for it.

| action | code |
|---|---|
| `Tick`, `Aggregate`, `Synchronise` | external: clock, Charli3 nodes, Kupo |
| `StartPull`, `PullSubmits`, `PullReturns` | `aggregate` (`charli3_aggregate.rs`) around its client, which submits when `build_aggregate_args` says so |
| `PullLands` | external: the blocks in which the submitted transaction is visible |
| `StartFetch`, `AnswerMatches`, `AnswerDatum` | `fetch_aggstate_datum`: two requests, `find_aggstate_match`, `parse_datum_response` |
| `RequestFails`, `TimeOut` | every `KupoFetchError` of `fetch_aggstate_datum`: the call, the body, the two parsers; the agent's limit |
| `Normalize` | `normalize_aggstate_datum` in `build_live_scenario.rs` |

`normalize_parse_validate` is an operator (`NormalizeParseValidate`) and no step: its only
caller is an example over a compiled-in datum and a time that is written down, and
nothing passes it a fetched datum and the clock. `RefusalIsJustified` asks of it, as a
function, what it would make of each fetched datum.

### State and actions of `Submission`

`file` are the payload files, which requests may share; `step`, `submissions`, `args`,
`sent` and `stdout` are a request and its CLI, `mempool` and `chain` the consensus,
`signed` the directory of signed transactions, `receipt`, `outcome` and `bundle` what
the adapter made of it.

| action | code |
|---|---|
| `Truncate`, `FinishWrite`, `WriteFails` | `write_payload_to_file`: `std::fs::write` empties the file and fills it |
| `Spawn`, `SpawnFails` | `submit_intent` up to the child process |
| `CliSends`, `CliReports`, `CliTimesOut`, `CliGarbles`, `CliFails` | external: the CLI by the arguments of `build_cli_args` |
| `Commit` | external: consensus over `handle` |
| `Receive` | `parse_cli_receipt` |
| `Resubmit` | the operator, after an error or a pending receipt |
| `SignTransaction` | external: a file that a signed transaction was left in |
| `FulfillWithoutBackend`, `FulfillFromSignedFile`, `BackendFails` | `fulfill` with `CardanoCliSettlementBackend` |
| `SaveBundle`, `AssemblyFails` | `assemble_disbursement_evidence` and the bundle file |

### State and actions of `DemoFlow`

The actions are the sections of `demo.sh` in their order, `step` is the place in it, and
the other variables are those of the script (`pull` is `PULL_MODE`, `ok` is `ALLOW_OK`
and `DENY_OK`, `kv` what `load_live_kv` read, `tx_id` is `TX_ID`), its files, and the
chain. `Run` is the smoke test of one scenario: a devnet of its own commits the staged
intent, later than the datum was fetched, and passes if the bytes are the staged ones.
`BuildScenarios` may stop after any number of the builder's four files, in the middle of
one, or after the last while it prints its summary. `Payment` goes to `RECEIVER`, the
address that is a constant of the script.

### Abstractions

* Ids, addresses, assets and references are model values. An address stands for
  its bytes with their length; `NodeConfig` keeps the length where the loader
  checks it.
* `intent_id` is taken to be injective (a keyed BLAKE3 hash): the id is the
  identity projection itself, all fields but the provenance. So are SHA-256 for a
  policy and the hash of a datum.
* Thresholds, bands and the basis-point scale are parameters with the orderings
  `math.rs` asserts at compile time; the largest u64 is `U64Max`. The product of
  the cap is a u128 in the code and exact here; the return to u64 is checked.
* The pair and the source of an oracle fact have one legal value and are left out.
* Encoded bytes are the value they came from and whether they are whole, cut, or
  followed by others: `decode_*` accepts the first and tells the other two apart. A
  datum is the sequence of its CBOR items, so its parser is modelled check by check;
  an item's spelling in bytes is not. A policy document is the sequence of the members
  of one object.
* Validators loading a configuration one by one are in `ValidatorSet`;
  `Disbursement` takes the configuration of the quorum that committed, and
  `Submission` and each devnet of `DemoFlow` have a fixed one.
* In `Disbursement` a receipt that cannot be parsed, or a CLI that fails, is a receipt
  not yet returned, and a request is not submitted again once it is committed;
  `Submission` has all of these, and commits a payload that is sent again another
  time, since nothing in the code says that Ziranity would not.
* `AssembleBundle` takes the basis from the configuration of the commit: in
  `verify_live_bundle` the basis is an argument the operator passes, and its
  documentation asks for the basis of the evaluation.
* Kupo lists the unspent outputs it knows newest first, as `find_aggstate_match`
  assumes and documents.

## What is checked

| run | states | what it asks |
|---|---|---|
| `disbursement` | 398,429 | requests through everything: `EveryPaymentIsGranted`, `OutcomeAgreesWithLedger`, `PaymentsWithinAttempts`, `PriceWasLive`, `RecordsVerify`, `RecordsAreTrue`; two of them implement `DisbursementPromise` (`KeepsPromise`); one id, one verdict but for the expiry (`OneIdOneVerdict`) |
| `validators` | 246,666 | three validators, quorums of two, every amount and price, every kind of bad file: `CommittedIsRight`, `SameSnapshotSameReply`, `EveryEntryIsServed`; validators with one configuration decide every proposal (`UniformSetDecides`) |
| `audit` | 140,911 | up to three altered fields of a record: `CleanIffConsistent`, `SingleAlterationIsCaught`, `PayeeIsBound` |
| `oracle_fetch` | 417,084 | one fetch: `FactIsOfItsUtxo`, `ReadIsRecent`, `PullIsRead`, `RefusalIsJustified`, `FetchEnds` |
| `submission` | 303,780 | two requests with one payload path: `OutcomeIsCommitted`, `OneTransactionPerId`, `RecordsAreOfTheirRequests`, `CleanWalkIsComplete`, `SubmissionEnds` |
| `demo_flow` | 143,680 | every course of the script: `PaymentFollowsConsensus`, `LiveBundlesAreOfThisRun`, `ScenariosStraddleTheCap`, `PredictionIsReproduced`, `RotationIsObservable` |

Six more runs, named `finding_...`, each refute one statement of the repository (below).

Deadlock is not checked in these runs: every counter is bounded, so every instance
comes to an end, as a run of the real system does when its requests are recorded.

What the properties say together: money leaves the pool only for a grant of
consensus that satisfied every condition of the policy at the commit, over a
price then still valid, to the payee and in the amount of the intent, as often as
`fulfill` was called and no oftener; an outcome is true of the chain; every record of a
committed receipt is true and passes the verifier although the configuration may
have changed since; and the verifier's clean report cannot be had for an
inconsistent record. Before that, the price of an intent is one the oracle published
in the output its provenance names, from the newest output Kupo could show; after it,
neither shared payload files nor damaged frames nor
retries make an outcome that consensus did not commit, and a clean walk through the
bundles means that none is missing. The demo pays only after its allow scenario
reproduced its prediction, to an address of its own, and its evidence is of its own run
and as clean as its summary says without looking.

What they leave to others: `verify_bundles.rs` walks through four names that are written
in it, below `fixtures/evidence`; `CleanWalkIsComplete` takes the bundles of the requests
for them. `verify_live_bundle` looks at a transaction only to see that there is one, so
`LiveBundlesAreOfThisRun` cannot say that it paid whom the record names. That different
ids have different signed files rests on the external signer.

### Bounds

* `disbursement` is explored where `OneFullOrTwoSmall` holds: one request in full variety,
  or two while the configuration is the first, the price is low, the clock is at most 2
  and each calls the backend once. The constraint cuts behaviours off and adds none;
  all properties of this run are of safety, so what is seen to hold of the states
  before the cut holds of them in the whole. What lies beyond it, two requests over
  reconfigurations and retries, is left to the proofs, which have no bounds.
* Its prices `{1, 3}` are one of the low and one of the high band. `validators` has all of
  `0 .. 3`, so zero, both thresholds and their neighbours below, with amounts `0 .. 5`
  around each cap (basis 4 and 2). `U64Max = 6` is above all of them. No
  instance reaches a cap over `U64Max` (`math.rs:127`), since no band is
  above the scale; the proof of `AuthorizedIffPermitted` covers that it takes no grant
  away.
* `validators` is explored where `IsExplored` holds: the lives of three validators over two
  good files and two calls (`HasFewCalls`), every call put to two validators
  (`HasTwoRunning`), or every file in one (`HasOneRunning`). For `UniformSetDecides` the cut
  must not remove what would refute it: a behaviour in which all three run with one
  configuration for ever, and a proposal is never decided. Three are running only under
  `HasFewCalls`, where no step of consensus is cut; under the other two `IsUniform` is
  false, and the commit of a call that lies outside `HasFewCalls`, which leads out of the
  explored part, decides it. So the run checks liveness for the calls of `HasFewCalls`, one
  that decodes and one that does not, and safety for all of them: TLC evaluates the
  invariants in the states that end the explored part too, so the answer to every call
  is judged when it is committed.
* `MaxNow = 3` with `Validity = 2` lets an intent be committed before, at and after its
  expiry, over a datum that was replaced meanwhile.
* `MaxAttempts = 2` lets a call be repeated after either kind of failure and after success.
* Two configurations that differ in the basis make a record fail when it is
  replayed with the wrong one.
* Two requests of the same kind are enough for what requests share: the clock, the
  datum, the configuration, the heights and the transaction ids.
* Three validators with majorities are the smallest set in which one may differ; one
  block is enough for the properties, which are about each block on its own. No run
  uses symmetry: the runs with liveness must not.
* Three altered fields are what it takes to move a payment (`PayeeIsBound`): intent,
  id and authorization.
* In `oracle_fetch` two transactions of the oracle, each with an output without the
  token beside it, let the datum be replaced before the fetch, within it, and by the
  adapter's own aggregation, before or after the fetch looks; `Timeout = 1` and `MaxNow
  = 3` let each request use its limit and a datum of `Validity = 1` expire meanwhile.
  The documents are the schema in two orders of the map and three that break one of its
  rules each.
* In `submission` the first request may be submitted twice and the second once, over
  one path, so either can read the other's payload; blocks are committed before the
  expiry and at it.
* In `demo_flow` one ADA is 2 and the allocation 20, so that the three caps 10, 15 and
  20 and their fifths and tenths need rounding. `ScenariosStraddleTheCap` quantifies
  over every basis up to `U64Max = 65`. At a cap of 64, the last whole ADA, and above it the sum
  of the deny amount wraps (`build_live_scenario.rs:289`) and the deny scenario asks for
  what is granted: the property says that this happens there and nowhere else. The basis
  of the demo is far below. The snapshots are the one the builder assumes, one of half
  the basis and one without the policy. Eight policy documents differ in the order,
  repetition, spelling and kind of their members.

### Fairness

`Disbursement` has none. Nothing in the repository asks the CLI again after a pending
receipt, calls `fulfill` again after an error, or limits how long `Command::output` waits for
the helper, so nothing there must eventually happen; what can be said is that no
state is a dead end (`NoRequestIsEverStuck`). In `ValidatorSet` running validators
evaluate and quorums commit, which is Ziranity's promise; nobody is forced to propose, to
start, or to keep running: `UniformSetDecides` speaks of the time in which all run with one
configuration.

In `OracleFetch` time passes, the HTTP agent gives up at its limit, and the process
goes on to normalise, each by the variable it moves; nothing makes Kupo answer, the
oracle publish, a submitted transaction land, or the client of `aggregate` exit. In
`Submission` the CLI reads its payload, and answers once the payload is committed or the
wait it was given is over; nothing makes consensus decide. `SubmissionEnds` so rests on
the argument `--wait-timeout`, which is all that bounds `submit_intent`.

### What the code does not keep

Six runs refute, each, one statement of the documentation or of a comment
(`findings` in `PROJECT.json` quotes the lines):

* `DeniedClosesAsDenied`: a denied receipt that is pending closes as a refusal at
  fulfillment, and its record fails the verifier. `RecordsVerify` is therefore about
  committed receipts.
* `FreshnessIsReproducible`: staleness is not replayed; a record of a stale verdict is
  clean although its recorded time lies before the expiry.
* `DefiniteArraysAreParsed`: a datum whose outer array has a definite length is refused,
  because the check for a break needs another item. `RefusalIsJustified` is therefore
  about the arrays the oracle uses. The other way round, an array announced with its
  length and closed by a break nevertheless is accepted (`ParserIsExact` says exactly
  what is).
* `PaymentIsApproved`: the demo pays on a reproduced denial too, and pays a placeholder
  amount under a placeholder id if the builder stopped after its allow files.
  `PaymentFollowsConsensus` is what does hold.

* `EffectIsPaidVerbatim`: the demo pays the receiver that is a constant of the script, and
  not the destination of the effect that was authorized.
* `TextsKeepTheirSpelling`: `docs/policy-canonicalization.md` says that texts keep their
  input representation, while escapes are read and written anew. `RotationIsObservable` is
  what holds: a text has one identity however it is spelled.

Two more differences have properties that say how far the code goes: the expiry decides
and is not in the id, although the provenance is called audit-only (`OneIdOneVerdict`:
nothing else in the provenance decides); and a helper that fails after submitting leaves
a payment nobody reported, and every further call pays again, settled or not, the id
being only metadata (`PaymentsWithinAttempts`).

Nothing deducts grants from an allocation either: the basis limits each request and not
their sum, and no document promises otherwise.

## What is proved

Every safety property that a run checks, for all values of the constants that satisfy
the named assumptions (`CanonicalAssumption`, `EvaluatorAssumption`,
`DisbursementAssumption`, `NoneAssumption`, `ValidatorSetAssumption`,
`VerifierAuditAssumption`, `OracleFetchAssumption`, `SubmissionAssumption`,
`DemoFlowAssumption`): any requests, prices, configurations, quorums, documents of the
oracle and of policies, transactions, payload paths and bounds. `DemoFlowAssumption`
takes from the repository that the fixture both scenarios are made from has version 1
(`tests/integration_fixtures.rs`) and that the allocation of the demo and one ADA
together are a u64, and so are eleven ADA.

| module | theorems |
|---|---|
| `DecisionProofs` | `AuthorizedIffPermitted`, `CleanReportIsExact`, `HonestRecordIsClean` |
| `DisbursementProofs` | `TypeCorrect`, `PaymentsAreGranted`, `OutcomesAgree`, `PaymentsAreWithinAttempts`, `PricesAreLive`, `OneIdHasOneVerdict`, `NoRequestIsEverStuck`, `RequestsTakeFinitelyManySteps` |
| `PromiseProofs` | `DisbursementKeepsItsPromise`, `RecordsPassTheVerifier`, `RecordsTellTheTruth` |
| `VerifierAuditProofs` | `TypeCorrect`, `CleanReportsMeanConsistent`, `SingleAlterationsAreCaught`, `PayeesAreBound` |
| `ValidatorSetProofs` | `TypeCorrect`, `CommittedAnswersAreRight`, `SnapshotDeterminesReply`, `EntriesAreServed`, `CommittedBlocksReplay`, `NoQuorumIsEverStuck` |
| `OracleFetchProofs` | `ParserIsExact`, `FetchTypes`, `FactsAreOfTheirUtxo`, `ReadsAreRecent`, `PullsAreRead`, `RefusalsAreJustified`, `NoFetchIsEverStuck`, `FetchesTakeFinitelyManySteps` |
| `SubmissionProofs` | `SubmissionTypes`, `OutcomesAreCommitted`, `TransactionsFollowIds`, `RecordsAreTheirOwn`, `CleanWalksAreComplete`, `NoSubmissionIsEverStuck`, `SubmissionsTakeFinitelyManySteps` |
| `DemoFlowProofs` | `PolicyRefIsWhatIsSaid`, `RunKeepsItsOrder`, `DemoIsTyped`, `EveryPaymentFollowsConsensus`, `EveryLiveBundleIsOfThisRun`, `ScenariosAlwaysStraddle`, `EveryPredictionIsReproduced`, `RotationIsAlwaysObservable` |

* `AuthorizedIffPermitted` rests on one arithmetic fact: an amount is at most the
  rounded-down quotient exactly when its multiple is at most the product, and the band
  selected is the largest the price reaches.
* The invariant of `DisbursementProofs`, `IInv`, adds to the type what ties the values
  of one request together: a decision is the closure's output for the intent under
  the configuration and time it records; a committed receipt is a copy of its
  decision; a helper runs only for a committed authorized receipt in ADA; and the
  transactions of a request are what its helper and its earlier calls submitted. No
  safety property is inductive without these: a payment is granted because the
  request came from a receipt that came from a decision. The bound on payments needs
  in addition that a running helper that has not submitted leaves one attempt
  unused.
* The records are proved in two halves: `HonestRecordIsClean` about one record and no
  behaviour, and an invariant that an outcome and the record made of it stay those
  of the committed receipt.
* `CommittedAnswersAreRight` and `SnapshotDeterminesReply` rest on replies that are
  `Handle` of the proposal at the committed time under the snapshot they name.
* `SingleAlterationsAreCaught` rests on two facts: the id covers every field the
  verifier reads of an intent, and for one intent, execution and basis there is one
  authorization that leaves the record clean. What remains open is what the property
  names.
* The refinement maps a commit to `Decide`, `HelperSubmits` to `Pay`, the return of
  `fulfill` to a report, and a committed receipt after a refused pending one to
  `Withdraw`; everything else stutters.
* `ParserIsExact` follows the twelve checks item by item; that three new keys out of three
  are all the keys makes the map complete, and a document says one datum only
  (`DatumIsUnique`).
* The invariant of `OracleFetchProofs` numbers the transactions of the oracle without a gap
  and keeps the token of the last one unspent, so the newest unspent output is no older
  than anything the adapter aggregated; the match that was taken was the newest of what
  Kupo saw; and the clock is the sum of the waits of the two requests. A transaction that
  is submitted and not pending is among the outputs, which is what `PullsAreRead` needs of
  the aggregation.
* The invariant of `SubmissionProofs` says what each channel can carry: a file is the
  bytes of some intent, whole or not; a frame is a committed decision, a pending answer
  or damaged, and a damaged one parses to nothing; an outcome follows the receipt that
  is held, and a bundle is the record of its own request. One path leads to one
  transaction id, and one transaction id from one path, because the name of the signed
  file is the intent id.
* `PolicyRefIsWhatIsSaid` rests on two facts: a document's object is what it says of each
  key, and two objects written with ascending keys give equal bytes only if they are
  equal. A list of keys that ascends and has them all is the only one, which is a fact one
  would prove by induction; it is proved here of a least counterexample, since the subsets
  of a finite set have one (`SmallestSubset`).
* `DemoInvariant` says of what datum things are: whatever a step left behind, and however
  many of the builder's files there are, they are of the datum on chain; what was
  committed is the closure's output for the staged intent at an instant that has passed;
  and a run that passed had both files whole. It needs the order of the script
  (`InOrder`), because it is the order alone that keeps the datum from being replaced under
  the files, or the commits under a payment.
* `EveryLiveBundleIsOfThisRun` is in part `HonestRecordIsClean` again, at another place:
  what the builder predicts by the evaluator alone is what the three gates would have
  decided when the datum was made, under the configuration the builder assumes, and a
  record of that decision is honest.
* `ScenariosAlwaysStraddle` is arithmetic: the rounded cap is the largest releasable amount
  (`ReleasableUpToTheCap`), and the amounts stay on their sides of it through rounding,
  saturation and wrapping (`PickedAmounts`).

* Liveness itself is out of the prover's reach, and its safety half is not. No state is
  a dead end: a submitted request, a fetch under way, a submission in progress and a
  proposal before a quorum that runs one configuration are done, or the state has what
  the guard of some next step asks for, be it one that nothing forces
  (`NoRequestIsEverStuck`, `NoFetchIsEverStuck`, `NoSubmissionIsEverStuck`,
  `NoQuorumIsEverStuck`). And nothing goes on for ever: whatever changes a request, a
  fetch or a submission uses up one of finitely many steps
  (`RequestsTakeFinitelyManySteps`, `FetchesTakeFinitelyManySteps`,
  `SubmissionsTakeFinitelyManySteps`). A round of consensus may be abandoned and
  proposed again any number of times; of it the votes are proved to be kept.

Only model-checked: `UniformSetDecides`, `FetchEnds` and `SubmissionEnds`. That the fair
actions are the ones the safety half names, and that fairness therefore leads to the
end, needs ENABLED and is left to TLC.

## What is not modelled

The spelling of values in bytes: postcard, CBOR, hex and bech32, TOML and JSON texts,
and nested objects in a policy. The routing table has one entry (`Route`), and nothing to
check. Two helpers competing for the inputs of the pool's wallet, and rollbacks of the
chain: the code hands both to pycardano and the node. The readiness probes and the
displays of the scripts, `preflight.sh`, and the scripts that compare two builds.
`PROJECT.json` gives the reason for each part.

## Plan

Done: the modules above, in the order `Canonical`, `Evaluator`, `Authorize`, `Fulfillment`,
`Disbursement`, the refinement, `Evidence` and `Verifier`, `NodeConfig` and `ValidatorSet`,
`VerifierAudit` and the proofs of each; then `AggState` and `OracleFetch`, `Wire` and
`Submission` with their proofs, and `PolicyDoc` and `DemoFlow` with theirs.

What could follow: the pool wallet, with two helpers choosing inputs, one of which must
fail; and nested policies.
