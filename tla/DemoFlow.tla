------------------------------- MODULE DemoFlow -------------------------------
(***************************************************************************)
(* The end-to-end run of scripts/demo.sh: it pulls the oracle, has         *)
(* build_live_scenario size an allow and a deny scenario by the live price *)
(* and predict their results, runs consensus on each, settles the allow    *)
(* scenario by the disburse helper itself, has verify_live_bundle assemble *)
(* and verify the evidence of both, and may show how the identity of the   *)
(* policy changes with its cap.                                            *)
(*                                                                         *)
(* The oracle, the smoke test of the consensus and the helper are          *)
(* external.  The script runs one step after another; each of its steps is *)
(* an action, with the ways it can fail.                                   *)
(***************************************************************************)
EXTENDS PolicyDoc

CONSTANTS
    Template,        \* the fixture intent both scenarios are made from
    Snapshots,       \* configurations the devnet's validators may have
    Prices,          \* prices the oracle may publish
    Validity,        \* lifetime of an oracle datum
    MaxNow,          \* bound on the clock
    ONE_ADA,         \* 1_000_000 lovelace
    DEMO_BASIS,      \* 1_000_000_000 lovelace, of builder and bundle alike
    FIXTURE_AMOUNT,  \* the 700 ADA of the fixtures
    PLACEHOLDER_ID,  \* the intent id dd...dd
    RECEIVER,        \* RECEIVER_HEX, the address that is paid
    PolicyDocuments, \* what the file of the policy may hold
    ROTATED_CAP      \* the 10_000 basis points of the rotated policy

ASSUME DemoFlowAssumption ==
    /\ Template \in DisbursementIntents /\ Template.intent_version = INTENT_VERSION_V1
    /\ \A c \in Snapshots : IsConfigSnapshot(c)
    /\ Prices \subseteq U64
    /\ MaxNow \in Nat /\ Validity \in Nat \ {0} /\ MaxNow + Validity <= U64Max
    /\ {ONE_ADA, DEMO_BASIS, FIXTURE_AMOUNT} \subseteq U64 \ {0}
    /\ DEMO_BASIS + ONE_ADA <= U64Max /\ 11 * ONE_ADA <= U64Max
    /\ PLACEHOLDER_ID \notin IntentIds
    /\ RECEIVER \in Addresses
    /\ \A document \in PolicyDocuments : IsPolicyDocument(document)

Scenarios == {"Allow", "Deny"}

Steps == {"Readiness", "Pull", "Build", "RunAllow", "RunDeny", "Settle",
          "AllowBundle", "DenyBundle", "Rotate", "Summary", "Done", "Aborted"}

VARIABLES
    step,       \* where the script is
    options,    \* of the command line
    pull,       \* PULL_MODE
    now,        \* wall clock
    datum,      \* the oracle's datum on chain
    snapshot,   \* what the validators of the devnet were configured with
    files,      \* the staged intent and result of each scenario
    kv,         \* what load_live_kv read of the builder's summary
    committed,  \* what consensus committed in each scenario
    ok,         \* ALLOW_OK and DENY_OK
    ledger,     \* transactions of the pool
    tx_id,      \* TX_ID
    live,       \* the exit code and the record of verify_live_bundle
    rotation    \* what show_policy_ref printed, and of which document

chain == <<datum, ledger>>
setting == <<options, snapshot>>
devnet == <<committed, ok>>
vars == <<step, pull, now, chain, setting, files, kv, devnet, tx_id, live, rotation>>

-----------------------------------------------------------------------------
(* build_live_scenario.rs                                                  *)

Least(a, b) == IF a <= b THEN a ELSE b
Greatest(a, b) == IF a <= b THEN b ELSE a

SaturatingAdd(a, b) == Least(a + b, U64Max)
SaturatingMul(a, b) == Least(a * b, U64Max)

(* A release build wraps.                                                  *)
WrappingAdd(a, b) == (a + b) % (U64Max + 1)

WholeAda(amount) == (amount \div ONE_ADA) * ONE_ADA

(* None, which cannot be, is the largest u64.                              *)
CapOf(basis, price) ==
    LET cap == MaxReleasable(basis, SelectReleaseBand(price))
    IN  IF cap = {} THEN U64Max ELSE CHOOSE c \in cap : TRUE

(* Fault: the deny scenario is rounded down and left at that.              *)
PickRoundedAmount(scenario, cap) ==
    IF scenario = "Allow"
    THEN Greatest(WholeAda(SaturatingMul(cap \div 10, 8)), ONE_ADA)
    ELSE WholeAda(SaturatingAdd(cap, cap \div 10))

(* Four fifths of the cap, and a tenth more than it, in whole ADA and at   *)
(* least one ADA away from nothing and from the cap.                       *)
PickAmount(scenario, cap) ==
    IF scenario = "Allow"
    THEN Greatest(WholeAda(SaturatingMul(cap \div 10, 8)), ONE_ADA)
    ELSE Greatest(WholeAda(SaturatingAdd(cap, cap \div 10)), WrappingAdd(cap, ONE_ADA))

ScenarioIntent(scenario, d, basis) ==
    [Template EXCEPT
        !.oracle_fact = d.fact,
        !.oracle_provenance = d.provenance,
        !.requested_amount_lovelace =
            PickAmount(scenario, CapOf(basis, d.fact.price_microusd))]

(* Fault: a denial is put down to the registry.                            *)
PredictRegistryDenial(intent, basis) ==
    LET grant == EvaluateDisbursement(intent, basis)
    IN  IF grant.decision = "Allow"
        THEN Authorized(EffectOf(intent, grant))
        ELSE Denied(grant.reason, "Registry")

(* The evaluator alone predicts the result: no gate before it is run, and  *)
(* the age of the datum is not looked at.                                  *)
Predict(intent, basis) ==
    LET grant == EvaluateDisbursement(intent, basis)
    IN  IF grant.decision = "Allow"
        THEN Authorized(EffectOf(intent, grant))
        ELSE Denied(grant.reason, "Grant")

NoFiles == [scenario \in Scenarios |-> [intent |-> {}, result |-> {}]]

(* The four files, in the order they are written.                          *)
FileOrder == <<<<"Allow", "intent">>, <<"Allow", "result">>,
               <<"Deny", "intent">>, <<"Deny", "result">>>>

(* Fault: the paths of an intent and its result are swapped.               *)
ContentOfSwapped(name, d) ==
    LET intent == ScenarioIntent(name[1], d, DEMO_BASIS)
    IN  IF name[2] = "result" THEN EmitPayload(intent)
        ELSE EncodeResult(Predict(intent, DEMO_BASIS))

ContentOf(name, d) ==
    LET intent == ScenarioIntent(name[1], d, DEMO_BASIS)
    IN  IF name[2] = "intent" THEN EmitPayload(intent)
        ELSE EncodeResult(Predict(intent, DEMO_BASIS))

(* The files when the first n were written, and the next one was begun or  *)
(* not.                                                                    *)
FilesAfter(n, begun, d) ==
    [scenario \in Scenarios |->
        [part \in {"intent", "result"} |->
            LET i == CHOOSE i \in 1 .. 4 : FileOrder[i] = <<scenario, part>>
                bytes == ContentOf(<<scenario, part>>, d)
            IN  IF i <= n THEN {bytes}
                ELSE IF i = n + 1 /\ begun THEN {[bytes EXCEPT !.shape = "Cut"]}
                ELSE {}]]

Summarised(d) ==
    LET intent == ScenarioIntent("Allow", d, DEMO_BASIS)
    IN  [allow_amount_lovelace |-> intent.requested_amount_lovelace,
         allow_intent_id |-> IntentId(intent)]

-----------------------------------------------------------------------------
(* verify_live_bundle.rs                                                   *)

(* Fault: the default basis is not that of the builder.                    *)
BundleArgsOfTheFixture(staged, tx_hash, height) ==
    [intent_path |-> staged.intent, auth_path |-> staged.result,
     tx_hash |-> tx_hash, committed_height |-> height,
     allocation_basis_lovelace |-> FIXTURE_AMOUNT]

(* The arguments demo.sh gives: no basis, which has a default, and a       *)
(* transaction only for the allow scenario.  Some(tx_hash) is {tx_hash}.   *)
BundleArgs(staged, tx_hash, height) ==
    [intent_path |-> staged.intent, auth_path |-> staged.result,
     tx_hash |-> tx_hash, committed_height |-> height,
     allocation_basis_lovelace |-> DEMO_BASIS]

Exit(code) == [exit |-> code, evidence |-> {}]

ExecutionOf(result, tx_hash) ==
    IF result.verdict = "Authorized"
    THEN Settled(CHOOSE h \in tx_hash : TRUE)
    ELSE DeniedUpstream(result.reason, result.gate)

Assemble(intent, result, args) ==
    AssembleEvidence(intent,
                     CommittedReceipt(IntentId(intent), args.committed_height, result),
                     ExecutionOf(result, args.tx_hash), args.allocation_basis_lovelace,
                     intent.oracle_provenance.timestamp_unix)

Report(evidence) ==
    [exit |-> IF IsOk(VerifyEvidence(evidence)) THEN 0 ELSE 1, evidence |-> {evidence}]

(* The transaction of a denial is not looked at.                           *)
VerifyLiveBundle(args) ==
    IF \/ args.intent_path = {} \/ args.auth_path = {}
       \/ \E bytes \in args.intent_path \cup args.auth_path : Decode(bytes).result = "Err"
    THEN Exit(1)
    ELSE LET intent == CHOOSE i \in {DecodeIntent(b).value : b \in args.intent_path} : TRUE
             result == CHOOSE a \in {DecodeResult(b).value : b \in args.auth_path} : TRUE
         IN  IF result.verdict = "Authorized" /\ args.tx_hash = {} THEN Exit(2)
             ELSE Report(Assemble(intent, result, args))

-----------------------------------------------------------------------------

DatumAt(price, created) ==
    [fact |-> [price_microusd |-> price],
     provenance |-> [timestamp_unix |-> created, expiry_unix |-> created + Validity,
                     aggregator_utxo_ref |-> Template.oracle_provenance.aggregator_utxo_ref]]

Init ==
    /\ step = "Readiness"
    /\ options \in [dry : BOOLEAN, fast : BOOLEAN]
    /\ pull = "fallback"
    /\ now \in 0 .. MaxNow
    /\ \E price \in Prices : datum = DatumAt(price, 0)
    /\ snapshot \in Snapshots
    /\ files = NoFiles
    /\ kv = {}
    /\ committed = [scenario \in Scenarios |-> {}]
    /\ ok = [scenario \in Scenarios |-> FALSE]
    /\ ledger = {}
    /\ tx_id = {}
    /\ live = [scenario \in Scenarios |-> {}]
    /\ rotation = {}

(* The probes pass or not, and a presenter may still choose the fallback.  *)
Readiness ==
    /\ step = "Readiness"
    /\ pull' \in IF options.dry \/ options.fast THEN {"fallback"} ELSE {"fallback", "live"}
    /\ step' = "Pull"
    /\ UNCHANGED <<now, chain, setting, files, kv, devnet, tx_id, live, rotation>>

(* The aggregation lands or does not; its exit code is masked, and what is *)
(* on chain then is read.                                                  *)
Pull ==
    /\ step = "Pull"
    /\ \/ /\ pull = "live"
          /\ \E price \in Prices : datum' = DatumAt(price, now)
       \/ UNCHANGED datum
    /\ step' = IF options.dry THEN "Settle" ELSE "Build"
    /\ UNCHANGED <<pull, now, ledger, setting, files, kv, devnet, tx_id, live, rotation>>

(* setup_smoke_workdir and load_live_kv: when the builder fails, after any *)
(* number of its files and also while it prints its summary, there is only *)
(* a warning and the summary is not read.                                  *)
BuildScenarios ==
    /\ step = "Build"
    /\ \/ /\ files' = FilesAfter(4, FALSE, datum)
          /\ kv' = {Summarised(datum)}
       \/ /\ \E n \in 0 .. 4, begun \in BOOLEAN : files' = FilesAfter(n, begun, datum)
          /\ UNCHANGED kv
    /\ step' = "RunAllow"
    /\ UNCHANGED <<pull, now, chain, setting, devnet, tx_id, live, rotation>>

(* smoke.sh: a fresh devnet commits the staged intent, and the run passes  *)
(* only when the committed bytes are those of the staged result.           *)
Run(scenario) ==
    \/ UNCHANGED <<now, devnet>>
    \/ \E bytes \in files[scenario].intent, at \in now .. MaxNow :
          /\ DecodeIntent(bytes).result = "Ok"
          /\ now' = at
          /\ LET result == AuthorizeDisbursement(DecodeIntent(bytes).value, snapshot, at)
             IN  /\ committed' = [committed EXCEPT ![scenario] = {result}]
                 /\ ok' = [ok EXCEPT ![scenario] =
                               files[scenario].result = {EncodeResult(result)}]

RunAllow ==
    /\ step = "RunAllow"
    /\ Run("Allow")
    /\ step' = "RunDeny"
    /\ UNCHANGED <<pull, chain, setting, files, kv, tx_id, live, rotation>>

RunDeny ==
    /\ step = "RunDeny"
    /\ Run("Deny")
    /\ step' = "Settle"
    /\ UNCHANGED <<pull, chain, setting, files, kv, tx_id, live, rotation>>

-----------------------------------------------------------------------------

(* Fault: the allow scenario need not have passed.                         *)
MaySettleUnapproved == ~options.dry

(* The verdict of the allow scenario is not looked at.                     *)
MaySettle == ~options.dry /\ ok["Allow"]

(* The live amount and id, or those of the fixtures when there are none.   *)
(* The destination is the script's own, and not that of any effect.        *)
Payment(tx_hash) ==
    [tx_hash |-> tx_hash,
     destination |-> RECEIVER,
     amount_lovelace |-> IF kv = {} THEN FIXTURE_AMOUNT
                         ELSE CHOOSE a \in {k.allow_amount_lovelace : k \in kv} : TRUE,
     intent_id |-> IF kv = {} THEN PLACEHOLDER_ID
                   ELSE CHOOSE i \in {k.allow_intent_id : k \in kv} : TRUE]

(* The helper's failure is masked: what it submitted is known only if it   *)
(* printed the id.                                                         *)
Settle ==
    /\ step = "Settle"
    /\ \/ UNCHANGED <<ledger, tx_id>>
       \/ /\ MaySettle
          /\ \E tx_hash \in TxHashes :
                /\ ledger' = ledger \cup {Payment(tx_hash)}
                /\ tx_id' \in {{}, {tx_hash}}
    /\ step' = "AllowBundle"
    /\ UNCHANGED <<pull, now, datum, setting, files, kv, devnet, live, rotation>>

(* A fresh devnet commits its first block.                                 *)
HeightOf(scenario) == IF ok[scenario] THEN {1} ELSE {}

AllowBundle ==
    /\ step = "AllowBundle"
    /\ live' = [live EXCEPT !["Allow"] =
          {VerifyLiveBundle(BundleArgs(files["Allow"], tx_id, height)) :
              height \in IF tx_id # {} THEN HeightOf("Allow") ELSE {}}]
    /\ step' = "DenyBundle"
    /\ UNCHANGED <<pull, now, chain, setting, files, kv, devnet, tx_id, rotation>>

(* Fault: the bundle is made whether consensus passed or not.              *)
AlwaysDenyBundle ==
    /\ step = "DenyBundle"
    /\ live' = [live EXCEPT !["Deny"] = {VerifyLiveBundle(BundleArgs(files["Deny"], {}, 1))}]
    /\ step' = "Rotate"
    /\ UNCHANGED <<pull, now, chain, setting, files, kv, devnet, tx_id, rotation>>

DenyBundle ==
    /\ step = "DenyBundle"
    /\ live' = [live EXCEPT !["Deny"] =
          {VerifyLiveBundle(BundleArgs(files["Deny"], {}, height)) : height \in HeightOf("Deny")}]
    /\ step' = "Rotate"
    /\ UNCHANGED <<pull, now, chain, setting, files, kv, devnet, tx_id, rotation>>

(* --rotate is read here only.  No failure of this step is masked: the     *)
(* script ends with it, before the summary.                                *)
Rotate ==
    /\ step = "Rotate"
    /\ \/ step' = "Summary" /\ UNCHANGED rotation
       \/ \E document \in PolicyDocuments :
             LET shown == ShowPolicyRef(document, ROTATED_CAP)
             IN  /\ rotation' = {[document |-> document, shown |-> shown]}
                 /\ step' = IF shown.exit = 0 THEN "Summary" ELSE "Aborted"
    /\ UNCHANGED <<pull, now, chain, setting, files, kv, devnet, tx_id, live>>

(* The summary says CLEAN whatever the bundles gave.                       *)
Summary ==
    /\ step = "Summary"
    /\ step' = "Done"
    /\ UNCHANGED <<pull, now, chain, setting, files, kv, devnet, tx_id, live, rotation>>

Next ==
    \/ Readiness
    \/ Pull
    \/ BuildScenarios
    \/ RunAllow
    \/ RunDeny
    \/ Settle
    \/ AllowBundle
    \/ DenyBundle
    \/ Rotate
    \/ Summary

Spec == Init /\ [][Next]_vars

-----------------------------------------------------------------------------
(* Safety                                                                  *)

FilesTyped(scenario) ==
    /\ files[scenario].intent \subseteq Bytes(DisbursementIntents)
    /\ files[scenario].result \subseteq Bytes(AuthorizationResults)

TypeOK ==
    /\ step \in Steps
    /\ options \in [dry : BOOLEAN, fast : BOOLEAN]
    /\ pull \in {"fallback", "live"}
    /\ now \in 0 .. MaxNow
    /\ datum.fact \in OracleFactEval /\ datum.provenance \in OracleFactProvenance
    /\ snapshot \in Snapshots
    /\ \A scenario \in Scenarios :
          /\ FilesTyped(scenario)
          /\ committed[scenario] \subseteq AuthorizationResults
          /\ ok[scenario] \in BOOLEAN
          /\ \A l \in live[scenario] :
                l.exit \in 0 .. 2 /\ l.evidence \subseteq DisbursementEvidence
    /\ \A tx \in ledger : /\ tx.tx_hash \in TxHashes /\ tx.amount_lovelace \in U64
                          /\ tx.destination \in Addresses
    /\ tx_id \subseteq TxHashes
    /\ \A r \in rotation : r.document \in PolicyDocuments /\ r.shown.exit \in {0, 1}

(* A payment follows a commit of the allow scenario whose result is the    *)
(* predicted one, and when the builder finished and that result is a grant *)
(* the payment has its amount and the id of its intent.  It goes to the    *)
(* receiver of the script, whichever destination consensus approved        *)
(* (demo.sh, build_live_scenario.rs).                                      *)
PaymentFollowsConsensus ==
    \A tx \in ledger :
        /\ tx.destination = RECEIVER
        /\ \E result \in committed["Allow"] :
              /\ files["Allow"].result = {Encode(result)}
              /\ kv # {} /\ result.verdict = "Authorized" =>
                    /\ tx.amount_lovelace = result.effect.authorized_amount_lovelace
                    /\ \A bytes \in files["Allow"].intent :
                          tx.intent_id = IntentId(bytes.value)

(* No bundle that was made is refused for want of a transaction or        *)
(* diverges on replay: its record has the datum's own time and the         *)
(* verifier's default basis, not those of the commit (demo.sh,             *)
(* verify_live_bundle.rs, replay.rs).                                      *)
LiveBundlesAreClean ==
    \A scenario \in Scenarios : \A l \in live[scenario] : l.exit = 0

(* The CLEAN of the summary, which looks at no bundle, is true of each     *)
(* that was made, and each records what this run's consensus committed,    *)
(* and a transaction only if the pool made it, whomever it pays (demo.sh,  *)
(* verify_live_bundle.rs).                                                 *)
LiveBundlesAreOfThisRun ==
    /\ LiveBundlesAreClean
    /\ \A scenario \in Scenarios : \A l \in live[scenario] :
          \A record \in l.evidence :
              /\ committed[scenario] = {record.authorization}
              /\ record.execution.outcome = "Settled" =>
                    \E tx \in ledger : tx.tx_hash = record.execution.tx_hash

(* When the cap is one ADA or more, the allow scenario is within it and    *)
(* the deny scenario beyond it.  The exception is a cap that is not below  *)
(* the last whole ADA of the u64: there the sum that would exceed the cap  *)
(* wraps and the deny scenario asks for what is granted                    *)
(* (build_live_scenario.rs).                                               *)
ScenariosStraddleTheCap ==
    \A basis \in U64 :
        LET price == datum.fact.price_microusd
            cap == CapOf(basis, price)
        IN  ONE_ADA <= cap =>
                /\ IsReleasable(PickAmount("Allow", cap), basis, price)
                /\ IsReleasable(PickAmount("Deny", cap), basis, price)
                      <=> WholeAda(U64Max) <= cap

(* Consensus reproduces the prediction unless the datum had expired at the *)
(* commit or the validators were configured otherwise than the builder     *)
(* assumes (build_live_scenario.rs, authorize.rs).                         *)
PredictionIsReproduced ==
    \A scenario \in Scenarios :
        \A result \in committed[scenario] : \A bytes \in files[scenario].result :
            \/ bytes.shape # "Exact"
            \/ bytes.value = result
            \/ result = Denied("OracleStale", "Grant")
                  /\ now >= datum.provenance.expiry_unix
            \/ snapshot # [policies |-> {Template.policy_ref},
                           allocations |-> [id \in {Template.allocation_id} |->
                               [basis_lovelace |-> DEMO_BASIS,
                                authorized_subjects |-> {Template.requester_id},
                                approved_asset |-> Template.asset,
                                approved_destinations |-> {Template.destination}]]]

(* The identity of a policy is what its document stands for: the rotated   *)
(* one differs unless the document already had the new cap, and documents  *)
(* have the identity that is shown exactly if they say the same, however   *)
(* their members are ordered, repeated or escaped: the parser resolves     *)
(* escapes, against what TextsKeepTheirSpelling states (policy.rs,         *)
(* show_policy_ref.rs).                                                    *)
RotationIsObservable ==
    \A r \in rotation : r.shown.exit = 0 =>
        /\ r.shown.changed <=>
              Says(r.document, RELEASE_CAP_BASIS_POINTS)
                  # {[kind |-> "Integer", value |-> ROTATED_CAP]}
        /\ \A other \in PolicyDocuments :
              LET canonical == CanonicalizePolicyJson(other)
              IN  canonical.result = "Ok" =>
                      (DerivePolicyRef(canonical.value) = r.shown.original
                          <=> SayTheSame(other, r.document))

-----------------------------------------------------------------------------
(* Refuted                                                                 *)

(* The comments of demo.sh say that the transaction carries the amount     *)
(* consensus just approved and the real intent id, and no placeholder.     *)
PaymentIsApproved ==
    \A tx \in ledger :
        \E result \in committed["Allow"] :
            /\ result.verdict = "Authorized"
            /\ tx.amount_lovelace = result.effect.authorized_amount_lovelace
            /\ \A bytes \in files["Allow"].intent : tx.intent_id = IntentId(bytes.value)

(* The banner of demo.sh says that settlement executes the effect of an    *)
(* authorized result verbatim: it pays the effect's destination.           *)
EffectIsPaidVerbatim ==
    \A tx \in ledger : \A result \in committed["Allow"] :
        result.verdict = "Authorized" => tx.destination = result.effect.destination

(* docs/policy-canonicalization.md says that texts keep the representation *)
(* they have in the input: documents of one identity spell them alike.     *)
TextsKeepTheirSpelling ==
    \A r \in rotation : r.shown.exit = 0 =>
        \A other \in PolicyDocuments :
            LET canonical == CanonicalizePolicyJson(other)
            IN  /\ canonical.result = "Ok"
                /\ DerivePolicyRef(canonical.value) = r.shown.original
                => SpellTheSame(other, r.document)

=============================================================================
