------------------------------ MODULE Submission ------------------------------
(***************************************************************************)
(* The shell of crates/oracleguard-adapter around consensus: several       *)
(* requests write their payload files, run the Ziranity CLI on them, read  *)
(* its frames, settle what was authorized from the transaction files of    *)
(* cardano-cli, and leave bundles the verifier's program walks through.    *)
(*                                                                         *)
(* The CLI, the consensus, cardano-cli and the operator who signs the      *)
(* transactions are external.  Payload files are written in place, and     *)
(* requests may have been given the same path.                             *)
(***************************************************************************)
EXTENDS Wire

CONSTANTS
    Requests,         \* submissions the adapter runs side by side
    IntentOf(_),      \* the intent of a request
    PathOf(_),        \* where its payload is written
    Snapshot,         \* the validators' configuration
    CommitTimes,      \* the times blocks are committed at
    MaxSubmissions(_) \* bound on the submissions of a request

Paths == {PathOf(r) : r \in Requests}

ASSUME SubmissionAssumption ==
    /\ IsFiniteSet(Requests)
    /\ IsConfigSnapshot(Snapshot)
    /\ \A r \in Requests : IntentOf(r) \in DisbursementIntents
    /\ CommitTimes \subseteq U64 /\ CommitTimes # {}
    /\ \A r \in Requests : MaxSubmissions(r) \in Nat \ {0}

Intents == {IntentOf(r) : r \in Requests}

Steps == {"Idle", "Writing", "Written", "Waiting", "Answered", "Received",
          "Fulfilled", "Saved", "Failed"}

VARIABLES
    file,         \* the payload files
    step,         \* where each request is
    submissions,  \* how often it was submitted
    args,         \* the command line of its CLI
    sent,         \* the payload the CLI read
    mempool,      \* payloads submitted and not yet committed
    chain,        \* the committed decisions, with their heights
    stdout,       \* what the CLI printed
    receipt,      \* what was parsed from it
    signed,       \* the signed transactions, by path
    outcome,      \* what fulfill returned
    bundle        \* the bundle file of each request

submission == <<file, submissions, args>>
cli == <<sent, stdout>>
consensus == <<mempool, chain>>
settlement == <<receipt, signed, outcome>>
vars == <<step, submission, cli, consensus, settlement, bundle>>

(* An absent value is the empty set, and a present one the set of it.      *)
Init ==
    /\ file = [p \in Paths |-> {}]
    /\ step = [r \in Requests |-> "Idle"]
    /\ submissions = [r \in Requests |-> 0]
    /\ args = [r \in Requests |-> {}]
    /\ sent = [r \in Requests |-> {}]
    /\ mempool = {}
    /\ chain = {}
    /\ stdout = [r \in Requests |-> {}]
    /\ receipt = [r \in Requests |-> {}]
    /\ signed = {}
    /\ outcome = [r \in Requests |-> {}]
    /\ bundle = [r \in Requests |-> {}]

MoveTo(r, next) == step' = [step EXCEPT ![r] = next]

-----------------------------------------------------------------------------
(* write_payload_to_file: std::fs::write empties the file and fills it     *)

Truncate(r) ==
    /\ step[r] = "Idle"
    /\ submissions[r] < MaxSubmissions(r)
    /\ submissions' = [submissions EXCEPT ![r] = @ + 1]
    /\ file' = [file EXCEPT ![PathOf(r)] = {Cut(IntentOf(r))}]
    /\ MoveTo(r, "Writing")
    /\ UNCHANGED <<args, cli, consensus, settlement, bundle>>

(* What another request wrote meanwhile shows behind a shorter payload.    *)
Written(r) ==
    {EmitPayload(IntentOf(r))} \cup
        {Trailing(IntentOf(r)) : bytes \in {b \in file[PathOf(r)] : b.shape # "Cut"}}

FinishWrite(r) ==
    /\ step[r] = "Writing"
    /\ \E bytes \in Written(r) : file' = [file EXCEPT ![PathOf(r)] = {bytes}]
    /\ MoveTo(r, "Written")
    /\ UNCHANGED <<submissions, args, cli, consensus, settlement, bundle>>

(* WritePayloadError::Io                                                   *)
WriteFails(r) ==
    /\ step[r] = "Writing"
    /\ MoveTo(r, "Failed")
    /\ UNCHANGED <<submission, cli, consensus, settlement, bundle>>

-----------------------------------------------------------------------------
(* submit_intent, and the CLI it waits for                                 *)

Spawn(r) ==
    /\ step[r] = "Written"
    /\ args' = [args EXCEPT ![r] = {BuildCliArgs(NewMvp(PathOf(r)))}]
    /\ sent' = [sent EXCEPT ![r] = {}]
    /\ MoveTo(r, "Waiting")
    /\ UNCHANGED <<file, submissions, stdout, consensus, settlement, bundle>>

(* SubmitError::Spawn                                                      *)
SpawnFails(r) ==
    /\ step[r] = "Written"
    /\ MoveTo(r, "Failed")
    /\ UNCHANGED <<submission, cli, consensus, settlement, bundle>>

(* The CLI reads the file as it then is, and submits it.                   *)
CliSends(r) ==
    /\ step[r] = "Waiting"
    /\ sent[r] = {}
    /\ \E a \in args[r] : sent' = [sent EXCEPT ![r] = file[a.payload]]
    /\ mempool' = mempool \cup sent'[r]
    /\ UNCHANGED <<step, submission, stdout, chain, settlement, bundle>>

(* The handler decodes the payload and decides; a payload that does not    *)
(* decode is never committed.                                              *)
Commit ==
    /\ \E payload \in mempool, now \in CommitTimes :
          /\ mempool' = mempool \ {payload}
          /\ IF DecodeIntent(payload).result = "Ok"
             THEN LET intent == DecodeIntent(payload).value
                  IN  chain' = chain \cup
                         {[intent |-> intent, height |-> Cardinality(chain) + 1, now |-> now,
                           output |-> AuthorizeDisbursement(intent, Snapshot, now)]}
             ELSE UNCHANGED chain
    /\ UNCHANGED <<step, submission, cli, settlement, bundle>>

Receipts(payload) ==
    {CommittedReceipt(IntentId(d.intent), d.height, d.output) :
        d \in {c \in chain : Encode(c.intent) = payload}}

(* The output of a pending receipt is none yet, and has to say something.  *)
Pending(payload) ==
    PendingReceipt(IntentId(payload.value),
                   AuthorizeDisbursement(payload.value, Snapshot,
                                         payload.value.oracle_provenance.timestamp_unix))

Prints(r, frame) ==
    /\ stdout' = [stdout EXCEPT ![r] = {frame}]
    /\ MoveTo(r, "Answered")
    /\ UNCHANGED <<submission, sent, consensus, settlement, bundle>>

CliReports(r) ==
    /\ step[r] = "Waiting"
    /\ \E payload \in sent[r] : \E committed \in Receipts(payload) :
          Prints(r, RenderCliReceipt(committed))

(* The wait is over; only the argument of the command line ends it.  There *)
(* is no receipt for a payload no node could decode.                       *)
CliTimesOut(r) ==
    /\ step[r] = "Waiting"
    /\ \E a \in args[r] : a.wait_timeout # {}
    /\ \E payload \in sent[r] :
          \/ /\ DecodeIntent(payload).result = "Ok"
             /\ Receipts(payload) = {}
             /\ Prints(r, RenderCliReceipt(Pending(payload)))
          \/ /\ DecodeIntent(payload).result = "Err"
             /\ MoveTo(r, "Failed")
             /\ UNCHANGED <<submission, cli, consensus, settlement, bundle>>

(* Something else reaches standard output.                                 *)
CliGarbles(r) ==
    /\ step[r] = "Waiting"
    /\ \E payload \in sent[r] :
          \E frame \in Damaged(RenderCliReceipt(Pending(payload))) : Prints(r, frame)

(* SubmitError::NonZeroExit                                                *)
CliFails(r) ==
    /\ step[r] = "Waiting"
    /\ MoveTo(r, "Failed")
    /\ UNCHANGED <<submission, cli, consensus, settlement, bundle>>

Receive(r) ==
    /\ step[r] = "Answered"
    /\ \E frame \in stdout[r] :
          \/ /\ ParseCliReceipt(frame).result = "Ok"
             /\ receipt' = [receipt EXCEPT ![r] = {ParseCliReceipt(frame).value}]
             /\ MoveTo(r, "Received")
          \/ /\ ParseCliReceipt(frame).result = "Err"
             /\ MoveTo(r, "Failed")
             /\ UNCHANGED receipt
    /\ sent' = [sent EXCEPT ![r] = {}]
    /\ stdout' = [stdout EXCEPT ![r] = {}]
    /\ UNCHANGED <<submission, consensus, signed, outcome, bundle>>

(* After an error, or a refusal of a pending receipt, the operator submits *)
(* again.                                                                  *)
MayResubmit(r) ==
    \/ step[r] = "Failed"
    \/ step[r] = "Fulfilled" /\ outcome[r] = {RejectedAtFulfillment("ReceiptNotCommitted")}

Resubmit(r) ==
    /\ MayResubmit(r)
    /\ submissions[r] < MaxSubmissions(r)
    /\ receipt' = [receipt EXCEPT ![r] = {}]
    /\ outcome' = [outcome EXCEPT ![r] = {}]
    /\ MoveTo(r, "Idle")
    /\ UNCHANGED <<submission, cli, consensus, signed, bundle>>

-----------------------------------------------------------------------------
(* fulfill with the cardano-cli backend, which builds and submits nothing  *)

TxOf(request) == {s.tx_hash : s \in {t \in signed : t.path = SignedTxPathFor(request)}}

(* The operator signs a transaction for a request and leaves its file in   *)
(* the working directory; one that is there already stays.                 *)
SignTransaction(r) ==
    /\ \E held \in receipt[r] :
          /\ ReachesBackend(held)
          /\ TxOf(RequestOf(held)) = {}
          /\ \E tx_hash \in TxHashes \ {s.tx_hash : s \in signed} :
                signed' = signed \cup {[path |-> SignedTxPathFor(RequestOf(held)),
                                        tx_hash |-> tx_hash]}
    /\ UNCHANGED <<step, submission, cli, consensus, receipt, outcome, bundle>>

FulfillWithoutBackend(r) ==
    /\ step[r] = "Received"
    /\ \E held \in receipt[r] :
          /\ ~ReachesBackend(held)
          /\ outcome' = [outcome EXCEPT ![r] = {OutcomeWithoutBackend(held)}]
    /\ MoveTo(r, "Fulfilled")
    /\ UNCHANGED <<submission, cli, consensus, receipt, signed, bundle>>

FulfillFromSignedFile(r) ==
    /\ step[r] = "Received"
    /\ \E held \in receipt[r] :
          /\ ReachesBackend(held)
          /\ \E tx_hash \in TxOf(RequestOf(held)) : \E text \in TxidOutputs(tx_hash) :
                LET parsed == ParseCliTxidStdout(text)
                IN  \/ /\ parsed.result = "Ok"
                       /\ outcome' = [outcome EXCEPT ![r] = {Settled(parsed.value)}]
                       /\ MoveTo(r, "Fulfilled")
                    \/ /\ parsed.result = "Err"
                       /\ MoveTo(r, "Failed")
                       /\ UNCHANGED outcome
    /\ UNCHANGED <<submission, cli, consensus, receipt, signed, bundle>>

(* cardano-cli cannot be run, or fails, as it does when there is no file.  *)
BackendFails(r) ==
    /\ step[r] = "Received"
    /\ \E held \in receipt[r] : ReachesBackend(held)
    /\ MoveTo(r, "Failed")
    /\ UNCHANGED <<submission, cli, consensus, settlement, bundle>>

-----------------------------------------------------------------------------
(* Evidence                                                                *)

(* Fault: the id of the receipt is not compared with that of the intent.   *)
MayAssembleAny(r) == step[r] = "Fulfilled"

MayAssemble(r) ==
    /\ step[r] = "Fulfilled"
    /\ \E held \in receipt[r] : CanAssemble(IntentOf(r), held)

(* The basis is the allocation's, and a number when there is none.         *)
BasisFor(r) ==
    IF IntentOf(r).allocation_id \in DOMAIN Snapshot.allocations
    THEN BasisOf(IntentOf(r), Snapshot) ELSE 0

(* The record is assembled, and its file written: a write that is broken   *)
(* off leaves a part of it.                                                *)
SaveBundle(r) ==
    /\ MayAssemble(r)
    /\ \E held \in receipt[r], reported \in outcome[r] :
          LET record == AssembleEvidence(IntentOf(r), held, reported,
                                         BasisFor(r), IntentOf(r).oracle_provenance.timestamp_unix)
          IN  \E bytes \in {EncodeEvidence(record), Cut(record)} :
                 bundle' = [bundle EXCEPT ![r] = {bytes}]
    /\ MoveTo(r, "Saved")
    /\ UNCHANGED <<submission, cli, consensus, settlement>>

(* AssembleError::IntentIdMismatch                                         *)
AssemblyFails(r) ==
    /\ step[r] = "Fulfilled"
    /\ \E held \in receipt[r] : ~CanAssemble(IntentOf(r), held)
    /\ MoveTo(r, "Failed")
    /\ UNCHANGED <<submission, cli, consensus, settlement, bundle>>

-----------------------------------------------------------------------------

Next ==
    \/ Commit
    \/ \E r \in Requests :
          \/ Truncate(r)
          \/ FinishWrite(r)
          \/ WriteFails(r)
          \/ Spawn(r)
          \/ SpawnFails(r)
          \/ CliSends(r)
          \/ CliReports(r)
          \/ CliTimesOut(r)
          \/ CliGarbles(r)
          \/ CliFails(r)
          \/ Receive(r)
          \/ Resubmit(r)
          \/ SignTransaction(r)
          \/ FulfillWithoutBackend(r)
          \/ FulfillFromSignedFile(r)
          \/ BackendFails(r)
          \/ SaveBundle(r)
          \/ AssemblyFails(r)

Spec == Init /\ [][Next]_vars

(* The CLI reads its payload, and answers when the payload is committed or *)
(* the wait it was given is over.  Nothing makes consensus decide.         *)
Fairness ==
    \A r \in Requests :
        /\ WF_vars(CliSends(r))
        /\ WF_vars(CliReports(r) \/ CliTimesOut(r))

FairSpec == Spec /\ Fairness

-----------------------------------------------------------------------------
(* Safety                                                                  *)

TypeOK ==
    /\ file \in [Paths -> SUBSET Bytes(Intents)]
    /\ step \in [Requests -> Steps]
    /\ \A r \in Requests : submissions[r] \in 0 .. MaxSubmissions(r)
    /\ mempool \subseteq Bytes(Intents)
    /\ \A d \in chain : d.intent \in Intents /\ d.output \in AuthorizationResults
    /\ \A r \in Requests : sent[r] \subseteq Bytes(Intents)
    /\ \A r \in Requests : receipt[r] \subseteq IntentReceipts
    /\ \A r \in Requests : outcome[r] \subseteq FulfillmentOutcomes
    /\ \A r \in Requests : bundle[r] \subseteq Bytes(DisbursementEvidence)

Holds(r, id) == \E held \in receipt[r] : held.intent_id = id

(* Whatever became of the payload files, the frames and the retries, an    *)
(* outcome other than the refusal of a pending receipt is the one          *)
(* consensus committed for the id of the receipt: no transaction without   *)
(* its authorization, no denial but with its own reason (intake.rs,        *)
(* settlement.rs).                                                         *)
OutcomeIsCommitted ==
    \A r \in Requests : \A o \in outcome[r] :
        o # RejectedAtFulfillment("ReceiptNotCommitted") =>
            \E d \in chain :
                /\ Holds(r, IntentId(d.intent))
                /\ IF d.output.verdict = "Authorized"
                   THEN /\ Permitted(d.intent, Snapshot, d.now)
                        /\ IF d.intent.asset = ADA THEN o.outcome = "Settled"
                           ELSE o = RejectedAtFulfillment("NonAdaAsset")
                   ELSE o = DeniedUpstream(d.output.reason, d.output.gate)

SettledAs(r, id, tx_hash) == Holds(r, id) /\ Settled(tx_hash) \in outcome[r]

(* Two requests whose receipts have one id report one transaction, also    *)
(* when one of them took the other's payload, and requests of different    *)
(* ids report different ones (cardano.rs).                                 *)
OneTransactionPerId ==
    \A r, s \in Requests : \A t, u \in TxHashes : \A i, j \in {IntentId(x) : x \in Intents} :
        SettledAs(r, i, t) /\ SettledAs(s, j, u) => (i = j <=> t = u)

(* A record is of the intent of its own request and of a decision that was *)
(* committed for that intent's id, also when the CLI read another payload  *)
(* from a shared path (artifacts.rs, ziranity_submit.rs).                  *)
RecordsAreOfTheirRequests ==
    \A r \in Requests : \A bytes \in bundle[r] :
        LET record == bytes.value
        IN  /\ record.intent = IntentOf(r)
            /\ record.committed_height # 0 =>
                  \E d \in chain :
                      /\ IntentId(d.intent) = IntentId(IntentOf(r))
                      /\ d.height = record.committed_height
                      /\ d.output = record.authorization

(* The walk through the bundles exits with 0 only when every request left  *)
(* a whole record, and each of them is of its request (verify_bundles.rs,  *)
(* bundle.rs).                                                             *)
CleanWalkIsComplete ==
    VerifyBundles(bundle) = 0 =>
        \A r \in Requests :
            /\ bundle[r] # {}
            /\ \A bytes \in bundle[r] :
                  /\ bytes.shape = "Exact"
                  /\ bytes.value.intent_id = IntentId(IntentOf(r))
                  /\ CrossFieldInvariants(bytes.value)

-----------------------------------------------------------------------------
(* Liveness                                                                *)

(* submit_intent has no time limit of its own and still returns, also when *)
(* consensus never decides (ziranity_submit.rs).                           *)
SubmissionEnds ==
    \A r \in Requests : step[r] = "Waiting" ~> step[r] # "Waiting"

=============================================================================
