---------------------------- MODULE SubmissionProofs ----------------------------
(***************************************************************************)
(* The shell of the adapter around consensus, for any number of requests,  *)
(* any sharing of payload paths and any number of retries: what a request  *)
(* reports and records is what was committed for the id of its receipt.    *)
(***************************************************************************)
EXTENDS Submission, DecisionProofs, FiniteSetTheorems

-----------------------------------------------------------------------------
(* The inductive invariant                                                 *)

Payloads == Bytes(Intents)

Frames ==
    [whole : BOOLEAN,
     intent_id : IntentIds,
     status : StatusBytes,
     committed_height : Nat,
     counted : BOOLEAN,
     output : Bytes(AuthorizationResults)]

Typed ==
    /\ file \in [Paths -> SUBSET Payloads]
    /\ step \in [Requests -> Steps]
    /\ submissions \in [Requests -> Nat]
    /\ \A r \in Requests : submissions[r] <= MaxSubmissions(r)
    /\ args \in [Requests -> SUBSET {BuildCliArgs(NewMvp(path)) : path \in Paths}]
    /\ sent \in [Requests -> SUBSET Payloads]
    /\ mempool \subseteq Payloads
    /\ stdout \in [Requests -> SUBSET Frames]
    /\ receipt \in [Requests -> SUBSET IntentReceipts]
    /\ outcome \in [Requests -> SUBSET FulfillmentOutcomes]
    /\ bundle \in [Requests -> SUBSET Bytes(DisbursementEvidence)]

(* What consensus commits is the decision of the closure.                  *)
IsDecision(d) ==
    /\ d.intent \in Intents
    /\ d.height \in Nat \ {0}
    /\ d.now \in CommitTimes
    /\ d.output = AuthorizeDisbursement(d.intent, Snapshot, d.now)

ChainIsDecided == IsFiniteSet(chain) /\ \A d \in chain : IsDecision(d)

(* What a frame can bring: a decision of the chain, or no decision yet.    *)
IsCommittedAs(held, d) == held = CommittedReceipt(IntentId(d.intent), d.height, d.output)

IsAnswer(held) ==
    \/ held.status = "Pending" /\ held.committed_height = 0
    \/ \E d \in chain : IsCommittedAs(held, d)

FramesAreAnswers ==
    \A r \in Requests : \A frame \in stdout[r] :
        ParseCliReceipt(frame).result = "Ok" =>
            /\ ParseCliReceipt(frame).value \in IntentReceipts
            /\ IsAnswer(ParseCliReceipt(frame).value)

ReceiptsAreAnswers ==
    \A r \in Requests : \A held \in receipt[r] : IsAnswer(held) /\ receipt[r] = {held}

(* There is one transaction for a path, and one path for a transaction.    *)
SignedOnce ==
    /\ \A s \in signed : s.tx_hash \in TxHashes
    /\ \A s, t \in signed : s.path = t.path <=> s.tx_hash = t.tx_hash

(* An outcome is that of the receipt, and a receipt that may still change  *)
(* has none.                                                               *)
FollowsReceipt(o, held) ==
    IF ReachesBackend(held)
    THEN \E s \in signed : s.path = SignedTxPathFor(RequestOf(held)) /\ o = Settled(s.tx_hash)
    ELSE o = OutcomeWithoutBackend(held)

OutcomesFollowReceipts ==
    \A r \in Requests : \A o \in outcome[r] :
        /\ step[r] \in {"Fulfilled", "Saved", "Failed"}
        /\ \E held \in receipt[r] : FollowsReceipt(o, held)

(* A record is of its request and of what was committed for its id.        *)
IsRecordOf(record, r) ==
    /\ record.intent = IntentOf(r)
    /\ record.intent_id = IntentId(IntentOf(r))
    /\ record.committed_height # 0 =>
          \E d \in chain :
              /\ IntentId(d.intent) = IntentId(IntentOf(r))
              /\ d.height = record.committed_height
              /\ d.output = record.authorization

BundlesAreRecords ==
    \A r \in Requests : \A bytes \in bundle[r] :
        /\ IsRecordOf(bytes.value, r)
        /\ bundle[r] = {bytes}

IInv ==
    /\ Typed
    /\ ChainIsDecided
    /\ FramesAreAnswers
    /\ ReceiptsAreAnswers
    /\ SignedOnce
    /\ OutcomesFollowReceipts
    /\ BundlesAreRecords

-----------------------------------------------------------------------------
(* Frames and the values in them                                           *)

LEMMA WhatIsEncodedIsDecoded ==
    ASSUME NEW value
    PROVE  /\ Decode(Encode(value)) = Ok(value)
           /\ Decode(Cut(value)) = Err("Malformed")
           /\ Decode(Trailing(value)) = Err("TrailingBytes")
<1>1. /\ Encode(value).shape = "Exact" /\ Encode(value).value = value
      /\ Cut(value).shape = "Cut"
      /\ Trailing(value).shape = "Trailing"
  BY DEF Encode, Cut, Trailing
<1>. QED
  BY <1>1 DEF Decode

LEMMA DecodedIsExact ==
    ASSUME NEW values, NEW bytes \in Bytes(values)
    PROVE  Decode(bytes).result = "Ok" => bytes.shape = "Exact" /\ Decode(bytes) = Ok(bytes.value)
<1>1. bytes.shape \in Shapes
  BY DEF Bytes
<1>2. CASE bytes.shape = "Exact"
  BY <1>2 DEF Decode
<1>3. CASE bytes.shape = "Trailing"
  <2>1. Decode(bytes) = Err("TrailingBytes")
    BY <1>3 DEF Decode
  <2>. QED
    BY <2>1 DEF Err
<1>4. CASE bytes.shape = "Cut"
  <2>1. Decode(bytes) = Err("Malformed")
    BY <1>4 DEF Decode
  <2>. QED
    BY <2>1 DEF Err
<1>. QED
  BY <1>1, <1>2, <1>3, <1>4 DEF Shapes

LEMMA StatusBytesAreKnown ==
    /\ StatusOf(COMMITTED_BYTE) = Ok("Committed")
    /\ StatusOf(PENDING_BYTE) = Ok("Pending")
    /\ StatusOf(3) = Err("MalformedReceipt")
<1>1. COMMITTED_BYTE # PENDING_BYTE /\ COMMITTED_BYTE # 3 /\ PENDING_BYTE # 3
  BY DEF COMMITTED_BYTE, PENDING_BYTE
<1>. QED
  BY <1>1 DEF StatusOf

(* A receipt comes out of its frame as it went in, and out of a damaged    *)
(* frame not at all (parse_cli_receipt).                                   *)
LEMMA FrameBringsItsReceipt ==
    ASSUME NEW held \in IntentReceipts
    PROVE  /\ RenderCliReceipt(held) \in Frames
           /\ ParseCliReceipt(RenderCliReceipt(held)) = Ok(held)
<1> DEFINE frame == RenderCliReceipt(held)
<1>1. /\ held.intent_id \in IntentIds /\ held.status \in IntentStatuses
      /\ held.committed_height \in Nat /\ held.output \in AuthorizationResults
      /\ held = [intent_id |-> held.intent_id, status |-> held.status,
                 committed_height |-> held.committed_height, output |-> held.output]
  BY DEF IntentReceipts
<1>2. /\ frame.whole = TRUE /\ frame.counted = TRUE
      /\ frame.intent_id = held.intent_id
      /\ frame.status = IF held.status = "Committed" THEN COMMITTED_BYTE ELSE PENDING_BYTE
      /\ frame.committed_height = held.committed_height
      /\ frame.output = Encode(held.output)
  BY DEF RenderCliReceipt, EncodeResult
<1>3. frame \in Frames
  BY <1>1 DEF RenderCliReceipt, EncodeResult, Encode, Frames, StatusBytes, Bytes, Shapes
<1>4. StatusOf(frame.status) = Ok(held.status)
  BY <1>1, <1>2, StatusBytesAreKnown DEF IntentStatuses
<1>5. ParseConsensusOutput(frame.output) = Ok(held.output)
  BY <1>2, WhatIsEncodedIsDecoded DEF ParseConsensusOutput, DecodeResult, Ok
<1>. HIDE DEF frame
<1>6. ParseCliReceipt(frame) = Ok(held)
  BY <1>1, <1>2, <1>4, <1>5 DEF ParseCliReceipt, Ok
<1>. QED
  BY <1>3, <1>6 DEF frame

LEMMA DamagedFrameBringsNothing ==
    ASSUME NEW held \in IntentReceipts, NEW frame \in Damaged(RenderCliReceipt(held))
    PROVE  frame \in Frames /\ ParseCliReceipt(frame).result = "Err"
<1> DEFINE whole == RenderCliReceipt(held)
<1>1. whole \in Frames /\ whole.output = Encode(held.output)
  BY FrameBringsItsReceipt DEF RenderCliReceipt, EncodeResult
<1>2. held.output \in AuthorizationResults /\ whole.output.value = held.output
  BY <1>1 DEF IntentReceipts, Encode
<1>. HIDE DEF whole
<1>3. CASE frame = [whole EXCEPT !.whole = FALSE, !.counted = FALSE]
  <2>1. frame \in Frames /\ frame.whole = FALSE
    BY <1>1, <1>3 DEF Frames
  <2>. QED
    BY <2>1 DEF ParseCliReceipt, Err
<1>4. CASE frame = [whole EXCEPT !.status = 3]
  <2>1. frame \in Frames /\ frame.status = 3
    BY <1>1, <1>4 DEF Frames, StatusBytes
  <2>. QED
    BY <2>1, StatusBytesAreKnown DEF ParseCliReceipt, Err
<1>5. CASE frame = [whole EXCEPT !.counted = FALSE]
  <2>1. frame \in Frames /\ frame.counted = FALSE
    BY <1>1, <1>5 DEF Frames
  <2>. QED
    BY <2>1 DEF ParseCliReceipt, Err
<1>6. CASE \/ frame = [whole EXCEPT !.output = Cut(held.output)]
           \/ frame = [whole EXCEPT !.output = Trailing(held.output)]
  <2>1. Cut(held.output) \in Bytes(AuthorizationResults)
        /\ Trailing(held.output) \in Bytes(AuthorizationResults)
    BY <1>2 DEF Cut, Trailing, Bytes, Shapes
  <2>2. frame \in Frames /\ frame.output \in {Cut(held.output), Trailing(held.output)}
    BY <1>1, <1>6, <2>1 DEF Frames
  <2>3. ParseConsensusOutput(frame.output) = Err("Decode")
    BY <2>2, WhatIsEncodedIsDecoded DEF ParseConsensusOutput, DecodeResult, Err
  <2>. QED
    BY <2>2, <2>3 DEF ParseCliReceipt, Err
<1>. QED
  BY <1>2, <1>3, <1>4, <1>5, <1>6 DEF Damaged, whole

-----------------------------------------------------------------------------
(* Types                                                                   *)

LEMMA DecisionsAreResults ==
    ASSUME NEW d, IsDecision(d)
    PROVE  /\ d.intent \in DisbursementIntents /\ d.now \in U64
           /\ d.output \in AuthorizationResults
           /\ CommittedReceipt(IntentId(d.intent), d.height, d.output) \in IntentReceipts
<1>1. d.intent \in DisbursementIntents /\ d.now \in U64 /\ d.height \in Nat
  BY SubmissionAssumption DEF IsDecision, Intents
<1>2. d.output \in AuthorizationResults
  BY <1>1, SubmissionAssumption, AuthorizedIffPermitted DEF IsDecision
<1>3. IntentId(d.intent) \in IntentIds
  BY <1>1 DEF IntentId, IntentIds, DisbursementIntents
<1>. QED
  BY <1>1, <1>2, <1>3 DEF CommittedReceipt, IntentReceipts, IntentStatuses

LEMMA PendingsAreReceipts ==
    ASSUME NEW payload \in Payloads
    PROVE  Pending(payload) \in IntentReceipts
<1> DEFINE intent == payload.value
           time == intent.oracle_provenance.timestamp_unix
<1>1. intent \in DisbursementIntents
  BY SubmissionAssumption DEF Payloads, Bytes, Intents
<1>2. time \in U64
  BY <1>1 DEF DisbursementIntents, OracleFactProvenance
<1>3. AuthorizeDisbursement(intent, Snapshot, time) \in AuthorizationResults
  BY <1>1, <1>2, SubmissionAssumption, AuthorizedIffPermitted
<1>4. IntentId(intent) \in IntentIds
  BY <1>1 DEF IntentId, IntentIds, DisbursementIntents
<1>. QED
  BY <1>3, <1>4 DEF Pending, PendingReceipt, IntentReceipts, IntentStatuses

(* A receipt of the chain is one of its decisions.                         *)
LEMMA ReceiptsAreDecisions ==
    ASSUME ChainIsDecided, NEW payload, NEW held \in Receipts(payload)
    PROVE  /\ held \in IntentReceipts
           /\ \E d \in chain : IsCommittedAs(held, d)
  BY DecisionsAreResults DEF Receipts, ChainIsDecided, IsCommittedAs

LEMMA OutcomesAreTyped ==
    ASSUME NEW held \in IntentReceipts, ~ReachesBackend(held)
    PROVE  OutcomeWithoutBackend(held) \in FulfillmentOutcomes
<1>1. held.output \in AuthorizationResults
  BY DEF IntentReceipts
<1>. QED
  BY <1>1
  DEF OutcomeWithoutBackend, RejectedAtFulfillment, DeniedUpstream, FulfillmentOutcomes,
      FulfillmentRejections, AuthorizationResults

LEMMA RecordsAreEvidence ==
    ASSUME NEW r \in Requests, NEW held \in IntentReceipts, NEW o \in FulfillmentOutcomes
    PROVE  AssembleEvidence(IntentOf(r), held, o, BasisFor(r),
                            IntentOf(r).oracle_provenance.timestamp_unix) \in DisbursementEvidence
<1>1. IntentOf(r) \in DisbursementIntents
  BY SubmissionAssumption
<1>2. IntentId(IntentOf(r)) \in IntentIds
  BY <1>1 DEF IntentId, IntentIds, DisbursementIntents
<1>3. IntentOf(r).oracle_provenance.timestamp_unix \in U64
  BY <1>1 DEF DisbursementIntents, OracleFactProvenance
<1>4. BasisFor(r) \in U64
  BY SubmissionAssumption, CanonicalAssumption
  DEF BasisFor, BasisOf, IsConfigSnapshot, AllocationFacts, U64
<1>. QED
  BY <1>1, <1>2, <1>3, <1>4
  DEF AssembleEvidence, DisbursementEvidence, EvidenceVersions, EVIDENCE_VERSION_V1, IntentReceipts

(* What is parsed from a frame is a receipt.                               *)
LEMMA ParsedIsReceipt ==
    ASSUME NEW frame \in Frames, ParseCliReceipt(frame).result = "Ok"
    PROVE  ParseCliReceipt(frame).value \in IntentReceipts
<1> DEFINE status == StatusOf(frame.status)
           output == ParseConsensusOutput(frame.output)
<1>1. /\ frame.intent_id \in IntentIds /\ frame.committed_height \in Nat
      /\ frame.status \in StatusBytes /\ frame.output \in Bytes(AuthorizationResults)
  BY DEF Frames
<1>2. status \in {Ok("Committed"), Ok("Pending"), Err("MalformedReceipt")}
  BY <1>1, StatusBytesAreKnown DEF StatusBytes
<1>3. output.result = "Ok" => output = Ok(frame.output.value)
  BY <1>1, DecodedIsExact DEF ParseConsensusOutput, DecodeResult, Err
<1>4. frame.output.value \in AuthorizationResults
  BY <1>1 DEF Bytes
<1>. HIDE DEF status, output
<1>5. /\ status.result # "Err" /\ output.result # "Err"
      /\ ParseCliReceipt(frame) =
            Ok([intent_id |-> frame.intent_id, status |-> status.value,
                committed_height |-> frame.committed_height, output |-> output.value])
  BY DEF ParseCliReceipt, Err, status, output
<1>6. status.value \in IntentStatuses
  BY <1>2, <1>5 DEF Ok, Err, IntentStatuses
<1>7. output.value = frame.output.value
  <2>1. output.result = "Ok"
    BY <1>5 DEF output, ParseConsensusOutput, Err
  <2>. QED
    BY <1>3, <2>1 DEF Ok
<1>. QED
  BY <1>1, <1>4, <1>5, <1>6, <1>7 DEF Ok, IntentReceipts

(* cardano-cli's line gives the id it prints, or none.                     *)
LEMMA TxidIsRead ==
    ASSUME NEW tx_hash, NEW text \in TxidOutputs(tx_hash)
    PROVE  ParseCliTxidStdout(text).result = "Ok" => ParseCliTxidStdout(text) = Ok(tx_hash)
<1>1. text.text \in {"Hex", "OtherLength", "UpperCase"} /\ text.tx_hash = tx_hash
  BY DEF TxidOutputs
<1>2. CASE text.text = "Hex"
  BY <1>1, <1>2 DEF ParseCliTxidStdout
<1>3. CASE text.text = "OtherLength"
  <2>1. ParseCliTxidStdout(text) = Err("WrongLength")
    BY <1>3 DEF ParseCliTxidStdout
  <2>. QED
    BY <2>1 DEF Err
<1>4. CASE text.text = "UpperCase"
  <2>1. ParseCliTxidStdout(text) = Err("InvalidChar")
    BY <1>4 DEF ParseCliTxidStdout
  <2>. QED
    BY <2>1 DEF Err
<1>. QED
  BY <1>1, <1>2, <1>3, <1>4

(* The backend settles with the transaction signed for the receipt's id.   *)
LEMMA SettledFromItsFile ==
    ASSUME NEW r \in Requests, FulfillFromSignedFile(r)
    PROVE  \E held \in receipt[r] : \E s \in signed :
              /\ ReachesBackend(held)
              /\ s.path = SignedTxPathFor(RequestOf(held))
              /\ \/ /\ outcome' = [outcome EXCEPT ![r] = {Settled(s.tx_hash)}]
                    /\ MoveTo(r, "Fulfilled")
                 \/ MoveTo(r, "Failed") /\ UNCHANGED outcome
<1> DEFINE Finish(parsed) ==
               \/ /\ parsed.result = "Ok"
                  /\ outcome' = [outcome EXCEPT ![r] = {Settled(parsed.value)}]
                  /\ MoveTo(r, "Fulfilled")
               \/ /\ parsed.result = "Err"
                  /\ MoveTo(r, "Failed")
                  /\ UNCHANGED outcome
<1>1. PICK held \in receipt[r] :
         /\ ReachesBackend(held)
         /\ \E tx_hash \in TxOf(RequestOf(held)) : \E text \in TxidOutputs(tx_hash) :
               Finish(ParseCliTxidStdout(text))
  BY DEF FulfillFromSignedFile
<1>2. PICK tx_hash \in TxOf(RequestOf(held)) :
         \E text \in TxidOutputs(tx_hash) : Finish(ParseCliTxidStdout(text))
  BY <1>1
<1>3. PICK text \in TxidOutputs(tx_hash) : Finish(ParseCliTxidStdout(text))
  BY <1>2
<1>4. PICK s \in signed : s.path = SignedTxPathFor(RequestOf(held)) /\ s.tx_hash = tx_hash
  BY DEF TxOf
<1>5. ParseCliTxidStdout(text).result = "Ok" => ParseCliTxidStdout(text).value = tx_hash
  BY TxidIsRead DEF Ok
<1>. QED
  BY <1>1, <1>3, <1>4, <1>5

LEMMA TypedInitially == Init => Typed
  BY SubmissionAssumption DEF Init, Typed, Steps

LEMMA TypedIsKept ==
    ASSUME Typed, ChainIsDecided, SignedOnce, [Next]_vars
    PROVE  Typed'
<1>. USE DEF Typed
<1>1. ASSUME NEW r \in Requests, NEW here \in Steps, MoveTo(r, here)
      PROVE  step' \in [Requests -> Steps]
  BY <1>1 DEF MoveTo
<1>2. ASSUME NEW r \in Requests, NEW frame \in Frames, Prints(r, frame)
      PROVE  Typed'
  BY <1>1, <1>2 DEF Prints, submission, consensus, settlement, Steps
<1>3. CASE Commit
  BY <1>3 DEF Commit, submission, cli, settlement
<1>4. ASSUME NEW r \in Requests,
             \/ WriteFails(r) \/ SpawnFails(r) \/ CliFails(r) \/ BackendFails(r) \/ AssemblyFails(r)
      PROVE  Typed'
  BY <1>1, <1>4 DEF WriteFails, SpawnFails, CliFails, BackendFails, AssemblyFails, Steps,
              submission, cli, consensus, settlement
<1>5. ASSUME NEW r \in Requests, Truncate(r) PROVE Typed'
  <2>1. Cut(IntentOf(r)) \in Payloads /\ PathOf(r) \in Paths
    BY DEF Cut, Payloads, Bytes, Shapes, Intents, Paths
  <2>2. step' \in [Requests -> Steps]
    BY <1>1, <1>5 DEF Truncate, Steps
  <2>3. \A s \in Requests : submissions'[s] <= MaxSubmissions(s)
    BY <1>5, SubmissionAssumption DEF Truncate
  <2>4. submissions' \in [Requests -> Nat]
    BY <1>5 DEF Truncate
  <2>5. file' \in [Paths -> SUBSET Payloads]
    BY <1>5, <2>1 DEF Truncate
  <2>. QED
    BY <1>5, <2>2, <2>3, <2>4, <2>5 DEF Truncate, cli, consensus, settlement
<1>6. ASSUME NEW r \in Requests, FinishWrite(r) PROVE Typed'
  <2>1. Written(r) \subseteq Payloads /\ PathOf(r) \in Paths
    BY DEF Written, EmitPayload, Encode, Trailing, Payloads, Bytes, Shapes, Intents, Paths
  <2>2. step' \in [Requests -> Steps]
    BY <1>1, <1>6 DEF FinishWrite, Steps
  <2>. QED
    BY <1>6, <2>1, <2>2 DEF FinishWrite, cli, consensus, settlement
<1>7. ASSUME NEW r \in Requests, Spawn(r) PROVE Typed'
  <2>1. PathOf(r) \in Paths
    BY DEF Paths
  <2>2. step' \in [Requests -> Steps]
    BY <1>1, <1>7 DEF Spawn, Steps
  <2>. QED
    BY <1>7, <2>1, <2>2 DEF Spawn, consensus, settlement
<1>8. ASSUME NEW r \in Requests, CliSends(r) PROVE Typed'
  <2>1. \A a \in args[r] : a.payload \in Paths
    BY DEF BuildCliArgs, NewMvp
  <2>2. sent' \in [Requests -> SUBSET Payloads]
    BY <1>8, <2>1 DEF CliSends
  <2>. QED
    BY <1>8, <2>2 DEF CliSends, submission, settlement
<1>9. ASSUME NEW r \in Requests, CliReports(r) PROVE Typed'
  BY <1>2, <1>9, ReceiptsAreDecisions, FrameBringsItsReceipt DEF CliReports
<1>10. ASSUME NEW r \in Requests, CliTimesOut(r) PROVE Typed'
  <2>1. PICK payload \in sent[r] :
           \/ Prints(r, RenderCliReceipt(Pending(payload)))
           \/ /\ MoveTo(r, "Failed")
              /\ UNCHANGED <<submission, cli, consensus, settlement, bundle>>
    BY <1>10 DEF CliTimesOut
  <2>2. RenderCliReceipt(Pending(payload)) \in Frames
    BY PendingsAreReceipts, FrameBringsItsReceipt
  <2>. QED
    BY <1>1, <1>2, <2>1, <2>2 DEF submission, cli, consensus, settlement, Steps
<1>11. ASSUME NEW r \in Requests, CliGarbles(r) PROVE Typed'
  <2>1. PICK payload \in sent[r] :
           \E frame \in Damaged(RenderCliReceipt(Pending(payload))) : Prints(r, frame)
    BY <1>11 DEF CliGarbles
  <2>2. Damaged(RenderCliReceipt(Pending(payload))) \subseteq Frames
    BY PendingsAreReceipts, DamagedFrameBringsNothing
  <2>. QED
    BY <1>2, <2>1, <2>2
<1>12. ASSUME NEW r \in Requests, Receive(r) PROVE Typed'
  <2>1. PICK frame \in stdout[r] :
           \/ /\ ParseCliReceipt(frame).result = "Ok"
              /\ receipt' = [receipt EXCEPT ![r] = {ParseCliReceipt(frame).value}]
              /\ MoveTo(r, "Received")
           \/ MoveTo(r, "Failed") /\ UNCHANGED receipt
    BY <1>12 DEF Receive
  <2>2. ParseCliReceipt(frame).result = "Ok" => ParseCliReceipt(frame).value \in IntentReceipts
    BY ParsedIsReceipt
  <2>3. receipt' \in [Requests -> SUBSET IntentReceipts]
    BY <2>1, <2>2
  <2>4. step' \in [Requests -> Steps]
    BY <1>1, <2>1 DEF Steps
  <2>. QED
    BY <1>12, <2>3, <2>4 DEF Receive, submission, consensus
<1>13. ASSUME NEW r \in Requests, Resubmit(r) PROVE Typed'
  BY <1>1, <1>13 DEF Resubmit, submission, cli, consensus, Steps
<1>14. ASSUME NEW r \in Requests, SignTransaction(r) PROVE Typed'
  BY <1>14 DEF SignTransaction, submission, cli, consensus
<1>15. ASSUME NEW r \in Requests, FulfillWithoutBackend(r) PROVE Typed'
  <2>1. outcome' \in [Requests -> SUBSET FulfillmentOutcomes]
    BY <1>15, OutcomesAreTyped DEF FulfillWithoutBackend
  <2>2. step' \in [Requests -> Steps]
    BY <1>1, <1>15 DEF FulfillWithoutBackend, Steps
  <2>. QED
    BY <1>15, <2>1, <2>2 DEF FulfillWithoutBackend, submission, cli, consensus
<1>16. ASSUME NEW r \in Requests, FulfillFromSignedFile(r) PROVE Typed'
  <2>1. PICK s \in signed :
           \/ outcome' = [outcome EXCEPT ![r] = {Settled(s.tx_hash)}] /\ MoveTo(r, "Fulfilled")
           \/ MoveTo(r, "Failed") /\ UNCHANGED outcome
    BY <1>16, SettledFromItsFile
  <2>2. s.tx_hash \in TxHashes
    BY DEF SignedOnce
  <2>3. outcome' \in [Requests -> SUBSET FulfillmentOutcomes]
    BY <2>1, <2>2 DEF Settled, FulfillmentOutcomes
  <2>4. step' \in [Requests -> Steps]
    BY <1>1, <2>1 DEF Steps
  <2>. QED
    BY <1>16, <2>3, <2>4 DEF FulfillFromSignedFile, submission, cli, consensus
<1>17. ASSUME NEW r \in Requests, SaveBundle(r) PROVE Typed'
  <2>1. PICK record \in DisbursementEvidence :
           \E bytes \in {EncodeEvidence(record), Cut(record)} :
              bundle' = [bundle EXCEPT ![r] = {bytes}]
    BY <1>17, RecordsAreEvidence DEF SaveBundle
  <2>2. {EncodeEvidence(record), Cut(record)} \subseteq Bytes(DisbursementEvidence)
    BY DEF EncodeEvidence, Encode, Cut, Bytes, Shapes
  <2>3. bundle' \in [Requests -> SUBSET Bytes(DisbursementEvidence)]
    BY <2>1, <2>2
  <2>4. step' \in [Requests -> Steps]
    BY <1>1, <1>17 DEF SaveBundle, Steps
  <2>. QED
    BY <1>17, <2>3, <2>4 DEF SaveBundle, submission, cli, consensus, settlement
<1>18. CASE UNCHANGED vars
  BY <1>18 DEF vars, submission, cli, consensus, settlement
<1>. QED
  BY <1>3, <1>4, <1>5, <1>6, <1>7, <1>8, <1>9, <1>10, <1>11, <1>12, <1>13, <1>14, <1>15,
     <1>16, <1>17, <1>18 DEF Next

-----------------------------------------------------------------------------
(* The links between the parts                                             *)

(* Who writes a variable that the links are about.                         *)
LEMMA WhoWritesWhat ==
    ASSUME [Next]_vars
    PROVE  /\ Commit \/ UNCHANGED chain
           /\ \/ UNCHANGED stdout
              \/ \E r \in Requests : CliReports(r) \/ CliTimesOut(r) \/ CliGarbles(r) \/ Receive(r)
           /\ UNCHANGED receipt \/ \E r \in Requests : Receive(r) \/ Resubmit(r)
           /\ UNCHANGED signed \/ \E r \in Requests : SignTransaction(r)
           /\ \/ UNCHANGED outcome
              \/ \E r \in Requests :
                    Resubmit(r) \/ FulfillWithoutBackend(r) \/ FulfillFromSignedFile(r)
           /\ UNCHANGED bundle \/ \E r \in Requests : SaveBundle(r)
<1>. USE DEF submission, cli, consensus, settlement
<1>1. CASE Commit
  BY <1>1 DEF Commit
<1>2. ASSUME NEW r \in Requests,
             Truncate(r) \/ FinishWrite(r) \/ WriteFails(r) \/ Spawn(r) \/ SpawnFails(r)
      PROVE  UNCHANGED <<chain, stdout, receipt, signed, outcome, bundle>>
  BY <1>2 DEF Truncate, FinishWrite, WriteFails, Spawn, SpawnFails
<1>3. ASSUME NEW r \in Requests, CliSends(r) \/ CliFails(r) \/ BackendFails(r) \/ AssemblyFails(r)
      PROVE  UNCHANGED <<chain, stdout, receipt, signed, outcome, bundle>>
  BY <1>3 DEF CliSends, CliFails, BackendFails, AssemblyFails
<1>4. ASSUME NEW r \in Requests, CliReports(r) \/ CliTimesOut(r) \/ CliGarbles(r)
      PROVE  UNCHANGED <<chain, receipt, signed, outcome, bundle>>
  BY <1>4 DEF CliReports, CliTimesOut, CliGarbles, Prints
<1>5. ASSUME NEW r \in Requests, Receive(r)
      PROVE  UNCHANGED <<chain, signed, outcome, bundle>>
  BY <1>5 DEF Receive
<1>6. ASSUME NEW r \in Requests, Resubmit(r)
      PROVE  UNCHANGED <<chain, stdout, signed, bundle>>
  BY <1>6 DEF Resubmit
<1>7. ASSUME NEW r \in Requests, SignTransaction(r)
      PROVE  UNCHANGED <<chain, stdout, receipt, outcome, bundle>>
  BY <1>7 DEF SignTransaction
<1>8. ASSUME NEW r \in Requests, FulfillWithoutBackend(r) \/ FulfillFromSignedFile(r)
      PROVE  UNCHANGED <<chain, stdout, receipt, signed, bundle>>
  BY <1>8 DEF FulfillWithoutBackend, FulfillFromSignedFile
<1>9. ASSUME NEW r \in Requests, SaveBundle(r)
      PROVE  UNCHANGED <<chain, stdout, receipt, signed, outcome>>
  BY <1>9 DEF SaveBundle
<1>10. CASE UNCHANGED vars
  BY <1>10 DEF vars
<1>. QED
  BY <1>1, <1>2, <1>3, <1>4, <1>5, <1>6, <1>7, <1>8, <1>9, <1>10 DEF Next

(* Consensus takes nothing back.                                           *)
LEMMA ChainIsKept ==
    ASSUME Typed, ChainIsDecided, [Next]_vars
    PROVE  chain \subseteq chain' /\ ChainIsDecided'
<1>1. CASE UNCHANGED chain
  BY <1>1 DEF ChainIsDecided, IsDecision
<1>2. CASE Commit
  <2>1. PICK payload \in mempool, now_ \in CommitTimes :
           IF DecodeIntent(payload).result = "Ok"
           THEN LET intent == DecodeIntent(payload).value
                IN  chain' = chain \cup
                       {[intent |-> intent, height |-> Cardinality(chain) + 1, now |-> now_,
                         output |-> AuthorizeDisbursement(intent, Snapshot, now_)]}
           ELSE UNCHANGED chain
    BY <1>2 DEF Commit
  <2>2. CASE DecodeIntent(payload).result # "Ok"
    BY <2>1, <2>2 DEF ChainIsDecided, IsDecision
  <2>3. CASE DecodeIntent(payload).result = "Ok"
    <3> DEFINE intent == DecodeIntent(payload).value
               d == [intent |-> intent, height |-> Cardinality(chain) + 1, now |-> now_,
                     output |-> AuthorizeDisbursement(intent, Snapshot, now_)]
    <3>1. payload \in Payloads /\ payload.value \in Intents
      BY DEF Typed, Payloads, Bytes
    <3>2. intent = payload.value
      BY <2>3, <3>1, DecodedIsExact DEF DecodeIntent, Ok, Payloads
    <3>3. Cardinality(chain) \in Nat
      BY FS_CardinalityType DEF ChainIsDecided
    <3>4. IsDecision(d)
      BY <3>1, <3>2, <3>3 DEF IsDecision
    <3>5. chain' = chain \cup {d}
      BY <2>1, <2>3
    <3>6. IsFiniteSet(chain')
      BY <3>5, FS_AddElement DEF ChainIsDecided
    <3>. HIDE DEF d
    <3>7. \A c \in chain' : IsDecision(c)
      BY <3>4, <3>5 DEF ChainIsDecided
    <3>. QED
      BY <3>5, <3>6, <3>7 DEF ChainIsDecided, IsDecision
  <2>. QED
    BY <2>2, <2>3
<1>. QED
  BY <1>1, <1>2, WhoWritesWhat

(* What answered once still answers.                                       *)
LEMMA AnswersStay ==
    ASSUME chain \subseteq chain', NEW held, IsAnswer(held)
    PROVE  IsAnswer(held)'
  BY DEF IsAnswer, IsCommittedAs

LEMMA FramesAreKept ==
    ASSUME Typed, ChainIsDecided, FramesAreAnswers, [Next]_vars
    PROVE  FramesAreAnswers'
<1> DEFINE Brings(frame) ==
        ParseCliReceipt(frame).result = "Ok" =>
            /\ ParseCliReceipt(frame).value \in IntentReceipts
            /\ IsAnswer(ParseCliReceipt(frame).value)
<1>1. SUFFICES ASSUME NEW s \in Requests, NEW frame \in stdout'[s]
               PROVE  Brings(frame)
  BY ChainIsKept, AnswersStay DEF FramesAreAnswers
<1>2. CASE frame \in stdout[s]
  BY <1>2 DEF FramesAreAnswers
<1>3. ASSUME NEW r \in Requests, CliReports(r), frame \notin stdout[s] PROVE Brings(frame)
  <2>1. PICK payload \in sent[r] : \E held \in Receipts(payload) :
           stdout' = [stdout EXCEPT ![r] = {RenderCliReceipt(held)}]
    BY <1>3 DEF CliReports, Prints
  <2>2. PICK held \in Receipts(payload) : stdout' = [stdout EXCEPT ![r] = {RenderCliReceipt(held)}]
    BY <2>1
  <2>3. held \in IntentReceipts /\ IsAnswer(held)
    BY ReceiptsAreDecisions DEF IsAnswer
  <2>4. frame = RenderCliReceipt(held)
    BY <1>3, <2>2 DEF Typed
  <2>. QED
    BY <2>3, <2>4, FrameBringsItsReceipt DEF Ok
<1>4. ASSUME NEW r \in Requests, CliTimesOut(r), frame \notin stdout[s] PROVE Brings(frame)
  <2>1. PICK payload \in sent[r] :
           UNCHANGED stdout \/ stdout' = [stdout EXCEPT ![r] = {RenderCliReceipt(Pending(payload))}]
    BY <1>4 DEF CliTimesOut, Prints, cli
  <2>2. frame = RenderCliReceipt(Pending(payload))
    BY <1>4, <2>1 DEF Typed
  <2>3. Pending(payload) \in IntentReceipts
    BY PendingsAreReceipts DEF Typed
  <2>4. IsAnswer(Pending(payload))
    BY DEF IsAnswer, Pending, PendingReceipt
  <2>. QED
    BY <2>2, <2>3, <2>4, FrameBringsItsReceipt DEF Ok
<1>5. ASSUME NEW r \in Requests, CliGarbles(r), frame \notin stdout[s] PROVE Brings(frame)
  <2>1. PICK payload \in sent[r] : \E damaged \in Damaged(RenderCliReceipt(Pending(payload))) :
           stdout' = [stdout EXCEPT ![r] = {damaged}]
    BY <1>5 DEF CliGarbles, Prints
  <2>2. frame \in Damaged(RenderCliReceipt(Pending(payload)))
    BY <1>5, <2>1 DEF Typed
  <2>3. Pending(payload) \in IntentReceipts
    BY PendingsAreReceipts DEF Typed
  <2>. QED
    BY <2>2, <2>3, DamagedFrameBringsNothing
<1>6. ASSUME NEW r \in Requests, Receive(r) PROVE frame \in stdout[s]
  BY <1>6 DEF Receive, Typed
<1>. QED
  BY <1>2, <1>3, <1>4, <1>5, <1>6, WhoWritesWhat

LEMMA ReceiptsAreKept ==
    ASSUME Typed, ChainIsDecided, FramesAreAnswers, ReceiptsAreAnswers, [Next]_vars
    PROVE  ReceiptsAreAnswers'
<1>1. SUFFICES ASSUME NEW s \in Requests, NEW held \in receipt'[s]
               PROVE  IsAnswer(held) /\ receipt'[s] = {held}
  BY ChainIsKept, AnswersStay DEF ReceiptsAreAnswers
<1>2. CASE receipt'[s] = receipt[s]
  BY <1>2 DEF ReceiptsAreAnswers
<1>3. ASSUME NEW r \in Requests, Receive(r), receipt'[s] # receipt[s]
      PROVE  IsAnswer(held) /\ receipt'[s] = {held}
  <2>1. PICK frame \in stdout[r] :
           /\ ParseCliReceipt(frame).result = "Ok"
           /\ receipt' = [receipt EXCEPT ![r] = {ParseCliReceipt(frame).value}]
    BY <1>3 DEF Receive
  <2>2. s = r /\ receipt'[s] = {ParseCliReceipt(frame).value}
    BY <1>3, <2>1 DEF Typed
  <2>. QED
    BY <2>1, <2>2 DEF FramesAreAnswers
<1>4. ASSUME NEW r \in Requests, Resubmit(r) PROVE receipt'[s] = receipt[s]
  BY <1>4 DEF Resubmit, Typed
<1>. QED
  BY <1>2, <1>3, <1>4, WhoWritesWhat

LEMMA SignedIsKept ==
    ASSUME SignedOnce, [Next]_vars
    PROVE  SignedOnce' /\ signed \subseteq signed'
<1>1. CASE UNCHANGED signed
  BY <1>1 DEF SignedOnce
<1>2. ASSUME NEW r \in Requests, SignTransaction(r) PROVE SignedOnce' /\ signed \subseteq signed'
  <2>1. PICK held \in receipt[r] :
           /\ TxOf(RequestOf(held)) = {}
           /\ \E tx_hash \in TxHashes \ {s.tx_hash : s \in signed} :
                 signed' = signed \cup {[path |-> SignedTxPathFor(RequestOf(held)),
                                         tx_hash |-> tx_hash]}
    BY <1>2 DEF SignTransaction
  <2>2. PICK tx_hash \in TxHashes \ {s.tx_hash : s \in signed} :
           signed' = signed \cup {[path |-> SignedTxPathFor(RequestOf(held)), tx_hash |-> tx_hash]}
    BY <2>1
  <2> DEFINE path == SignedTxPathFor(RequestOf(held))
  <2>3. \A s \in signed : s.path # path /\ s.tx_hash # tx_hash
    BY <2>1 DEF TxOf
  <2>. HIDE DEF path
  <2>4. signed' = signed \cup {[path |-> path, tx_hash |-> tx_hash]}
    BY <2>2 DEF path
  <2>. QED
    BY <2>3, <2>4 DEF SignedOnce
<1>. QED
  BY <1>1, <1>2, WhoWritesWhat

(* A request that has an outcome only leaves where it is by being          *)
(* submitted again.                                                        *)
LEMMA OnlyResubmitLeaves ==
    ASSUME Typed, [Next]_vars, NEW s \in Requests, step[s] \in {"Fulfilled", "Saved", "Failed"}
    PROVE  step'[s] \in {"Fulfilled", "Saved", "Failed"} \/ Resubmit(s)
<1>1. ASSUME NEW r \in Requests, NEW here \in Steps, MoveTo(r, here)
      PROVE  r # s => step'[s] = step[s]
  BY <1>1 DEF MoveTo, Typed
<1>2. ASSUME NEW r \in Requests, step[r] \notin {"Fulfilled", "Saved", "Failed"},
             NEW here \in Steps, MoveTo(r, here)
      PROVE  step'[s] = step[s]
  BY <1>1, <1>2
<1>3. ASSUME NEW r \in Requests, MoveTo(r, "Saved") \/ MoveTo(r, "Failed")
      PROVE  step'[s] \in {"Fulfilled", "Saved", "Failed"}
  BY <1>3 DEF MoveTo, Typed
<1>4. ASSUME NEW r \in Requests, \/ Truncate(r) \/ FinishWrite(r) \/ Spawn(r)
      PROVE  step'[s] = step[s]
  BY <1>2, <1>4 DEF Truncate, FinishWrite, Spawn, Steps
<1>5. ASSUME NEW r \in Requests, Receive(r) \/ FulfillWithoutBackend(r) \/ FulfillFromSignedFile(r)
      PROVE  step'[s] = step[s]
  BY <1>2, <1>5 DEF Receive, FulfillWithoutBackend, FulfillFromSignedFile, Steps
<1>6. ASSUME NEW r \in Requests, CliReports(r) \/ CliTimesOut(r) \/ CliGarbles(r)
      PROVE  step'[s] = step[s]
  BY <1>2, <1>6 DEF CliReports, CliTimesOut, CliGarbles, Prints, Steps
<1>7. ASSUME NEW r \in Requests,
             \/ WriteFails(r) \/ SpawnFails(r) \/ CliFails(r) \/ BackendFails(r)
             \/ AssemblyFails(r) \/ SaveBundle(r)
      PROVE  step'[s] \in {"Fulfilled", "Saved", "Failed"}
  BY <1>3, <1>7 DEF WriteFails, SpawnFails, CliFails, BackendFails, AssemblyFails, SaveBundle
<1>8. ASSUME NEW r \in Requests, Resubmit(r) PROVE step'[s] = step[s] \/ Resubmit(s)
  BY <1>1, <1>8 DEF Resubmit, Steps
<1>9. ASSUME NEW r \in Requests, CliSends(r) \/ SignTransaction(r) PROVE step'[s] = step[s]
  BY <1>9 DEF CliSends, SignTransaction
<1>10. CASE Commit \/ UNCHANGED vars
  BY <1>10 DEF Commit, vars
<1>. QED
  BY <1>4, <1>5, <1>6, <1>7, <1>8, <1>9, <1>10 DEF Next

LEMMA FollowingStays ==
    ASSUME signed \subseteq signed', NEW o, NEW held, FollowsReceipt(o, held)
    PROVE  FollowsReceipt(o, held)'
  BY DEF FollowsReceipt

LEMMA OutcomesAreKept ==
    ASSUME Typed, SignedOnce, OutcomesFollowReceipts, [Next]_vars
    PROVE  OutcomesFollowReceipts'
<1> DEFINE Follows(o, s) ==
        /\ step'[s] \in {"Fulfilled", "Saved", "Failed"}
        /\ \E held \in receipt'[s] : FollowsReceipt(o, held)'
<1>1. SUFFICES ASSUME NEW s \in Requests, NEW o \in outcome'[s] PROVE Follows(o, s)
  BY DEF OutcomesFollowReceipts
<1>2. CASE o \in outcome[s] /\ receipt'[s] = receipt[s] /\ ~Resubmit(s)
  <2>1. step[s] \in {"Fulfilled", "Saved", "Failed"}
        /\ \E held \in receipt[s] : FollowsReceipt(o, held)
    BY <1>2 DEF OutcomesFollowReceipts
  <2>2. step'[s] \in {"Fulfilled", "Saved", "Failed"}
    BY <1>2, <2>1, OnlyResubmitLeaves
  <2>. QED
    BY <1>2, <2>1, <2>2, SignedIsKept, FollowingStays
<1>3. ASSUME NEW r \in Requests, Receive(r), o \in outcome[s] PROVE receipt'[s] = receipt[s]
  <2>1. step[s] # "Answered" /\ step[r] = "Answered"
    BY <1>3 DEF OutcomesFollowReceipts, Receive
  <2>. QED
    BY <1>3, <2>1 DEF Receive, Typed
<1>4. ASSUME NEW r \in Requests, Resubmit(r)
      PROVE  s # r /\ o \in outcome[s] /\ receipt'[s] = receipt[s]
  BY <1>4 DEF Resubmit, Typed
<1>5. ASSUME NEW r \in Requests, FulfillWithoutBackend(r)
      PROVE  Follows(o, s) \/ (o \in outcome[s] /\ receipt'[s] = receipt[s])
  <2>1. PICK held \in receipt[r] :
           /\ ~ReachesBackend(held)
           /\ outcome' = [outcome EXCEPT ![r] = {OutcomeWithoutBackend(held)}]
    BY <1>5 DEF FulfillWithoutBackend
  <2>2. UNCHANGED receipt
    BY <1>5 DEF FulfillWithoutBackend
  <2>3. CASE s = r
    <3>1. o = OutcomeWithoutBackend(held) /\ FollowsReceipt(o, held)'
      BY <2>1, <2>3 DEF Typed, FollowsReceipt
    <3>2. step'[s] = "Fulfilled"
      BY <1>5, <2>3 DEF FulfillWithoutBackend, MoveTo, Typed
    <3>. QED
      BY <2>2, <2>3, <3>1, <3>2
  <2>. QED
    BY <2>1, <2>2, <2>3 DEF Typed
<1>6. ASSUME NEW r \in Requests, FulfillFromSignedFile(r)
      PROVE  Follows(o, s) \/ (o \in outcome[s] /\ receipt'[s] = receipt[s])
  <2>1. PICK held \in receipt[r], t \in signed :
           /\ ReachesBackend(held)
           /\ t.path = SignedTxPathFor(RequestOf(held))
           /\ \/ /\ outcome' = [outcome EXCEPT ![r] = {Settled(t.tx_hash)}]
                 /\ MoveTo(r, "Fulfilled")
              \/ MoveTo(r, "Failed") /\ UNCHANGED outcome
    BY <1>6, SettledFromItsFile
  <2>2. UNCHANGED receipt /\ UNCHANGED signed
    BY <1>6 DEF FulfillFromSignedFile
  <2>3. CASE s = r /\ o \notin outcome[s]
    <3>1. o = Settled(t.tx_hash) /\ MoveTo(r, "Fulfilled")
      BY <2>1, <2>3 DEF Typed
    <3>2. FollowsReceipt(o, held)
      BY <2>1, <3>1 DEF FollowsReceipt
    <3>3. step'[s] = "Fulfilled"
      BY <2>3, <3>1 DEF MoveTo, Typed
    <3>. QED
      BY <2>2, <2>3, <3>2, <3>3, FollowingStays
  <2>. QED
    BY <2>1, <2>2, <2>3 DEF Typed
<1>7. receipt'[s] = receipt[s] \/ \E r \in Requests : Receive(r) \/ Resubmit(r)
  BY WhoWritesWhat
<1>8. o \in outcome[s] \/ Follows(o, s)
  BY <1>4, <1>5, <1>6, WhoWritesWhat
<1>. QED
  BY <1>2, <1>3, <1>4, <1>7, <1>8

LEMMA RecordsStay ==
    ASSUME chain \subseteq chain', NEW record, NEW r, IsRecordOf(record, r)
    PROVE  IsRecordOf(record, r)'
  BY DEF IsRecordOf

(* A record that was assembled is of its request, because the id of the    *)
(* receipt was compared (assemble_disbursement_evidence).                  *)
LEMMA AssembledAreRecords ==
    ASSUME NEW r \in Requests, NEW held, IsAnswer(held), CanAssemble(IntentOf(r), held),
           NEW o, NEW basis, NEW time
    PROVE  IsRecordOf(AssembleEvidence(IntentOf(r), held, o, basis, time), r)
<1> DEFINE record == AssembleEvidence(IntentOf(r), held, o, basis, time)
<1>1. /\ record.intent = IntentOf(r) /\ record.intent_id = IntentId(IntentOf(r))
      /\ record.committed_height = held.committed_height
      /\ record.authorization = held.output
      /\ held.intent_id = IntentId(IntentOf(r))
  BY DEF AssembleEvidence, CanAssemble
<1>2. held.committed_height # 0 => \E d \in chain : IsCommittedAs(held, d)
  BY DEF IsAnswer
<1>3. \A d \in chain : IsCommittedAs(held, d) =>
         /\ held.intent_id = IntentId(d.intent)
         /\ held.committed_height = d.height
         /\ held.output = d.output
  BY DEF IsCommittedAs, CommittedReceipt
<1>. HIDE DEF record
<1>4. IsRecordOf(record, r)
  BY <1>1, <1>2, <1>3 DEF IsRecordOf
<1>. QED
  BY <1>4 DEF record

LEMMA BundlesAreKept ==
    ASSUME Typed, ChainIsDecided, ReceiptsAreAnswers, BundlesAreRecords, [Next]_vars
    PROVE  BundlesAreRecords'
<1>1. SUFFICES ASSUME NEW s \in Requests, NEW bytes \in bundle'[s]
               PROVE  IsRecordOf(bytes.value, s) /\ bundle'[s] = {bytes}
  BY ChainIsKept, RecordsStay DEF BundlesAreRecords
<1>2. CASE bundle'[s] = bundle[s]
  BY <1>2 DEF BundlesAreRecords
<1>3. ASSUME NEW r \in Requests, SaveBundle(r), bundle'[s] # bundle[s]
      PROVE  IsRecordOf(bytes.value, s) /\ bundle'[s] = {bytes}
  <2> DEFINE RecordFor(held, o) ==
                 AssembleEvidence(IntentOf(r), held, o, BasisFor(r),
                                  IntentOf(r).oracle_provenance.timestamp_unix)
  <2>1. PICK held \in receipt[r], o \in outcome[r] :
           \E b \in {EncodeEvidence(RecordFor(held, o)), Cut(RecordFor(held, o))} :
              bundle' = [bundle EXCEPT ![r] = {b}]
    BY <1>3 DEF SaveBundle
  <2>2. IsAnswer(held) /\ CanAssemble(IntentOf(r), held)
    BY <1>3 DEF SaveBundle, MayAssemble, ReceiptsAreAnswers
  <2>3. IsRecordOf(RecordFor(held, o), r)
    BY <2>2, AssembledAreRecords
  <2>. HIDE DEF RecordFor
  <2>4. /\ EncodeEvidence(RecordFor(held, o)).value = RecordFor(held, o)
        /\ Cut(RecordFor(held, o)).value = RecordFor(held, o)
    BY DEF EncodeEvidence, Encode, Cut
  <2>5. s = r /\ bundle'[s] = {bytes} /\ bytes.value = RecordFor(held, o)
    BY <1>3, <2>1, <2>4 DEF Typed
  <2>. QED
    BY <2>3, <2>5
<1>. QED
  BY <1>2, <1>3, WhoWritesWhat

-----------------------------------------------------------------------------

LEMMA IInvInitially == Init => IInv
<1>. SUFFICES ASSUME Init PROVE IInv
  OBVIOUS
<1>1. ChainIsDecided
  BY FS_EmptySet DEF Init, ChainIsDecided
<1>2. FramesAreAnswers /\ ReceiptsAreAnswers /\ SignedOnce
  BY DEF Init, FramesAreAnswers, ReceiptsAreAnswers, SignedOnce
<1>3. OutcomesFollowReceipts /\ BundlesAreRecords
  BY DEF Init, OutcomesFollowReceipts, BundlesAreRecords
<1>. QED
  BY <1>1, <1>2, <1>3, TypedInitially DEF IInv

LEMMA IInvIsKept == IInv /\ [Next]_vars => IInv'
  BY TypedIsKept, ChainIsKept, FramesAreKept, ReceiptsAreKept, SignedIsKept, OutcomesAreKept,
     BundlesAreKept
  DEF IInv

LEMMA IInvHolds == Spec => []IInv
  BY IInvInitially, IInvIsKept, PTL DEF Spec

-----------------------------------------------------------------------------
(* The theorems                                                            *)

(* Every variable keeps its type: retries stay within their bound, and     *)
(* what is parsed, reported or recorded is a value of its kind             *)
(* (ziranity_submit.rs, intake.rs, settlement.rs, artifacts.rs).           *)
THEOREM SubmissionTypes == Spec => []TypeOK
<1>1. IInv => TypeOK
  <2>. SUFFICES ASSUME IInv PROVE TypeOK
    OBVIOUS
  <2>1. \A r \in Requests : submissions[r] \in 0 .. MaxSubmissions(r)
    BY SubmissionAssumption DEF IInv, Typed
  <2>2. \A d \in chain : d.intent \in Intents /\ d.output \in AuthorizationResults
    BY DecisionsAreResults DEF IInv, ChainIsDecided, IsDecision
  <2>. QED
    BY <2>1, <2>2 DEF IInv, Typed, TypeOK, Payloads
<1>. QED
  BY <1>1, IInvHolds, PTL

(* Whatever is lost, damaged, shared or retried, an outcome is the one     *)
(* consensus committed for the id of the receipt (intake.rs,               *)
(* settlement.rs).                                                         *)
THEOREM OutcomesAreCommitted == Spec => []OutcomeIsCommitted
<1>1. IInv => OutcomeIsCommitted
  <2>1. SUFFICES ASSUME IInv, NEW r \in Requests, NEW o \in outcome[r],
                        o # RejectedAtFulfillment("ReceiptNotCommitted")
                 PROVE  \E d \in chain :
                           /\ Holds(r, IntentId(d.intent))
                           /\ IF d.output.verdict = "Authorized"
                              THEN /\ Permitted(d.intent, Snapshot, d.now)
                                   /\ IF d.intent.asset = ADA THEN o.outcome = "Settled"
                                      ELSE o = RejectedAtFulfillment("NonAdaAsset")
                              ELSE o = DeniedUpstream(d.output.reason, d.output.gate)
    BY DEF OutcomeIsCommitted
  <2>2. PICK held \in receipt[r] : FollowsReceipt(o, held)
    BY <2>1 DEF IInv, OutcomesFollowReceipts
  <2>3. CASE held.status = "Pending"
    <3>1. o = RejectedAtFulfillment("ReceiptNotCommitted")
      BY <2>2, <2>3 DEF FollowsReceipt, ReachesBackend, OutcomeWithoutBackend
    <3>. QED
      BY <2>1, <3>1
  <2>4. CASE held.status # "Pending"
    <3>1. PICK d \in chain : IsCommittedAs(held, d)
      BY <2>1, <2>4 DEF IInv, ReceiptsAreAnswers, IsAnswer
    <3>2. /\ held.intent_id = IntentId(d.intent) /\ held.status = "Committed"
          /\ held.output = d.output
      BY <3>1 DEF IsCommittedAs, CommittedReceipt
    <3>3. d.intent \in DisbursementIntents /\ d.now \in U64
          /\ d.output = AuthorizeDisbursement(d.intent, Snapshot, d.now)
      BY <2>1, DecisionsAreResults DEF IInv, ChainIsDecided, IsDecision
    <3>4. Holds(r, IntentId(d.intent))
      BY <3>2 DEF Holds
    <3>5. CASE Permitted(d.intent, Snapshot, d.now)
      <4>1. d.output.verdict = "Authorized" /\ d.output.effect.asset = d.intent.asset
        BY <3>3, <3>5, SubmissionAssumption, AuthorizedIffPermitted
        DEF Authorized, FullEffect, EffectOf
      <4>2. CASE d.intent.asset = ADA
        BY <2>2, <3>2, <3>4, <3>5, <4>1, <4>2
        DEF FollowsReceipt, ReachesBackend, GuardMvpAsset, Settled
      <4>3. CASE d.intent.asset # ADA
        BY <2>2, <3>2, <3>4, <3>5, <4>1, <4>3
        DEF FollowsReceipt, ReachesBackend, GuardMvpAsset, OutcomeWithoutBackend
      <4>. QED
        BY <4>2, <4>3
    <3>6. CASE ~Permitted(d.intent, Snapshot, d.now)
      <4>1. d.output.verdict = "Denied"
        BY <3>3, <3>6, SubmissionAssumption, AuthorizedIffPermitted DEF Denied
      <4>. QED
        BY <2>2, <3>2, <3>4, <4>1 DEF FollowsReceipt, ReachesBackend, OutcomeWithoutBackend
    <3>. QED
      BY <3>5, <3>6
  <2>. QED
    BY <2>3, <2>4
<1>. QED
  BY <1>1, IInvHolds, PTL

(* One transaction is reported for an id, and one id for a transaction     *)
(* (cardano.rs).                                                           *)
THEOREM TransactionsFollowIds == Spec => []OneTransactionPerId
<1>1. ASSUME IInv, NEW r \in Requests, NEW t \in TxHashes, NEW i, SettledAs(r, i, t)
      PROVE  \E s \in signed : s.path = <<i, ".signed">> /\ s.tx_hash = t
  <2>1. PICK held \in receipt[r] : held.intent_id = i
    BY <1>1 DEF SettledAs, Holds
  <2>2. FollowsReceipt(Settled(t), held)
    <3>1. \E other \in receipt[r] : FollowsReceipt(Settled(t), other)
      BY <1>1 DEF IInv, OutcomesFollowReceipts, SettledAs
    <3>. QED
      BY <1>1, <3>1 DEF IInv, ReceiptsAreAnswers
  <2>3. OutcomeWithoutBackend(held).outcome # "Settled"
    BY DEF OutcomeWithoutBackend, RejectedAtFulfillment, DeniedUpstream
  <2>4. PICK s \in signed :
           s.path = SignedTxPathFor(RequestOf(held)) /\ Settled(t) = Settled(s.tx_hash)
    BY <2>2, <2>3 DEF FollowsReceipt, Settled
  <2>5. s.tx_hash = t
    BY <2>4 DEF Settled
  <2>6. s.path = <<i, ".signed">>
    BY <2>1, <2>4 DEF SignedTxPathFor, RequestOf, SettlementRequestFromEffect
  <2>. QED
    BY <2>5, <2>6
<1>2. IInv => OneTransactionPerId
  <2>1. SUFFICES ASSUME IInv, NEW r \in Requests, NEW s \in Requests,
                        NEW t \in TxHashes, NEW u \in TxHashes, NEW i, NEW j,
                        SettledAs(r, i, t), SettledAs(s, j, u)
                 PROVE  i = j <=> t = u
    BY DEF OneTransactionPerId
  <2>2. PICK a \in signed : a.path = <<i, ".signed">> /\ a.tx_hash = t
    BY <1>1, <2>1
  <2>3. PICK b \in signed : b.path = <<j, ".signed">> /\ b.tx_hash = u
    BY <1>1, <2>1
  <2>4. a.path = b.path <=> a.tx_hash = b.tx_hash
    BY <2>1 DEF IInv, SignedOnce
  <2>5. <<i, ".signed">> = <<j, ".signed">> <=> i = j
    OBVIOUS
  <2>. QED
    BY <2>2, <2>3, <2>4, <2>5
<1>. QED
  BY <1>2, IInvHolds, PTL

(* A record is of its own request's intent, and of what was committed for  *)
(* its id (artifacts.rs).                                                  *)
THEOREM RecordsAreTheirOwn == Spec => []RecordsAreOfTheirRequests
<1>1. IInv => RecordsAreOfTheirRequests
  BY DEF IInv, BundlesAreRecords, IsRecordOf, RecordsAreOfTheirRequests
<1>. QED
  BY <1>1, IInvHolds, PTL

(* Exit code 0 of the walk means one whole, consistent record for every    *)
(* request (verify_bundles.rs, bundle.rs).                                 *)
THEOREM CleanWalksAreComplete == Spec => []CleanWalkIsComplete
<1>1. ASSUME IInv, VerifyBundles(bundle) = 0, NEW r \in Requests
      PROVE  IsClean(bundle[r])
  <2> DEFINE clean == {name \in Requests : IsClean(bundle[name])}
  <2>1. DOMAIN bundle = Requests
    BY <1>1 DEF IInv, Typed
  <2>2. Cardinality(clean) = Cardinality(Requests)
    BY <1>1, <2>1 DEF VerifyBundles
  <2>3. clean = Requests
    BY <2>2, SubmissionAssumption, FS_Subset
  <2>. QED
    BY <2>3
<1>2. ASSUME IInv, NEW r \in Requests, IsClean(bundle[r])
      PROVE  /\ bundle[r] # {}
             /\ \A bytes \in bundle[r] :
                   /\ bytes.shape = "Exact"
                   /\ bytes.value.intent_id = IntentId(IntentOf(r))
                   /\ CrossFieldInvariants(bytes.value)
  <2>1. bundle[r] # {}
    BY <1>2 DEF IsClean, LoadBundle, Err
  <2>2. SUFFICES ASSUME NEW bytes \in bundle[r]
                 PROVE  /\ bytes.shape = "Exact"
                        /\ bytes.value.intent_id = IntentId(IntentOf(r))
                        /\ CrossFieldInvariants(bytes.value)
    BY <2>1
  <2>3. /\ bundle[r] = {bytes} /\ IsRecordOf(bytes.value, r)
        /\ bytes \in Bytes(DisbursementEvidence)
    BY <1>2 DEF IInv, BundlesAreRecords, Typed
  <2>4. LoadBundle(bundle[r]) =
           IF Decode(bytes).result = "Ok" THEN Decode(bytes) ELSE Err("Decode")
    BY <2>3 DEF LoadBundle, DecodeEvidence
  <2>5. Decode(bytes).result = "Ok" /\ IsOk(VerifyEvidence(Decode(bytes).value))
    BY <1>2, <2>4 DEF IsClean, Err
  <2>6. bytes.shape = "Exact" /\ Decode(bytes).value = bytes.value
    BY <2>3, <2>5, DecodedIsExact DEF Ok
  <2>7. bytes.value \in DisbursementEvidence
    BY <2>3 DEF Bytes
  <2>. QED
    BY <2>3, <2>5, <2>6, <2>7, CleanReportIsExact DEF IsRecordOf
<1>3. IInv => CleanWalkIsComplete
  BY <1>1, <1>2 DEF CleanWalkIsComplete
<1>. QED
  BY <1>3, IInvHolds, PTL

-----------------------------------------------------------------------------
(* Progress: the safety half of SubmissionEnds                             *)

(* What a request needs for its next step is there.                        *)
HasWhatItNeeds(r) ==
    /\ step[r] = "Idle" => submissions[r] < MaxSubmissions(r)
    /\ step[r] # "Idle" => submissions[r] > 0
    /\ step[r] \in {"Writing", "Written", "Waiting"} => file[PathOf(r)] # {}
    /\ step[r] = "Waiting" => args[r] = {BuildCliArgs(NewMvp(PathOf(r)))}
    /\ step[r] = "Answered" => stdout[r] # {}
    /\ step[r] \in {"Received", "Fulfilled"} => receipt[r] # {}
    /\ step[r] = "Fulfilled" => outcome[r] # {}

NeedsAreMet == \A r \in Requests : HasWhatItNeeds(r)

(* The CLI can read a payload, or it has one and can report on it or give  *)
(* up waiting; the steps of the adapter have their input.                  *)
CliMaySend(r) == sent[r] = {} /\ \E a \in args[r] : file[a.payload] # {}

CliMayReturn(r) ==
    \E payload \in sent[r] : \/ Receipts(payload) # {}
                             \/ \E a \in args[r] : a.wait_timeout # {}

NoSubmissionIsStuck ==
    \A r \in Requests :
        /\ step[r] = "Idle" => submissions[r] < MaxSubmissions(r)
        /\ step[r] = "Waiting" => CliMaySend(r) \/ CliMayReturn(r)
        /\ step[r] = "Answered" => stdout[r] # {}
        /\ step[r] = "Received" => receipt[r] # {}
        /\ step[r] = "Fulfilled" => receipt[r] # {} /\ outcome[r] # {}

(* How many steps a request has left at most: nine for each submission.    *)
StepsAfter(here) ==
    CASE here = "Writing" -> 8
      [] here = "Written" -> 7
      [] here = "Waiting" -> 5
      [] here = "Answered" -> 4
      [] here = "Received" -> 3
      [] here = "Fulfilled" -> 2
      [] here = "Failed" -> 1
      [] OTHER -> 0

StepsToSend(r) == IF step[r] = "Waiting" /\ sent[r] = {} THEN 1 ELSE 0

StepsLeft(r) ==
    9 * (MaxSubmissions(r) - submissions[r]) + StepsAfter(step[r]) + StepsToSend(r)

StateOf(r) ==
    <<step[r], submissions[r], args[r], sent[r], stdout[r], receipt[r], outcome[r], bundle[r]>>

(* Whatever changes a request uses up one of its steps.                    *)
EveryChangeIsProgress ==
    [][\A r \in Requests : StateOf(r)' = StateOf(r) \/ StepsLeft(r)' < StepsLeft(r)]_vars


(* A payload file is overwritten and never removed.                        *)
LEMMA FilesStayFull ==
    ASSUME Typed, [Next]_vars, NEW path \in Paths, file[path] # {}
    PROVE  file'[path] # {}
<1>1. UNCHANGED file \/ \E r \in Requests : Truncate(r) \/ FinishWrite(r)
  <2>. USE DEF submission
  <2>1. ASSUME NEW r \in Requests,
               \/ WriteFails(r) \/ Spawn(r) \/ SpawnFails(r) \/ CliSends(r) \/ CliReports(r)
               \/ CliTimesOut(r) \/ CliGarbles(r) \/ CliFails(r) \/ Receive(r)
        PROVE  UNCHANGED file
    BY <2>1 DEF WriteFails, Spawn, SpawnFails, CliSends, CliReports, CliTimesOut, CliGarbles,
                CliFails, Receive, Prints
  <2>2. ASSUME NEW r \in Requests,
               \/ Resubmit(r) \/ SignTransaction(r) \/ FulfillWithoutBackend(r)
               \/ FulfillFromSignedFile(r) \/ BackendFails(r) \/ SaveBundle(r) \/ AssemblyFails(r)
        PROVE  UNCHANGED file
    BY <2>2 DEF Resubmit, SignTransaction, FulfillWithoutBackend, FulfillFromSignedFile,
                BackendFails, SaveBundle, AssemblyFails
  <2>3. CASE Commit \/ UNCHANGED vars
    BY <2>3 DEF Commit, vars
  <2>. QED
    BY <2>1, <2>2, <2>3 DEF Next
<1>2. ASSUME NEW r \in Requests, Truncate(r) \/ FinishWrite(r)
      PROVE  \E bytes : file' = [file EXCEPT ![PathOf(r)] = {bytes}]
  BY <1>2 DEF Truncate, FinishWrite
<1>. QED
  BY <1>1, <1>2 DEF Typed

(* The steps of a request, by where they lead.                             *)
Fails(r) ==
    WriteFails(r) \/ SpawnFails(r) \/ CliFails(r) \/ BackendFails(r) \/ AssemblyFails(r)

Answers(r) == CliReports(r) \/ CliTimesOut(r) \/ CliGarbles(r)

Fulfills(r) == FulfillWithoutBackend(r) \/ FulfillFromSignedFile(r)

GoesOn(r) ==
    \/ FinishWrite(r) \/ Spawn(r) \/ Answers(r) \/ Receive(r) \/ Fulfills(r)
    \/ SaveBundle(r) \/ Resubmit(r) \/ Fails(r)

LEMMA StepsByKind ==
    [Next]_vars =>
        \/ Commit
        \/ \E r \in Requests :
              Truncate(r) \/ CliSends(r) \/ SignTransaction(r) \/ GoesOn(r)
        \/ UNCHANGED vars
  BY DEF Next, GoesOn, Answers, Fulfills, Fails

(* The other requests are only touched through the files and the chain.    *)
LEMMA OthersStay ==
    ASSUME Typed, NEW r \in Requests, NEW s \in Requests \ {r},
           Truncate(r) \/ CliSends(r) \/ SignTransaction(r) \/ GoesOn(r)
    PROVE  StateOf(s)' = StateOf(s)
<1>. USE DEF submission, cli, consensus, settlement, MoveTo, Typed, StateOf
<1>1. CASE Truncate(r)
  BY <1>1 DEF Truncate
<1>2. CASE CliSends(r)
  BY <1>2 DEF CliSends
<1>3. CASE SignTransaction(r)
  BY <1>3 DEF SignTransaction
<1>4. CASE FinishWrite(r) \/ Spawn(r)
  BY <1>4 DEF FinishWrite, Spawn
<1>5. CASE Answers(r)
  BY <1>5 DEF Answers, CliReports, CliTimesOut, CliGarbles, Prints
<1>6. CASE Receive(r) \/ Resubmit(r)
  BY <1>6 DEF Receive, Resubmit
<1>7. CASE Fulfills(r)
  BY <1>7 DEF Fulfills, FulfillWithoutBackend, FulfillFromSignedFile
<1>8. CASE SaveBundle(r)
  BY <1>8 DEF SaveBundle
<1>9. CASE Fails(r)
  BY <1>9 DEF Fails, WriteFails, SpawnFails, CliFails, BackendFails, AssemblyFails
<1>. QED
  BY <1>1, <1>2, <1>3, <1>4, <1>5, <1>6, <1>7, <1>8, <1>9 DEF GoesOn

(* What a request needs is there when a step has brought it where it is.   *)
LEMMA NeedsOfTheActor ==
    ASSUME Typed, NeedsAreMet, [Next]_vars, NEW r \in Requests,
           Truncate(r) \/ CliSends(r) \/ SignTransaction(r) \/ GoesOn(r)
    PROVE  HasWhatItNeeds(r)'
<1>1. /\ HasWhatItNeeds(r) /\ PathOf(r) \in Paths /\ MaxSubmissions(r) \in Nat
      /\ submissions[r] \in Nat /\ step[r] \in Steps
  BY SubmissionAssumption DEF NeedsAreMet, Paths, Typed
<1>2. file[PathOf(r)] # {} => file'[PathOf(r)] # {}
  BY <1>1, FilesStayFull
<1>. USE DEF submission, cli, consensus, settlement, MoveTo, Typed, HasWhatItNeeds
<1>3. CASE Truncate(r) \/ FinishWrite(r)
  BY <1>1, <1>3 DEF Truncate, FinishWrite
<1>4. CASE CliSends(r) \/ SignTransaction(r)
  BY <1>1, <1>2, <1>4 DEF CliSends, SignTransaction
<1>5. CASE Spawn(r)
  BY <1>1, <1>2, <1>5 DEF Spawn
<1>6. CASE Answers(r)
  <2>1. /\ step[r] = "Waiting" /\ UNCHANGED submissions
        /\ \/ step'[r] = "Failed"
           \/ step'[r] = "Answered" /\ \E frame : stdout'[r] = {frame}
    BY <1>6 DEF Answers, CliReports, CliTimesOut, CliGarbles, Prints
  <2>. QED
    BY <1>1, <2>1
<1>7. CASE Receive(r)
  <2>1. /\ step[r] = "Answered" /\ UNCHANGED submissions
        /\ \/ step'[r] = "Failed"
           \/ step'[r] = "Received" /\ \E held : receipt'[r] = {held}
    BY <1>7 DEF Receive
  <2>. QED
    BY <1>1, <2>1
<1>8. CASE Resubmit(r)
  <2>1. step'[r] = "Idle" /\ submissions[r] < MaxSubmissions(r) /\ UNCHANGED submissions
    BY <1>8 DEF Resubmit
  <2>. QED
    BY <2>1
<1>9. CASE Fulfills(r)
  BY <1>1, <1>9 DEF Fulfills, FulfillWithoutBackend, FulfillFromSignedFile
<1>10. CASE SaveBundle(r)
  BY <1>1, <1>10 DEF SaveBundle, MayAssemble
<1>11. CASE Fails(r)
  BY <1>1, <1>11 DEF Fails, WriteFails, SpawnFails, CliFails, BackendFails, AssemblyFails
<1>. QED
  BY <1>3, <1>4, <1>5, <1>6, <1>7, <1>8, <1>9, <1>10, <1>11 DEF GoesOn

LEMMA NeedsStayMet == Typed /\ NeedsAreMet /\ [Next]_vars => NeedsAreMet'
<1>1. ASSUME Typed, NeedsAreMet, [Next]_vars, NEW s \in Requests
      PROVE  HasWhatItNeeds(s)'
  <2>1. ASSUME StateOf(s)' = StateOf(s)
        PROVE  HasWhatItNeeds(s)'
    <3>1. HasWhatItNeeds(s) /\ PathOf(s) \in Paths
      BY <1>1 DEF NeedsAreMet, Paths
    <3>2. file[PathOf(s)] # {} => file'[PathOf(s)] # {}
      BY <1>1, <3>1, FilesStayFull
    <3>. QED
      BY <2>1, <3>1, <3>2 DEF HasWhatItNeeds, StateOf
  <2>2. CASE Commit \/ UNCHANGED vars
    BY <2>1, <2>2 DEF Commit, vars, StateOf, submission, cli, settlement
  <2>3. ASSUME NEW r \in Requests,
               Truncate(r) \/ CliSends(r) \/ SignTransaction(r) \/ GoesOn(r)
        PROVE  HasWhatItNeeds(s)'
    <3>1. CASE r = s
      BY <1>1, <2>3, <3>1, NeedsOfTheActor
    <3>2. CASE r # s
      BY <1>1, <2>1, <2>3, <3>2, OthersStay
    <3>. QED
      BY <3>1, <3>2
  <2>. QED
    BY <1>1, <2>2, <2>3, StepsByKind
<1>. QED
  BY <1>1 DEF NeedsAreMet

LEMMA NeedsHold == Spec => [](IInv /\ NeedsAreMet)
<1>1. Init => NeedsAreMet
  BY SubmissionAssumption DEF Init, NeedsAreMet, HasWhatItNeeds
<1>2. IInv /\ NeedsAreMet /\ [Next]_vars => NeedsAreMet'
  BY NeedsStayMet DEF IInv
<1>. QED
  BY <1>1, <1>2, IInvHolds, PTL DEF Spec

(* A request never waits for what cannot come, also when another one has   *)
(* overwritten its payload file: its CLI has a file to read, and once it   *)
(* has read one the time limit of its command line lets it return          *)
(* (ziranity_submit.rs).                                                   *)
THEOREM NoSubmissionIsEverStuck == Spec => []NoSubmissionIsStuck
<1>1. ASSUME IInv, NeedsAreMet, NEW r \in Requests, step[r] = "Waiting"
      PROVE  CliMaySend(r) \/ CliMayReturn(r)
  <2> DEFINE line == BuildCliArgs(NewMvp(PathOf(r)))
  <2>1. args[r] = {line} /\ file[PathOf(r)] # {}
    BY <1>1 DEF NeedsAreMet, HasWhatItNeeds
  <2>2. line.payload = PathOf(r) /\ line.wait_timeout # {}
    BY DEF BuildCliArgs, NewMvp
  <2>. QED
    BY <2>1, <2>2 DEF CliMaySend, CliMayReturn
<1>2. IInv /\ NeedsAreMet => NoSubmissionIsStuck
  BY <1>1 DEF NoSubmissionIsStuck, NeedsAreMet, HasWhatItNeeds
<1>. QED
  BY <1>2, NeedsHold, PTL

LEMMA StepsAfterIsBounded ==
    ASSUME NEW here \in Steps
    PROVE  StepsAfter(here) \in 0 .. 8
  BY DEF StepsAfter, Steps

(* Within a submission a request only goes forward.                        *)
LEMMA GoingOnIsForward ==
    ASSUME Typed, NEW r \in Requests, GoesOn(r)
    PROVE  /\ submissions'[r] = submissions[r]
           /\ StepsAfter(step'[r]) + StepsToSend(r)' < StepsAfter(step[r]) + StepsToSend(r)
<1>. USE DEF submission, cli, consensus, settlement, MoveTo, Typed
<1>1. UNCHANGED submissions
  BY DEF GoesOn, FinishWrite, Spawn, Answers, CliReports, CliTimesOut, CliGarbles, Prints,
         Receive, Fulfills, FulfillWithoutBackend, FulfillFromSignedFile, SaveBundle, Resubmit,
         Fails, WriteFails, SpawnFails, CliFails, BackendFails, AssemblyFails
<1>2. <<step[r], step'[r]>> \in
         {<<"Writing", "Written">>, <<"Written", "Waiting">>, <<"Waiting", "Answered">>,
          <<"Answered", "Received">>, <<"Received", "Fulfilled">>, <<"Fulfilled", "Saved">>,
          <<"Writing", "Failed">>, <<"Written", "Failed">>, <<"Waiting", "Failed">>,
          <<"Answered", "Failed">>, <<"Received", "Failed">>, <<"Fulfilled", "Failed">>,
          <<"Failed", "Idle">>, <<"Fulfilled", "Idle">>}
  <2>1. CASE FinishWrite(r) \/ Spawn(r)
    BY <2>1 DEF FinishWrite, Spawn
  <2>2. CASE Answers(r)
    BY <2>2 DEF Answers, CliReports, CliTimesOut, CliGarbles, Prints
  <2>3. CASE Receive(r)
    BY <2>3 DEF Receive
  <2>4. CASE Fulfills(r)
    BY <2>4 DEF Fulfills, FulfillWithoutBackend, FulfillFromSignedFile
  <2>5. CASE SaveBundle(r)
    BY <2>5 DEF SaveBundle, MayAssemble
  <2>6. CASE Resubmit(r)
    BY <2>6 DEF Resubmit, MayResubmit
  <2>7. CASE Fails(r)
    BY <2>7 DEF Fails, WriteFails, SpawnFails, CliFails, BackendFails, AssemblyFails
  <2>. QED
    BY <2>1, <2>2, <2>3, <2>4, <2>5, <2>6, <2>7 DEF GoesOn
<1>. QED
  BY <1>1, <1>2 DEF StepsAfter, StepsToSend

(* A request takes at most nine steps for each of its submissions,         *)
(* whatever the other requests, consensus and the operator do meanwhile    *)
(* (ziranity_submit.rs, intake.rs, settlement.rs).                         *)
THEOREM SubmissionsTakeFinitelyManySteps ==
    /\ Spec => EveryChangeIsProgress
    /\ Spec => [](\A r \in Requests : StepsLeft(r) \in 0 .. 9 * MaxSubmissions(r))
<1>1. ASSUME IInv, NEW r \in Requests
      PROVE  /\ MaxSubmissions(r) \in Nat /\ submissions[r] \in Nat
             /\ submissions[r] <= MaxSubmissions(r)
             /\ step[r] \in Steps /\ StepsAfter(step[r]) \in 0 .. 8
             /\ StepsToSend(r) \in 0 .. 1
  BY <1>1, SubmissionAssumption, StepsAfterIsBounded DEF IInv, Typed, StepsToSend
<1>2. ASSUME IInv, NeedsAreMet, [Next]_vars, NEW s \in Requests
      PROVE  StateOf(s)' = StateOf(s) \/ StepsLeft(s)' < StepsLeft(s)
  <2>1. CASE Commit \/ UNCHANGED vars
    BY <2>1 DEF Commit, vars, StateOf, submission, cli, settlement
  <2>2. ASSUME Truncate(s)
        PROVE  StepsLeft(s)' < StepsLeft(s)
    <3>1. /\ submissions'[s] = submissions[s] + 1 /\ submissions[s] < MaxSubmissions(s)
          /\ step[s] = "Idle" /\ step'[s] = "Writing"
      BY <1>2, <2>2 DEF Truncate, MoveTo, IInv, Typed
    <3>2. StepsAfter("Writing") = 8 /\ StepsAfter("Idle") = 0
      BY DEF StepsAfter
    <3>3. StepsToSend(s)' = 0 /\ StepsToSend(s) = 0
      BY <3>1 DEF StepsToSend
    <3>4. StepsLeft(s)' = 9 * (MaxSubmissions(s) - (submissions[s] + 1)) + 8
      <4>1. StepsAfter(step'[s]) = 8
        BY <3>1, <3>2
      <4>2. StepsLeft(s)' = 9 * (MaxSubmissions(s) - submissions'[s]) + StepsAfter(step'[s])
                               + StepsToSend(s)'
        BY DEF StepsLeft
      <4>. QED
        BY <1>1, <1>2, <3>1, <3>3, <4>1, <4>2
    <3>. QED
      BY <1>1, <1>2, <3>1, <3>2, <3>3, <3>4 DEF StepsLeft
  <2>3. ASSUME CliSends(s)
        PROVE  StateOf(s)' = StateOf(s) \/ StepsLeft(s)' < StepsLeft(s)
    <3>1. /\ step[s] = "Waiting" /\ sent[s] = {}
          /\ UNCHANGED <<step, submissions, args, stdout, receipt, outcome, bundle>>
      BY <2>3 DEF CliSends, submission, settlement
    <3>2. CASE sent'[s] = {}
      BY <3>1, <3>2 DEF StateOf
    <3>3. CASE sent'[s] # {}
      <4>1. StepsToSend(s) = 1 /\ StepsToSend(s)' = 0
        BY <3>1, <3>3 DEF StepsToSend
      <4>. QED
        BY <1>1, <1>2, <3>1, <4>1 DEF StepsLeft
    <3>. QED
      BY <3>2, <3>3
  <2>4. ASSUME SignTransaction(s)
        PROVE  StateOf(s)' = StateOf(s)
    BY <2>4 DEF SignTransaction, StateOf, submission, cli
  <2>5. ASSUME GoesOn(s)
        PROVE  StepsLeft(s)' < StepsLeft(s)
    <3>1. IInv'
      BY <1>2, IInvIsKept
    <3>2. /\ StepsAfter(step'[s]) \in 0 .. 8
          /\ StepsToSend(s)' \in 0 .. 1
      <4>1. step'[s] \in Steps
        BY <3>1 DEF IInv, Typed
      <4>. QED
        BY <4>1, StepsAfterIsBounded DEF StepsToSend
    <3>3. /\ submissions'[s] = submissions[s]
          /\ StepsAfter(step'[s]) + StepsToSend(s)' < StepsAfter(step[s]) + StepsToSend(s)
      BY <1>2, <2>5, GoingOnIsForward DEF IInv
    <3>4. StepsLeft(s)' = 9 * (MaxSubmissions(s) - submissions[s])
                             + StepsAfter(step'[s]) + StepsToSend(s)'
      BY <3>3 DEF StepsLeft
    <3>. QED
      BY <1>1, <1>2, <3>2, <3>3, <3>4 DEF StepsLeft
  <2>6. ASSUME NEW r \in Requests,
               Truncate(r) \/ CliSends(r) \/ SignTransaction(r) \/ GoesOn(r)
        PROVE  StateOf(s)' = StateOf(s) \/ StepsLeft(s)' < StepsLeft(s)
    <3>1. CASE r = s
      BY <2>2, <2>3, <2>4, <2>5, <2>6, <3>1
    <3>2. CASE r # s
      BY <1>2, <2>6, <3>2, OthersStay DEF IInv
    <3>. QED
      BY <3>1, <3>2
  <2>. QED
    BY <1>2, <2>1, <2>6, StepsByKind
<1>3. IInv /\ NeedsAreMet /\ [Next]_vars =>
         [\A r \in Requests : StateOf(r)' = StateOf(r) \/ StepsLeft(r)' < StepsLeft(r)]_vars
  BY <1>2
<1>4. IInv /\ NeedsAreMet => \A r \in Requests : StepsLeft(r) \in 0 .. 9 * MaxSubmissions(r)
  <2>1. ASSUME IInv, NeedsAreMet, NEW r \in Requests
        PROVE  StepsLeft(r) \in 0 .. 9 * MaxSubmissions(r)
    <3>1. CASE step[r] = "Idle"
      <4>1. StepsAfter(step[r]) = 0 /\ StepsToSend(r) = 0
        BY <3>1 DEF StepsAfter, StepsToSend
      <4>. QED
        BY <1>1, <2>1, <4>1 DEF StepsLeft
    <3>2. CASE step[r] # "Idle"
      <4>1. submissions[r] > 0
        BY <2>1, <3>2 DEF NeedsAreMet, HasWhatItNeeds
      <4>. QED
        BY <1>1, <2>1, <4>1 DEF StepsLeft
    <3>. QED
      BY <3>1, <3>2
  <2>. QED
    BY <2>1
<1>. QED
  BY <1>3, <1>4, NeedsHold, PTL DEF Spec, EveryChangeIsProgress

=============================================================================
