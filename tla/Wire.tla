--------------------------------- MODULE Wire ---------------------------------
(***************************************************************************)
(* What the parts of OracleGuard hand to each other through files and      *)
(* processes: canonical bytes and their strict decoders, the arguments of  *)
(* the Ziranity CLI and the frame it prints (ziranity_submit.rs,           *)
(* intake.rs), the transaction id cardano-cli prints (cardano.rs) and the  *)
(* bundle files of the verifier (bundle.rs).  Pure operators.              *)
(*                                                                         *)
(* Bytes are the value they were encoded from and what became of them:     *)
(* all of them and no more, with other bytes behind them, or cut short.    *)
(***************************************************************************)
EXTENDS Verifier, FiniteSets

Ok(value) == [result |-> "Ok", value |-> value]
Err(error) == [result |-> "Err", error |-> error]

Shapes == {"Exact", "Trailing", "Cut"}

Bytes(values) == [shape : Shapes, value : values]

Encode(value) == [shape |-> "Exact", value |-> value]
Cut(value) == [shape |-> "Cut", value |-> value]
Trailing(value) == [shape |-> "Trailing", value |-> value]

(* postcard::take_from_bytes, and that nothing remains.                    *)
Decode(bytes) ==
    CASE bytes.shape = "Exact"    -> Ok(bytes.value)
      [] bytes.shape = "Trailing" -> Err("TrailingBytes")
      [] bytes.shape = "Cut"      -> Err("Malformed")

EmitPayload(intent) == Encode(intent)
DecodeIntent(bytes) == Decode(bytes)

EncodeResult(result) == Encode(result)
DecodeResult(bytes) == Decode(bytes)

EncodeEvidence(evidence) == Encode(evidence)
DecodeEvidence(bytes) == Decode(bytes)

-----------------------------------------------------------------------------
(* The command line of `ziranity intent submit`                            *)

DISBURSEMENT_OCU_ID == "DISBURSEMENT_OCU"

(* The authority is the same for every intent.                             *)
Route(intent) == DISBURSEMENT_OCU_ID

DEFAULT_WAIT_TIMEOUT_SECS == 30

(* SubmitConfig::new_mvp; key, node and bootstrap bundle are the           *)
(* deployment's and left out.                                              *)
NewMvp(payload_path) ==
    [payload_path |-> payload_path, object_id |-> DISBURSEMENT_OCU_ID,
     wait |-> TRUE, wait_timeout_secs |-> DEFAULT_WAIT_TIMEOUT_SECS]

(* Fault: the limit goes to the CLI only when it does not wait.            *)
UnlimitedCliArgs(config) ==
    [payload |-> config.payload_path, object_id |-> config.object_id,
     wait |-> config.wait,
     wait_timeout |-> IF config.wait THEN {} ELSE {config.wait_timeout_secs}]

BuildCliArgs(config) ==
    [payload |-> config.payload_path, object_id |-> config.object_id,
     wait |-> config.wait,
     wait_timeout |-> IF config.wait THEN {config.wait_timeout_secs} ELSE {}]

-----------------------------------------------------------------------------
(* The frame the CLI prints: the id, a byte for the status, the height,    *)
(* the length of the output and the output.  A frame is whole when it is   *)
(* no shorter than its header, and counted when the length is right.       *)

COMMITTED_BYTE == 1
PENDING_BYTE == 2
StatusBytes == {COMMITTED_BYTE, PENDING_BYTE, 3}

RenderCliReceipt(receipt) ==
    [whole |-> TRUE,
     intent_id |-> receipt.intent_id,
     status |-> IF receipt.status = "Committed" THEN COMMITTED_BYTE ELSE PENDING_BYTE,
     committed_height |-> receipt.committed_height,
     counted |-> TRUE,
     output |-> EncodeResult(receipt.output)]

(* What can come of a frame on its way.                                    *)
Damaged(frame) ==
    {[frame EXCEPT !.whole = FALSE, !.counted = FALSE],
     [frame EXCEPT !.status = 3],
     [frame EXCEPT !.counted = FALSE],
     [frame EXCEPT !.output = Cut(@.value)],
     [frame EXCEPT !.output = Trailing(@.value)]}

(* Fault: what is not pending is committed.                                *)
StatusUnlessPending(byte) ==
    IF byte = PENDING_BYTE THEN Ok("Pending") ELSE Ok("Committed")

(* Fault: a byte of no meaning gives a status of its own.                  *)
StatusOrUnknown(byte) ==
    CASE byte = COMMITTED_BYTE -> Ok("Committed")
      [] byte = PENDING_BYTE   -> Ok("Pending")
      [] OTHER                 -> Ok("Unknown")

StatusOf(byte) ==
    CASE byte = COMMITTED_BYTE -> Ok("Committed")
      [] byte = PENDING_BYTE   -> Ok("Pending")
      [] OTHER                 -> Err("MalformedReceipt")

ParseConsensusOutput(bytes) ==
    IF DecodeResult(bytes).result = "Ok" THEN DecodeResult(bytes) ELSE Err("Decode")

ParseCliReceipt(frame) ==
    LET status == StatusOf(frame.status)
        output == ParseConsensusOutput(frame.output)
    IN  IF ~frame.whole THEN Err("MalformedReceipt")
        ELSE IF status.result = "Err" THEN status
        ELSE IF ~frame.counted THEN Err("MalformedReceipt")
        ELSE IF output.result = "Err" THEN output
        ELSE Ok([intent_id |-> frame.intent_id, status |-> status.value,
                 committed_height |-> frame.committed_height, output |-> output.value])

-----------------------------------------------------------------------------
(* The signed transactions cardano-cli reads, and the id it prints         *)

(* Fault: named after the payee.                                           *)
SignedTxPathOfPayee(request) == <<request.destination, ".signed">>

(* One file for each intent id.                                            *)
SignedTxPathFor(request) == <<request.intent_id, ".signed">>

(* The id with whitespace around it, or another text: shorter or longer,   *)
(* or in upper case.                                                       *)
TxidOutputs(tx_hash) ==
    [text : {"Hex", "OtherLength", "UpperCase"}, tx_hash : {tx_hash}]

ParseCliTxidStdout(stdout) ==
    CASE stdout.text = "Hex"         -> Ok(stdout.tx_hash)
      [] stdout.text = "OtherLength" -> Err("WrongLength")
      [] stdout.text = "UpperCase"   -> Err("InvalidChar")

-----------------------------------------------------------------------------
(* The bundle files of the verifier                                        *)

(* A file is Some(bytes) as a set; there may be none.                      *)
LoadBundle(file) ==
    IF file = {} THEN Err("Io")
    ELSE LET decoded == DecodeEvidence(CHOOSE bytes \in file : TRUE)
         IN  IF decoded.result = "Ok" THEN decoded ELSE Err("Decode")

IsClean(file) ==
    LET loaded == LoadBundle(file)
    IN  loaded.result = "Ok" /\ IsOk(VerifyEvidence(loaded.value))

(* Fault: a bundle that does not load is not counted.                      *)
ExitCodeOfLoaded(files) ==
    IF \A name \in DOMAIN files : LoadBundle(files[name]).result = "Ok" => IsClean(files[name])
    THEN 0 ELSE 1

(* The exit code of verify_bundles over the bundles of its list.           *)
VerifyBundles(files) ==
    IF Cardinality({name \in DOMAIN files : IsClean(files[name])}) = Cardinality(DOMAIN files)
    THEN 0 ELSE 1

=============================================================================
