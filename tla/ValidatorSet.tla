----------------------------- MODULE ValidatorSet -----------------------------
(***************************************************************************)
(* The disbursement handler inside the validators (integrations/ziranity). *)
(* Every validator freezes its own configuration when it starts, and       *)
(* evaluates a committed call with the time of the commit context, which   *)
(* is the leader's proposed time.  A result is committed when a quorum of  *)
(* validators has produced the same bytes.                                 *)
(*                                                                         *)
(* Clocks, files and the consensus round are external: they are what the   *)
(* handler's interface and the devnet of scripts/demo.sh assume.           *)
(***************************************************************************)
EXTENDS NodeConfig, FiniteSets

CONSTANTS
    Validators,
    Quorums,      \* sets of validators whose agreement commits
    None,         \* the absent value
    ConfigFiles,  \* files an operator may put on a validator's disk
    Intents,      \* intents that may be submitted
    Garbage,      \* call bytes that do not decode as an intent
    MaxNow,       \* bound on the clocks
    MaxBlocks     \* bound on the committed blocks

Calls == Intents \cup {Garbage}

ASSUME ValidatorSetAssumption ==
    /\ Intents \subseteq DisbursementIntents
    /\ Garbage \notin DisbursementIntents
    /\ \A file \in ConfigFiles : IsConfigFile(file)
    /\ \A Q \in Quorums : Q \subseteq Validators /\ Q # {}
    /\ \A P, Q \in Quorums : P \cap Q # {}
    /\ MaxNow \in U64
    /\ MaxBlocks \in Nat

VARIABLES
    file,       \* the configuration file on each validator's disk
    handler,    \* the snapshot each running validator's handler holds
    clock,      \* the local clock of each validator
    proposal,   \* the call in consensus, with its committed time
    reply,      \* what each validator's handler returned for the proposal,
                \* and the snapshot it used
    blocks      \* committed results, and the snapshots of the voters

vars == <<file, handler, clock, proposal, reply, blocks>>

-----------------------------------------------------------------------------

(* DomainHandler::handle                                                   *)
Ok(result) == [reply |-> "Ok", result |-> result]
Err(code) == [reply |-> "Err", code |-> code]

Handle(call, config, now) ==
    IF call = Garbage
    THEN Err("DECODE_FAILURE")
    ELSE Ok(AuthorizeDisbursement(call, config, now))

Answers == [reply : {"Ok"}, result : AuthorizationResults]
               \cup [reply : {"Err"}, code : {"DECODE_FAILURE"}]

NoReplies == [v \in Validators |-> None]

-----------------------------------------------------------------------------

TypeOK ==
    /\ file \in [Validators -> ConfigFiles]
    /\ \A v \in Validators : handler[v] # None => IsConfigSnapshot(handler[v])
    /\ clock \in [Validators -> 0 .. MaxNow]
    /\ proposal # None => proposal.call \in Calls /\ proposal.now \in U64
    /\ \A v \in Validators : reply[v] # None =>
          reply[v].answer \in Answers /\ IsConfigSnapshot(reply[v].config)
    /\ \A block \in blocks :
          /\ block.call \in Calls /\ block.now \in U64 /\ block.answer \in Answers
          /\ \A config \in block.configs : IsConfigSnapshot(config)

Init ==
    /\ file \in [Validators -> ConfigFiles]
    /\ handler = [v \in Validators |-> None]
    /\ clock = [v \in Validators |-> 0]
    /\ proposal = None
    /\ reply = NoReplies
    /\ blocks = {}

Tick(v) ==
    /\ clock[v] < MaxNow
    /\ clock' = [clock EXCEPT ![v] = @ + 1]
    /\ UNCHANGED <<file, handler, proposal, reply, blocks>>

EditFile(v) ==
    /\ \E edited \in ConfigFiles : file' = [file EXCEPT ![v] = edited]
    /\ UNCHANGED <<handler, clock, proposal, reply, blocks>>

(* build_disbursement_handler reads the file once.  On a BuildError the    *)
(* node does not start.                                                    *)
StartNode(v) ==
    /\ handler[v] = None
    /\ IsLoadable(file[v])
    /\ handler' = [handler EXCEPT ![v] = SnapshotOf(file[v])]
    /\ UNCHANGED <<file, clock, proposal, reply, blocks>>

StopNode(v) ==
    /\ handler[v] # None
    /\ handler' = [handler EXCEPT ![v] = None]
    /\ UNCHANGED <<file, clock, proposal, reply, blocks>>

Propose(v) ==
    /\ handler[v] # None
    /\ proposal = None
    /\ Cardinality(blocks) < MaxBlocks
    /\ \E call \in Calls : proposal' = [call |-> call, now |-> clock[v]]
    /\ UNCHANGED <<file, handler, clock, reply, blocks>>

(* Fault: freshness is judged by the validator's own clock.                *)
EvaluateByLocalClock(v) ==
    /\ handler[v] # None
    /\ proposal # None
    /\ reply[v] = None
    /\ reply' = [reply EXCEPT ![v] =
          [answer |-> Handle(proposal.call, handler[v], clock[v]),
           config |-> handler[v]]]
    /\ UNCHANGED <<file, handler, clock, proposal, blocks>>

(* Fault: bytes that do not decode get no reply.                           *)
EvaluateDecodable(v) ==
    /\ handler[v] # None
    /\ proposal # None
    /\ proposal.call # Garbage
    /\ reply[v] = None
    /\ reply' = [reply EXCEPT ![v] =
          [answer |-> Handle(proposal.call, handler[v], proposal.now),
           config |-> handler[v]]]
    /\ UNCHANGED <<file, handler, clock, proposal, blocks>>

(* The local clock is not read.                                            *)
Evaluate(v) ==
    /\ handler[v] # None
    /\ proposal # None
    /\ reply[v] = None
    /\ reply' = [reply EXCEPT ![v] =
          [answer |-> Handle(proposal.call, handler[v], proposal.now),
           config |-> handler[v]]]
    /\ UNCHANGED <<file, handler, clock, proposal, blocks>>

(* A quorum has the same bytes.  The files of the voters are not consulted,*)
(* nor whether they still run.                                             *)
CommitBlock ==
    /\ proposal # None
    /\ \E Q \in Quorums :
          /\ \A v \in Q : reply[v] # None
          /\ \A v, w \in Q : reply[v].answer = reply[w].answer
          /\ \E v \in Q :
                blocks' = blocks \cup
                    {[call |-> proposal.call, now |-> proposal.now,
                      answer |-> reply[v].answer,
                      configs |-> {reply[w].config : w \in Q}]}
    /\ proposal' = None
    /\ reply' = NoReplies
    /\ UNCHANGED <<file, handler, clock>>

(* The round ends without a decision.                                      *)
AbandonRound ==
    /\ proposal # None
    /\ proposal' = None
    /\ reply' = NoReplies
    /\ UNCHANGED <<file, handler, clock, blocks>>

Next ==
    \/ CommitBlock
    \/ AbandonRound
    \/ \E v \in Validators :
          \/ Tick(v)
          \/ EditFile(v)
          \/ StartNode(v)
          \/ StopNode(v)
          \/ Propose(v)
          \/ Evaluate(v)

Spec == Init /\ [][Next]_vars

(* A running validator evaluates the proposal it has, and a quorum of      *)
(* equal replies commits.                                                  *)
FairSpec ==
    /\ Spec
    /\ WF_vars(CommitBlock)
    /\ \A v \in Validators : WF_vars(Evaluate(v))

-----------------------------------------------------------------------------
(* A committed verdict is right by the configuration of every validator    *)
(* that voted for it, at the committed time: Authorized exactly when all   *)
(* the conditions hold, in ADA, and a decode error exactly for garbage     *)
(* (lib.rs, authorize.rs).                                                 *)
IsRightBy(block, config) ==
    IF block.call = Garbage
    THEN block.answer = Err("DECODE_FAILURE")
    ELSE /\ block.answer.reply = "Ok"
         /\ (block.answer.result.verdict = "Authorized")
                <=> Permitted(block.call, config, block.now)
         /\ block.answer.result.verdict = "Authorized" =>
                /\ block.answer.result.effect.asset = ADA
                /\ block.answer.result.effect.authorized_amount_lovelace
                      = block.call.requested_amount_lovelace
                /\ block.answer.result.effect.destination = block.call.destination

CommittedIsRight ==
    \A block \in blocks : \A config \in block.configs : IsRightBy(block, config)

(* A validator's configuration changes only when it starts, and then to    *)
(* one that serves the whole of the file on its disk, which has no         *)
(* mistake: no entry shadows another and every destination has a legal     *)
(* length (config.rs, lib.rs).                                             *)
Serves(config, f) ==
    /\ config.policies = f.registered_policy_refs
    /\ \A i \in DOMAIN f.allocations :
          LET entry == f.allocations[i]
              facts == config.allocations[entry.id]
          IN  /\ facts.basis_lovelace = entry.basis_lovelace
              /\ facts.authorized_subjects = entry.authorized_subjects
              /\ entry.approved_asset = ADA_LITERAL /\ facts.approved_asset = ADA
              /\ \A destination \in entry.approved_destinations :
                    /\ destination.length > 0
                    /\ destination.length <= MAX_ADDRESS_LENGTH
                    /\ destination.address \in facts.approved_destinations

EveryEntryIsServed ==
    [][\A v \in Validators : handler'[v] \notin {handler[v], None} =>
          handler[v] = None /\ file[v].parses /\ Serves(handler'[v], file[v])]_vars

(* Validators that froze the same configuration give the same bytes,       *)
(* however far apart their clocks and whatever is on their disks by then.  *)
SameSnapshotSameReply ==
    \A v, w \in Validators :
        /\ reply[v] # None /\ reply[w] # None
        /\ reply[v].config = reply[w].config
        => reply[v].answer = reply[w].answer

(* While all validators run with one configuration a proposal is never     *)
(* stuck: no clock skew and no call, not even garbage, splits the votes.   *)
IsUniform ==
    /\ \A v \in Validators : handler[v] # None
    /\ \A v, w \in Validators : handler[v] = handler[w]
    /\ \A v \in Validators : reply[v] # None => reply[v].config = handler[v]

UniformSetDecides ==
    []<>~IsUniform \/ (proposal # None ~> proposal = None)

=============================================================================
