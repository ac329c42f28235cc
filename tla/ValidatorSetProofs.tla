--------------------------- MODULE ValidatorSetProofs ---------------------------
(***************************************************************************)
(* Safety of ValidatorSet for any number of validators, any quorums and    *)
(* any files: what is committed is right by the configuration of everyone  *)
(* who voted for it.                                                       *)
(***************************************************************************)
EXTENDS ValidatorSet, DecisionProofs

-----------------------------------------------------------------------------
(* Snapshots                                                               *)

(* A snapshot some loadable file gives.                                    *)
IsFrozen(config) == \E f \in ConfigFiles : IsLoadable(f) /\ config = SnapshotOf(f)

(* Without duplicates, looking an id up finds the entry that has it.       *)
LEMMA EntriesAreFound ==
    ASSUME NEW f, IsConfigFile(f), IsLoadable(f), NEW i \in DOMAIN f.allocations
    PROVE  EntryOf(f, f.allocations[i].id) = f.allocations[i]
<1> DEFINE indices == {j \in DOMAIN f.allocations : f.allocations[j].id = f.allocations[i].id}
<1>1. \A j \in indices : j = i
  BY DEF IsLoadable, HasDuplicateIds
<1>2. i \in indices /\ i <= i
  BY DEF IsConfigFile
<1>3. (CHOOSE j \in indices : \A k \in indices : j <= k) = i
  BY <1>1, <1>2
<1>. QED
  BY <1>3 DEF EntryOf

LEMMA SnapshotServesItsFile ==
    ASSUME NEW f, IsConfigFile(f), IsLoadable(f)
    PROVE  /\ SnapshotOf(f).policies = f.registered_policy_refs
           /\ \A i \in DOMAIN f.allocations :
                 /\ f.allocations[i].id \in DOMAIN SnapshotOf(f).allocations
                 /\ SnapshotOf(f).allocations[f.allocations[i].id] = FactsOf(f.allocations[i])
           /\ \A id \in DOMAIN SnapshotOf(f).allocations :
                 \E i \in DOMAIN f.allocations : id = f.allocations[i].id
  BY EntriesAreFound DEF SnapshotOf

(* Every snapshot has its type, and approves ADA only.                     *)
LEMMA FrozenIsTyped ==
    ASSUME NEW config, IsFrozen(config)
    PROVE  /\ IsConfigSnapshot(config)
           /\ \A id \in DOMAIN config.allocations :
                 config.allocations[id].approved_asset = ADA
<1>1. PICK f \in ConfigFiles : IsLoadable(f) /\ config = SnapshotOf(f)
  BY DEF IsFrozen
<1>2. IsConfigFile(f)
  BY ValidatorSetAssumption
<1>3. \A i \in DOMAIN f.allocations :
         /\ f.allocations[i].id \in AllocationIds
         /\ FactsOf(f.allocations[i]) \in AllocationFacts
  BY <1>2, CanonicalAssumption
  DEF IsConfigFile, IsAllocationFile, DestinationFiles, FactsOf, AllocationFacts
<1>4. \A i \in DOMAIN f.allocations : FactsOf(f.allocations[i]).approved_asset = ADA
  BY DEF FactsOf
<1>5. \A id \in DOMAIN config.allocations : \E i \in DOMAIN f.allocations :
         id = f.allocations[i].id /\ config.allocations[id] = FactsOf(f.allocations[i])
  BY <1>1, <1>2, SnapshotServesItsFile
<1>6. config.policies \subseteq PolicyRefs
  BY <1>1, <1>2, SnapshotServesItsFile DEF IsConfigFile
<1>. QED
  BY <1>3, <1>4, <1>5, <1>6 DEF IsConfigSnapshot

-----------------------------------------------------------------------------
(* The inductive invariant: whoever holds a snapshot has it from a file    *)
(* that loads, and answers are what the handler gives for the call and the *)
(* committed time.                                                         *)

IsAnswerTo(answer, call, config, time) ==
    IsFrozen(config) /\ answer = Handle(call, config, time)

HandlersAreFrozen == \A v \in Validators : handler[v] # None => IsFrozen(handler[v])

RepliesAreAnswers ==
    \A v \in Validators : reply[v] # None =>
        /\ proposal # None
        /\ IsAnswerTo(reply[v].answer, proposal.call, reply[v].config, proposal.now)

BlocksAreAnswers ==
    \A block \in blocks :
        /\ block.call \in Calls /\ block.now \in U64 /\ block.configs # {}
        /\ \A config \in block.configs :
              IsAnswerTo(block.answer, block.call, config, block.now)

IInv ==
    /\ file \in [Validators -> ConfigFiles]
    /\ handler = [v \in Validators |-> handler[v]]
    /\ reply = [v \in Validators |-> reply[v]]
    /\ clock \in [Validators -> 0 .. MaxNow]
    /\ proposal # None => proposal.call \in Calls /\ proposal.now \in U64
    /\ HandlersAreFrozen
    /\ RepliesAreAnswers
    /\ BlocksAreAnswers

LEMMA ClocksAreTimes == \A time \in 0 .. MaxNow : time \in U64
  BY ValidatorSetAssumption, CanonicalAssumption DEF U64

LEMMA CommitBlockKeepsIInv ==
    ASSUME IInv, CommitBlock
    PROVE  IInv'
<1>0. PICK Q \in Quorums :
         /\ \A w \in Q : reply[w] # None
         /\ \A v, w \in Q : reply[v].answer = reply[w].answer
         /\ \E v \in Q :
               blocks' = blocks \cup
                   {[call |-> proposal.call, now |-> proposal.now,
                     answer |-> reply[v].answer,
                     configs |-> {reply[w].config : w \in Q}]}
  BY DEF CommitBlock
<1>1. PICK v \in Q :
         blocks' = blocks \cup
             {[call |-> proposal.call, now |-> proposal.now,
               answer |-> reply[v].answer,
               configs |-> {reply[w].config : w \in Q}]}
  BY <1>0
<1> DEFINE block == [call |-> proposal.call, now |-> proposal.now,
                     answer |-> reply[v].answer,
                     configs |-> {reply[w].config : w \in Q}]
<1>2. Q \subseteq Validators
  BY ValidatorSetAssumption
<1>3. \A w \in Q : IsAnswerTo(block.answer, block.call, reply[w].config, block.now)
  BY <1>0, <1>2 DEF IInv, RepliesAreAnswers
<1>4. block.call \in Calls /\ block.now \in U64 /\ block.configs # {}
  <2>1. proposal # None
    BY DEF CommitBlock
  <2>2. reply[v].config \in block.configs
    OBVIOUS
  <2>. QED
    BY <2>1, <2>2 DEF IInv
<1>5. BlocksAreAnswers'
  <2>1. blocks' = blocks \cup {block}
    BY <1>1
  <2>2. \A config \in block.configs :
           IsAnswerTo(block.answer, block.call, config, block.now)
    BY <1>3
  <2>. HIDE DEF block
  <2>. QED
    BY <1>4, <2>1, <2>2 DEF IInv, BlocksAreAnswers, IsAnswerTo, IsFrozen
<1>6. /\ UNCHANGED <<file, handler, clock>>
      /\ proposal' = None /\ reply' = [w \in Validators |-> None]
  BY DEF CommitBlock, NoReplies
<1>. QED
  BY <1>5, <1>6 DEF IInv, HandlersAreFrozen, RepliesAreAnswers, IsFrozen

LEMMA StartNodeKeepsIInv ==
    ASSUME IInv, NEW v \in Validators, StartNode(v)
    PROVE  IInv'
<1>1. IsFrozen(SnapshotOf(file[v]))
  BY DEF StartNode, IsFrozen, IInv
<1>2. \A w \in Validators : handler'[w] = IF w = v THEN SnapshotOf(file[v]) ELSE handler[w]
  BY DEF StartNode, IInv
<1>3. HandlersAreFrozen'
  BY <1>1, <1>2 DEF IInv, HandlersAreFrozen, IsFrozen
<1>4. handler' = [w \in Validators |-> handler'[w]]
  BY DEF StartNode, IInv
<1>5. UNCHANGED <<file, clock, proposal, reply, blocks>>
  BY DEF StartNode
<1>. QED
  BY <1>3, <1>4, <1>5 DEF IInv, RepliesAreAnswers, BlocksAreAnswers, IsAnswerTo, IsFrozen

LEMMA EvaluateKeepsIInv ==
    ASSUME IInv, NEW v \in Validators, Evaluate(v)
    PROVE  IInv'
<1> DEFINE given == [answer |-> Handle(proposal.call, handler[v], proposal.now),
                     config |-> handler[v]]
<1>1. IsAnswerTo(given.answer, proposal.call, given.config, proposal.now)
  BY DEF Evaluate, IsAnswerTo, IInv, HandlersAreFrozen
<1>2. /\ \A w \in Validators : reply'[w] = IF w = v THEN given ELSE reply[w]
      /\ reply' = [w \in Validators |-> reply'[w]]
  BY DEF Evaluate, IInv
<1>3. UNCHANGED <<file, handler, clock, proposal, blocks>> /\ proposal # None
  BY DEF Evaluate
<1>4. RepliesAreAnswers'
  BY <1>1, <1>2, <1>3 DEF IInv, RepliesAreAnswers, IsAnswerTo, IsFrozen
<1>. QED
  BY <1>2, <1>3, <1>4 DEF IInv, HandlersAreFrozen, BlocksAreAnswers, IsAnswerTo, IsFrozen

(* The other steps give no answer.                                         *)
LEMMA OtherStepsKeepIInv ==
    ASSUME IInv,
           \/ AbandonRound \/ UNCHANGED vars
           \/ \E v \in Validators : Tick(v) \/ EditFile(v) \/ StopNode(v) \/ Propose(v)
    PROVE  IInv'
<1>1. BlocksAreAnswers'
  <2>1. blocks' = blocks
    BY DEF AbandonRound, vars, Tick, EditFile, StopNode, Propose
  <2>. QED
    BY <2>1 DEF IInv, BlocksAreAnswers, IsAnswerTo, IsFrozen
<1>2. ASSUME AbandonRound PROVE IInv'
  BY <1>1, <1>2 DEF AbandonRound, NoReplies, IInv, HandlersAreFrozen, RepliesAreAnswers, IsFrozen
<1>3. ASSUME NEW v \in Validators, StopNode(v) PROVE IInv'
  <2>1. /\ \A w \in Validators : handler'[w] = None \/ handler'[w] = handler[w]
        /\ handler' = [w \in Validators |-> handler'[w]]
    BY <1>3 DEF StopNode, IInv
  <2>2. UNCHANGED <<file, clock, proposal, reply>>
    BY <1>3 DEF StopNode
  <2>. QED
    BY <1>1, <2>1, <2>2 DEF IInv, HandlersAreFrozen, RepliesAreAnswers, IsAnswerTo, IsFrozen
<1>4. ASSUME NEW v \in Validators, Propose(v) PROVE IInv'
  <2>1. /\ UNCHANGED <<file, handler, clock, reply>>
        /\ proposal'.call \in Calls /\ proposal'.now \in U64
    BY <1>4, ClocksAreTimes DEF Propose, IInv
  <2>2. \A w \in Validators : reply[w] = None
    BY <1>4 DEF Propose, IInv, RepliesAreAnswers
  <2>. QED
    BY <1>1, <2>1, <2>2 DEF IInv, HandlersAreFrozen, RepliesAreAnswers, IsFrozen
<1>5. ASSUME \/ UNCHANGED vars \/ \E v \in Validators : Tick(v) \/ EditFile(v)
      PROVE  IInv'
  <2>1. UNCHANGED <<handler, proposal, reply>>
    BY <1>5 DEF vars, Tick, EditFile
  <2>2. file' \in [Validators -> ConfigFiles] /\ clock' \in [Validators -> 0 .. MaxNow]
    BY <1>5, ValidatorSetAssumption DEF vars, Tick, EditFile, IInv, U64
  <2>. QED
    BY <1>1, <2>1, <2>2 DEF IInv, HandlersAreFrozen, RepliesAreAnswers, IsAnswerTo, IsFrozen
<1>. QED
  BY <1>2, <1>3, <1>4, <1>5

LEMMA IInvIsInvariant == Spec => []IInv
<1>1. Init => IInv
  BY ValidatorSetAssumption
  DEF Init, IInv, NoReplies, HandlersAreFrozen, RepliesAreAnswers, BlocksAreAnswers, U64
<1>2. IInv /\ [Next]_vars => IInv'
  BY CommitBlockKeepsIInv, StartNodeKeepsIInv, EvaluateKeepsIInv, OtherStepsKeepIInv DEF Next
<1>. QED
  BY <1>1, <1>2, PTL DEF Spec

-----------------------------------------------------------------------------
(* Answers                                                                 *)

LEMMA AnswersAreTyped ==
    ASSUME NEW call \in Calls, NEW config, IsFrozen(config), NEW time \in U64
    PROVE  Handle(call, config, time) \in Answers
<1>1. CASE call = Garbage
  BY <1>1 DEF Handle, Err, Answers
<1>2. CASE call # Garbage
  <2>1. call \in DisbursementIntents
    BY <1>2, ValidatorSetAssumption DEF Calls
  <2>2. AuthorizeDisbursement(call, config, time) \in AuthorizationResults
    BY <2>1, FrozenIsTyped, AuthorizedIffPermitted
  <2>. QED
    BY <1>2, <2>2 DEF Handle, Ok, Answers
<1>. QED
  BY <1>1, <1>2

(* TypeOK, for any validators and files.                                   *)
THEOREM TypeCorrect == Spec => []TypeOK
<1>1. IInv => TypeOK
  <2>. SUFFICES ASSUME IInv PROVE TypeOK
    OBVIOUS
  <2>1. \A v \in Validators : handler[v] # None => IsConfigSnapshot(handler[v])
    BY FrozenIsTyped DEF IInv, HandlersAreFrozen
  <2>2. \A v \in Validators : reply[v] # None =>
           reply[v].answer \in Answers /\ IsConfigSnapshot(reply[v].config)
    BY AnswersAreTyped, FrozenIsTyped DEF IInv, RepliesAreAnswers, IsAnswerTo
  <2>3. \A block \in blocks :
           /\ block.call \in Calls /\ block.now \in U64 /\ block.answer \in Answers
           /\ \A config \in block.configs : IsConfigSnapshot(config)
    BY AnswersAreTyped, FrozenIsTyped DEF IInv, BlocksAreAnswers, IsAnswerTo
  <2>. QED
    BY <2>1, <2>2, <2>3 DEF IInv, TypeOK
<1>. QED
  BY <1>1, IInvIsInvariant, PTL

(* A committed answer is right by every voter's configuration, although    *)
(* the voters may hold different ones.                                     *)
THEOREM CommittedAnswersAreRight == Spec => []CommittedIsRight
<1>1. IInv => CommittedIsRight
  <2>. SUFFICES ASSUME IInv, NEW block \in blocks, NEW config \in block.configs
                PROVE  IsRightBy(block, config)
    BY DEF CommittedIsRight
  <2>1. /\ block.call \in Calls /\ block.now \in U64
        /\ IsFrozen(config) /\ block.answer = Handle(block.call, config, block.now)
    BY DEF IInv, BlocksAreAnswers, IsAnswerTo
  <2>2. CASE block.call = Garbage
    BY <2>1, <2>2 DEF IsRightBy, Handle
  <2>3. CASE block.call # Garbage
    <3> DEFINE result == AuthorizeDisbursement(block.call, config, block.now)
    <3>1. /\ block.call \in DisbursementIntents /\ IsConfigSnapshot(config)
          /\ block.answer = Ok(result)
      BY <2>1, <2>3, ValidatorSetAssumption, FrozenIsTyped DEF Calls, Handle
    <3>2. CASE Permitted(block.call, config, block.now)
      <4>1. result = Authorized(FullEffect(block.call))
        BY <2>1, <3>1, <3>2, AuthorizedIffPermitted
      <4>2. block.call.asset = ADA
        BY <2>1, <3>2, FrozenIsTyped DEF Permitted
      <4>. QED
        BY <2>3, <3>1, <3>2, <4>1, <4>2
        DEF IsRightBy, Ok, Authorized, FullEffect, EffectOf, Allow
    <3>3. CASE ~Permitted(block.call, config, block.now)
      <4>1. \E gate, reason : result = Denied(reason, gate)
        BY <2>1, <3>1, <3>3, AuthorizedIffPermitted
      <4>. QED
        BY <2>3, <3>1, <3>3, <4>1 DEF IsRightBy, Ok, Denied
    <3>. QED
      BY <3>2, <3>3
  <2>. QED
    BY <2>2, <2>3
<1>. QED
  BY <1>1, IInvIsInvariant, PTL

(* Validators with one configuration agree, whatever their clocks show.    *)
THEOREM SnapshotDeterminesReply == Spec => []SameSnapshotSameReply
<1>1. IInv => SameSnapshotSameReply
  BY DEF IInv, RepliesAreAnswers, IsAnswerTo, SameSnapshotSameReply
<1>. QED
  BY <1>1, IInvIsInvariant, PTL

(* A validator that starts serves every entry of the file on its disk, and *)
(* nothing changes its configuration while it runs.                        *)
THEOREM EntriesAreServed == Spec => EveryEntryIsServed
<1>1. ASSUME NEW f \in ConfigFiles, IsLoadable(f)
      PROVE  f.parses /\ Serves(SnapshotOf(f), f)
  <2>1. /\ SnapshotOf(f).policies = f.registered_policy_refs
        /\ \A i \in DOMAIN f.allocations :
              SnapshotOf(f).allocations[f.allocations[i].id] = FactsOf(f.allocations[i])
    BY <1>1, ValidatorSetAssumption, SnapshotServesItsFile
  <2>2. \A i \in DOMAIN f.allocations :
           /\ f.allocations[i].approved_asset = ADA_LITERAL
           /\ \A destination \in f.allocations[i].approved_destinations :
                 destination.length > 0 /\ destination.length <= MAX_ADDRESS_LENGTH
    BY <1>1 DEF IsLoadable, DecodesEntry, DecodesDestination, MAX_ADDRESS_LENGTH
  <2>3. ASSUME NEW i \in DOMAIN f.allocations
        PROVE  LET facts == FactsOf(f.allocations[i])
               IN  /\ facts.basis_lovelace = f.allocations[i].basis_lovelace
                   /\ facts.authorized_subjects = f.allocations[i].authorized_subjects
                   /\ facts.approved_asset = ADA
                   /\ \A destination \in f.allocations[i].approved_destinations :
                         destination.address \in facts.approved_destinations
    BY DEF FactsOf
  <2>. QED
    BY <1>1, <2>1, <2>2, <2>3 DEF IsLoadable, Serves
<1>2. IInv /\ [Next]_vars =>
         [\A v \in Validators : handler'[v] \notin {handler[v], None} =>
             handler[v] = None /\ file[v].parses /\ Serves(handler'[v], file[v])]_vars
  <2>. SUFFICES ASSUME IInv, Next, NEW v \in Validators,
                       handler'[v] \notin {handler[v], None}
                PROVE  handler[v] = None /\ file[v].parses /\ Serves(handler'[v], file[v])
    OBVIOUS
  <2>1. handler' # handler
    OBVIOUS
  <2>2. PICK u \in Validators : StartNode(u) \/ StopNode(u)
    BY <2>1 DEF Next, CommitBlock, AbandonRound, Tick, EditFile, Propose, Evaluate
  <2>3. u = v /\ ~StopNode(u)
    BY <2>2 DEF IInv, StartNode, StopNode
  <2>4. /\ handler[v] = None /\ IsLoadable(file[v])
        /\ handler'[v] = SnapshotOf(file[v])
    BY <2>2, <2>3 DEF IInv, StartNode
  <2>5. file[v] \in ConfigFiles
    BY DEF IInv
  <2>. QED
    BY <1>1, <2>4, <2>5
<1>. QED
  BY <1>2, IInvIsInvariant, PTL DEF Spec, EveryEntryIsServed

(* A committed result can be computed again later: the handler gives it    *)
(* for the call and the committed time, with the configuration of anyone   *)
(* who voted, and so two blocks of one call and one time differ only when  *)
(* no configuration voted for both (lib.rs).                               *)
BlocksReplay ==
    /\ \A block \in blocks : \A config \in block.configs :
          block.answer = Handle(block.call, config, block.now)
    /\ \A b, c \in blocks :
          /\ b.call = c.call /\ b.now = c.now
          /\ b.configs \cap c.configs # {}
          => b.answer = c.answer

THEOREM CommittedBlocksReplay == Spec => []BlocksReplay
<1>1. IInv => BlocksReplay
  BY DEF IInv, BlocksAreAnswers, IsAnswerTo, BlocksReplay
<1>. QED
  BY <1>1, IInvIsInvariant, PTL

-----------------------------------------------------------------------------
(* Progress: the safety half of UniformSetDecides                          *)

MayEvaluate(v) == handler[v] # None /\ proposal # None /\ reply[v] = None

MayCommit ==
    /\ proposal # None
    /\ \E Q \in Quorums :
          /\ \A v \in Q : reply[v] # None
          /\ \A v, w \in Q : reply[v].answer = reply[w].answer

(* One configuration runs on a whole quorum.                               *)
IsUniformOn(Q) ==
    \E config :
        \A v \in Q : /\ handler[v] = config /\ config # None
                     /\ reply[v] # None => reply[v].config = config

(* One of the quorum can still vote, or the votes are enough.              *)
NoQuorumIsStuck ==
    \A Q \in Quorums :
        IsUniformOn(Q) /\ proposal # None => (\E v \in Q : MayEvaluate(v)) \/ MayCommit

(* Who has voted stays with its vote until the round is over.              *)
VotesAreKept ==
    [][\A v \in Validators : reply[v] # None => reply'[v] = reply[v] \/ proposal' = None]_vars

(* A quorum that runs one configuration is never divided: neither clocks   *)
(* that differ, nor files edited meanwhile, nor a call that does not       *)
(* decode can keep it from a commit, whatever the other validators run.    *)
(* When the whole set is uniform this holds for any quorum there is        *)
(* (lib.rs).                                                               *)
THEOREM NoQuorumIsEverStuck ==
    /\ Spec => []NoQuorumIsStuck
    /\ Spec => [](IsUniform => \A Q \in Quorums : IsUniformOn(Q))
    /\ Spec => VotesAreKept
<1>1. IInv => NoQuorumIsStuck
  <2>. SUFFICES ASSUME IInv, NEW Q \in Quorums, proposal # None, NEW config,
                       \A v \in Q : /\ handler[v] = config /\ config # None
                                    /\ reply[v] # None => reply[v].config = config,
                       \A v \in Q : ~MayEvaluate(v)
                PROVE  MayCommit
    BY DEF NoQuorumIsStuck, IsUniformOn
  <2>1. \A v \in Q : v \in Validators /\ reply[v] # None
    BY ValidatorSetAssumption DEF MayEvaluate
  <2>2. \A v \in Q : reply[v].answer = Handle(proposal.call, config, proposal.now)
    BY <2>1 DEF IInv, RepliesAreAnswers, IsAnswerTo
  <2>. QED
    BY <2>1, <2>2 DEF MayCommit
<1>2. IInv => (IsUniform => \A Q \in Quorums : IsUniformOn(Q))
  <2>. SUFFICES ASSUME IsUniform, NEW Q \in Quorums
                PROVE  IsUniformOn(Q)
    OBVIOUS
  <2>1. PICK w \in Q : w \in Validators
    BY ValidatorSetAssumption
  <2>2. \A v \in Q : v \in Validators
    BY ValidatorSetAssumption
  <2>3. \A v \in Q : /\ handler[v] = handler[w] /\ handler[w] # None
                     /\ reply[v] # None => reply[v].config = handler[w]
    BY <2>1, <2>2 DEF IsUniform
  <2>. QED
    BY <2>3 DEF IsUniformOn
<1>3. IInv /\ [Next]_vars =>
         [\A v \in Validators : reply[v] # None => reply'[v] = reply[v] \/ proposal' = None]_vars
  <2>. SUFFICES ASSUME IInv, Next, NEW v \in Validators, reply[v] # None
                PROVE  reply'[v] = reply[v] \/ proposal' = None
    OBVIOUS
  <2>1. CASE CommitBlock \/ AbandonRound
    BY <2>1 DEF CommitBlock, AbandonRound
  <2>2. ASSUME NEW u \in Validators,
               Tick(u) \/ EditFile(u) \/ StartNode(u) \/ StopNode(u) \/ Propose(u)
        PROVE  reply'[v] = reply[v]
    BY <2>2 DEF Tick, EditFile, StartNode, StopNode, Propose
  <2>3. ASSUME NEW u \in Validators, Evaluate(u)
        PROVE  reply'[v] = reply[v]
    BY <2>3 DEF Evaluate, IInv
  <2>. QED
    BY <2>1, <2>2, <2>3 DEF Next
<1>. QED
  BY <1>1, <1>2, <1>3, IInvIsInvariant, PTL DEF Spec, VotesAreKept

=============================================================================
