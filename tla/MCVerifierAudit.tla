---------------------------- MODULE MCVerifierAudit ----------------------------
(***************************************************************************)
(* A small instance of VerifierAudit.  The records are assembled by the    *)
(* code's own operators from every decision of a few intents.              *)
(***************************************************************************)
EXTENDS VerifierAudit, TLC

CONSTANTS pol, alloc, alice, dest, elsewhere, token, utxo, otherUtxo, tx1, tx2

Snapshot(subjects, asset) ==
    [policies |-> {pol},
     allocations |-> alloc :>
        [basis_lovelace |-> 4, authorized_subjects |-> subjects,
         approved_asset |-> asset, approved_destinations |-> {dest}]]

Intent(amount, price, asset) ==
    [intent_version |-> INTENT_VERSION_V1, policy_ref |-> pol, allocation_id |-> alloc,
     requester_id |-> alice, oracle_fact |-> [price_microusd |-> price],
     oracle_provenance |-> [timestamp_unix |-> 0, expiry_unix |-> 1,
                            aggregator_utxo_ref |-> utxo],
     requested_amount_lovelace |-> amount, destination |-> dest, asset |-> asset]

(* Prices in each band and none, amounts up to above each cap.             *)
SubmittedIntents ==
    {Intent(amount, price, ADA) : amount \in {0, 2, 5}, price \in {0, 1, 3}}
        \cup {Intent(2, 1, token)}

(* Decided in time and too late, and by a configuration that does not know *)
(* the requester.                                                          *)
OutputsFor(intent) ==
    {AuthorizeDisbursement(intent, Snapshot(subjects, intent.asset), now) :
        subjects \in {{}, {alice}}, now \in {0, 1}}

Receipt(intent, output) == CommittedReceipt(IntentId(intent), 1, output)

OutcomeOf(receipt) ==
    IF ReachesBackend(receipt) THEN Settled(tx1) ELSE OutcomeWithoutBackend(receipt)

AssembledRecords ==
    UNION {{AssembleEvidence(intent, Receipt(intent, output),
                             OutcomeOf(Receipt(intent, output)), 4, 0) :
                output \in OutputsFor(intent)} : intent \in SubmittedIntents}

(* Changes of the amount, the price, the payee, the provenance and the     *)
(* version.                                                                *)
AlteredIntents ==
    {Intent(2, 1, ADA), Intent(3, 2, ADA), Intent(5, 3, ADA),
     [Intent(2, 1, ADA) EXCEPT !.destination = elsewhere],
     [Intent(2, 1, ADA) EXCEPT !.oracle_provenance.aggregator_utxo_ref = otherUtxo],
     [Intent(2, 1, ADA) EXCEPT !.intent_version = 2]}

AlteredResults ==
    {Authorized(EffectOf(intent, Allow(intent.requested_amount_lovelace, band))) :
        intent \in AlteredIntents, band \in {BAND_LOW_BPS, BAND_MID_BPS}}
        \cup {Denied("ReleaseCapExceeded", "Grant"), Denied("OracleStale", "Grant"),
              Denied("AmountZero", "Registry"), Denied("SubjectNotAuthorized", "Registry")}

AlteredOutcomes ==
    {Settled(tx1), Settled(tx2), RejectedAtFulfillment("NonAdaAsset"),
     DeniedUpstream("ReleaseCapExceeded", "Grant"), DeniedUpstream("OracleStale", "Grant"),
     DeniedUpstream("AmountZero", "Registry")}

=============================================================================
