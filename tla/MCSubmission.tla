----------------------------- MODULE MCSubmission -----------------------------
(***************************************************************************)
(* A small instance of Submission: two requests that share a payload path, *)
(* of different amounts within the cap, and committed before the expiry of *)
(* their datum or at it.                                                   *)
(***************************************************************************)
EXTENDS Submission, TLC

CONSTANTS pol, alloc, alice, dest, utxo, r1, r2

MCSnapshot ==
    [policies |-> {pol},
     allocations |-> alloc :> [basis_lovelace |-> 4, authorized_subjects |-> {alice},
                               approved_asset |-> ADA, approved_destinations |-> {dest}]]

AmountOf(r) == IF r = r1 THEN 1 ELSE 2

MCIntentOf(r) ==
    NewIntent([policy_ref |-> pol, allocation_id |-> alloc, requester_id |-> alice,
               requested_amount_lovelace |-> AmountOf(r), destination |-> dest,
               asset |-> ADA],
              [price_microusd |-> 1],
              [timestamp_unix |-> 0, expiry_unix |-> 2, aggregator_utxo_ref |-> utxo])

(* The first request may be submitted again.                               *)
MCMaxSubmissions(r) == IF r = r1 THEN 2 ELSE 1

SharedPath(r) == "payload.postcard"

=============================================================================
