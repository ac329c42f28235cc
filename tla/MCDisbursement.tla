---------------------------- MODULE MCDisbursement ----------------------------
(***************************************************************************)
(* Small instances of Disbursement.  Thresholds, bands and amounts are     *)
(* scaled down: price 1 lies in the low band (half of the basis), 2 at the *)
(* threshold of the middle one (three quarters), 3 at that of the high one *)
(* (all of it), and 0 in none.                                             *)
(***************************************************************************)
EXTENDS DisbursementClaims, DisbursementRefinement, TLC

CONSTANTS pol, alloc, allocNFT, alice, mallory, dest, elsewhere, token, utxo,
          tx1, tx2, r1, r2

Facts(asset) ==
    [basis_lovelace |-> 4, authorized_subjects |-> {alice},
     approved_asset |-> asset, approved_destinations |-> {dest}]

(* An allocation in ADA and one in another asset; the first is halved by a  *)
(* later configuration.                                                    *)
Full == [policies |-> {pol}, allocations |-> alloc :> Facts(ADA) @@ allocNFT :> Facts(token)]
Halved == [Full EXCEPT !.allocations[alloc].basis_lovelace = 2]

Ask(allocation, requester, amount, destination, asset) ==
    [policy_ref |-> pol, allocation_id |-> allocation, requester_id |-> requester,
     requested_amount_lovelace |-> amount, destination |-> destination, asset |-> asset]

(* Within the low cap, and at the full basis; in another asset; and by a   *)
(* requester nobody approved.                                              *)
AskLow == Ask(alloc, alice, 2, dest, ADA)
AskAll == Ask(alloc, alice, 4, dest, ADA)
AskToken == Ask(allocNFT, alice, 2, dest, token)
AskByMallory == Ask(alloc, mallory, 2, dest, ADA)

OneAllocationAsks == {AskLow, AskAll, AskToken, AskByMallory}

FullAndHalved == {Full, Halved}

(* One request in full variety, or two side by side over a smaller one:    *)
(* they are built and decided under the first configuration and with the   *)
(* low price, r1 for either approved ask and r2 for the one it grants, and *)
(* each calls the backend once.                                            *)
IsSmall ==
    /\ now <= 2
    /\ config = Full
    /\ feed.fact.price_microusd = 1
    /\ \A r \in Requests : attempts[r] <= 1
    /\ intent[r1] # None =>
          /\ intent[r1].allocation_id = alloc
          /\ intent[r1].requester_id = alice
          /\ intent[r1].oracle_fact.price_microusd = 1
    /\ intent[r2] = NewIntent(AskLow, feed.fact, intent[r2].oracle_provenance)

OneFullOrTwoSmall == r2 \notin Requests \/ intent[r2] = None \/ IsSmall

=============================================================================
