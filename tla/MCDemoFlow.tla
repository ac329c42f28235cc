------------------------------ MODULE MCDemoFlow ------------------------------
(***************************************************************************)
(* A small instance of DemoFlow: one ADA is 2, the allocation of the demo  *)
(* 20, the caps of the three bands 10, 15 and 20.                          *)
(***************************************************************************)
EXTENDS DemoFlow, TLC

CONSTANTS pol, alloc, alice, dest, utxo

MCTemplate ==
    NewIntent([policy_ref |-> pol, allocation_id |-> alloc, requester_id |-> alice,
               requested_amount_lovelace |-> 14, destination |-> dest, asset |-> ADA],
              [price_microusd |-> 3],
              [timestamp_unix |-> 0, expiry_unix |-> 2, aggregator_utxo_ref |-> utxo])

Facts(basis) ==
    [basis_lovelace |-> basis, authorized_subjects |-> {alice},
     approved_asset |-> ADA, approved_destinations |-> {dest}]

(* What the builder assumes, half of the allocation, and another policy.   *)
MCSnapshots ==
    {[policies |-> {pol}, allocations |-> alloc :> Facts(20)],
     [policies |-> {pol}, allocations |-> alloc :> Facts(10)],
     [policies |-> {}, allocations |-> alloc :> Facts(20)]}

(* Two or three members, with a repeated cap, a cap as a float that counts *)
(* or is overridden, an escaped text and a document that is cut short.     *)
MCPolicyDocuments ==
    LET Cap(value) == <<RELEASE_CAP_BASIS_POINTS, value>>
        Schema(escaped) == <<SCHEMA, Text("v1", escaped)>>
        Document(members) == [whole |-> TRUE, members |-> members]
    IN  {Document(<<Schema(FALSE), Cap(Integer(3))>>),
         Document(<<Cap(Integer(3)), Schema(TRUE)>>),
         Document(<<Cap(Float(3)), Schema(FALSE), Cap(Integer(3))>>),
         Document(<<Cap(Integer(3)), Schema(FALSE), Cap(Integer(4))>>),
         Document(<<Schema(FALSE), Cap(Integer(4))>>),
         Document(<<Schema(FALSE)>>),
         Document(<<Schema(FALSE), Cap(Float(4))>>),
         [whole |-> FALSE, members |-> <<Schema(FALSE), Cap(Integer(3))>>]}

=============================================================================
