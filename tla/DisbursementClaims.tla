-------------------------- MODULE DisbursementClaims --------------------------
(***************************************************************************)
(* Statements of the documentation, of a comment or of a doc line of the   *)
(* code about disbursements that the code does not keep.  Each is refuted  *)
(* by a run of its own; the findings of the project quote them.            *)
(***************************************************************************)
EXTENDS Disbursement

(* docs/fulfillment-boundary.md, 4: a denied receipt closes as             *)
(* DeniedUpstream, and only an authorized one can be refused as pending.   *)
DeniedClosesAsDenied ==
    \A r \in Requests :
        outcome[r] # None /\ receipt[r].output.verdict = "Denied"
            => outcome[r].outcome = "DeniedUpstream"

(* evidence.rs: the verifier replays the freshness check too, so a clean   *)
(* record shows a stale verdict only for a datum that is stale at the      *)
(* recorded time.                                                          *)
FreshnessIsReproducible ==
    \A r \in Requests : \A evidence \in bundles[r] :
        /\ IsOk(VerifyEvidence(evidence))
        /\ evidence.authorization = Denied("OracleStale", "Grant")
        => ~IsFresh(evidence.intent.oracle_provenance, evidence.now_unix_ms)

=============================================================================
