------------------------- MODULE MutationManifests -------------------------
(* What the stages of the mutation chain have in common, before the request of *)
(* MutationReview and after it in MutationTransport.                           *)
CONSTANTS
  None,       \* no manifest yet; also no proposal, repository or branch
  Blocked     \* a manifest with status blocked, which the stages after it refuse

(* What a person may say of a manifest: in a review or in a receipt.           *)
Decisions == {"approve", "reject", "hold"}
=============================================================================
