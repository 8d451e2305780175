---------------------------- MODULE WaiverReview -----------------------------
(***************************************************************************)
(* The lifecycle of service.py implements ReviewProtocol: the status of a  *)
(* waiver is its stage, what approval_digest() covers is its content, and  *)
(* those who approved while it is under review are for it.                 *)
(***************************************************************************)
EXTENDS WaiverProperties

Stage(w) ==
  IF w = NoWaiver THEN "absent"
  ELSE CASE w.status = "proposed"  -> "open"
         [] w.status = "submitted" -> "review"
         [] w.status = "approved"  -> "granted"
         [] w.status = "rejected"  -> "refused"
         [] w.status = "revoked"   -> "withdrawn"

Reviewable(w) == IF w = NoWaiver THEN NoWaiver ELSE ApprovalDigest(w)

Ayes(w) ==
  IF w = NoWaiver \/ w.status \notin UnderReview THEN {}
  ELSE { a.actor : a \in { b \in Votes(w) : b.decision = "approve" } }

Protocol == INSTANCE ReviewProtocol WITH
  Subjects <- WaiverIds,
  Eligible <- Independent,
  Required <- Quorum,
  stage    <- [id \in WaiverIds |-> Stage(waivers[id])],
  content  <- [id \in WaiverIds |-> Reviewable(waivers[id])],
  ayes     <- [id \in WaiverIds |-> Ayes(waivers[id])],
  rule     <- policy

\* Every history of waivers is a review: a waiver is approved only in the
\* step that completes the ayes of eligible people for its present content,
\* any other change of content starts afresh, and revocation ends it.
ReviewImplemented == Protocol!ReviewSpec

==============================================================================
