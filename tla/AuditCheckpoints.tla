-------------------------- MODULE AuditCheckpoints ---------------------------
(***************************************************************************)
(* attestation.py: signed checkpoints of the history, and an auditor who   *)
(* verifies them against the database as it is then.  A signature is       *)
(* modelled by the claim having been signed.                               *)
(***************************************************************************)
EXTENDS AuditChain

CONSTANTS
  Subjects,  \* what a checkpoint can be signed for
  Lifetime   \* how long it is valid

VARIABLES
  claim,    \* the last signed claim, and the history it was signed for
  retained  \* the minimum sequence the auditor insists on

checkpointVars == << audit, backup, frozen, now, claim, retained >>

------------------------------------------------------------------------------
\* verify_claim(): signed by the trusted key, for this purpose, in time and
\* not behind the minimum.
ClaimHolds(subject, minimum) ==
  /\ claim.subject = subject
  /\ claim.issued_at =< now /\ now < claim.expires_at
  /\ claim.sequence >= minimum

\* verify_checkpoint(): the event of that number has the signed hash.
CheckpointHolds(events, subject, minimum) ==
  /\ ClaimHolds(subject, minimum)
  /\ Chained(events)
  /\ claim.sequence =< Len(events)
  /\ Hash(events[claim.sequence]) = claim.sha256

------------------------------------------------------------------------------
CheckpointInit == ChainInit /\ claim = None /\ retained = 0

\* checkpoint(): the history is verified and signed in one transaction.
Checkpoint(subject) ==
  /\ claim' = [subject |-> subject, sha256 |-> HeadOf(audit), sequence |-> Len(audit),
               issued_at |-> now, expires_at |-> now + Lifetime, history |-> audit]
  /\ UNCHANGED << audit, backup, frozen, now, retained >>

\* From then on the auditor insists on what was verified.
Audit(subject) ==
  /\ claim # None /\ CheckpointHolds(audit, subject, retained)
  /\ retained' = claim.sequence
  /\ UNCHANGED << audit, backup, frozen, now, claim >>

CheckpointNext ==
  \/ ChainNext /\ UNCHANGED << claim, retained >>
  \/ \E subject \in Subjects : Checkpoint(subject) \/ Audit(subject)

CheckpointSpec == CheckpointInit /\ [][CheckpointNext]_checkpointVars

------------------------------------------------------------------------------
(* Properties *)

\* "Database was truncated, replaced or forked before the signed
\* checkpoint": a checkpoint whose claim holds verifies exactly if the
\* database still begins with all that was signed, and with the minimum an
\* auditor retains none verifies for a database that was put back behind what
\* was verified before.
CheckpointBindsHistory ==
  claim # None =>
    \A subject \in Subjects :
      /\ ClaimHolds(subject, 0) =>
           (CheckpointHolds(audit, subject, 0)
              <=> /\ Len(claim.history) =< Len(audit)
                  /\ SubSeq(audit, 1, Len(claim.history)) = claim.history)
      /\ CheckpointHolds(audit, subject, retained) => Len(audit) >= retained

==============================================================================
