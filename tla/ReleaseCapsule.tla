---------------------------- MODULE ReleaseCapsule ----------------------------
(***************************************************************************)
(* capsule.py beside the service: producers sign receipts, a publisher     *)
(* seals a capsule in two steps, operators change the trust policy, and    *)
(* anyone verifies later, against the database of that moment.             *)
(*                                                                         *)
(* An instant is the number of operations committed and days begun; its    *)
(* calendar day is days[instant].  A waiver is stamped inside its          *)
(* transaction, before the commit: a clock read meanwhile may be later     *)
(* than the stamp of a change it does not see.  A transaction has the      *)
(* write lock alone and is taken to lie within one day.  A run is stamped  *)
(* while its report is parsed, at any time before its transaction.         *)
(* Archives are their contents; a signature is the key that made it.       *)
(***************************************************************************)
EXTENDS WaiverProperties, ReleaseContract

CONSTANTS
  Trusts,           \* trust policies an operator may supply
  InitialTrust,     \* the one at first
  Executions,       \* how long ago an execution finished, and how
  ReceiptLifetime,  \* hours of sign_execution
  CapsuleLifetime,  \* hours of seal_capsule
  MaxInstant,       \* bound on the instants
  MaxReceipts,      \* bound on the receipts
  MaxCapsules       \* bound on the capsules

ASSUME TrustAssumption == InitialTrust \in Trusts
ASSUME ExecutionAssumption == Executions \subseteq [ago: Nat, succeeded: BOOLEAN]

VARIABLES
  days,      \* calendar day of each instant so far
  created,   \* time stamp of each run
  updated,   \* time stamp of each waiver's last change
  receipts,  \* receipts signed by producers
  trust,     \* the trust policy operators supply
  sealing,   \* a seal_capsule call between its clock and its transaction,
             \* and what stood in the database about the time of its clock
  capsules   \* capsules sealed, and what was so when they were

releaseVars ==
  << vars, days, created, updated, receipts, trust, sealing, capsules >>

Idle == [phase |-> "idle"]

ReleaseInit ==
  /\ Init
  /\ days = << 0 >>
  /\ created = [id \in RunIds |-> 0]
  /\ updated = [id \in WaiverIds |-> 0]
  /\ receipts = {}
  /\ trust = InitialTrust
  /\ sealing = Idle
  /\ capsules = {}

Instant == Len(days)

Moment(n) == [at |-> n, day |-> days[n]]

\* capture_inventory(): the pinned runs and every waiver of their scopes.
Inventory ==
  LET selected == {r \in runs : r.id \in Selected}
      scoped == {id \in Known : ReleaseScope(waivers[id])} IN
  [runs |-> selected,
   waivers |-> {waivers[id] : id \in scoped},
   policy |-> policy,
   created |-> [id \in {r.id : r \in selected} |-> created[id]],
   updated |-> [id \in scoped |-> updated[id]]]

Cited(inv) == UNION {w.evidence : w \in inv.waivers}

------------------------------------------------------------------------------
(* The database moves on *)

Commit(actor) ==
  /\ Instant < MaxInstant
  /\ Operation(actor)
  /\ days' = Append(days, today)
  /\ created' \in
       {[id \in RunIds |->
           IF \E r \in runs' \ runs : r.id = id THEN stamp ELSE created[id]] :
        stamp \in 1 .. Instant + 1}
  /\ updated' \in
       {[id \in WaiverIds |->
           IF waivers'[id] # waivers[id] THEN stamp ELSE updated[id]] :
        stamp \in {Instant, Instant + 1}}
  /\ sealing' = IF sealing # Idle /\ sealing.underway
                  THEN [sealing EXCEPT !.stood = @ \cup {waivers'}, !.underway = FALSE]
                  ELSE sealing
  /\ UNCHANGED << receipts, trust, capsules >>

DayPasses ==
  /\ Instant < MaxInstant
  /\ NextDay
  /\ days' = Append(days, today')
  /\ UNCHANGED << created, updated, receipts, trust, sealing, capsules >>

ChangeTrust ==
  /\ trust' \in Trusts \ {trust}
  /\ UNCHANGED << vars, days, created, updated, receipts, sealing, capsules >>

Producers == {key \in DOMAIN Grants : Grants[key].purpose = "producer"}

\* sign_execution() by a producer, of a run it saw imported.
SignExecution(key, r, execution) ==
  /\ Cardinality(receipts) < MaxReceipts
  /\ receipts' = receipts \cup
       {[key |-> key, run |-> r, finished_at |-> Instant - execution.ago,
         succeeded |-> execution.succeeded, issued_at |-> Instant,
         expires_at |-> Instant + ReceiptLifetime]}
  /\ UNCHANGED << vars, days, created, updated, trust, sealing, capsules >>

------------------------------------------------------------------------------
(* Sealing *)

PublisherScope == [project |-> Contract.project, stream |-> "release"]

\* The clock is read and the publisher resolved; at most one receipt per
\* pinned run is handed over.  One transaction may be under way: what stands
\* about this time is the database as it is, and as the next commit leaves it.
BeginSeal(key, chosen) ==
  /\ sealing = Idle
  /\ \A x, y \in chosen : x.run.id \in Selected /\ (x.run.id = y.run.id => x = y)
  /\ Resolves(trust, key, "publisher", PublisherScope, Instant, Moment(Instant))
  /\ sealing' = [phase |-> "begun", key |-> key, receipts |-> chosen,
                 trust |-> trust, now |-> Moment(Instant),
                 stood |-> {waivers}, underway |-> TRUE]
  /\ UNCHANGED << vars, days, created, updated, receipts, trust, capsules >>

\* Mutant: the record is dated when it is captured.
SealedWhenCaptured == Moment(Instant)

\* The moment of the assessment inside the record.
SealedAt == sealing.now

\* Waivers of the inventory that stood about the time of the clock, unchanged.
StoodThen == {w \in Inventory.waivers : \E d \in sealing.stood : d[w.id] = w}

\* The inventory is captured, assessed at the earlier moment, and signed.
\* trust and stood are kept for the properties below.
FinishSeal(allowBlocked) ==
  LET result == Evaluate(Inventory, sealing.receipts, sealing.trust, SealedAt)
      capsule == [key |-> sealing.key, issued_at |-> sealing.now.at,
                  expires_at |-> sealing.now.at + CapsuleLifetime,
                  assessed_at |-> SealedAt, inventory |-> Inventory,
                  evidence |-> Cited(Inventory), receipts |-> sealing.receipts,
                  result |-> result, trust |-> sealing.trust,
                  stood |-> StoodThen] IN
  /\ sealing # Idle
  /\ Cardinality(capsules) < MaxCapsules
  /\ capsules' = IF Clean(result) \/ allowBlocked THEN capsules \cup {capsule}
                                                 ELSE capsules
  /\ sealing' = Idle
  /\ UNCHANGED << vars, days, created, updated, receipts, trust >>

ReleaseNext ==
  \/ \E actor \in Principals : Commit(actor)
  \/ DayPasses
  \/ ChangeTrust
  \/ \E key \in Producers, r \in runs, execution \in Executions :
       SignExecution(key, r, execution)
  \/ \E key \in DOMAIN Grants, chosen \in SUBSET receipts : BeginSeal(key, chosen)
  \/ \E allowBlocked \in BOOLEAN : FinishSeal(allowBlocked)

ReleaseSpec == ReleaseInit /\ [][ReleaseNext]_releaseVars

------------------------------------------------------------------------------
(* Verification: verify_capsule() begun at moment now with trust policy t *)

Replays(c, t) == Evaluate(c.inventory, c.receipts, t, c.assessed_at) = c.result

Authentic(c, t, now) ==
  /\ Resolves(t, c.key, "publisher", PublisherScope, c.issued_at, now)
  /\ c.issued_at =< now.at /\ now.at < c.expires_at
  /\ c.assessed_at.at = c.issued_at
  /\ c.evidence = Cited(c.inventory)
  /\ Replays(c, t)

FrozenPasses(c, t, now) == Clean(Evaluate(c.inventory, c.receipts, t, now))

LivePasses(c, t, now) == Clean(Evaluate(Inventory, c.receipts, t, now))

\* Mutant: a capsule reconciled with no database.
UsableOffline(c, t, now) == Authentic(c, t, now) /\ FrozenPasses(c, t, now)

\* release_usable_now, with the database of this state.
Usable(c, t, now) ==
  /\ Inventory = c.inventory
  /\ Authentic(c, t, now)
  /\ FrozenPasses(c, t, now)
  /\ LivePasses(c, t, now)

------------------------------------------------------------------------------
(* Properties *)

\* A clean capsule rests on no decision that came after its time, although
\* the inventory is captured later: every waiver that suppresses a finding in
\* it stood in the database, exactly as sealed, when the publisher read the
\* clock, or was left by the one transaction that may have been under way
\* then, the first to commit afterwards.
SuppressionsWereDecided ==
  \A c \in capsules :
    Clean(c.result) =>
      \A w \in c.inventory.waivers :
        w.id \in c.result.effective => w \in c.stood

\* A genuine capsule verifies, and replays its own decision, for as long as
\* it and its publisher's key are in force and the trust policy is the one it
\* was sealed under, whatever happened to database and producers since.
GenuineVerifies ==
  \A c \in capsules :
    /\ trust = c.trust
    /\ Instant < c.expires_at
    /\ AuthorizesTime(trust, c.key, Instant)
    => Authentic(c, trust, Moment(Instant))

\* A capsule reported usable, by a verification begun at any moment since the
\* sealing, is about the database as it is: the older release gate agrees at
\* that moment, and every waiver that suppresses a finding is still approved.
UsableIsLive ==
  \A c \in capsules : \A n \in c.issued_at .. Instant :
    Usable(c, trust, Moment(n)) =>
      /\ GateRelease([Inventory EXCEPT !.waivers = {waivers[id] : id \in Known}], Moment(n))
      /\ \A id \in c.result.effective : waivers[id].status = "approved"

==============================================================================
