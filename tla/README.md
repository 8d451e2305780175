# OpenWaiver: a verification project

OpenWaiver keeps the exceptions ("waivers") that a chip team grants to findings
of verification tools. A finding stops blocking tapeout only when an approved,
unexpired waiver targets exactly that finding; everything else the program does
serves to keep that sentence true while people edit, vote, revoke, rebind and
import at the same time. The modules here model that core, what is kept beside
it (tokens, keys, checkpoints, bundles, release capsules), its pages and its
computations, check them with TLC on small instances, and prove the invariants
that matter most with TLAPS for every value of the constants. Paths such as
`service.py` are relative to `src/openwaiver/` of the repository.

## The system

| Component | State it keeps | Operations | What makes it correct |
|---|---|---|---|
| Lifecycle service (`service.py`) | none of its own; runs, waivers, evidence and policy live in the store | import, propose, amend, attach, submit, review, revoke, rebind, set policy, freeze | votes bind content; quorum at the last vote; revocation is final; one live waiver per identity; stale writers are refused |
| Records (`models.py`) | constants | validators run at each construction and save | records satisfy them whatever the order of operations |
| Identity (`identity.py`) | none | fingerprint, approval digest, similarity | equal identity exactly when nothing reviewed differs |
| Assessment (`engine.py`, `candidate_index.py`) | none | assess, compare snapshots | suppression is exact, decided, and lasts until its waiver, its date or the policy ends it; "unused" is never a guess |
| Store (`store.py`) | SQLite tables and the audit chain | transactions, save, event, verify | rows equal the last audited content; chain without gaps; no lock is kept |
| Plans (`plans.py`) | a digest between preview and apply | preview, apply | what was previewed is what is applied, whole or not at all |
| Interchange (`interchange.py`, `evidence.py`) | files | Git export, YAML import, bundles and their verification | imported text brings no approval; a bundle is one snapshot |
| Access (`access.py`, `cli.py`, `federation.py`) | a token file, an issuer configuration | add a token, authenticate, filter what is visible | nobody creates or decides outside his grants; a request is decided by the files of its time |
| Release assurance (`assurance.py`, `capsule.py`, `execution.py`, `attestation.py`, `release.py`) | contracts, claims, sealed capsules | evaluate, seal, verify, gate | a passing capsule was true when sealed and is still true at the gate |
| Context and physical evidence (`context.py`, `physical.py`) | manifests | hash a dependency graph, bind geometry | the hash depends on everything below a finding; cycles are refused |
| Browser pages (`static/*.js`) | what is on the screen | read, act, refresh | an action names what the actor saw |
| Importers, exporters, scripts, demo | none | parse, render | out of scope: no state |

The API (`api.py`) and the command line (`cli.py`) both call the service; each
service call opens one SQLite transaction; several server and command-line
processes share the database file. Browsers hold copies of records for as long
as a person looks at them. Assessments are pure functions of what one
transaction reads. A release contract relies on snapshots, and a snapshot on the
run, the waivers, the policy and the evidence that one transaction saw.

The hard behaviours are therefore: concurrent editors of one waiver; long
sequences of operations that must each clear what a change of content
invalidates; policy and calendar moving between a submission and its votes; two
proposals meeting on one identity; failure between a row and its audit event;
readers between two commits; searches cut short by a budget; plans, capsules and
evaluations that were right when they were computed and are used later; answers
that reach a page out of order; files that several processes replace; a database
put back to a backup. `PROJECT.json` lists each at its line, with the property
that covers it.

## The modules

    Waivers                   records and pure rules
      WaiverLifecycle           service.py, one action per committed operation
        WaiverProperties          what it promises
          WaiverReview              refinement mapping to ReviewProtocol
            MCWaiverLifecycle         instances (run ReviewLifecycle)
          WaiverLifecycleProofs     its invariants, action properties and refinement, proved
          WaiverClients             people who act on what they read earlier
            MCWaiverClients           (run Clients)
          ReviewPlans               plans.py: preview and apply
            MCReviewPlans             (run Plans)
            WaiverCallersProofs       clients and plans, proved
      Assessment                engine.py and candidate_index.py, pure
        TapeoutGate               lifecycle, assessment and frozen snapshots
          MCTapeoutGate             (run Gate)
        ReleaseContract           assurance.py, execution.py, release.py, pure
          ReleaseCapsule            capsule.py beside the lifecycle
            MCReleaseCapsule          (run Capsules)
            AssessmentProofs          gate, snapshots and capsules, proved
    ReviewProtocol            what a review means: stages, content, ayes
    Ledger                    what the store promises: log and rows move together
      AuditedStore              store.py, statement by statement
        MCAuditedStore            (run Store)
        AuditedStoreProofs        its invariants and the refinement, proved
    Browser                   requests under way in one tab
      RunPage PlanPage ReleasePage PhysicalPage
        BrowserPages              the four of them (run Pages)
          BrowserPagesProofs        their invariants, proved
    AuditChain                a history that may be put back to a backup
      AuditCheckpoints          attestation.py: signed claims about it
      EvidenceBundles           interchange.py and evidence.py
    KeyFiles                  attestation.py: files of a key pair
    Authentication            access.py, federation.py, cli.py, api.py
    KeptFiles                 the four above (run KeptFiles)
      KeptFilesProofs           their invariants, proved
    ContextGraph              context.py: hashes of a dependency graph
    Rings, RingSearch         least rotation of a ring (physical.py, identity.py)
    MovementIndex             candidate_index.py against identity.similarity
      ComputationProofs         graphs, rings and the index, proved
    PhysicalContext           physical.py: neighborhoods, binding, comparison
    Computations              the four above (run Computations)
      PhysicalProofs            what equal documents mean, proved

### Lifecycle, assessment, store

**Waivers** has no state. A digest is the document it digests, so equal digests
mean equal documents. Text is a sequence of words: two limits of the code cut
text, and one of them cuts something that matters. The location, message and
geometry of a finding are one "place".

**WaiverLifecycle** has the variables `runs`, `waivers`, `evidence`, `policy`
(the tables of the store) and `today` (`utcnow().date()`). Every method of
`Service` that writes is one action with the same name; the transaction makes it
atomic, which `AuditedStore` justifies. Guards follow the checks of the method in
order, `Loads` is `_load` (grant and version), `Save` is `_save` (validation
again, version plus one). `ImportProposal` is `import_yaml_proposal`. What
parsing reports and binding contexts yields is an input (`Reports`). Identifiers
are random in the code and arbitrary unused values here.

**ReviewProtocol** says what a review is without records, grants, versions or
dates: drafted content, ayes to that content, a decision. **WaiverReview** maps
the lifecycle to it: the status is the stage, what `approval_digest` covers is
the content, those who approved are for it.

**WaiverClients** adds what each person has on the screen. `Look` is `GET
/api/waivers/{id}`; `Act` sends a request with the version on the screen
(`static/app.js`, `waiverAction`). The screen is not refreshed by `Act`, although
the page reloads afterwards: a `Look` may follow or not, so that a second window
and a slow answer are covered as well.

**ReviewPlans** is `plans.py`: a template, a preview in one transaction, an
application in a later one, with any operation of anyone in between. The audit
head a plan is pinned to is the number of operations committed; the digest of a
preview is the preview. `Planned` and `PlannedProposal` compute the records as
`_prepare` does; `Written` stores them in one step. That a transaction of several
writes that fails half way leaves none of them is shown of the store
(`LedgerImplemented`).

**Assessment** translates `assess()` row by row. Which places the candidate
index retrieves and which pairs score .7 are two relations given as constants,
neither within the other: `similarity()` accepts a rounded distance equal to the
movement limit that the cells of the index may not reach (`MovementIndex`
below), and the instance holds such a pair. A score only ever suggests, and the
budget, the one-to-one rule and the outcomes are modelled in full.
**TapeoutGate** adds `freeze` and states properties of the assessment over the
reachable states of the lifecycle.

**AuditedStore** has one step per statement that matters. A writer locks with
`BEGIN IMMEDIATE`, verifies, writes a row, writes its event, writes further rows
and commits; a reader works on the snapshot of its first `SELECT`; a caller that
finds the lock taken waits or is turned away by the busy timeout; an exception
rolls back and a crash kills the process, between any two steps. SQLite itself
is trusted: isolation of its snapshots, exclusion of its write lock, and
atomic commit are what the model takes from it.

### Release

**ReleaseContract** is pure: `evaluate_contract` blocker by blocker, receipts
and their keys (`execution.py`), and the part of the older gate (`release.py`)
that verification of a capsule calls. **ReleaseCapsule** puts it beside the
lifecycle. An instant is the number of operations and days so far. Sealing has
two steps because `seal_capsule` reads the clock before it captures the
inventory. Stamps are earlier than commits: a run is stamped before its
transaction, so at any earlier instant; a waiver in it, and since write
transactions exclude one another at most one was under way when a clock was read,
so its stamp is the instant of its commit or the one before. `sealing.stood` keeps
what stood about the time of the clock: the database then, and as the first
commit afterwards leaves it. Such a transaction is taken to lie within one day.
Trust changes between any two steps. A signature is the key that made it.

### Kept files

**AuditChain** is the history as seen from outside: a chain of events that can
be put back to an earlier copy and go on from there. **AuditCheckpoints** signs
its head and lets an auditor retain a minimum; **EvidenceBundles** exports a
frozen snapshot with its history and verifies it, also with files of two bundles
mixed. **KeyFiles** is `generate_keypair` step by step, with failures and kills.
**Authentication** has the token registry that command lines extend by read,
temporary file and replacement, administrators who edit it, the trust
configuration, and a server. A request arrives, has its file read (a
configuration through the cache of those already parsed, keyed by their bytes)
and is decided by what was read, and either file may be replaced between these
steps. `Validates` takes the checks of `validate_access_token` on claims one by
one; syntax, sizes and header fields are left out. `inquiry.held` keeps what
the file has held since the request arrived, for `DecidedInItsTime`.

### Pages

An answer or a failure arrives at any later moment and in any order, its
continuation runs as the code does: what it compares, it compares then.
**RunPage** is the dashboard (`app.js`): `loadFindings` compares a generation and
settles on the last selection, `showWaiver` compares none, so of two waivers
opened one after the other the drawer keeps whichever arrives last, and
`DashboardSettles` claims of it only that record and history are of one waiver.
**PlanPage** `plans.js` with the server
side of a plan reduced to its pin, **ReleasePage** `releases.js` with its epochs,
**PhysicalPage** `physical.js`, where head and body of a response are two
moments.

### Computations

**ContextGraph** is the loop of `node_hashes`, one node per step in any order of
its queue, then an edit and a second hashing as `compare_context` sees it.
**RingSearch** is the loop of three indices in `physical.ring` and
`identity.points`, compared with the least rotation as **Rings** defines it.
A ring of n vertices is allowed 3n - 4 rounds in each direction.
**MovementIndex** has floats of a few significant bits with rounding, so that
the exact cells of the index and the rounded distance of `similarity()` can
differ. **PhysicalContext** extracts, normalizes, binds and compares
neighborhoods of integer geometry, and refuses degenerate rings and coordinates
beyond the budget; designers may turn, move, edit and list a layout anew between
two imports.

**BrowserPages**, **KeptFiles** and **Computations** put independent components
into one state space: a behaviour picks one component and only that one moves
(`page`, `keeps`, `computes`). They exist so that one run checks several
components; no property there depends on the others, except that checkpoints and
bundles share `AuditChain`.

## What each run checks

| Run | Checks | Instance and why it is enough |
|---|---|---|
| ReviewLifecycle | TypeOK, ReviewsAreSound (VotesBindContent, DecisionHistory), ActorsAreGranted, UniqueLiveTarget, BaselineIsImported, ReviewImplemented, StepsAreSound (ApprovalTakesQuorum, RevocationIsTerminal, VersionsAndLineage, EvidenceRetained) | either one waiver, four actors with different roles and grants, two policies, three offers, two revisions, three days and nine versions: enough for submit, two votes, a change and a second full round (`ReviewBounds`). Or two interchangeable waivers and three runs, two of one scope and one in another project, with three versions: the fewest with which proposals and rebinds can meet (`TargetBounds`) |
| Gate | WaivedWasDecided, SuppressionLasts, UnusedWasSought, SnapshotsStayWhole, OnlyVotesOpenTheGate | a finding alone, at another revision, and twice in one run, two waivers, one expiring today (`GateBounds`); two waivers that resemble a third finding, one of them beyond the reach of the index, a budget of one and of two (`SearchBounds`); evidence, a quorum of two, a policy change and a snapshot between any two operations (`FreezeBounds`) |
| Clients | NoLostUpdate, VotesWereInformed | owner, administrator and reviewer at one waiver, five versions, so that a view can be up to four changes old |
| Store | AuditMatchesRows, VerifyNeverFails, PolicyCreatedOnce, LedgerImplemented, NobodyWaitsForever (LockIsReleased, CallsEnd) | three processes, scripts of one write, two writes and a policy change; four events. PolicyCreatedOnce is about steps: the history begins with the policy, and a process that opens the database commits nothing later |
| Plans | AppliedAsPreviewed, UniqueLiveTarget, PlanIsWhole | plans of two operations by an owner and an administrator on three findings (`PairBounds`); a plan that meets a waiver in review (`VoteBounds`); two previews |
| Capsules | SuppressionsWereDecided, GenuineVerifies, UsableIsLive | one waiver, one pinned run, one receipt, one capsule, two days, a trust policy that revokes the producer; six instants order all steps of a release. A stamp earlier than its commit is tried where a clock was read in between (`StampsThatMatter`); elsewhere nothing can tell the two apart |
| Pages | DashboardSettles (RowsAreOfSelection, HistoryIsOfDrawer), AppliedWasDisplayed, DecisionIsOfInputs, EvidenceIsCurrent (EvidenceIsOfConnection, LastAskedIsShown), ButtonComesBack | two of everything (runs, waivers, filters, texts, tokens, documents); four requests under way: two of each kind in competition |
| Computations | CyclesAreRefused, ImpactIsReachable, RingsAreFound (RingIsCanonical, SearchIsLinear), RetrievalIsExact (OnlyTheLimitEscapes, LinesAreExact), PhysicalEvidenceHolds (ContextIsGeometry, CorrespondenceIsCongruence, PairsAreOneToOne, RetainedManifestBinds), LoopsEnd (HashingEnds, SearchEnds) | all graphs of three nodes; all rings of up to six of three points; all floats of three bits up to 16, with limits between; two findings of one rule with a triangle, holed or not, turned and mirrored |
| KeptFiles | KeysAreWhole (PairIsOfOneKey, FailureLeavesNothing), DecidedInItsTime, CheckpointBindsHistory, BundlesVerifyWhole | three callers and four overlapping pairs of names; two command lines, two local and two signed tokens, a registry of two records; nine configurations that differ in one check each, and a cache of two where the code has eight (`CacheLimit`), so that it overflows. The registry and the configuration are shown apart, since a token is judged by one of them alone; a file has at most two contents during a request (`MaxHeld`); histories of three events for checkpoints and of four for bundles of two snapshots |
| RejectedResubmit | SubmitsOnlyProposals is violated | as ReviewLifecycle |
| RevocationReason | ReasonRetained is violated | as ReviewLifecycle, where a rationale can fill the limit |
| Revoked | RevocationLasts is violated | as KeptFiles |

Each property of a passing run is accompanied by a mutant of the code's model (a
forgotten clearing of votes, a comparison off by one, a load without its grant,
a commit before its event, a continuation that does not compare) that breaks it;
the mutants stand beside the definitions they replace. A property that is a
conjunction of others has a mutant for each of its parts (in brackets above).

Where a run holds several instances, `BoundedSpec` and `BoundedPlans` confine
every step to a state inside one of them: `Next /\ (A' \/ B')`. A state of both
may be continued in either, and no step is lost that one of the two instances
alone would take. `BoundedSpec` of Capsules only drops early stamps that no clock
can have come after (`StampsThatMatter`). The other bounds (`MaxVersion`, `MaxDay`, `MaxEvents`,
`MaxSigned`, `MaxTime`, `LastTime`, `MaxSnapshots`, `MaxOperations`,
`MaxPreviews`, `MaxHead`, `MaxInstant`, `MaxReceipts`, `MaxCapsules`,
`MaxHeld`, `MaxRequests`, `MaxEpoch`, `MaxClicks`, `MaxEdits`, `MaxLength`) sit in the
guards of the actions that would pass them. The limits of the code
(`ReviewerLimit`, `EvidenceLimit`, `TagLimit`, `RationaleLimit`, `RecordLimit`,
`CacheLimit`, `LineLimit`, `CoordinateLimit`) are constants, small in the instances so that
they are reached. Deadlock is not checked: everything may have been said that
the bounds allow, a computation ends, and a workspace whose waivers are all
revoked is a legal end.

**Fairness.** Four places assume any, each as weak as the code allows.
`AuditedStore!FairSpec`: a process that has entered a transaction keeps
executing (`WF_vars(Work(p))`); a transaction is a Python `with` block that waits
for nothing but the lock, and that wait is bounded by `busy_timeout`, the action
`Busy`. Opening, calling and crashing are never forced. `AnswersEnd` of
BrowserPages: what the release page asked for ends, as a `fetch` or a file read
does, with an answer or an error. `LoopsRun` of Computations: the loops of
`node_hashes` and of the ring search take their next round. Nothing is assumed
of people.

## What the runs found

* **RejectedResubmit.** The lifecycle diagram of `docs/ARCHITECTURE.md` returns
  a rejected waiver to review only through amend or rebind. `Service.submit`
  also accepts it as it stands, and clears the rejecting vote with it.
* **RevocationReason.** `Service.revoke` promises to keep the reason in the
  signed content, appends it to the rationale and cuts the result at the limit
  of the field; with a rationale near the limit the reason is gone.
* **Revoked.** `write_auth` reads the registry, extends it and replaces the file.
  A revocation made in between is written over, and a request that arrives
  afterwards is answered.

Four more statements are kept in the modules and hold in no run; putting one
into the cfg of its run shows the history.

* `OverviewIsOfSelection` (Pages): `loadRun` (`app.js:78`) takes whichever
  assessment arrives last, where `loadFindings` compares a generation, so the
  overview may show a run that is no longer selected.
* `ApplyMeansPreviewed` (Pages): a template that arrives after a preview
  (`plans.js:41`) replaces the text and leaves Apply enabled. The server refuses
  the application by its digest, which is `AppliedWasDisplayed`.
* `DisconnectClears` (Pages): a body whose head was accepted before disconnecting
  still shows the identity (`physical.js:68`).
* `AcceptanceSetIsKept` (Computations): a difference slightly above the movement
  limit that rounds to it is accepted by `similarity()` and lies two cells apart
  in the index. `OnlyTheLimitEscapes` says that this is the only exception.

## What is proved

Each safety property of a passing run is the statement of a theorem; only the
liveness properties are not (below). The eight proof modules use only the named assumptions of the
modules they extend, which every run evaluates for its constants. An invariant
that is not inductive as it stands is proved from a stronger one, named here.

### The lifecycle

`WaiverLifecycleProofs` proves, for every set of actors, reports, policies,
offers and identifiers, and every limit, from the assumptions of `Waivers` and
`WaiverLifecycle` (constants have the right types, `None` is no revision, no
context and no number, `NoWaiver` is no waiver):

* `TypeCorrect`: `Spec => []TypeOK`, field types only, inductive by itself (`TypeStep`). The long
  part is that each record built by an operation is a `Waiver`; one lemma per
  constructor (`ProposalType`, `RevisedType`, `ReviewedType`, `ReboundType`, ...).
* `BaselineKept`: `Spec => []BaselineIsImported`. Inductive with `TypeOK`;
  `AnchoredSave` shows it for every operation that stores under the next version.
* `ReviewsSound`: `Spec => []ReviewsAreSound`, votes and history. The two are
  proved together: that a vote is cast only in "submitted" uses the shape of
  the history, and that shape is kept because a vote is bound. `SoundSave`
  reduces each operation to the soundness of the one record it stores;
  `VoteSound` is the case of a vote.
* `TargetsUnique`: `Spec => []UniqueLiveTarget`. Inductive with
  `BaselineIsImported`, since a record is stored under its own identifier;
  `UniqueSave` covers every operation that moves no target, `AloneEdit` the
  two that do.

Its second half is about what a single step may do. `StepEffect` says that every
step leaves all waivers alone, enters one new record, or edits one live record
by `Save`; `WhatChanges` and `WhatIsNew` turn that into what may be seen at one
identifier. Each action property then needs a look at one saved record instead
of fourteen operations:

* `RevocationTerminal`, `LineageKept`, `EvidenceKept` and `ApprovalSound`, for
  `RevocationIsTerminal`, `VersionsAndLineage`, `EvidenceRetained` and
  `ApprovalTakesQuorum`; `StepsSound` is the four together. Behind
  `EvidenceKept` is the invariant `EvidenceStored`. That the votes of an approved
  waiver come from as many different people as the quorum asks for follows from
  `ReviewsSound`: votes are good and distinct, so counting votes counts voters
  (`VotersCounted`).
* `ActorsGranted`: `Spec => []ActorsAreGranted`, of creators and voters; creator and
  grants never change. `LineageKept` is about versions and the fields that no
  change may touch.
* `ImplementsReview`: `Spec => ReviewImplemented`. Every operation is one step of
  `ReviewProtocol` or none; the step needs `VotesBindContent`, since ayes count
  for the present content only, and `VotersCounted`, since the protocol counts
  people and the code counts votes.

### Who calls it

`WaiverCallersProofs` is about people with old screens and about plans.
`ClientsImplementLifecycle`: `ClientSpec => Spec`, so all of the above holds
behind the API. `ScreensTrue` says that a screen shows some version of a known
waiver, and the present value if it is the present version; it is inductive
because every change raises the version. From it follow `VersionsName`,
`UpdatesKept` and `VotesInformed`, for `VersionNamesValue` (in no run),
`NoLostUpdate` and `VotesWereInformed`: an operation compares versions, changes
one waiver only (`EditsOne`), and only a review adds a vote (`VoteCast`).

A plan stores several records in one step, so `PlanSpec` does not implement
`Spec` and its invariants are proved anew. `PlanInv` adds to them that what a
preview shows is well formed; `Preparing` says under which circumstances
`_prepare` works, `Drafted` what the stored waivers are when several are written
at once, and `DraftingKeeps` that this is enough for every invariant.
`PlansKeepRecords` and `PlansKeepTargets` are the result: within a plan, too, no
target gets a second waiver. `PlansApplyAsPreviewed` (`AppliedAsPreviewed`) needs
`HeadInv`: a preview belongs to the present database for as long as its head is
the present head, because every commit moves the head. `PlansAreWhole` is the
action property `PlanIsWhole`.

### Assessments, snapshots and capsules

`AssessmentProofs` starts with two refinements, `GateImplementsLifecycle` and
`ReleaseImplementsLifecycle`, which bring the invariants of the lifecycle to
what assessments and releases read.

* `WaivedDecided`, `SuppressionStays` (`SuppressionLasts`) and `UnusedSought` need
  no invariant of their own: they follow from `TypeOK`, `UniqueLiveTarget`,
  `BaselineIsImported` and `ActorsAreGranted`, by lemmas about the operators of
  `Assessment`. `OneHit` is the central one: since live waivers have different
  targets, a finding has at most one, and no step can make it ambiguous while its
  own waiver is left alone (`StaysWaived`). Nothing is assumed of the index: a
  finding that resembles the target of an unused waiver is one that the index
  does not retrieve for it.
* `SnapshotsWhole` (`SnapshotsStayWhole`): with `SnapshotsTyped` and
  `EvidenceStored`, in `SnapshotInv`; `FrozenBehind` says what may happen to the
  live record behind a frozen one.
* `OnlyVotesOpen`: `GateSpec => OnlyVotesOpenTheGate`. Under an unchanged policy
  a finding becomes suppressed only by an approval (`BecomesWaived`); revoking a
  waiver would open the gate if it ended an ambiguity, which `UniqueLiveTarget`
  excludes.
* `UsableLive` (`UsableIsLive`): the check at the gate reads the database again,
  so the lemmas are about what a clean result says (`CleanCheck`, `Satisfied`)
  and about which waivers an assessment reads (`ReadsScope`).
* `DecidedInTime` (`SuppressionsWereDecided`) and `GenuineCapsulesVerify`
  (`GenuineVerifies`) rest on the inductive `ReleaseInv`: time stamps are in the
  past (`Dated`), a publisher between clock and transaction was authorized at
  his moment (`SealingBound`), any waiver without a later stamp is what it was
  then or what the one transaction under way made of it, and every capsule was
  made of such a moment (`GenuineCapsule`). `SealingWaits` is the case before
  that transaction commits, `SealingGoesOn` the commits after it, whose stamps
  are all later than the clock.

### The store

`AuditedStoreProofs` proves, for any processes, entities, contents and scripts
(`StoreAssumption`: the policy is an entity, `Nobody` is no process and no
entity, no script is empty):

* `StoreTyped`, `RowsAudited`, `WritersExclude` and `VerifySucceeds`, for
  `TypeOK`, `AuditMatchesRows`, `WriterIsCurrent` and `VerifyNeverFails`;
  `TypeOK` and `WriterIsCurrent` serve the proof and are in no run.
* `ImplementsLedger`: `Spec => LedgerImplemented`, the refinement of `Ledger`.
* `PolicyOnce`: `Spec => PolicyCreatedOnce`. `OpeningInv` says how far each
  process that opens the database has come, with an empty history before it
  (`Creates`) or with somebody else's policy (`Finds`).

All rest on one inductive invariant, `StoreInv`. Agreement of committed rows and
history is not inductive: a commit publishes what a process prepared, so the
invariant says of every copy that its rows follow its history except for the one
row whose event is owed (`Follows`, `OwesHead`), that a writer holds the lock and
continues the committed history (`Current`), and that whoever has opened the
database finds a first event (`HasHistory`). `LatestAppend` is the fact about
histories beneath it: an event changes the latest content of its own entity
only. `FrameSound` is the interference argument: a commit disturbs no other
process, because no other one is writing.

### Pages

`BrowserPagesProofs` has one invariant per page. None of the properties is
inductive: each says what is displayed when everything has arrived, and the
invariant says what is still on its way.

* `DashboardSound` (`DashboardSettles`): until the table has settled, the
  last request for findings, or an assessment that will ask for them, is pending
  (`RowsFollow`).
* `AppliedDisplayed` (`AppliedWasDisplayed`): a digest held or sent is that of a
  displayed preview (`ReviewedInv`).
* `DecisionBound` (`DecisionIsOfInputs`): an evaluation that counts in this
  epoch was asked with the inputs of this epoch, and while a decision is on
  display nothing of its epoch can still arrive (`ReleaseInv`).
* `GeometryCurrent` (`EvidenceIsCurrent`): a request with the token in use brings
  only what that token may see, and a question whose answer is not on display
  is pending (`GeometryInv`).
* `TabSound`: the four together for `BrowserPages`, of which the run speaks.

### Kept files

`KeptFilesProofs`, for any number of callers, names, tokens and events:

* `KeysWhole` (`KeysAreWhole`) from `KeyInvariant`: the files of a key are
  exactly the created ones, in the order asked for, and nobody removes another's.
* `FilesDecide`: `AccessSpec => DecidedInItsTime`, from `AccessInv`: every cached
  configuration is trusted and filed under its own bytes, the file as it is now is
  among what it has held since the request arrived, and so is what was read for
  the request.
* `CheckpointsBind` (`CheckpointBindsHistory`): database, backup and the last
  claim are chained histories (`CheckpointInv`). `ChainBinds` is the fact about
  chains: an event holds the hash of the event before it, so two chained
  histories that agree in one hash agree in all before it; it is proved by
  the last place where they differ, without induction over data.
* `BundlesWhole` (`BundlesVerifyWhole`): each freeze recorded the history before
  it, under an identifier drawn for it alone (`Freezes`, `BundleInv`), in the
  database, the backup and every export; hence a mixture that verifies is one
  bundle (`MixtureIsBundle`).
* `KeptSound`: the invariants for `KeptFiles`, of which the run speaks.

### Computations

`ComputationProofs`, for any finite set of nodes and for rings of any length
over any points:

* `AcceptanceExact` (`CyclesAreRefused`): the loop keeps degrees equal to the
  number of dependencies not yet hashed; what remains when the queue is empty
  contains, with every node, one of its dependencies, and what was hashed can be
  ordered (`GraphInv`).
* `ImpactExact` (`ImpactIsReachable`): a hash is the digest of a node with the
  digests below it (`DigestInv`), so equal digests of a node in two manifests
  mean equal files and edges all the way down (`EqualDigests`, `EqualTargets`).
  Neither direction needs induction on depth: the nodes with equal digests are
  closed under dependencies, and nodes below an equal target with different
  ones would be a cycle, which has been refused.
* `RingsFound` (`RingsAreFound`): `RingInv` says that the two starts agree in
  their common beginning and that every start they have passed is beaten,
  except one another (`Searching`). `Eliminates` is the step: where two lists
  differ, every start within the common beginning of the larger one is beaten
  by its counterpart. When the common beginning is the whole ring, the ring is
  periodic and the earlier start is best (`Periodic`); otherwise one start has run
  out and the other is the only one left. `StepsCounted` bounds the rounds by
  i + j + k, which is at most 3n - 4 while the loop goes round. The proof showed
  the former bound of the model, 2n rounds per direction on average, to be a
  property of its small rings only: some ring of ten vertices takes 42 rounds.
  The loop is linear all the same.
* `RetrievalExact` (`RetrievalIsExact`), for any precision, any finite set of
  waivers and any limits, and again along one axis. A float is a multiple of its
  spacing, and between the movement limit and a longer distance there is always
  a multiple of the spacing of the latter, so rounding does not fall short of
  the limit (`RoundBeyond`); two cells apart is farther than the limit
  (`CellsApart`). The list of a file exists and is complete because each waiver
  stands behind those before it (`FiledIs`); that a bisection of a sorted list
  ends where the list divides is shown by the least interval on which it would
  not (`HalvesExist`, `HalveIs`). Recursive functions are handled by such least
  counterexamples throughout, since the induction theorems of the library are
  out of reach.

### Physical evidence

`PhysicalProofs` proves `EvidenceIsGeometry` (`PhysicalEvidenceHolds`), for any
finite set of findings, any layouts, layers, placements and edits
(`PhysicalAssumption`: these have the types that `models.py` and `physical.py`
give them, and coordinates are integers). The hashes of the code are documents:
lists of canonical rings in sorted order, relative to the lowest corner of the
markers. What has to be shown is that equality of such documents is congruence.

* Lists that are sorted before they are digested are equal exactly if a
  bijection matches their elements (`SortedMatch`); canonical rings are equal
  exactly if one ring is the other read from another vertex, in one direction or
  the other (`RingsEqual`).
* The eight orientations are a group that acts on points (`Composition`,
  `ActsComposed`) and is additive (`OrientationLinear`). A motion that carries
  the markers over carries their bounding box over, for polygons by their
  vertices, for boxes by their corners, so the lowest corner moves along
  (`OriginMoves`).
* `PayloadCarries` joins them: the document of one neighborhood in the orientation
  o1 is that of another in o2 exactly if the orientation o for which o1 is o2
  after o carries, with some motion, all markers and shapes of the one onto those
  of the other. Two neighborhoods therefore share all eight documents or none
  (`TransformCarries`), and whichever of the eight the code takes for least is as
  good as any.
* `PhysicalInv` says of the state that an imported run binds every finding to
  the neighborhood it retains and that nothing about them was refused; the
  former is what `RetainedManifestBinds` and the comparison start from. It is
  inductive because edits leave neighborhoods well formed (`MoveAllKeeps`,
  `EditShapeKeeps`), for which a placement that has been turned must again be
  one of the eight (`PlacementExists`).

`ComputationsSound` is about `Computations`, of which the run speaks: its five
invariants hold whichever computation a behaviour shows.

### Model-checked only

* Liveness: `NobodyWaitsForever` (`LockIsReleased`, `CallsEnd`),
  `ButtonComesBack`, `LoopsEnd` (`HashingEnds`, `SearchEnds`). The prover has no
  rule for fairness and ENABLED.

Identifiers, actors and findings in the proofs are arbitrary sets; the numbers
of versions, days and events are bounded by constants that may be any number.

## What is not modelled

* Report parsing (`importers.py`, `extensions.py`) and rendering
  (`exporters.py`): no state; the run that parsing gives is an input.
* Cryptography, JSON, YAML and ZIP syntax, size limits of archives, HMAC seals,
  HTTP and TLS. A signature is its signer and a digest its document.
* SQLite beneath the store, the browser beneath the pages, the file system
  beneath key files and the registry: external, as the code uses them.
* `release.py` apart from the gate that capsules consult, and
  `engine.compare_snapshots`, a set difference of two frozen reports.
* Native extraction of layouts (`physical_native.py`, `physical_cli.py`), curved
  or real-valued geometry, normal forms of paths and messages in `identity.py`,
  reading of source windows in `context.py`.
* Argument parsing and printing of the command lines, routes and form fields of
  the API, drawing on the pages, demo data, start-up and packaging.
* Progress of people: a waiver that waits for a vote nobody may cast waits until
  it is amended, rebound or revoked. A policy update carries no version, so of
  two administrators the later one prevails; no document promises otherwise.
