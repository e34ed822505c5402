# Verification of the collation workbench

The repository is a single Go service (`cmd/collation`, `internal/...`) over one SQLite
file. Scholars import a base text and its witnesses, tie them by anchors, let the service
compute variant loci, claim a locus under a short lease, propose and review decisions, and
publish a definitive text as a frozen snapshot. This directory holds TLA+ models of the
parts that write, TLC instances of them, and theorems checked by TLAPS.

Reading order: `Lease`, `DecisionBook` (what is promised), `EditorialDesk`, `Publication`
(decisions and snapshots), `Texts`, `Alignment`, `Edition` (what the algorithms compute),
`Intake`, `Workbench` (imports, anchors and alignment runs), then the proofs:
`EditorialDeskProofs` about the desk and what it implements, `PublicationProofs` about
projects and snapshots, `IntakeProofs`, `SequenceProofs` and `FoldProofs` (facts about
sequences, orders and loops), `AlignmentProofs` (diffs, alignments and segmentation),
`EditionProofs` and `WorkbenchProofs`. The `MC*` modules and the `.cfg` files are the
instances; `PROJECT.json` links every definition to the lines it models.

## 1. Inventory

| Component (source) | State | Operations | What is hard | What makes it correct | Module |
| --- | --- | --- | --- | --- | --- |
| Leases (`service/collation.go` 12-41, `collate/collate.go` 62-75, `store/variants.go` 91-143) | `claimed_by`, `lease_version`, `lease_expires_at`, `status` of a variant | claim, renew, release; expiry by the clock | two checks of one lease at two times, renewal without a version change, expiry | a version never names two holders; an unexpired lease is not taken; nobody holds for ever | `EditorialDesk`, abstractly `Lease` |
| Readings (`service/collation.go` 61-94) | table `readings`, append only | propose; an alignment stores the first ones | check and insert are two statements | the reading a decision adopts exists and is of its variant | `EditorialDesk`, `Workbench` |
| Decisions (`service/collation.go` 96-199, `collate/decisions.go`) | table `decisions`, `version` and `status` of a variant | propose, review, withdraw | a proposal is four statements, a review up to six; versions are compared at the last | lifecycle followed under races; one accepted proposal per variant version; a status backed by decisions | `EditorialDesk`, abstractly `DecisionBook` |
| Project (`service/projects.go`, `store/projects.go`) | `status`, `version`, `base_witness_id` | create, transition; alignment and publication write the status too | checked on a read, written later; three writers | draft, aligning and archived entered along the table | `Publication` |
| Alignment runs (`service/alignment.go` 83-162) | variants, first readings, project status | run; recover reads | one transaction per witness, readings one by one after it, a conflict swallowed at the end | readings belong to their loci and witnesses; no locus loses its reading | `Workbench`, project part in `Publication` |
| Anchors (`service/alignment.go` 12-80, `store/anchors.go`) | `anchors` | propose, confirm, deprecate | occupancy counted over candidates | one candidate per passage, confirmed for good | `Workbench` |
| Intake (`service/witnesses.go`, `store/witnesses.go`, `store/chapters_passages.go`) | `witnesses`, `chapters`, `passages` | create witness, import chapters, import passages | base check, insert and record are three statements; imports commit in batches of twenty | one base; contiguous chapters; what a failed import leaves | `Intake` |
| Snapshots (`service/definitive.go`, `service/assembly.go`, `store/snapshots.go`) | `snapshots`, `snapshot_links` | preview, build, publish, rollback (a read) | a build is a check, a MAX, an UPDATE, a scan per variant and an INSERT, all separate; publication compares a version only | one life per snapshot, frozen links, faithful chain | `Publication` |
| Text algorithms (`internal/text`) | none | slices, diffs, segmentation | bytes against runes, overlapping head and tail, runs of newlines | nothing of a text is lost; ranges are valid | `Texts` |
| Alignment algorithms (`internal/align`) | none | pair passages, propose variants, detect movements | unequal numbers of passages, orders | the variants rebuild the witness | `Alignment` |
| Compiler and validators (`collate/compile.go`, `collate/validate.go`, `definitive/`) | none | apply edits, body of a snapshot | overlapping and unsorted edits | each edit applied once, where it belongs | `Edition` |
| Facade and start-up (`service/service.go`, `cmd/collation`) | none | NewID, Recover, serve | requests are lost at a restart, tables stay | consistency in every state a crash can leave | the `Abort` and `Restart` actions |
| HTTP API and page (`internal/httpapi`) | none | decode, call, encode | adds defaults to requests | - | not modelled |
| Schema and connection (`store/store.go`) | the connection | open, migrate, Tx | one connection | it is what makes a statement a step | not modelled |
| Configuration, demo, build files | none | - | - | - | not modelled |

**Concurrency.** `net/http` gives every request a goroutine. The service has no lock of its
own; `SetMaxOpenConns(1)` (`store.go:29`) lets one statement, or one transaction of
`Store.Tx`, run at a time. So the unit of interleaving is the store call, and everything a
handler decides between two of them is decided on data that may be stale.

**Failure.** A store call can fail and the handler returns; the process can die at any
moment. Tables survive, requests do not, and `Recover` changes nothing.

## 2. How the models correspond to the code

- One TLA+ step is one store call with the Go code up to the next. `call[s]` is the request
  in slot `s`: `pc` names the store call it will do next and the other fields are the locals
  still needed. `Begin` starts a request, `Return` ends it.
- A first read that refuses the request changes nothing and is a stuttering step, so the
  `...Check` actions have the conditions of acceptance as guards. Reads of what cannot change
  any more are merged with the step before.
- A versioned update (`UPDATE ... WHERE id = ? AND version = ?`, then `checkRows`) is a
  disjunction: the row has the version and is written, or it has not and the error path runs.
- `Abort(s)` is a store error at any call of a request, `Restart` a death of the process.
- `NewID` returns an id that no row has and no request in flight was given. (Its fallback
  constant, for a failing random source, is not modelled.) In `Intake` and `Workbench` the
  rows of passages, chapters, variants and readings are named by their place in the table.
- A request carries the version that its handler reads first; one with another version is
  refused at that read and stutters. For `POST .../transition` the handler itself reads the
  version when the client sends none.
- History variables remember what tables forget and are read by properties only: `grants`
  and `outcome` in the desk, `window` in `Publication`, `imports` (its `rows` and
  `done`) and `overlapped` in `Intake`, `cut` in `Workbench`. (`imports` also holds the
  source of an import in flight.)
- Operators whose name ends in an underscore and a word (`NextLease_Kept`, ...) are defects
  seeded on purpose: each shows that some property notices the bug it names. No action uses
  them.

### EditorialDesk

The variants, readings and decisions of one project and the five kinds of request on them.

| Action | Code |
| --- | --- |
| `ClaimCheck`, `ClaimTx`, `ClaimReply` | `Service.ClaimVariant`: `ValidClaimState` on the row read; the transaction of `Store.ClaimVariant`; the reply |
| `ReleaseVariant` | one UPDATE |
| `ReadingCheck`, `CreateReading` | `ProposeReading`: duplicate check; INSERT |
| `DecideCheck`, `DecideReading`, `CreateDecision`, `DecideMark` | `ProposeDecision`: version check; `GetReading`; INSERT of the decision; versioned update of the variant |
| `ReviewCheck`, `ReviewUpdate`, `ReviewReread`, `ReviewMark` | `ReviewDecision`: checks; versioned update of the decision; for an approval a second read of the variant and an update whose error is dropped |
| `WithdrawCheck`, `WithdrawUpdate` | `WithdrawDecision` |
| `Tick`, `Abort`, `Restart` | clock, store errors, death of the process |

`variants.version` and `lease_version` are separate counters in the code and in the model.
`superseded` is left out of the variant statuses: nothing writes it. Reasons and evidence
witnesses are left out, as are reads that only answer. Init is what an alignment leaves:
unhandled variants with at most one reading.

**Abstractions.** `Lease` is a service in which an item is acquired in one step by whoever
may have it at that instant, with a token that grows when the holder changes; `DecisionBook`
is a table of decisions moved in single steps. The desk implements both: `Leasing` maps the
lease columns of a variant to an item's lease and `grants` to the tokens issued, `Book` maps
the status column. A check on a stale row, a crash or a lost race is a stuttering step of
either. `Publication` is built on `DecisionBook`, so what it assumes of the desk is what
`EditorialDesk` is shown, and proved, to do.

### Publication

One project, its base flag, variants (ids only), decisions (a `DecisionBook`), confirmed
anchors and snapshots with their frozen links.

| Action | Code |
| --- | --- |
| `BaseCheck`, `BaseInsert`, `BaseRecord` | `CreateWitness` with `is_base` |
| `TransitionCheck`, `TransitionUpdate` | `TransitionProject` |
| `AlignCheck`, `AlignWitness`, `AlignRead`, `AlignMark` | `RunAlignment`: checks; one `CreateVariants` transaction per witness; `projectVersion`; the update whose conflict is swallowed |
| `BuildCheck`, `BuildRound`, `BuildSupersede`, `BuildAnchors`, `BuildVariants`, `BuildCollect`, `BuildCreate` | `BuildSnapshot` with `freeze` and `collectApproved` |
| `PublishCheck`, `PublishUpdate`, `PublishRead`, `PublishMark` | `PublishSnapshot` |
| `ConfirmAnchor`, `ProposeDecision`, `ReviewDecision`, `WithdrawDecision` | the effect of those handlers on what a build reads: the steps of `Workbench` and of `DecisionBook` |

What the alignment proposes for one witness is any set of new variants here; `Workbench`
computes it.

### Texts, Alignment, Edition

A text is a sequence of runes. `Texts` has the operators of `internal/text` that something
with an effect calls: `SliceByRunes`, the common head and tail with their two guards,
`DiffText`, and `SegmentByParagraph` with its byte offset and `RuneOffset`. `strings.Split`
on two newlines, `TrimSpace` and `Fields` are written out, since the hazards are in how they
meet. A rune is white space that ends no line, a newline, wide (three bytes) or narrow.

`Alignment` has `AlignInterval` for one witness, as `RunAlignment` calls it, and
`DetectMovements` with `HasCycle` and `InvertedCount`.

`Edition` is the pipeline over them: Init segments every source text, `Align(w)` proposes
the variants of a witness, `Approve` is a decision proposed and approved (`ProposeDecision`,
`ReviewDecision`), and the operators `ApplyEdits` (stable sort, cursor, skip),
`CompileDefinitive` and `ApplyDecision` make texts of what is approved. A decision
adopts one of the `Readings` of its variant, what the alignment stored if it stored one or what
an editor types in; several decisions about one variant may stand approved, as nothing in the
code forbids, and `nth` tells them apart. `MaxDecisions` bounds how many there are. The edits of
a passage are a list, in any order of the decisions, so equal edits of two witnesses are two.
The service reaches segmentation and alignment only: nothing calls the compiler, and only
tests call `ApplyDecision`, `DetectMovements` and `HasCycle` (section 5).

### Intake

| Action | Code |
| --- | --- |
| `CreateWitness`; `BaseCheck`, `BaseInsert`, `BaseRecord` | `CreateWitness` without and with `is_base` |
| `ChaptersCheck`, `ChapterInsert` | `ImportChapters`: the count of the chapters; one INSERT each |
| `ImportCheck`, `ImportBatch`, `ImportReady` | `ImportPassages`: witness and last chapter; a transaction per `BatchSize` passages; the status |
| `Abort`, `Restart` | store errors, death of the process |

### Workbench

`Intake` composed with anchors and alignment runs over the same passages. `AlignPair` calls
`AlignWitness` of `Alignment` on the passages it reads. `PassagesOf` is the answer of
`ListPassages`: the passages of a witness by their rank under `Before`, which compares
ordinals and then places, so that passages imported twice come in a fixed order.

| Action | Code |
| --- | --- |
| `ProposeAnchor`, `ConfirmAnchor`, `DeprecateAnchor` | the three transactions or updates of `store/anchors.go` |
| `AlignCheck`, `AlignList`, `AlignPair`, `AlignLoci`, `AlignReading`, `AlignNextWitness`, `AlignEnd` | `RunAlignment`: checks and base passages; list of witnesses; passages and proposals of one; `CreateVariants`; one INSERT per reading; the loop |

## 3. Runs

All bounds are constants of the `.cfg` files. `MaxLease`, `MaxClock`, `MaxVersion`,
`MaxChapters`, `MaxVariants` and `Anchorable` are guards on starting work (or on the clock)
and never cut a request short.

| Run | Question | Instance and why it is enough | States |
| --- | --- | --- | --- |
| `desk_leases` | `FencingToken`, `HolderHasExpiry`, `LeaseNotPreempted`, `LeasesAtomic`, `Answered` | one variant, two named editors and the empty name, two concurrent requests, two instants, lease versions to 2: a change of holder, a renewal and an expiry between check and transaction all fit; fair, without symmetry | 115,228 |
| `desk_editing` | `TypeOK`, `DecisionsTraceable`, `StatusBacked`, `AcceptedBasesDistinct`, `DecisionLifecycle`, `DecisionsAtomic` | two variants, two decisions, one further reading, two concurrent requests: each property is about at most two decisions | 492,479 |
| `pub_chain` | `ChainFaithful`, `PendingIsNewest`, `RoundsDistinct` | one request at a time with crashes between its store calls, over two variants and three decisions (two on one variant) that move meanwhile, two snapshots | 1,125,945 |
| `pub_race` | `TypeOK`, `SnapshotLifecycle`, `TableRespected` | two requests of any kind, two snapshots, project versions to 4 | 1,886,908 |
| `edition` | the seven properties of `Edition` | every source of up to three passages of the forms the segmentation tells apart, words of up to three runes, one of two letters wide, two witnesses; up to three decisions in any order, on one variant or on several, so that edits of two witnesses meet at one place, equal ones too | 349,295 |
| `intake` | `TypeOK`, `OneBase`, `ChaptersContiguous`, `ImportsArePrefixes`, `ReadyMeansImported` | two witnesses, two imports of three, one or no passages in batches of two, two concurrent requests | 2,830,824 |
| `workbench` | `WorkbenchTypeOK`, `OneCandidatePerPassage`, `ConfirmedForGood`, `ReadingRebuilds`, `LociWitnessed` | two witnesses, two imports, two anchors, two concurrent requests, so two runs of the alignment, or one and an import; batches of one | 3,371,471 |

A run of `edition` ends when everything is aligned and `MaxDecisions` are approved, so deadlock
is not checked there. It is checked everywhere else but says little, since a restart is always
possible; that requests do not wait for each other is what `Answered` shows.

Five runs end in a counterexample on purpose. Each states what a comment or a document of the
repository says and the code does not do:

| Run | Words | What the trace shows |
| --- | --- | --- |
| `desk_refused` | `README.md:80` | a proposal answered 409 has left a row, which a reviewer approves |
| `pub_two_in_round` | `BENZHI_README.md:60` | overlapping builds share a round and both are published |
| `pub_next_round` | `README.md:83`, `README.md:7` | after a publication no build is let in, although a decision approved since is in no published snapshot: the later round that the documents promise cannot start |
| `edition_movement` | `align/interval.go:36`, `README.md:3`; `align/movement.go:46`, `BENZHI_README.md:60` | two passages in the other order become word variants, not a movement, because ordinals count from 1 in every text; and `HasCycle`, which is to report an order that cannot be reconciled with the base's, reports no way of linking them: both findings in one trace, since the property asks for either |
| `intake_reimport` | `service/witnesses.go:90` | an import made twice stores every passage twice |

Seen while modelling and not made into runs:

- Desk: a claim is answered with the expected lease plus one (`collation.go:32`) after a renewal
  too, where `store/variants.go:119` says that a renewal keeps the version: the editor is told a
  lease that was never stored. Two concurrent proposals of one witness's reading are both stored
  (the check of `collation.go:75` and the INSERT are two statements). The reply to a claim gives
  an expiry read from the clock after the stored one. Variant statuses are written without
  `ValidVariantTransition`.
- Publication: an alignment makes a project reviewable with nothing decided (`projectReviewable`
  is never called) and an archived one reviewable again, which `model/model.go:20` calls sealed.
  The body of a snapshot is the base text whatever is approved: both branches of `BuildBody`
  append the base passage, where `definitive/definitive.go:23` says that it applies every
  approved decision. A publication whose project update loses a race still succeeds. Links are
  frozen when a snapshot is built, not when it is published. Rollback returns the latest
  published snapshot where its comment says the earliest.
- Intake: two overlapping requests both find no base and both store one, where `witnesses.go:13`
  allows one per project; `OneBase` claims it for requests one at a time. A crash between the
  base's row and its record leaves a project that has a base, refuses another one and is refused
  the transition to aligning. `ImportChapters` does not ask whether the witness exists. The
  answer 409 for an equal hash cannot happen, because the service sets no `source_text_hash`.
- Alignment: a second run inserts all loci again, where `alignment.go:84` says newly found
  ones. With two bases the first by code is used.
- Anchors: the confirm and deprecate routes pass an empty project id (`httpapi/anchors.go:44`,
  `:54`), so they find no anchor; the models take the service's operation as called with the
  project. A confirmed anchor frees its passage for a second one.
- Texts: offsets of segments drift where a block was trimmed or followed by more than two
  newlines, which is why `OffsetsExact` speaks of tidy sources. The integrity hash of
  `definitive/links.go` depends on the order of a map and is never computed. `sort.Slice` in
  `BuildInterval` is not stable for more than twelve passages of equal ordinals, which only
  repeated imports have.

**Fairness.** Only `Answered` needs any: weak fairness of `Step(s)` for every slot. A
goroutine in a store call waits for the connection only, `database/sql` hands it on in order
of arrival, and no handler holds it while it waits for something else. Nothing is assumed
about clients, the clock, errors or restarts.

**Symmetry** is used in the runs without liveness, over sets that appear in no order.

## 4. Proofs

TLAPS proves the following for every value of the constants allowed by the assumptions: any
sets of variants, editors, witnesses, anchors, ids and concurrent requests, any sources, any
positive lease terms and batch sizes, any bounds, texts of any length. `tlapm` runs on the
eight modules whose name ends in `Proofs`.

Every invariant and every action property that a passing run checks is proved, and so are both
refinements; what is left to TLC is liveness (below).

Assumptions, all evaluated by TLC in the runs: `NullAssumption` says that SQL NULL is no
instant, `VariantOfAssumption` gives every decision one variant, `NoPassageAssumption` says
that the empty passage id is the id of no row. In `Texts`, `RuneAssumption` keeps newlines
apart from other white space and from the runes of several bytes. In `Intake`,
`SourceAssumption` makes a source a sequence of passage texts and `TextAssumption` a passage
text a sequence of runes that is not empty: `SegmentByParagraph` drops blank blocks. In
`Edition`, where sources are segmented, `SourceAssumption` and `EditorAssumption` say only that
sources and typed readings are sequences of runes. The others say that bounds and sizes are
numbers.

### The desk

| Theorem | Shows | Argument |
| --- | --- | --- |
| `TypeCorrect` | `TypeOK` | `TypeInv` adds that the decision under review has a row: rows are never deleted. Without it the versioned update would be applied to a missing row |
| `FencingTokens`, `HoldersExpire` | `FencingToken`, `HolderHasExpiry` | `LeaseInv` adds `HolderHasNewest`: no lease granted is above the row's lease version, and one equal to it names the present holder, if there is one. So a version bumped for a new holder is fresh, and one kept is kept for the editor it was granted to |
| `LeasesNotPreempted` | `LeaseNotPreempted` | only `ClaimTx` and `ReleaseVariant` write the lease columns (`LeaseColumnsKept`); the transaction refuses a lease that runs for another |
| `LeasesRefined` | `LeasesAtomic` | `ClaimTx` is `Acquire` or a stutter (`ClaimAcquires`), `ReleaseVariant` is `Release`, `Tick` is `Tick`, and nothing else moves what the mapping looks at. Types suffice: the transaction judges the row anew, so the check before it carries no weight |
| `EvidenceKept` | `DecisionsTraceable` | `DraftInv`: ids given to requests are reserved, so an INSERT never hits a row, and the reading checked before the INSERT is still there after it |
| `DecisionsFollowLifecycle` | `DecisionLifecycle` | `ReviewedFromRead`: a request's version is at most the row's, and if they are equal the transition it checked is valid now. Every write raises the version, so a match at the UPDATE means the row is the one read |
| `DecisionsRefined` | `DecisionsAtomic` | the same invariant: the INSERT is `Propose`, a matching UPDATE is `Review` or `Withdraw` |
| `ProposalsExclude` | `AcceptedBasesDistinct` | `BaseInv`: the base of a proposal in flight is at most its variant's version, and the base of one answered with success lies below it. `DecideMark` succeeds only where base and version are equal, and raises the version, so two successes have two bases. What a proposal's answer is about is its own decision (`AnswersDue`), which needs the ids to be reserved |
| `StatusesBacked` | `StatusBacked` | `StatusInv` adds `VersionsCount`, a proposed decision is at version 1 and an approved one at version 2, so that a row withdrawn at version 3 had been approved, and `MarksSettled`, a review about to mark its variant decided has had its approval committed, though it may be withdrawn by then. The mark is written last: a crash leaves a decision without its status, never a status without its decision |

### Projects and snapshots

| Theorem | Shows | Argument |
| --- | --- | --- |
| `TypeCorrect` | `TypeOK` | `TypeInv` adds that the snapshot being published has a row |
| `SnapshotsFollowLifecycle` | `SnapshotLifecycle` | `PublishedFromRead`, as for decisions, with `IdsReserved` for builds; superseding raises versions too, which is what defeats a publication that checked before it |
| `TransitionsFollowTable` | `TableRespected` | `TransitionFromRead`: a transition's version is at most the project's, and if they are equal the transition is still in the table. Alignment and publication write the status past the table, but never one of the three statuses the property is about |
| `ChainsFaithful` | `ChainFaithful` | `window` remembers, for each build, which decisions stood approved since it listed the variants and which were approved at some time since. `ChainInv`: the first set, where its variant is already read, lies within what is collected, and what is collected within the second. Each query reads one instant inside the window |
| `OneRequestKeepsNewest`, `OneRequestNumbersRounds` | `PendingIsNewest`, `RoundsDistinct` | hypothesis `OneAtATime`: two slots are one. `RoundInv`: a pending snapshot is newer than all others; a build past superseding runs with none pending (`PendingShrinks`); its round is beyond all stored ones. Nothing is said about what was published before, so both also hold of a code that lets the next round start |

`OneAtATime` is no convenience: with two requests at once both properties are false (two
overlapping builds, as in `pub_two_in_round`), which is why `pub_chain` has one slot. The
theorems say that the overlap of requests is all that is needed to break them: crashes and
store errors between any two calls are not enough.

The pattern of these two components is one idea: *a version read earlier and matched later
certifies the whole row*. It holds because each UPDATE of these tables raises the version by
one and no INSERT reuses an id.

### Intake

| Theorem | Shows | Argument |
| --- | --- | --- |
| `IntakeTypes` | `TypeOK` | `TypeInv` adds `ImportsKnown`: the chapter an import carries is one that is stored, its next passage is within its source, its `imports` entry is there |
| `ImportsStorePrefixes` | `ImportsArePrefixes` | `ImportInv`: a request in flight stands right behind the rows its import has stored, which are whole batches, or all of the source before the status is written; row `n` of an import holds text `n` under ordinal `n`. The table only grows, so other imports shift nothing |
| `WaitingMeansImported` | `ReadyMeansImported` | the same invariant: an import about to write the status has stored everything, and what is stored stays |
| `BaseIsOne` | `OneBase` | `BaseInv`: while requests do not overlap, there is no base between the check and the INSERT of a request; what is recorded, or about to be, is a base. A project that names none although it has one, after a crash, is allowed and stays so |
| `ChaptersAreContiguous` | `ChaptersContiguous` | `ChapterInv`: while requests do not overlap, the ordinal a request inserts next is one more than the number of chapters its witness has |

Both of the last two speak of histories without overlap, in the properties themselves
(`overlapped` remembers), and so hold of any number of slots.

### Alignment

`LociFitWitness` is about the algorithm alone: for any base and any witness passages each
proposal of `AlignWitness` fits (`Fitting`), that is, its range lies in the base passage it
names, it carries a text exactly when it is a word or an addition, and the text put in the
place of the range gives the witness passage it was taken from. Under it lie `DiffRebuilds`
(head, region and tail of `DiffText` rebuild both texts, whatever the common head and tail
share) and the facts about `CommonPrefixRunes`, `CommonSuffixRunes` and the two guards of
`SuffixBeside`.

### Loops

The prover takes no induction rule with an operator as a parameter, and the folds of the
community modules are defined by recursive functions over sets. Two modules make up for it, and
everything said of texts rests on them.

- `SequenceProofs` has induction over a *set*: a set of numbers that holds 0 and, with each of
  its members, the next one, holds every number (`Induction`); a set of sequences that holds
  the empty one and, with each, every sequence one item longer holds all (`Appending`). The set
  is that of the lengths, or of the sequences, for which a claim is true. From these follow
  `FlattenSeq` item by item, the ranks of a finite linear order (`Ranks`), which are how a sort
  is defined here, and `NeighboursInOrder`.
- `FoldProofs` has a constant operator `Op`, the step of a loop. Its lemma `FoldStep` says that
  one item more is one step more, `FoldInvariant` that an invariant kept by the step holds at
  the end. A module reasons about a loop of the code by an instance: `Scanning`, `Joining`,
  `Splitting`, `Counting` and `Segmenting` for those of `internal/text`, `Editing` for that of
  `applyEdits`.

### Segmentation

Also in `AlignmentProofs`, about every source:

| Theorem | Shows | Argument |
| --- | --- | --- |
| `SegmentationKeepsWords` | segments are numbered from 1, none is blank or holds a newline, and their words are those of the source, in order | `SplitKeepsWords`: at every rune, the blocks split off, and the open one with the newline that may wait, hold the words so far; no word is cut since a block ends at white space (`ScannedApart`). `TrimKeepsWords` and `JoinedWords`: trimming and normalising a block keep its words |
| `SegmentationPlaces` | in a tidy source the rune range of a segment is where its text stands | `JoinedIs`: such a source splits into its passages. `PlacedStep`: the byte offset of a block is the length in bytes of all before it and one blank line, and `RuneOffsetAt` converts it exactly, because it falls on the first byte of a rune |

### Edition

`EditionInv` says that passages are what segmentation makes of the sources, proposals are
nothing or what `AlignWitness` computes of them, and that every approval is about a proposal of
its own and carries its text or an editor's. It is inductive as it stands; the work is in what
follows from it.

| Theorem | Shows | Argument |
| --- | --- | --- |
| `ProposalsFit` | `TypeOK` | `LociFitWitness`, with the converse that only additions are empty (`AboutIs`) |
| `WordsKept`, `PassagesPlaced` | `SegmentsKeepWords`, `OffsetsExact` | the two theorems on segmentation |
| `DecisionApplied` | `DecisionAgrees` | `ApplyOne`: one edit gives the text before its range, its own and the text behind |
| `ApplyEditsIs`, `EditsFound` | `EditsApplied` | below |
| `WitnessRebuilt` | `AdoptedWitnessRebuilt` | by `AlignedOne` a passage has at most one edit once every variant of a witness is decided once; `DiffRebuilds` says what it does (`PassageRebuilt`), and `CompileDefinitive` joins the passages |
| `MovementsAgree` | `MovementsFound` | `EdgesAre` computes the edges; neighbours in order make all in order (`NeighboursInOrder`) |
| `NeverCyclic` | that `HasCycle` is false for all links, of which `edition_movement` shows one instance | ids of base passages are distinct, so a walk from neighbour to neighbour never returns |

`ApplyEditsIs` is about the compiler alone: for every text and every list of edits that lie in it
and keep apart, equal ones included, sorting them stably and moving the cursor gives the text
that the edits mean position by position (`Edited`): a rune stays unless an edit covers it, and
insertions at one place stand there in the order of the list. `SortedEdits` says that the sort
loses none and keeps the order of equal starts (`Sorts`), `EditedSorted` that it changes nothing
of what the edits mean; there the induction is over fronts of the two lists that hold the same
edits of one start (`TypedSorted`). In the loop invariant `EditStates` the output after `k`
edits is what they all mean before the start of the `k`-th, and what the first `k` type in
there; `CopiedOn` carries this along the base to the next edit.

### Workbench

All five theorems follow from one inductive invariant, `WorkInv`. Its parts:

- `IntakeTyped`, `AlignedTyped`: shapes; an import in flight knows its source.
- `OneCandidatePerPassage`, which is inductive next to the types: the occupancy check and the
  INSERT are one transaction.
- `RunsSound`: the base passages a run has listed exist; the proposals it carries fit the
  passages they were made from. Passages are inserted and never changed, so what fitted when
  it was read fits when it is stored. After `AlignLoci` the proposals of a run stand side by
  side in `variants`, from its `first` on.
- `RunsApart`: the ranges of two runs that insert readings are disjoint, because each starts
  where the table ended.
- `VariantsSound`, `ReadingsSound`: what is stored has the shape and the meaning that was
  proposed; `OneReadingEach`; `NoneLeftOut`: unless something was cut short, every word and
  addition has its reading or still lies ahead of the run that stored it.

| Theorem | Shows | Argument |
| --- | --- | --- |
| `OneCandidateStands` | `OneCandidatePerPassage` | a conjunct of `WorkInv` |
| `ConfirmedAnchorsStay` | `ConfirmedForGood` | confirm and deprecate ask for a candidate, a proposal takes an id without a row |
| `WorkbenchTypes` | `WorkbenchTypeOK` | `VariantsSound` and `ReadingsSound`: ranges by `LociFitWitness` |
| `ReadingsRebuild` | `ReadingRebuilds` | `FoundSound`: what `AlignPair` finds fits the rows that `PassagesOf` listed (`PassagesListed`: ranking orders the passages of a witness without loss or repetition), by `LociFitWitness`; `ReadingKeeps`: the INSERT of a reading takes the locus of its own run |
| `LociAreWitnessed` | `LociWitnessed` | `NoneLeftOut` and `OneReadingEach`, with `RunsApart` against readings of another run |

### Model-checked only

- `Answered`: liveness and `ENABLED` are beyond the prover.
- The five runs that end in a counterexample.

## 5. Not modelled

- **HTTP, page, configuration, demo, schema**: decoding, routing, rendering, seeding and DDL
  around the operations above. What a handler adds to a request is in the models' inputs; the
  one connection is the models' grain.
- **Reads that only answer**: lists, `TraceVariant`, `RecoverAlignment`, `RollbackToSnapshot`,
  `Recover`, the snapshot view, the validators. They change nothing and no property is about
  their answers. `Recover` expires no lease: expiry is judged when a claim comes.
- **Code with no caller that writes**: `BuildCandidates`, `recompute.go`, `FirstLastWords`,
  `MergeAdjacent`, `Normalize`, `ApplyEditsToPassage` (a second copy of `applyEdits`), the
  integrity hash. Modelled although no operation calls it, because it is what the documents
  promise: the compiler of `collate/compile.go` (`CompileDefinitive`, `RegisterEdit`,
  `applyEdits`) and `InvertedCount`, which nothing calls, and `ApplyDecision`,
  `DetectMovements` and `HasCycle`, which only tests call. What is checked and proved of them
  says how they would do, not what a snapshot holds.
- **The body of a snapshot**: `BuildBody` joins the base passages and uses no decision, so
  nothing of what the models have reaches it.
- **Numbers**: `time.Duration(leaseSeconds) * time.Second` wraps for very large terms; the
  desk takes terms as small positive numbers.

## 6. Plan

What is left, in this order:

1. Composition: the passages `Intake` stores are those that `SegmentByParagraph` gives, so that
   the theorems of `Edition` carry over to `Workbench` passage by passage.
2. The lease term as a 64-bit product, and `RollbackToSnapshot` over several rounds.
