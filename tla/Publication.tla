---------------------------- MODULE Publication ----------------------------
(***************************************************************************)
(* One collation project from its first base witness to its published      *)
(* definitive text: status transitions, alignment runs, and the snapshots  *)
(* that are built, superseded and published (internal/service/projects.go, *)
(* alignment.go, definitive.go, assembly.go over internal/store).          *)
(*                                                                         *)
(* As in EditorialDesk, call[s] is a request in flight and one store call  *)
(* is one step.  Decisions move as in DecisionBook; anchors are only ever  *)
(* added to the confirmed ones.                                            *)
(***************************************************************************)
EXTENDS Naturals, FiniteSets

CONSTANTS
    Anchors,        \* anchor ids of the project
    VariantIds,     \* ids NewID may return for variants
    DecisionIds,    \* ids NewID may return for decisions
    VariantOf,      \* the variant a decision is about
    SnapshotIds,    \* ids NewID may return for snapshots
    Slots,          \* concurrent requests
    OtherWitnesses, \* how many witnesses beside the base are aligned with it
    MaxVersion      \* bound: no transition or alignment starts at this project version

ASSUME VariantOfAssumption == VariantOf \in [DecisionIds -> VariantIds]
ASSUME BoundAssumption == OtherWitnesses \in Nat /\ MaxVersion \in Nat

VARIABLES
    project,    \* the row of the project
    hasBase,    \* a witness row of the project is marked as base
    variants,   \* variant rows
    decision,   \* status of each decision row
    confirmed,  \* confirmed anchors
    snapshots,  \* tables snapshots and snapshot_links
    call,       \* requests in flight
    window      \* history: for a build, the decisions approved all the time and at
                \*          some time since it listed the variants

tables == <<project, hasBase, variants, decision, confirmed, snapshots>>
vars == <<tables, call, window>>

-----------------------------------------------------------------------------
(* Rows and requests. *)

ProjectStatus == {"draft", "aligning", "reviewable", "published", "archived"}
ProjectRow == [status: ProjectStatus, version: Nat, base: BOOLEAN]
DecisionStatus == {"absent", "proposed", "approved", "rejected", "withdrawn"}
SnapshotRow == [round: Nat, status: {"pending", "published", "superseded"}, version: Nat,
                anchors: SUBSET Anchors, decisions: SUBSET DecisionIds]
Absent == [status |-> "absent"]

Idle == [pc |-> "idle"]
BaseCall == [pc: {"insertBase", "recordBase"}]
TransitionCall == [pc: {"transition"}, next: ProjectStatus, version: Nat]
AlignCall == [pc: {"align", "markReviewable"}, left: 0 .. OtherWitnesses, version: Nat]
BuildCall == [pc: {"round", "supersede", "anchors", "variants", "collect"},
              snapshot: SnapshotIds, round: Nat, anchors: SUBSET Anchors,
              todo: SUBSET VariantIds, decisions: SUBSET DecisionIds]
PublishCall == [pc: {"publish", "reread", "markPublished"}, snapshot: SnapshotIds, version: Nat]
Calls == {Idle} \cup BaseCall \cup TransitionCall \cup AlignCall \cup BuildCall \cup PublishCall

TypeOK ==
    /\ project \in ProjectRow
    /\ hasBase \in BOOLEAN
    /\ variants \subseteq VariantIds
    /\ decision \in [DecisionIds -> DecisionStatus]
    /\ confirmed \subseteq Anchors
    /\ snapshots \in [SnapshotIds -> SnapshotRow \cup {Absent}]
    /\ call \in [Slots -> Calls]
    /\ window \in [Slots -> [always: SUBSET DecisionIds, ever: SUBSET DecisionIds]]

Approved == {d \in DecisionIds : decision[d] = "approved"}
Present == {n \in SnapshotIds : snapshots[n] # Absent}
InState(status) == {n \in Present : snapshots[n].status = status}

(* A project just created, or one with its base imported and anchored. *)
Init ==
    /\ \/ /\ project = [status |-> "draft", version |-> 1, base |-> FALSE]
          /\ hasBase = FALSE /\ confirmed = {}
       \/ /\ project = [status |-> "aligning", version |-> 2, base |-> TRUE]
          /\ hasBase = TRUE /\ confirmed \in SUBSET Anchors
    /\ variants = {}
    /\ decision = [d \in DecisionIds |-> "absent"]
    /\ snapshots = [n \in SnapshotIds |-> Absent]
    /\ call = [s \in Slots |-> Idle]
    /\ window = [s \in Slots |-> [always |-> {}, ever |-> {}]]

-----------------------------------------------------------------------------
(* Requests in flight, as in EditorialDesk. *)

Begin(s, c) == /\ call[s] = Idle
               /\ call' = [call EXCEPT ![s] = c]
At(s, pc) == call[s].pc = pc
Goto(s, pc) == call' = [call EXCEPT ![s].pc = pc]
Return(s) == call' = [call EXCEPT ![s] = Idle]

Abort(s) ==
    /\ call[s] # Idle
    /\ Return(s)
    /\ UNCHANGED <<tables, window>>

Restart ==
    /\ call' = [s \in Slots |-> Idle]
    /\ UNCHANGED <<tables, window>>

-----------------------------------------------------------------------------
(* Anchors and decisions, moved by their own handlers: a decision as        *)
(* EditorialDesk shows it moves.                                            *)

Book == INSTANCE DecisionBook

ConfirmAnchor(a) ==
    /\ confirmed' = confirmed \cup {a}
    /\ UNCHANGED <<project, hasBase, variants, decision, snapshots, call, window>>

ProposeDecision(d) ==
    /\ VariantOf[d] \in variants
    /\ Book!Propose(d)
    /\ UNCHANGED <<project, hasBase, variants, confirmed, snapshots, call, window>>

ReviewDecision(d, next) ==
    /\ Book!Review(d, next)
    /\ window' = [s \in Slots |-> IF next = "approved"
                                  THEN [window[s] EXCEPT !.ever = @ \cup {d}]
                                  ELSE window[s]]
    /\ UNCHANGED <<project, hasBase, variants, confirmed, snapshots, call>>

WithdrawDecision(d) ==
    /\ Book!Withdraw(d)
    /\ window' = [s \in Slots |-> [window[s] EXCEPT !.always = @ \ {d}]]
    /\ UNCHANGED <<project, hasBase, variants, confirmed, snapshots, call>>

-----------------------------------------------------------------------------
(* CreateWitness with is_base set. *)

BaseCheck(s) ==
    /\ ~hasBase
    /\ Begin(s, [pc |-> "insertBase"])
    /\ UNCHANGED <<tables, window>>

BaseInsert(s) ==
    /\ At(s, "insertBase")
    /\ hasBase' = TRUE
    /\ Goto(s, "recordBase")
    /\ UNCHANGED <<project, variants, decision, confirmed, snapshots, window>>

(* SetProjectBaseWitness leaves the version alone. *)
BaseRecord(s) ==
    /\ At(s, "recordBase")
    /\ project' = [project EXCEPT !.base = TRUE]
    /\ Return(s)
    /\ UNCHANGED <<hasBase, variants, decision, confirmed, snapshots, window>>

-----------------------------------------------------------------------------
(* TransitionProject. *)

ValidProjectTransition(cur, next) ==
    \/ cur = "draft" /\ next = "aligning"
    \/ cur = "aligning" /\ next \in {"reviewable", "draft", "archived"}
    \/ cur = "reviewable" /\ next \in {"published", "archived"}
    \/ cur = "published" /\ next = "archived"

(* UpdateProjectStatus: UPDATE ... WHERE id = ? AND version = expect. *)
ProjectIs_Unchecked(expect) == TRUE   \* seeded: no version in the WHERE
ProjectIs(expect) == project.version = expect
SetProjectStatus(status) ==
    project' = [project EXCEPT !.status = status, !.version = @ + 1]

(* The request's version is the one its handler has just read. *)
TransitionCheck(s, next) ==
    /\ project.version < MaxVersion
    /\ ValidProjectTransition(project.status, next)
    /\ next = "aligning" => project.base
    /\ Begin(s, [pc |-> "transition", next |-> next, version |-> project.version])
    /\ UNCHANGED <<tables, window>>

TransitionUpdate(s) ==
    LET c == call[s] IN
    /\ At(s, "transition")
    /\ \/ ProjectIs(c.version) /\ SetProjectStatus(c.next)
       \/ ~ProjectIs(c.version) /\ UNCHANGED project
    /\ Return(s)
    /\ UNCHANGED <<hasBase, variants, decision, confirmed, snapshots, window>>

-----------------------------------------------------------------------------
(* RunAlignment. *)

(* mustListWitnesses answers an error of the store with no witnesses. *)
AlignCheck(s) ==
    /\ project.version < MaxVersion
    /\ Cardinality(confirmed) >= 2
    /\ hasBase
    /\ \E n \in {0, OtherWitnesses} : Begin(s, [pc |-> "align", left |-> n, version |-> 0])
    /\ UNCHANGED <<tables, window>>

(* One transaction per witness: whatever differs becomes new variants, also *)
(* when an earlier run has already made variants of the same differences.   *)
WitnessLeft_OffByOne(c) == c.left >= 0   \* seeded: one turn of the loop too many
WitnessLeft(c) == c.left > 0

AlignWitness(s) ==
    LET c == call[s] IN
    /\ At(s, "align") /\ WitnessLeft(c)
    /\ \E new \in SUBSET (VariantIds \ variants) : variants' = variants \cup new
    /\ call' = [call EXCEPT ![s].left = c.left - 1]
    /\ UNCHANGED <<project, hasBase, decision, confirmed, snapshots, window>>

AlignRead(s) ==
    LET c == call[s] IN
    /\ At(s, "align") /\ ~WitnessLeft(c)
    /\ call' = [call EXCEPT ![s] = [c EXCEPT !.pc = "markReviewable", !.version = project.version]]
    /\ UNCHANGED <<tables, window>>

(* No transition table is asked, and losing the race is not an error. *)
AlignMark(s) ==
    LET c == call[s] IN
    /\ At(s, "markReviewable")
    /\ \/ ProjectIs(c.version) /\ SetProjectStatus("reviewable")
       \/ ~ProjectIs(c.version) /\ UNCHANGED project
    /\ Return(s)
    /\ UNCHANGED <<hasBase, variants, decision, confirmed, snapshots, window>>

-----------------------------------------------------------------------------
(* BuildSnapshot. *)

(* NextRoundNo: COALESCE(MAX(round_no), 0) + 1. *)
Rounds_Published == {snapshots[n].round : n \in InState("published")}   \* seeded
Rounds == {snapshots[n].round : n \in Present}
IsLast(r) == \A q \in Rounds : q <= r

FreshSnapshot(n) ==
    /\ snapshots[n] = Absent
    /\ \A s \in Slots : ~(/\ call[s].pc \in {"round", "supersede", "anchors", "variants", "collect"}
                          /\ call[s].snapshot = n)

(* LatestPublishedSnapshot, of whatever round. *)
RoundFrozen == InState("published") # {}

BuildCheck(s, n) ==
    /\ ~RoundFrozen
    /\ FreshSnapshot(n)
    /\ Begin(s, [pc |-> "round", snapshot |-> n, round |-> 0, anchors |-> {},
                 todo |-> {}, decisions |-> {}])
    /\ UNCHANGED <<tables, window>>

BuildRound(s) ==
    /\ At(s, "round")
    /\ \E r \in Rounds \cup {0} :
           /\ IsLast(r)
           /\ call' = [call EXCEPT ![s] = [@ EXCEPT !.pc = "supersede", !.round = r + 1]]
    /\ UNCHANGED <<tables, window>>

(* UPDATE ... WHERE status IN (building, pending_publish). *)
Supersedes_Building(row) == row # Absent /\ row.status = "building"   \* seeded: only building
Supersedes(row) == row # Absent /\ row.status = "pending"

BuildSupersede(s) ==
    /\ At(s, "supersede")
    /\ snapshots' = [n \in SnapshotIds |->
                       IF Supersedes(snapshots[n])
                       THEN [snapshots[n] EXCEPT !.status = "superseded", !.version = @ + 1]
                       ELSE snapshots[n]]
    /\ Goto(s, "anchors")
    /\ UNCHANGED <<project, hasBase, variants, decision, confirmed, window>>

(* freeze needs a base; what assemble collects does not reach the body. *)
BuildAnchors(s) ==
    /\ At(s, "anchors")
    /\ \/ /\ hasBase
          /\ call' = [call EXCEPT ![s] = [@ EXCEPT !.pc = "variants", !.anchors = confirmed]]
       \/ ~hasBase /\ Return(s)
    /\ UNCHANGED <<tables, window>>

BuildVariants(s) ==
    /\ At(s, "variants")
    /\ call' = [call EXCEPT ![s] = [@ EXCEPT !.pc = "collect", !.todo = variants]]
    /\ window' = [window EXCEPT ![s] = [always |-> Approved, ever |-> Approved]]
    /\ UNCHANGED tables

Collected_Standing(v) ==   \* seeded: everything not yet rejected or withdrawn
    {d \in DecisionIds : VariantOf[d] = v /\ decision[d] \in {"proposed", "approved"}}
Collected(v) == {d \in Approved : VariantOf[d] = v}

(* collectApproved: one query per variant. *)
BuildCollect(s) ==
    LET c == call[s] IN
    /\ At(s, "collect")
    /\ \E v \in c.todo :
           call' = [call EXCEPT ![s] = [c EXCEPT !.todo = c.todo \ {v},
                                                 !.decisions = c.decisions \cup Collected(v)]]
    /\ UNCHANGED <<tables, window>>

BuildCreate(s) ==
    LET c == call[s] IN
    /\ At(s, "collect") /\ c.todo = {}
    /\ snapshots' = [snapshots EXCEPT ![c.snapshot] =
                       [round |-> c.round, status |-> "pending", version |-> 1,
                        anchors |-> c.anchors, decisions |-> c.decisions]]
    /\ Return(s)
    /\ UNCHANGED <<project, hasBase, variants, decision, confirmed, window>>

-----------------------------------------------------------------------------
(* PublishSnapshot. *)

SnapshotIs_Unchecked(n, expect) == TRUE   \* seeded: no version in the WHERE
SnapshotIs(n, expect) == snapshots[n].version = expect

PublishCheck(s, n) ==
    /\ n \in InState("pending")
    /\ Begin(s, [pc |-> "publish", snapshot |-> n, version |-> snapshots[n].version])
    /\ UNCHANGED <<tables, window>>

PublishUpdate(s) ==
    LET c == call[s] IN
    /\ At(s, "publish")
    /\ \/ /\ SnapshotIs(c.snapshot, c.version)
          /\ snapshots' = [snapshots EXCEPT ![c.snapshot].status = "published",
                                            ![c.snapshot].version = @ + 1]
          /\ Goto(s, "reread")
       \/ /\ ~SnapshotIs(c.snapshot, c.version)
          /\ UNCHANGED snapshots
          /\ Return(s)
    /\ UNCHANGED <<project, hasBase, variants, decision, confirmed, window>>

PublishRead(s) ==
    /\ At(s, "reread")
    /\ call' = [call EXCEPT ![s] = [@ EXCEPT !.pc = "markPublished", !.version = project.version]]
    /\ UNCHANGED <<tables, window>>

(* The error of this update is dropped, no transition table is asked. *)
PublishMark(s) ==
    LET c == call[s] IN
    /\ At(s, "markPublished")
    /\ \/ ProjectIs(c.version) /\ SetProjectStatus("published")
       \/ ~ProjectIs(c.version) /\ UNCHANGED project
    /\ Return(s)
    /\ UNCHANGED <<hasBase, variants, decision, confirmed, snapshots, window>>

-----------------------------------------------------------------------------
Environment ==
    \/ \E a \in Anchors : ConfirmAnchor(a)
    \/ \E d \in DecisionIds : \/ ProposeDecision(d)
                              \/ ReviewDecision(d, "approved") \/ ReviewDecision(d, "rejected")
                              \/ WithdrawDecision(d)

Arrive(s) ==
    \/ BaseCheck(s)
    \/ \E next \in ProjectStatus : TransitionCheck(s, next)
    \/ AlignCheck(s)
    \/ \E n \in SnapshotIds : BuildCheck(s, n) \/ PublishCheck(s, n)

Step(s) ==
    \/ BaseInsert(s) \/ BaseRecord(s)
    \/ TransitionUpdate(s)
    \/ AlignWitness(s) \/ AlignRead(s) \/ AlignMark(s)
    \/ BuildRound(s) \/ BuildSupersede(s) \/ BuildAnchors(s) \/ BuildVariants(s)
    \/ BuildCollect(s) \/ BuildCreate(s)
    \/ PublishUpdate(s) \/ PublishRead(s) \/ PublishMark(s)

Next ==
    \/ Environment
    \/ Restart
    \/ \E s \in Slots : Arrive(s) \/ Step(s) \/ Abort(s)

Spec == Init /\ [][Next]_vars

-----------------------------------------------------------------------------
(* Correctness. *)

(* A snapshot row leaves pending once, for published or superseded, and    *)
(* keeps its round and its frozen links; a published snapshot never        *)
(* changes again, although publications check an earlier read and a build  *)
(* that saw no publication supersedes after one.                           *)
SnapshotLifecycle ==
    [][\A n \in SnapshotIds :
         snapshots[n] # Absent /\ snapshots'[n] # snapshots[n] =>
           /\ snapshots[n].status = "pending"
           /\ snapshots'[n].status \in {"published", "superseded"}
           /\ snapshots'[n] = [snapshots[n] EXCEPT !.status = snapshots'[n].status,
                                                   !.version = snapshots[n].version + 1]]_vars

(* The decision chain a build is about to freeze holds every decision that *)
(* stood approved from its list of variants on, and none that was not      *)
(* approved at some moment since, although it reads variant by variant     *)
(* while reviews and withdrawals go on.                                    *)
ChainFaithful ==
    \A s \in Slots : At(s, "collect") /\ call[s].todo = {} =>
        /\ window[s].always \subseteq call[s].decisions
        /\ call[s].decisions \subseteq window[s].ever

(* A project enters draft, aligning and archived only along the table of   *)
(* TransitionProject, although its check and its update are two steps.     *)
TableRespected ==
    [][project'.status # project.status =>
         \/ ValidProjectTransition(project.status, project'.status)
         \/ project'.status \in {"reviewable", "published"}]_vars

(* With one request at a time only the newest round can still be published: *)
(* a build supersedes all that is pending before it inserts its own round, *)
(* wherever an earlier build was cut short (SupersedeSnapshots).           *)
PendingIsNewest ==
    \A m \in InState("pending"), n \in Present :
        n # m => snapshots[n].round < snapshots[m].round

(* With one request at a time every snapshot has a round of its own.       *)
RoundsDistinct ==
    \A m, n \in Present : snapshots[m].round = snapshots[n].round => m = n

-----------------------------------------------------------------------------
(* What the repository's words say and the code does not do. *)

(* BENZHI_README.md:60: once a round has a published snapshot, building in *)
(* that round again is refused, so a round has one publication.            *)
OnePublishedPerRound ==
    \A m, n \in InState("published") : snapshots[m].round = snapshots[n].round => m = n

(* README.md:83: after a publication, what is added later goes into a new   *)
(* round.  When a decision has been approved that no published snapshot    *)
(* holds, a request to build is let in.                                    *)
NextRoundOpens ==
    \A d \in Approved :
        InState("published") # {} /\ (\A n \in InState("published") : d \notin snapshots[n].decisions) =>
            \A s \in Slots, n \in SnapshotIds :
                call[s] = Idle /\ FreshSnapshot(n) => ENABLED BuildCheck(s, n)

=============================================================================
