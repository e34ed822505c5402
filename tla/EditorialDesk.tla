--------------------------- MODULE EditorialDesk ---------------------------
(***************************************************************************)
(* The editorial desk of the collation workbench: editors claim variants   *)
(* under short leases, propose readings and decisions, review and withdraw *)
(* decisions (internal/service/collation.go over internal/store).          *)
(*                                                                         *)
(* Every HTTP request runs on a goroutine of its own and the database pool *)
(* holds one connection (store.go:29), so one statement or one transaction *)
(* is atomic and requests interleave between them.  An in-flight request   *)
(* is call[s]: a program position pc and the locals the handler still      *)
(* uses.  A request that is refused by its first read changes nothing and  *)
(* is a stuttering step.                                                   *)
(***************************************************************************)
EXTENDS Naturals, FiniteSets

CONSTANTS
    Variants,      \* variant ids of one project
    Editors,       \* names a request may carry; NoEditor among them if clients may omit it
    NoEditor,      \* the empty string in claimed_by
    Witnesses,     \* witness ids of the project
    ReadingIds,    \* ids NewID may return for readings
    DecisionIds,   \* ids NewID may return for decisions
    Slots,         \* concurrent requests
    LeaseTerms,    \* lease_seconds a claim may ask for
    MaxLease,      \* bound: no claim is accepted at this lease version
    MaxClock,      \* bound: the clock stops here
    Null           \* SQL NULL

ASSUME LeaseTermAssumption == LeaseTerms \subseteq Nat \ {0}
ASSUME BoundAssumption == MaxLease \in Nat /\ MaxClock \in Nat
ASSUME NullAssumption == Null \notin Nat

VARIABLES
    clock,      \* wall clock
    variant,    \* table variants
    readings,   \* table readings
    decisions,  \* table decisions
    call,       \* requests in flight
    grants,     \* history: every lease committed for a named editor
    outcome     \* history: for a decision row, the variant version it was based on
                \*          and what the proposer was answered

tables == <<variant, readings, decisions>>
history == <<grants, outcome>>
vars == <<clock, tables, call, history>>

-----------------------------------------------------------------------------
(* Rows, requests and history records. *)

VariantStatus == {"unhandled", "claimed", "pending", "decided"}
DecisionStatus == {"proposed", "approved", "rejected", "withdrawn"}

VariantRow == [status: VariantStatus, claimedBy: Editors \cup {NoEditor},
               leaseVersion: Nat, expires: Nat \cup {Null}, version: Nat]
ReadingRow == [variant: Variants, witness: Witnesses]
DecisionRow == [variant: Variants, reading: ReadingIds,
                status: DecisionStatus, version: Nat]
Absent == [status |-> "absent"]

Idle == [pc |-> "idle"]
ClaimCall == [pc: {"claim", "granted"}, variant: Variants, editor: Editors,
              term: LeaseTerms, lease: Nat]
ReadingCall == [pc: {"insertReading"}, variant: Variants,
                reading: ReadingIds, witness: Witnesses]
DecideCall == [pc: {"findReading", "insertDecision", "markPending"},
               variant: Variants, reading: ReadingIds,
               decision: DecisionIds, base: Nat]
ReviewCall == [pc: {"review", "reread"}, decision: DecisionIds,
               version: Nat, next: {"approved", "rejected"}]
MarkCall == [pc: {"markDecided"}, decision: DecisionIds, version: Nat]
WithdrawCall == [pc: {"withdraw"}, decision: DecisionIds, version: Nat]
Calls == {Idle} \cup ClaimCall \cup ReadingCall \cup DecideCall
           \cup ReviewCall \cup MarkCall \cup WithdrawCall

Grant == [variant: Variants, lease: Nat, editor: Editors \ {NoEditor}]
Outcome == [base: Nat, answer: {"none", "accepted", "refused"}]

TypeOK ==
    /\ clock \in Nat
    /\ variant \in [Variants -> VariantRow]
    /\ readings \in [ReadingIds -> ReadingRow \cup {Absent}]
    /\ decisions \in [DecisionIds -> DecisionRow \cup {Absent}]
    /\ call \in [Slots -> Calls]
    /\ grants \subseteq Grant
    /\ outcome \in [DecisionIds -> Outcome]

-----------------------------------------------------------------------------
(* What RunAlignment leaves behind: unhandled variants, each with at most   *)
(* the one reading it was created from.                                    *)

FreshVariant == [status |-> "unhandled", claimedBy |-> NoEditor,
                 leaseVersion |-> 0, expires |-> Null, version |-> 1]

Init ==
    /\ clock = 0
    /\ variant = [v \in Variants |-> FreshVariant]
    /\ readings \in [ReadingIds -> ReadingRow \cup {Absent}]
    /\ \A r, q \in ReadingIds :
           readings[r] # Absent /\ readings[q] # Absent
             /\ readings[r].variant = readings[q].variant => r = q
    /\ decisions = [d \in DecisionIds |-> Absent]
    /\ call = [s \in Slots |-> Idle]
    /\ grants = {}
    /\ outcome = [d \in DecisionIds |-> [base |-> 0, answer |-> "none"]]

-----------------------------------------------------------------------------
(* Requests in flight. *)

Begin(s, c) == /\ call[s] = Idle
               /\ call' = [call EXCEPT ![s] = c]
At(s, pc) == call[s].pc = pc
Goto(s, pc) == call' = [call EXCEPT ![s].pc = pc]
Return(s) == call' = [call EXCEPT ![s] = Idle]

(* The store's error paths and the handler returning on them, at any call. *)
Abort(s) ==
    /\ call[s] # Idle
    /\ Return(s)
    /\ UNCHANGED <<clock, tables, history>>

(* The process dies and is started again: requests are lost, tables stay,  *)
(* Recover only reads.                                                     *)
Restart ==
    /\ call' = [s \in Slots |-> Idle]
    /\ UNCHANGED <<clock, tables, history>>

Tick ==
    /\ clock < MaxClock
    /\ clock' = clock + 1
    /\ UNCHANGED <<tables, call, history>>

-----------------------------------------------------------------------------
(* ClaimVariant, ReleaseVariant. *)

HeldByOther(row, e) == row.claimedBy \notin {NoEditor, e}
Running(row) == row.expires # Null /\ clock < row.expires

ValidClaimState(row, e, expect) ==
    /\ row.leaseVersion = expect
    /\ ~(HeldByOther(row, e) /\ Running(row))

(* Seeded: the transaction trusts the service's check. *)
Claimable_VersionOnly(row, e, expect) == row.leaseVersion = expect

(* The transaction's own check; a held variant without an expiry is refused. *)
Claimable(row, e, expect) ==
    /\ row.leaseVersion = expect
    /\ HeldByOther(row, e) => row.expires # Null /\ ~Running(row)

(* Seeded: the lease version is left alone when the editor changes. *)
NextLease_Kept(row, e) == row.leaseVersion

NextLease(row, e) == IF row.claimedBy = e THEN row.leaseVersion ELSE row.leaseVersion + 1

Claimed(row, e, term) ==
    [row EXCEPT !.claimedBy = e, !.leaseVersion = NextLease(row, e),
                !.expires = clock + term, !.status = "claimed"]

ClaimCheck(s, v, e, term) ==
    LET expect == variant[v].leaseVersion IN
    /\ expect < MaxLease
    /\ ValidClaimState(variant[v], e, expect)
    /\ Begin(s, [pc |-> "claim", variant |-> v, editor |-> e,
                 term |-> term, lease |-> expect])
    /\ UNCHANGED <<clock, tables, history>>

(* Seeded: the transaction waits for the lease instead of refusing. *)
ClaimTx_Waits(s) ==
    LET c == call[s] IN
    /\ At(s, "claim") /\ Claimable(variant[c.variant], c.editor, c.lease)
    /\ variant' = [variant EXCEPT ![c.variant] = Claimed(@, c.editor, c.term)]
    /\ Goto(s, "granted")
    /\ UNCHANGED <<clock, readings, decisions, history>>

ClaimTx(s) ==
    LET c == call[s]
        row == variant[c.variant]
    IN
    /\ At(s, "claim")
    /\ \/ /\ Claimable(row, c.editor, c.lease)
          /\ variant' = [variant EXCEPT ![c.variant] = Claimed(row, c.editor, c.term)]
          /\ grants' = IF c.editor = NoEditor THEN grants
                       ELSE grants \cup {[variant |-> c.variant, editor |-> c.editor,
                                          lease |-> NextLease(row, c.editor)]}
          /\ Goto(s, "granted")
       \/ /\ ~Claimable(row, c.editor, c.lease)
          /\ Return(s)
          /\ UNCHANGED <<variant, grants>>
    /\ UNCHANGED <<clock, readings, decisions, outcome>>

(* The reply follows the commit; the lease and the expiry it tells, which   *)
(* are not those of the row, are left out.                                  *)
ClaimReply(s) ==
    /\ At(s, "granted")
    /\ Return(s)
    /\ UNCHANGED <<clock, tables, history>>

(* Seeded: the holder's name, then the status, is forgotten. *)
Released_KeepsHolder(row) == [row EXCEPT !.expires = Null, !.status = "unhandled"]
Released_NoStatus(row) == [row EXCEPT !.claimedBy = NoEditor, !.expires = Null, !.status = ""]

Released(row) == [row EXCEPT !.claimedBy = NoEditor, !.expires = Null,
                             !.status = "unhandled"]

(* One UPDATE; no row is changed for an editor who does not hold v. *)
ReleaseVariant(v, e) ==
    /\ variant[v].claimedBy = e
    /\ variant' = [variant EXCEPT ![v] = Released(@)]
    /\ UNCHANGED <<clock, readings, decisions, call, history>>

-----------------------------------------------------------------------------
(* ProposeReading. *)

ReadingForWitness(v, w) ==
    {r \in ReadingIds : readings[r] = [variant |-> v, witness |-> w]}

(* NewID: an id no row has, and no other request in flight was given. *)
FreshReading(r) ==
    /\ readings[r] = Absent
    /\ \A s \in Slots : ~(At(s, "insertReading") /\ call[s].reading = r)

ReadingCheck(s, v, w, r) ==
    /\ ReadingForWitness(v, w) = {}
    /\ FreshReading(r)
    /\ Begin(s, [pc |-> "insertReading", variant |-> v, witness |-> w, reading |-> r])
    /\ UNCHANGED <<clock, tables, history>>

CreateReading(s) ==
    LET c == call[s] IN
    /\ At(s, "insertReading")
    /\ readings' = [readings EXCEPT ![c.reading] = [variant |-> c.variant, witness |-> c.witness]]
    /\ Return(s)
    /\ UNCHANGED <<clock, variant, decisions, history>>

-----------------------------------------------------------------------------
(* ProposeDecision. *)

(* UpdateVariantStatus: UPDATE ... WHERE id = v AND version = expect. *)
VariantIs_Unchecked(v, expect) == TRUE   \* seeded: no version in the WHERE
VariantIs(v, expect) == variant[v].version = expect
SetVariantStatus(v, status) ==
    variant' = [variant EXCEPT ![v].status = status, ![v].version = @ + 1]

FreshDecision(d) ==
    /\ decisions[d] = Absent
    /\ \A s \in Slots : ~(/\ call[s].pc \in {"findReading", "insertDecision"}
                          /\ call[s].decision = d)

(* GetVariant; expected_version is the version read. *)
DecideCheck(s, v, r, d) ==
    /\ FreshDecision(d)
    /\ Begin(s, [pc |-> "findReading", variant |-> v, reading |-> r,
                 decision |-> d, base |-> variant[v].version])
    /\ UNCHANGED <<clock, tables, history>>

Adoptable_AnyVariant(r, v) == readings[r] # Absent   \* seeded: variant not compared
Adoptable(r, v) == readings[r] # Absent /\ readings[r].variant = v

DecideReading(s) ==
    LET c == call[s] IN
    /\ At(s, "findReading")
    /\ \/ Adoptable(c.reading, c.variant) /\ Goto(s, "insertDecision")
       \/ ~Adoptable(c.reading, c.variant) /\ Return(s)
    /\ UNCHANGED <<clock, tables, history>>

CreateDecision(s) ==
    LET c == call[s] IN
    /\ At(s, "insertDecision")
    /\ decisions' = [decisions EXCEPT ![c.decision] =
                       [variant |-> c.variant, reading |-> c.reading,
                        status |-> "proposed", version |-> 1]]
    /\ outcome' = [outcome EXCEPT ![c.decision].base = c.base]
    /\ Goto(s, "markPending")
    /\ UNCHANGED <<clock, variant, readings, grants>>

(* The row is committed by now: a lost race answers 409 and leaves it there. *)
DecideMark(s) ==
    LET c == call[s]
        answer(a) == outcome' = [outcome EXCEPT ![c.decision].answer = a]
    IN
    /\ At(s, "markPending")
    /\ \/ /\ VariantIs(c.variant, c.base)
          /\ SetVariantStatus(c.variant, "pending")
          /\ answer("accepted")
       \/ /\ ~VariantIs(c.variant, c.base)
          /\ UNCHANGED variant
          /\ answer("refused")
    /\ Return(s)
    /\ UNCHANGED <<clock, readings, decisions, grants>>

-----------------------------------------------------------------------------
(* ReviewDecision, WithdrawDecision. *)

ValidDecisionTransition(current, next) ==
    \/ current = "proposed" /\ next \in {"approved", "rejected", "withdrawn"}
    \/ current = "approved" /\ next = "withdrawn"

(* UpdateDecisionStatus: UPDATE ... WHERE id = d AND version = expect. *)
DecisionIs_Unchecked(d, expect) == TRUE   \* seeded: no version in the WHERE
DecisionIs(d, expect) == decisions[d].version = expect
SetDecisionStatus(d, status) ==
    decisions' = [decisions EXCEPT ![d].status = status, ![d].version = @ + 1]

(* findReading among the variant's readings; they are never deleted. *)
Traceable(d) ==
    LET r == readings[decisions[d].reading] IN
    r # Absent /\ r.variant = decisions[d].variant

(* GetDecision, GetVariant and ListReadings; expected_version is the version read. *)
ReviewCheck(s, d, next) ==
    /\ decisions[d] # Absent
    /\ ValidDecisionTransition(decisions[d].status, next)
    /\ Traceable(d)
    /\ Begin(s, [pc |-> "review", decision |-> d, next |-> next,
                 version |-> decisions[d].version])
    /\ UNCHANGED <<clock, tables, history>>

MarksVariant_Always(next) == TRUE   \* seeded: a rejection is reflected too
MarksVariant(next) == next = "approved"

ReviewUpdate(s) ==
    LET c == call[s] IN
    /\ At(s, "review")
    /\ \/ /\ DecisionIs(c.decision, c.version)
          /\ SetDecisionStatus(c.decision, c.next)
          /\ IF MarksVariant(c.next) THEN Goto(s, "reread") ELSE Return(s)
       \/ /\ ~DecisionIs(c.decision, c.version)
          /\ UNCHANGED decisions
          /\ Return(s)
    /\ UNCHANGED <<clock, variant, readings, history>>

ReviewReread(s) ==
    LET c == call[s] IN
    /\ At(s, "reread")
    /\ call' = [call EXCEPT ![s] = [pc |-> "markDecided", decision |-> c.decision,
                  version |-> variant[decisions[c.decision].variant].version]]
    /\ UNCHANGED <<clock, tables, history>>

(* The error of this update is dropped. *)
ReviewMark(s) ==
    LET c == call[s]
        v == decisions[c.decision].variant
    IN
    /\ At(s, "markDecided")
    /\ \/ VariantIs(v, c.version) /\ SetVariantStatus(v, "decided")
       \/ ~VariantIs(v, c.version) /\ UNCHANGED variant
    /\ Return(s)
    /\ UNCHANGED <<clock, readings, decisions, history>>

WithdrawCheck(s, d) ==
    /\ decisions[d] # Absent
    /\ ValidDecisionTransition(decisions[d].status, "withdrawn")
    /\ Begin(s, [pc |-> "withdraw", decision |-> d, version |-> decisions[d].version])
    /\ UNCHANGED <<clock, tables, history>>

(* The variant's status is left as it is. *)
WithdrawUpdate(s) ==
    LET c == call[s] IN
    /\ At(s, "withdraw")
    /\ \/ DecisionIs(c.decision, c.version) /\ SetDecisionStatus(c.decision, "withdrawn")
       \/ ~DecisionIs(c.decision, c.version) /\ UNCHANGED decisions
    /\ Return(s)
    /\ UNCHANGED <<clock, variant, readings, history>>

-----------------------------------------------------------------------------
Arrive(s) ==
    \/ \E v \in Variants, e \in Editors, t \in LeaseTerms : ClaimCheck(s, v, e, t)
    \/ \E v \in Variants, w \in Witnesses, r \in ReadingIds : ReadingCheck(s, v, w, r)
    \/ \E v \in Variants, r \in ReadingIds, d \in DecisionIds : DecideCheck(s, v, r, d)
    \/ \E d \in DecisionIds : \E next \in {"approved", "rejected"} : ReviewCheck(s, d, next)
    \/ \E d \in DecisionIds : WithdrawCheck(s, d)

Step(s) ==
    \/ ClaimTx(s) \/ ClaimReply(s)
    \/ CreateReading(s)
    \/ DecideReading(s) \/ CreateDecision(s) \/ DecideMark(s)
    \/ ReviewUpdate(s) \/ ReviewReread(s) \/ ReviewMark(s)
    \/ WithdrawUpdate(s)

Next ==
    \/ Tick
    \/ Restart
    \/ \E v \in Variants, e \in Editors : ReleaseVariant(v, e)
    \/ \E s \in Slots : Arrive(s) \/ Step(s) \/ Abort(s)

Spec == Init /\ [][Next]_vars

(* A goroutine that can run its next store call eventually does. *)
FairSpec == Spec /\ \A s \in Slots : WF_vars(Step(s))

-----------------------------------------------------------------------------
(* Correctness. *)

Present == {d \in DecisionIds : decisions[d] # Absent}

(* A lease version is a fencing token: the desk never commits the same     *)
(* lease version of a variant for two different named editors, however     *)
(* claims, renewals, expiries and releases interleave (ClaimVariant bumps  *)
(* lease_version exactly when the editor changes).                         *)
FencingToken ==
    \A g, h \in grants :
        g.variant = h.variant /\ g.lease = h.lease => g.editor = h.editor

(* No variant is locked for ever: whoever holds it holds it until some     *)
(* instant.  ClaimVariant refuses a held variant without an expiry.        *)
HolderHasExpiry ==
    \A v \in Variants : variant[v].claimedBy # NoEditor => variant[v].expires # Null

(* An unexpired lease is not preempted: it leaves its holder only by being *)
(* released, although the check on the first read may be stale by the time *)
(* the claim's transaction runs (a renewal does not change lease_version). *)
LeaseNotPreempted ==
    [][\A v \in Variants :
         variant[v].claimedBy # NoEditor /\ Running(variant[v])
           => variant'[v].claimedBy \in {variant[v].claimedBy, NoEditor}]_vars

(* Optimistic locking of proposals: of the proposals made against one      *)
(* version of a variant at most one is answered with success.              *)
AcceptedBasesDistinct ==
    \A d, e \in Present :
        /\ outcome[d].answer = "accepted" /\ outcome[e].answer = "accepted"
        /\ decisions[d].variant = decisions[e].variant
        /\ outcome[d].base = outcome[e].base
        => d = e

(* Every stored decision adopts a stored reading of its own variant, so    *)
(* the evidence chain of TraceVariant is never broken.                     *)
DecisionsTraceable == \A d \in Present : Traceable(d)

(* A variant's status tells what was decided on it: pending review means a *)
(* decision row exists, decided means one was approved (and perhaps        *)
(* withdrawn since), under any interleaving of reviews and withdrawals.    *)
StatusBacked ==
    \A v \in Variants :
        LET on == {d \in Present : decisions[d].variant = v} IN
        /\ variant[v].status = "pending" => on # {}
        /\ variant[v].status = "decided" =>
             \E d \in on : \/ decisions[d].status = "approved"
                           \/ decisions[d].status = "withdrawn" /\ decisions[d].version = 3

(* A decision row keeps its variant and its reading, and changes status    *)
(* only along ValidDecisionTransition, one version at a time, although     *)
(* concurrent reviews and withdrawals all checked an earlier read.         *)
DecisionLifecycle ==
    [][\A d \in DecisionIds :
         decisions[d] # Absent /\ decisions'[d] # decisions[d] =>
           /\ ValidDecisionTransition(decisions[d].status, decisions'[d].status)
           /\ decisions'[d] = [decisions[d] EXCEPT !.status = decisions'[d].status,
                                                   !.version = decisions[d].version + 1]]_vars

(* Every request is answered: no handler waits for another one, whether it *)
(* succeeds, loses a race, or is cut short by a store error or a restart.  *)
Answered == \A s \in Slots : call[s] # Idle ~> call[s] = Idle

-----------------------------------------------------------------------------
(* Abstractions the desk implements. *)

LeaseOf(row) == [holder |-> row.claimedBy, token |-> row.leaseVersion, until |-> row.expires]

Leasing == INSTANCE Lease
    WITH Items <- Variants, Clients <- Editors, Nobody <- NoEditor, Never <- Null,
         now <- clock, lease <- [v \in Variants |-> LeaseOf(variant[v])],
         issued <- {[item |-> g.variant, holder |-> g.editor, token |-> g.lease] : g \in grants}

(* Claims and releases, each a read, a check and a transaction or UPDATE    *)
(* among those of other requests, behave as if they were single steps.      *)
LeasesAtomic == Leasing!Spec

Book == INSTANCE DecisionBook WITH decision <- [d \in DecisionIds |-> decisions[d].status]

(* Proposals, reviews and withdrawals, each several statements apart, look  *)
(* to readers of the decisions like the single steps that Publication       *)
(* builds on.                                                               *)
DecisionsAtomic == Book!Spec

-----------------------------------------------------------------------------
(* What the repository's words say and the code does not do. *)

(* README.md:79 and BENZHI_README.md:58 read with collation.go:98: the     *)
(* later of two competing proposals is refused; a proposal answered 409    *)
(* leaves nothing a reviewer could approve.                                *)
RefusedNeverApproved ==
    \A d \in Present : outcome[d].answer = "refused" => decisions[d].status # "approved"

=============================================================================
