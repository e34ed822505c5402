------------------------- MODULE PublicationProofs -------------------------
(***************************************************************************)
(* Theorems about the publication of a project, for any number of          *)
(* concurrent requests, snapshots, anchors, variants and decisions.        *)
(***************************************************************************)
EXTENDS Publication, TLAPS

BuildPcs == {"round", "supersede", "anchors", "variants", "collect"}
PublishPcs == {"publish", "reread", "markPublished"}

(* A publication in flight works on a stored snapshot. *)
PublishesPresent ==
    \A s \in Slots : call[s].pc = "publish" => snapshots[call[s].snapshot] # Absent

TypeInv == TypeOK /\ PublishesPresent

(* A snapshot row is told from a missing one by its status. *)
LEMMA RowIsPresent == \A row \in SnapshotRow : row # Absent
  BY DEF SnapshotRow, Absent

(* Where a request stands tells what it carries. *)
LEMMA CallShape ==
  ASSUME TypeOK, NEW s \in Slots
  PROVE  /\ call[s].pc \in {"insertBase", "recordBase"} => call[s] \in BaseCall
         /\ call[s].pc = "transition" => call[s] \in TransitionCall
         /\ call[s].pc \in {"align", "markReviewable"} => call[s] \in AlignCall
         /\ call[s].pc \in BuildPcs => call[s] \in BuildCall
         /\ call[s].pc \in PublishPcs => call[s] \in PublishCall
  <1>1. call[s] \in Calls
    BY DEF TypeOK
  <1> QED
    BY <1>1 DEF Calls, Idle, BaseCall, TransitionCall, AlignCall, BuildCall, PublishCall,
                BuildPcs, PublishPcs

(* Moving on changes where one request stands. *)
LEMMA GotoMoves ==
  ASSUME TypeOK, NEW s \in Slots, NEW pc, call[s] # Idle, Goto(s, pc)
  PROVE  /\ call'[s] = [call[s] EXCEPT !.pc = pc]
         /\ call'[s].pc = pc
         /\ \A t \in Slots : t # s => call'[t] = call[t]
  <1>1. /\ call'[s] = [call[s] EXCEPT !.pc = pc]
        /\ \A t \in Slots : t # s => call'[t] = call[t]
    BY DEF Goto, TypeOK
  <1>2. call[s] \in Calls
    BY DEF TypeOK
  <1>3. [call[s] EXCEPT !.pc = pc].pc = pc
    BY <1>2 DEF Calls, BaseCall, TransitionCall, AlignCall, BuildCall, PublishCall
  <1> QED
    BY <1>1, <1>3

(* The kinds of requests are requests. *)
LEMMA CallKinds ==
  /\ Idle \in Calls /\ Idle.pc = "idle"
  /\ BaseCall \subseteq Calls /\ TransitionCall \subseteq Calls /\ AlignCall \subseteq Calls
  /\ BuildCall \subseteq Calls /\ PublishCall \subseteq Calls
  BY DEF Calls, Idle

(* A step that writes one request and removes no snapshot keeps the part   *)
(* of the invariant about requests.                                        *)
LEMMA CallWritten ==
  ASSUME TypeInv, NEW s \in Slots, NEW c \in Calls, c.pc # "publish",
         call' = [call EXCEPT ![s] = c],
         \A n \in SnapshotIds : snapshots[n] # Absent => snapshots'[n] # Absent
  PROVE  call' \in [Slots -> Calls] /\ PublishesPresent'
  <1>1. call' \in [Slots -> Calls]
    BY DEF TypeInv, TypeOK
  <1>2. ASSUME NEW t \in Slots, call'[t].pc = "publish"
        PROVE  snapshots'[call'[t].snapshot] # Absent
    <2>1. call'[t] = call[t]
      BY <1>2 DEF TypeInv, TypeOK
    <2>2. call[t].snapshot \in SnapshotIds
      BY <1>2, <2>1, CallShape DEF TypeInv, PublishPcs, PublishCall
    <2> QED
      BY <1>2, <2>1, <2>2 DEF TypeInv, PublishesPresent
  <1> QED
    BY <1>1, <1>2 DEF PublishesPresent

(* A status written leaves a project row. *)
LEMMA ProjectWritten ==
  ASSUME TypeOK, NEW status \in ProjectStatus, SetProjectStatus(status)
  PROVE  project' \in ProjectRow
  <1> DEFINE n == project.version + 1
  <1>1. n \in Nat
    BY DEF TypeOK, ProjectRow
  <1>2. project' = [project EXCEPT !.status = status, !.version = n]
    BY DEF SetProjectStatus
  <1> HIDE DEF n
  <1> QED
    BY <1>1, <1>2 DEF TypeOK, ProjectRow

(* Every step keeps the types. *)
LEMMA TypeStep == TypeInv /\ [Next]_vars => TypeInv'
  <1> SUFFICES ASSUME TypeInv, [Next]_vars PROVE TypeInv'
    OBVIOUS
  <1> USE BoundAssumption DEF TypeInv
  <1>1. CASE Environment
    <2>1. ASSUME NEW a \in Anchors, ConfirmAnchor(a)
          PROVE  TypeInv'
      BY <2>1 DEF ConfirmAnchor, TypeOK, PublishesPresent
    <2>2. ASSUME NEW d \in DecisionIds, ProposeDecision(d)
          PROVE  TypeInv'
      BY <2>2 DEF ProposeDecision, Book!Propose, TypeOK, PublishesPresent, DecisionStatus
    <2>3. ASSUME NEW d \in DecisionIds, NEW next \in {"approved", "rejected"},
                 ReviewDecision(d, next)
          PROVE  TypeInv'
      BY <2>3 DEF ReviewDecision, Book!Review, TypeOK, PublishesPresent, DecisionStatus
    <2>4. ASSUME NEW d \in DecisionIds, WithdrawDecision(d)
          PROVE  TypeInv'
      BY <2>4 DEF WithdrawDecision, Book!Withdraw, TypeOK, PublishesPresent, DecisionStatus
    <2> QED
      BY <1>1, <2>1, <2>2, <2>3, <2>4 DEF Environment
  <1>2. CASE Restart
    BY <1>2 DEF Restart, TypeOK, PublishesPresent, Calls, Idle, tables
  <1>3. ASSUME NEW s \in Slots, Abort(s)
        PROVE  TypeInv'
    BY <1>3 DEF Abort, Return, TypeOK, PublishesPresent, Calls, Idle, tables
  <1>4. ASSUME NEW s \in Slots, Arrive(s)
        PROVE  TypeInv'
    <2>1. CASE BaseCheck(s)
      BY <2>1 DEF BaseCheck, Begin, TypeOK, PublishesPresent, Calls, BaseCall, tables
    <2>2. ASSUME NEW next \in ProjectStatus, TransitionCheck(s, next)
          PROVE  TypeInv'
      BY <2>2 DEF TransitionCheck, Begin, TypeOK, PublishesPresent, Calls, TransitionCall,
                  ProjectRow, tables
    <2>3. CASE AlignCheck(s)
      BY <2>3 DEF AlignCheck, Begin, TypeOK, PublishesPresent, Calls, AlignCall, tables
    <2>4. ASSUME NEW n \in SnapshotIds, BuildCheck(s, n)
          PROVE  TypeInv'
      BY <2>4 DEF BuildCheck, Begin, TypeOK, PublishesPresent, Calls, BuildCall, tables
    <2>5. ASSUME NEW n \in SnapshotIds, PublishCheck(s, n)
          PROVE  TypeInv'
      BY <2>5 DEF PublishCheck, InState, Present, Begin, TypeOK, PublishesPresent, Calls,
                  PublishCall, SnapshotRow, tables
    <2> QED
      BY <1>4, <2>1, <2>2, <2>3, <2>4, <2>5 DEF Arrive
  <1>5. ASSUME NEW s \in Slots, Step(s)
        PROVE  TypeInv'
    <2>1. CASE BaseInsert(s) \/ BaseRecord(s)
      <3>1. CASE BaseInsert(s)
        <4>1. call[s] \in BaseCall
          BY <3>1, CallShape DEF BaseInsert, At
        <4>2. /\ [call[s] EXCEPT !.pc = "recordBase"] \in BaseCall
              /\ [call[s] EXCEPT !.pc = "recordBase"].pc = "recordBase"
          BY <4>1 DEF BaseCall
        <4>3. call' = [call EXCEPT ![s] = [call[s] EXCEPT !.pc = "recordBase"]]
          BY <3>1 DEF BaseInsert, Goto, TypeOK
        <4> QED
          BY <3>1, <4>2, <4>3, CallWritten, CallKinds DEF BaseInsert, TypeOK
      <3>2. CASE BaseRecord(s)
        BY <3>2, CallWritten, CallKinds DEF BaseRecord, Return, TypeOK, ProjectRow
      <3> QED
        BY <2>1, <3>1, <3>2
    <2>2. CASE TransitionUpdate(s)
      <3>1. call[s].next \in ProjectStatus
        BY <2>2, CallShape DEF TransitionUpdate, At, TransitionCall
      <3> QED
        BY <2>2, <3>1, ProjectWritten, CallWritten, CallKinds
           DEF TransitionUpdate, Return, TypeOK
    <2>3. CASE AlignWitness(s)
      <3>1. call[s] \in AlignCall /\ call[s].left > 0
        BY <2>3, CallShape DEF AlignWitness, WitnessLeft, At
      <3>2. [call[s] EXCEPT !.left = call[s].left - 1] \in AlignCall
        BY <3>1 DEF AlignCall
      <3>3. call' = [call EXCEPT ![s] = [call[s] EXCEPT !.left = call[s].left - 1]]
        BY <2>3 DEF AlignWitness, TypeOK
      <3> QED
        BY <2>3, <3>1, <3>2, <3>3 DEF AlignWitness, TypeOK, PublishesPresent, Calls, AlignCall
    <2>4. CASE AlignRead(s)
      <3> DEFINE c == [call[s] EXCEPT !.pc = "markReviewable", !.version = project.version]
      <3>1. call[s] \in AlignCall /\ project.version \in Nat
        BY <2>4, CallShape DEF AlignRead, At, TypeOK, ProjectRow
      <3>2. c \in AlignCall /\ c.pc = "markReviewable"
        BY <3>1 DEF AlignCall
      <3>3. call' = [call EXCEPT ![s] = c]
        BY <2>4 DEF AlignRead
      <3> HIDE DEF c
      <3> QED
        BY <2>4, <3>2, <3>3, CallWritten, CallKinds DEF AlignRead, TypeOK, tables
    <2>5. CASE AlignMark(s)
      BY <2>5, ProjectWritten, CallWritten, CallKinds
         DEF AlignMark, Return, ProjectStatus, TypeOK
    <2>6. CASE BuildRound(s)
      <3>1. Rounds \cup {0} \subseteq Nat
        BY DEF Rounds, Present, TypeOK, SnapshotRow
      <3>2. call[s] \in BuildCall
        BY <2>6, CallShape DEF BuildRound, At, BuildPcs
      <3>3. PICK r \in Nat : call' = [call EXCEPT ![s] =
                                        [call[s] EXCEPT !.pc = "supersede", !.round = r + 1]]
        BY <2>6, <3>1 DEF BuildRound, TypeOK
      <3> DEFINE n == r + 1
                 c == [call[s] EXCEPT !.pc = "supersede", !.round = n]
      <3>4. n \in Nat
        OBVIOUS
      <3> HIDE DEF n
      <3>5. c \in BuildCall /\ c.pc = "supersede"
        BY <3>2, <3>4 DEF BuildCall
      <3>6. call' = [call EXCEPT ![s] = c]
        BY <3>3 DEF n
      <3> HIDE DEF c
      <3> QED
        BY <2>6, <3>5, <3>6, CallWritten, CallKinds DEF BuildRound, TypeOK, tables
    <2>7. CASE BuildSupersede(s)
      <3> DEFINE c == [call[s] EXCEPT !.pc = "anchors"]
      <3>1. call[s] \in BuildCall
        BY <2>7, CallShape DEF BuildSupersede, At, BuildPcs
      <3>2. c \in BuildCall /\ c.pc = "anchors"
        BY <3>1 DEF BuildCall
      <3>3. call' = [call EXCEPT ![s] = c]
        BY <2>7 DEF BuildSupersede, Goto, TypeOK
      <3>4. ASSUME NEW n \in SnapshotIds
            PROVE  /\ snapshots'[n] \in SnapshotRow \cup {Absent}
                   /\ snapshots[n] # Absent => snapshots'[n] # Absent
        <4>1. CASE Supersedes(snapshots[n])
          <5>1. snapshots[n] \in SnapshotRow
            BY <4>1 DEF Supersedes, TypeOK
          <5> DEFINE k == snapshots[n].version + 1
          <5>2. snapshots'[n] = [snapshots[n] EXCEPT !.status = "superseded", !.version = k]
            BY <2>7, <4>1 DEF BuildSupersede
          <5>3. k \in Nat
            BY <5>1 DEF SnapshotRow
          <5> HIDE DEF k
          <5>4. snapshots'[n] \in SnapshotRow
            BY <5>1, <5>2, <5>3 DEF SnapshotRow
          <5> QED
            BY <5>4, RowIsPresent
        <4>2. CASE ~Supersedes(snapshots[n])
          BY <2>7, <4>2 DEF BuildSupersede, TypeOK
        <4> QED
          BY <4>1, <4>2
      <3>5. snapshots' \in [SnapshotIds -> SnapshotRow \cup {Absent}]
        BY <2>7, <3>4 DEF BuildSupersede
      <3> HIDE DEF c
      <3> QED
        BY <2>7, <3>2, <3>3, <3>4, <3>5, CallWritten, CallKinds DEF BuildSupersede, TypeOK
    <2>8. CASE BuildAnchors(s)
      <3> DEFINE c == [call[s] EXCEPT !.pc = "variants", !.anchors = confirmed]
      <3>1. call[s] \in BuildCall
        BY <2>8, CallShape DEF BuildAnchors, At, BuildPcs
      <3>2. c \in BuildCall /\ c.pc = "variants"
        BY <3>1 DEF BuildCall, TypeOK
      <3>3. call' = [call EXCEPT ![s] = c] \/ call' = [call EXCEPT ![s] = Idle]
        BY <2>8 DEF BuildAnchors, Return, TypeOK
      <3> HIDE DEF c
      <3> QED
        BY <2>8, <3>2, <3>3, CallWritten, CallKinds DEF BuildAnchors, TypeOK, tables
    <2>9. CASE BuildVariants(s)
      <3> DEFINE c == [call[s] EXCEPT !.pc = "collect", !.todo = variants]
      <3>1. call[s] \in BuildCall
        BY <2>9, CallShape DEF BuildVariants, At, BuildPcs
      <3>2. c \in BuildCall /\ c.pc = "collect"
        BY <3>1 DEF BuildCall, TypeOK
      <3>3. call' = [call EXCEPT ![s] = c]
        BY <2>9 DEF BuildVariants, TypeOK
      <3>4. window' \in [Slots -> [always: SUBSET DecisionIds, ever: SUBSET DecisionIds]]
        BY <2>9 DEF BuildVariants, Approved, TypeOK
      <3> HIDE DEF c
      <3> QED
        BY <2>9, <3>2, <3>3, <3>4, CallWritten, CallKinds DEF BuildVariants, TypeOK, tables
    <2>10. CASE BuildCollect(s)
      <3>1. call[s] \in BuildCall
        BY <2>10, CallShape DEF BuildCollect, At, BuildPcs
      <3>2. PICK v \in call[s].todo :
              call' = [call EXCEPT ![s] = [call[s] EXCEPT !.todo = call[s].todo \ {v},
                                      !.decisions = call[s].decisions \cup Collected(v)]]
        BY <2>10 DEF BuildCollect
      <3> DEFINE c == [call[s] EXCEPT !.todo = call[s].todo \ {v},
                                      !.decisions = call[s].decisions \cup Collected(v)]
      <3>3. Collected(v) \subseteq DecisionIds
        BY DEF Collected, Approved
      <3>4. c \in BuildCall /\ c.pc # "publish"
        BY <3>1, <3>3 DEF BuildCall
      <3>5. call' = [call EXCEPT ![s] = c]
        BY <3>2
      <3> HIDE DEF c
      <3> QED
        BY <2>10, <3>4, <3>5, CallWritten, CallKinds DEF BuildCollect, TypeOK, tables
    <2>11. CASE BuildCreate(s)
      BY <2>11, CallShape DEF BuildCreate, At, BuildPcs, Return, TypeOK, PublishesPresent, Calls, Idle,
                  BuildCall, SnapshotRow, Absent
    <2>12. CASE PublishUpdate(s)
      <3>1. /\ call[s] \in PublishCall /\ call[s] # Idle
            /\ call[s].snapshot \in SnapshotIds
            /\ snapshots[call[s].snapshot] \in SnapshotRow
        BY <2>12, CallShape DEF PublishUpdate, At, PublishPcs, PublishesPresent, PublishCall, TypeOK, Idle
      <3>2. /\ call' \in [Slots -> Calls]
            /\ \A t \in Slots : call'[t] = call[t] \/ call'[t].pc \in {"idle", "reread"}
        BY <2>12, <3>1 DEF PublishUpdate, Goto, Return, TypeOK, Calls, Idle, PublishCall
      <3>3. /\ snapshots' \in [SnapshotIds -> SnapshotRow \cup {Absent}]
            /\ \A n \in SnapshotIds : snapshots[n] # Absent => snapshots'[n] # Absent
        BY <2>12, <3>1, RowIsPresent DEF PublishUpdate, TypeOK, SnapshotRow
      <3> QED
        BY <2>12, <3>2, <3>3, CallShape
           DEF PublishUpdate, TypeOK, PublishesPresent, PublishPcs, PublishCall
    <2>13. CASE PublishRead(s)
      <3> DEFINE c == [call[s] EXCEPT !.pc = "markPublished", !.version = project.version]
      <3>1. call[s] \in PublishCall /\ project.version \in Nat
        BY <2>13, CallShape DEF PublishRead, At, PublishPcs, TypeOK, ProjectRow
      <3>2. c \in PublishCall /\ c.pc = "markPublished"
        BY <3>1 DEF PublishCall
      <3>3. call' = [call EXCEPT ![s] = c]
        BY <2>13 DEF PublishRead, TypeOK
      <3> HIDE DEF c
      <3> QED
        BY <2>13, <3>2, <3>3, CallWritten, CallKinds DEF PublishRead, TypeOK, tables
    <2>14. CASE PublishMark(s)
      BY <2>14, ProjectWritten, CallWritten, CallKinds
         DEF PublishMark, Return, ProjectStatus, TypeOK
    <2> QED
      BY <1>5, <2>1, <2>2, <2>3, <2>4, <2>5, <2>6, <2>7, <2>8, <2>9, <2>10, <2>11, <2>12,
         <2>13, <2>14 DEF Step
  <1>6. CASE UNCHANGED vars
    BY <1>6 DEF vars, tables, TypeOK, PublishesPresent
  <1> QED
    BY <1>1, <1>2, <1>3, <1>4, <1>5, <1>6 DEF Next

(* Every run has the types. *)
LEMMA TypeInvariant == Spec => []TypeInv
  <1>1. Init => TypeInv
    <2> SUFFICES ASSUME Init PROVE TypeInv
      OBVIOUS
    <2>1. project \in ProjectRow /\ hasBase \in BOOLEAN /\ variants \subseteq VariantIds
          /\ confirmed \subseteq Anchors
      <3>1. CASE project = [status |-> "draft", version |-> 1, base |-> FALSE]
        BY <3>1 DEF Init, ProjectRow, ProjectStatus
      <3>2. CASE project = [status |-> "aligning", version |-> 2, base |-> TRUE]
        BY <3>2 DEF Init, ProjectRow, ProjectStatus
      <3> QED
        BY <3>1, <3>2 DEF Init
    <2>2. call \in [Slots -> Calls] /\ PublishesPresent
      BY CallKinds DEF Init, PublishesPresent
    <2> QED
      BY <2>1, <2>2 DEF Init, TypeInv, TypeOK, DecisionStatus
  <1> QED
    BY <1>1, TypeStep, PTL DEF Spec

(* The project, its rows, the requests in flight and the history keep      *)
(* their types.                                                            *)
THEOREM TypeCorrect == Spec => []TypeOK
  BY TypeInvariant, PTL DEF TypeInv

-----------------------------------------------------------------------------
(* The life of a snapshot. *)

Building(s) == call[s].pc \in BuildPcs

(* The id given to a build is no row's id and no other build's. *)
IdsReserved ==
    /\ \A s \in Slots : Building(s) => snapshots[call[s].snapshot] = Absent
    /\ \A s, t \in Slots :
         Building(s) /\ Building(t) /\ call[s].snapshot = call[t].snapshot => s = t

(* A publication in flight saw its snapshot pending at some version; if    *)
(* the row still has that version it is still pending.                     *)
PublishedFromRead ==
    \A s \in Slots : call[s].pc = "publish" =>
        /\ call[s].version <= snapshots[call[s].snapshot].version
        /\ call[s].version = snapshots[call[s].snapshot].version =>
             snapshots[call[s].snapshot].status = "pending"

LifeInv == TypeInv /\ IdsReserved /\ PublishedFromRead

(* How a stored row may change in one step. *)
Moved(n) ==
    /\ snapshots[n] \in SnapshotRow
    /\ snapshots[n].status = "pending"
    /\ \E status \in {"published", "superseded"} :
           snapshots'[n] = [snapshots[n] EXCEPT !.status = status,
                                                !.version = snapshots[n].version + 1]

(* A snapshot row changes by a publication or by being superseded. *)
LEMMA RowMoves ==
  ASSUME LifeInv, [Next]_vars, NEW n \in SnapshotIds,
         snapshots[n] # Absent, snapshots'[n] # snapshots[n]
  PROVE  Moved(n)
  <1> USE DEF LifeInv, TypeInv
  <1>1. snapshots[n] \in SnapshotRow
    BY DEF TypeOK
  <1>2. ASSUME NEW s \in Slots, BuildSupersede(s)
        PROVE  Moved(n)
    BY <1>1, <1>2 DEF BuildSupersede, Supersedes, Moved
  <1>3. ASSUME NEW s \in Slots, BuildCreate(s)
        PROVE  FALSE
    <2>1. snapshots[call[s].snapshot] = Absent
      BY <1>3 DEF BuildCreate, At, IdsReserved, Building, BuildPcs
    <2> QED
      BY <1>3, <2>1 DEF BuildCreate, TypeOK
  <1>4. ASSUME NEW s \in Slots, PublishUpdate(s)
        PROVE  Moved(n)
    <2>1. /\ snapshots[call[s].snapshot].version = call[s].version
          /\ snapshots' = [snapshots EXCEPT ![call[s].snapshot].status = "published",
                                            ![call[s].snapshot].version = @ + 1]
      BY <1>4 DEF PublishUpdate, SnapshotIs
    <2>2. call[s].snapshot = n
      BY <2>1 DEF TypeOK
    <2>3. snapshots[n].status = "pending"
      BY <1>4, <2>1, <2>2 DEF PublishUpdate, At, PublishedFromRead
    <2> QED
      BY <1>1, <2>1, <2>2, <2>3 DEF Moved, TypeOK, SnapshotRow
  <1>5. ASSUME NEW s \in Slots, Arrive(s)
        PROVE  snapshots' = snapshots
    BY <1>5 DEF Arrive, BaseCheck, TransitionCheck, AlignCheck, BuildCheck, PublishCheck, tables
  <1>6. ASSUME NEW s \in Slots, Step(s)
        PROVE  Moved(n)
    <2>1. \/ BuildSupersede(s) \/ BuildCreate(s) \/ PublishUpdate(s)
          \/ snapshots' = snapshots
      BY <1>6 DEF Step, BaseInsert, BaseRecord, TransitionUpdate, AlignWitness, AlignRead, AlignMark,
                  BuildRound, BuildAnchors, BuildVariants, BuildCollect, PublishRead, PublishMark,
                  tables
    <2> QED
      BY <1>2, <1>3, <1>4, <2>1
  <1> QED
    BY <1>5, <1>6 DEF Next, Environment, ConfirmAnchor, ProposeDecision, ReviewDecision,
                      WithdrawDecision, Restart, Abort, vars, tables

(* What a step that takes no new build or publication in does to requests. *)
Kept(s) == \/ call'[s] = call[s]
           \/ Building(s) /\ Building(s)' /\ call'[s].snapshot = call[s].snapshot
           \/ call'[s].pc \notin BuildPcs \cup {"publish"}

(* Writing one request leaves the builds and publications as they are, or  *)
(* moves one build on.                                                     *)
LEMMA OneWritten ==
  ASSUME TypeOK, NEW s \in Slots, NEW c, call' = [call EXCEPT ![s] = c],
         \/ c.pc \notin BuildPcs \cup {"publish"}
         \/ Building(s) /\ c.pc \in BuildPcs /\ c.snapshot = call[s].snapshot
  PROVE  \A t \in Slots : Kept(t)
  BY DEF Kept, Building, TypeOK

(* Ending a request leaves the builds and publications as they are. *)
LEMMA ReturnKept ==
  ASSUME TypeOK, NEW s \in Slots, Return(s)
  PROVE  \A t \in Slots : Kept(t)
  BY OneWritten, CallKinds DEF Return, BuildPcs

(* So does moving on. *)
LEMMA GotoKept ==
  ASSUME TypeOK, NEW s \in Slots, NEW pc, pc \notin BuildPcs \cup {"publish"}, call[s] # Idle,
         Goto(s, pc)
  PROVE  \A t \in Slots : Kept(t)
  BY GotoMoves DEF Kept

(* So does a step of a build. *)
LEMMA BuildKept ==
  ASSUME TypeOK, NEW s \in Slots,
         BuildRound(s) \/ BuildSupersede(s) \/ BuildAnchors(s) \/ BuildVariants(s)
           \/ BuildCollect(s) \/ BuildCreate(s)
  PROVE  \A t \in Slots : Kept(t)
  <1>1. Building(s) /\ call[s] \in BuildCall
    BY CallShape DEF BuildRound, BuildSupersede, BuildAnchors, BuildVariants, BuildCollect,
                     BuildCreate, At, Building, BuildPcs
  <1>2. CASE BuildRound(s)
    <2>1. PICK r : call' = [call EXCEPT ![s] = [@ EXCEPT !.pc = "supersede", !.round = r]]
      BY <1>2 DEF BuildRound
    <2> DEFINE c == [call[s] EXCEPT !.pc = "supersede", !.round = r]
    <2>2. c.pc = "supersede" /\ c.snapshot = call[s].snapshot
      BY <1>1 DEF BuildCall
    <2>3. call' = [call EXCEPT ![s] = c]
      BY <2>1 DEF TypeOK
    <2> QED
      BY <1>1, <2>2, <2>3, OneWritten DEF BuildPcs
  <1>3. CASE BuildSupersede(s)
    <2>1. call[s] # Idle
      BY <1>1, CallKinds DEF Building, BuildPcs
    <2>2. /\ call'[s] = [call[s] EXCEPT !.pc = "anchors"]
          /\ \A t \in Slots : t # s => call'[t] = call[t]
      BY <1>3, <2>1, GotoMoves DEF BuildSupersede
    <2>3. call'[s].pc = "anchors" /\ call'[s].snapshot = call[s].snapshot
      BY <1>1, <2>2 DEF BuildCall
    <2> QED
      BY <1>1, <2>2, <2>3 DEF Kept, Building, BuildPcs
  <1>4. CASE BuildAnchors(s)
    <2> DEFINE c == [call[s] EXCEPT !.pc = "variants", !.anchors = confirmed]
    <2>1. c.pc = "variants" /\ c.snapshot = call[s].snapshot
      BY <1>1 DEF BuildCall
    <2>2. call' = [call EXCEPT ![s] = c] \/ Return(s)
      BY <1>4 DEF BuildAnchors, TypeOK
    <2> QED
      BY <1>1, <2>1, <2>2, OneWritten, ReturnKept DEF BuildPcs
  <1>5. CASE BuildVariants(s)
    <2> DEFINE c == [call[s] EXCEPT !.pc = "collect", !.todo = variants]
    <2>1. c.pc = "collect" /\ c.snapshot = call[s].snapshot
      BY <1>1 DEF BuildCall
    <2>2. call' = [call EXCEPT ![s] = c]
      BY <1>5 DEF BuildVariants, TypeOK
    <2> QED
      BY <1>1, <2>1, <2>2, OneWritten DEF BuildPcs
  <1>6. CASE BuildCollect(s)
    <2>1. PICK todo, chain :
            call' = [call EXCEPT ![s] = [call[s] EXCEPT !.todo = todo, !.decisions = chain]]
      BY <1>6 DEF BuildCollect
    <2> DEFINE c == [call[s] EXCEPT !.todo = todo, !.decisions = chain]
    <2>2. c.pc = call[s].pc /\ c.snapshot = call[s].snapshot
      BY <1>1 DEF BuildCall
    <2> QED
      BY <1>1, <2>1, <2>2, OneWritten DEF Building
  <1>7. CASE BuildCreate(s)
    BY <1>7, ReturnKept DEF BuildCreate
  <1> QED
    BY <1>2, <1>3, <1>4, <1>5, <1>6, <1>7

(* So does every step that begins no build and no publication. *)
LEMMA RequestsKept ==
  ASSUME TypeOK, [Next]_vars,
         \A s \in Slots, n \in SnapshotIds : ~BuildCheck(s, n) /\ ~PublishCheck(s, n)
  PROVE  \A t \in Slots : Kept(t)
  <1>1. ASSUME NEW s \in Slots, Arrive(s)
        PROVE  \A t \in Slots : Kept(t)
    <2>1. CASE BaseCheck(s)
      <3> DEFINE c == [pc |-> "insertBase"]
      <3>1. call' = [call EXCEPT ![s] = c] /\ c.pc = "insertBase"
        BY <2>1 DEF BaseCheck, Begin
      <3> QED
        BY <3>1, OneWritten DEF BuildPcs
    <2>2. ASSUME NEW next \in ProjectStatus, TransitionCheck(s, next)
          PROVE  \A t \in Slots : Kept(t)
      <3> DEFINE c == [pc |-> "transition", next |-> next, version |-> project.version]
      <3>1. call' = [call EXCEPT ![s] = c] /\ c.pc = "transition"
        BY <2>2 DEF TransitionCheck, Begin
      <3> QED
        BY <3>1, OneWritten DEF BuildPcs
    <2>3. CASE AlignCheck(s)
      <3>1. PICK n : call' = [call EXCEPT ![s] = [pc |-> "align", left |-> n, version |-> 0]]
        BY <2>3 DEF AlignCheck, Begin
      <3> QED
        BY <3>1, OneWritten DEF BuildPcs
    <2> QED
      BY <1>1, <2>1, <2>2, <2>3 DEF Arrive
  <1>2. ASSUME NEW s \in Slots, BaseInsert(s) \/ PublishUpdate(s)
        PROVE  \A t \in Slots : Kept(t)
    <2>1. call[s] # Idle
      BY <1>2, CallKinds DEF BaseInsert, PublishUpdate, At
    <2>2. Return(s) \/ Goto(s, "recordBase") \/ Goto(s, "reread")
      BY <1>2 DEF BaseInsert, PublishUpdate
    <2> QED
      BY <2>1, <2>2, ReturnKept, GotoKept DEF BuildPcs
  <1>3. ASSUME NEW s \in Slots, AlignWitness(s) \/ AlignRead(s)
        PROVE  \A t \in Slots : Kept(t)
    <2>1. call[s] \in AlignCall
      BY <1>3, CallShape DEF AlignWitness, AlignRead, At
    <2>2. CASE AlignWitness(s)
      <3> DEFINE c == [call[s] EXCEPT !.left = call[s].left - 1]
      <3>1. c.pc = "align"
        BY <2>1, <2>2 DEF AlignWitness, At, AlignCall
      <3>2. call' = [call EXCEPT ![s] = c]
        BY <2>2 DEF AlignWitness, TypeOK
      <3> QED
        BY <3>1, <3>2, OneWritten DEF BuildPcs
    <2>3. CASE AlignRead(s)
      <3> DEFINE c == [call[s] EXCEPT !.pc = "markReviewable", !.version = project.version]
      <3>1. c.pc = "markReviewable"
        BY <2>1 DEF AlignCall
      <3>2. call' = [call EXCEPT ![s] = c]
        BY <2>3 DEF AlignRead, TypeOK
      <3> QED
        BY <3>1, <3>2, OneWritten DEF BuildPcs
    <2> QED
      BY <1>3, <2>2, <2>3
  <1>4. ASSUME NEW s \in Slots, PublishRead(s)
        PROVE  \A t \in Slots : Kept(t)
    <2> DEFINE c == [call[s] EXCEPT !.pc = "markPublished", !.version = project.version]
    <2>1. call[s] \in PublishCall
      BY <1>4, CallShape DEF PublishRead, At, PublishPcs
    <2>2. c.pc = "markPublished"
      BY <2>1 DEF PublishCall
    <2>3. call' = [call EXCEPT ![s] = c]
      BY <1>4 DEF PublishRead, TypeOK
    <2> QED
      BY <2>2, <2>3, OneWritten DEF BuildPcs
  <1>5. ASSUME NEW s \in Slots, BaseRecord(s) \/ TransitionUpdate(s) \/ AlignMark(s)
                                  \/ PublishMark(s) \/ Abort(s)
        PROVE  \A t \in Slots : Kept(t)
    BY <1>5, ReturnKept DEF BaseRecord, TransitionUpdate, AlignMark, PublishMark, Abort
  <1>6. ASSUME Environment \/ UNCHANGED vars
        PROVE  \A t \in Slots : Kept(t)
    BY <1>6 DEF Environment, ConfirmAnchor, ProposeDecision, ReviewDecision, WithdrawDecision,
                vars, Kept
  <1>7. ASSUME Restart
        PROVE  \A t \in Slots : Kept(t)
    BY <1>7, CallKinds DEF Restart, Kept, BuildPcs
  <1> QED
    BY <1>1, <1>2, <1>3, <1>4, <1>5, <1>6, <1>7, BuildKept DEF Next, Step

(* Snapshot rows appear by the INSERT of a build. *)
LEMMA RowsAppear ==
  ASSUME LifeInv, [Next]_vars, NEW n \in SnapshotIds,
         snapshots[n] = Absent, snapshots'[n] # Absent
  PROVE  \E s \in Slots : BuildCreate(s) /\ call[s].snapshot = n
  <1> USE DEF LifeInv, TypeInv
  <1>1. ASSUME NEW s \in Slots, BuildSupersede(s)
        PROVE  FALSE
    BY <1>1 DEF BuildSupersede, Supersedes
  <1>2. ASSUME NEW s \in Slots, PublishUpdate(s)
        PROVE  FALSE
    BY <1>2 DEF PublishUpdate, At, PublishesPresent, TypeOK
  <1>3. ASSUME NEW s \in Slots, BuildCreate(s)
        PROVE  call[s].snapshot = n
    BY <1>3 DEF BuildCreate, TypeOK
  <1>4. ASSUME NEW s \in Slots, Arrive(s)
        PROVE  FALSE
    BY <1>4 DEF Arrive, BaseCheck, TransitionCheck, AlignCheck, BuildCheck, PublishCheck, tables
  <1>5. ASSUME NEW s \in Slots, Step(s)
        PROVE  BuildCreate(s)
    BY <1>1, <1>2, <1>5
       DEF Step, BaseInsert, BaseRecord, TransitionUpdate, AlignWitness, AlignRead, AlignMark,
           BuildRound, BuildAnchors, BuildVariants, BuildCollect, PublishRead, PublishMark, tables
  <1> QED
    BY <1>3, <1>4, <1>5
       DEF Next, Environment, ConfirmAnchor, ProposeDecision, ReviewDecision, WithdrawDecision,
           Restart, Abort, vars, tables

(* Every step keeps what a publication knows of the snapshot it read. *)
LEMMA LifeStep == LifeInv /\ [Next]_vars => LifeInv'
  <1> SUFFICES ASSUME LifeInv, [Next]_vars PROVE IdsReserved' /\ PublishedFromRead'
    BY TypeStep DEF LifeInv
  <1> USE DEF LifeInv, TypeInv
  <1>1. ASSUME NEW t \in Slots, NEW n \in SnapshotIds, BuildCheck(t, n)
        PROVE  IdsReserved' /\ PublishedFromRead'
    <2>1. /\ snapshots' = snapshots
          /\ call'[t].pc = "round" /\ call'[t].snapshot = n
          /\ \A s \in Slots : s # t => call'[s] = call[s]
      BY <1>1 DEF BuildCheck, Begin, tables, TypeOK
    <2>2. /\ snapshots[n] = Absent
          /\ \A s \in Slots : Building(s) => call[s].snapshot # n
      BY <1>1 DEF BuildCheck, FreshSnapshot, Building, BuildPcs
    <2>3. IdsReserved'
      BY <2>1, <2>2 DEF IdsReserved, Building
    <2>4. PublishedFromRead'
      BY <2>1 DEF PublishedFromRead
    <2> QED
      BY <2>3, <2>4
  <1>2. ASSUME NEW t \in Slots, NEW n \in SnapshotIds, PublishCheck(t, n)
        PROVE  IdsReserved' /\ PublishedFromRead'
    <2>1. /\ snapshots' = snapshots
          /\ call'[t] = [pc |-> "publish", snapshot |-> n, version |-> snapshots[n].version]
          /\ \A s \in Slots : s # t => call'[s] = call[s]
      BY <1>2 DEF PublishCheck, Begin, tables, TypeOK
    <2>2. snapshots[n] \in SnapshotRow /\ snapshots[n].status = "pending"
      BY <1>2 DEF PublishCheck, InState, Present, TypeOK
    <2>3. IdsReserved'
      BY <2>1 DEF IdsReserved, Building, BuildPcs
    <2>4. PublishedFromRead'
      BY <2>1, <2>2 DEF PublishedFromRead, SnapshotRow
    <2> QED
      BY <2>3, <2>4
  <1>3. ASSUME \A s \in Slots, n \in SnapshotIds : ~BuildCheck(s, n) /\ ~PublishCheck(s, n)
        PROVE  IdsReserved' /\ PublishedFromRead'
    <2>1. \A s \in Slots : Kept(s)
      BY <1>3, RequestsKept
    <2>2. \A s \in Slots : Building(s)' => Building(s) /\ call'[s].snapshot = call[s].snapshot
      BY <2>1 DEF Kept, Building
    <2>3. \A s \in Slots : Building(s) => call[s].snapshot \in SnapshotIds
      BY CallShape DEF Building, BuildCall
    <2>4. ASSUME NEW s \in Slots, Building(s)'
          PROVE  snapshots'[call'[s].snapshot] = Absent
      <3>1. ASSUME snapshots'[call[s].snapshot] # Absent
            PROVE  FALSE
        <4>1. PICK t \in Slots : BuildCreate(t) /\ call[t].snapshot = call[s].snapshot
          BY <2>2, <2>3, <2>4, <3>1, RowsAppear DEF IdsReserved
        <4>2. Building(t)
          BY <4>1 DEF BuildCreate, At, Building, BuildPcs
        <4>3. t = s
          BY <2>2, <2>4, <4>1, <4>2 DEF IdsReserved
        <4>4. call'[s] = Idle
          BY <4>1, <4>3 DEF BuildCreate, Return, TypeOK
        <4> QED
          BY <2>4, <4>4, CallKinds DEF Building, BuildPcs
      <3> QED
        BY <2>2, <2>4, <3>1
    <2>5. IdsReserved'
      BY <2>2, <2>4 DEF IdsReserved
    <2>6. ASSUME NEW s \in Slots, call'[s].pc = "publish"
          PROVE  /\ call'[s].version <= snapshots'[call'[s].snapshot].version
                 /\ call'[s].version = snapshots'[call'[s].snapshot].version =>
                      snapshots'[call'[s].snapshot].status = "pending"
      <3> DEFINE n == call[s].snapshot
      <3>1. call'[s] = call[s]
        BY <2>1, <2>6 DEF Kept, Building, BuildPcs
      <3>2. /\ n \in SnapshotIds /\ call[s].version \in Nat
            /\ snapshots[n] \in SnapshotRow /\ snapshots[n] # Absent
        BY <2>6, <3>1, CallShape DEF PublishPcs, PublishCall, PublishesPresent, TypeOK
      <3>3. CASE snapshots'[n] = snapshots[n]
        BY <2>6, <3>1, <3>3 DEF PublishedFromRead
      <3>4. CASE snapshots'[n] # snapshots[n]
        <4>1. Moved(n)
          BY <3>2, <3>4, RowMoves
        <4>2. snapshots'[n].version = snapshots[n].version + 1 /\ snapshots[n].version \in Nat
          BY <4>1 DEF Moved, SnapshotRow
        <4>3. call[s].version <= snapshots[n].version
          BY <2>6, <3>1 DEF PublishedFromRead
        <4> QED
          BY <3>1, <3>2, <4>2, <4>3
      <3> QED
        BY <3>3, <3>4
    <2> QED
      BY <2>5, <2>6 DEF PublishedFromRead
  <1> QED
    BY <1>1, <1>2, <1>3

(* Every run keeps it. *)
LEMMA LifeInvariant == Spec => []LifeInv
  <1>1. Init => IdsReserved /\ PublishedFromRead
    BY CallKinds DEF Init, IdsReserved, PublishedFromRead, Building, BuildPcs
  <1>2. Init /\ TypeInv => LifeInv
    BY <1>1 DEF LifeInv
  <1> QED
    BY <1>2, LifeStep, TypeInvariant, PTL DEF Spec

(* A snapshot row leaves pending once, for published or superseded, with   *)
(* its round and links as they were built: the UPDATE of PublishSnapshot   *)
(* compares the version its handler read together with the status, and a   *)
(* build never takes an id that a row or another build has.                *)
THEOREM SnapshotsFollowLifecycle == Spec => SnapshotLifecycle
  <1>1. LifeInv /\ [Next]_vars =>
          [\A n \in SnapshotIds :
             snapshots[n] # Absent /\ snapshots'[n] # snapshots[n] =>
               /\ snapshots[n].status = "pending"
               /\ snapshots'[n].status \in {"published", "superseded"}
               /\ snapshots'[n] = [snapshots[n] EXCEPT !.status = snapshots'[n].status,
                                                 !.version = snapshots[n].version + 1]]_vars
    <2> SUFFICES ASSUME LifeInv, [Next]_vars, NEW n \in SnapshotIds,
                        snapshots[n] # Absent, snapshots'[n] # snapshots[n]
                 PROVE  /\ snapshots[n].status = "pending"
                        /\ snapshots'[n].status \in {"published", "superseded"}
                        /\ snapshots'[n] = [snapshots[n] EXCEPT !.status = snapshots'[n].status,
                                                 !.version = snapshots[n].version + 1]
      OBVIOUS
    <2>1. Moved(n)
      BY RowMoves
    <2>2. PICK status \in {"published", "superseded"} :
            snapshots'[n] = [snapshots[n] EXCEPT !.status = status,
                                                 !.version = snapshots[n].version + 1]
      BY <2>1 DEF Moved
    <2>3. snapshots'[n].status = status
      BY <2>1, <2>2 DEF Moved, SnapshotRow
    <2> QED
      BY <2>1, <2>2, <2>3 DEF Moved
  <1> QED
    BY <1>1, LifeInvariant, PTL DEF Spec, SnapshotLifecycle

-----------------------------------------------------------------------------
(* What a build freezes, which way a project goes and what one request at  *)
(* a time may publish.                                                     *)

(* How requests and the project move. *)

(* A request is moved by its own steps, or ended by an error or a restart. *)
LEMMA OwnMoves ==
  ASSUME TypeOK, [Next]_vars, NEW s \in Slots
  PROVE  call'[s] = call[s] \/ call'[s] = Idle \/ Arrive(s) \/ Step(s)
  <1>1. ASSUME NEW t \in Slots, t # s, Arrive(t)
        PROVE  call'[s] = call[s]
    BY <1>1 DEF Arrive, BaseCheck, TransitionCheck, AlignCheck, BuildCheck, PublishCheck, Begin, TypeOK
  <1>2. ASSUME NEW t \in Slots, t # s, Step(t)
        PROVE  call'[s] = call[s]
    <2>1. ASSUME \/ Return(t)
                 \/ \E pc : Goto(t, pc)
                 \/ \E c : call' = [call EXCEPT ![t] = c]
          PROVE  call'[s] = call[s]
      BY <1>2, <2>1 DEF Return, Goto, TypeOK
    <2>2. CASE AlignWitness(t)
      BY <1>2, <2>2 DEF AlignWitness, TypeOK
    <2>3. CASE BuildRound(t)
      BY <1>2, <2>3 DEF BuildRound, TypeOK
    <2>4. CASE BuildAnchors(t)
      BY <1>2, <2>4 DEF BuildAnchors, Return, TypeOK
    <2>5. CASE BuildCollect(t)
      BY <1>2, <2>5 DEF BuildCollect, TypeOK
    <2>6. CASE BuildVariants(t) \/ PublishRead(t) \/ AlignRead(t)
      BY <1>2, <2>6 DEF BuildVariants, PublishRead, AlignRead, TypeOK
    <2> QED
      BY <1>2, <2>1, <2>2, <2>3, <2>4, <2>5, <2>6
         DEF Step, BaseInsert, BaseRecord, TransitionUpdate, AlignMark, BuildSupersede, BuildCreate,
             PublishUpdate, PublishMark
  <1>3. ASSUME NEW t \in Slots, Abort(t)
        PROVE  call'[s] = call[s] \/ call'[s] = Idle
    BY <1>3 DEF Abort, Return, TypeOK
  <1> QED
    BY <1>1, <1>2, <1>3
       DEF Next, Environment, ConfirmAnchor, ProposeDecision, ReviewDecision, WithdrawDecision,
           Restart, vars

(* Where the steps of a transition, a build and a publication lead. *)
LEMMA Leads ==
  ASSUME TypeOK, NEW s \in Slots, Arrive(s) \/ Step(s)
  PROVE  /\ call'[s].pc = "transition" => \E next \in ProjectStatus : TransitionCheck(s, next)
         /\ call'[s].pc = "round" => \E n \in SnapshotIds : BuildCheck(s, n)
         /\ call'[s].pc = "supersede" => BuildRound(s)
         /\ call'[s].pc = "anchors" => BuildSupersede(s)
         /\ call'[s].pc = "variants" => BuildAnchors(s)
         /\ call'[s].pc = "collect" => BuildVariants(s) \/ BuildCollect(s)
  <1> DEFINE Others == {"idle", "insertBase", "recordBase", "align", "markReviewable",
                        "publish", "reread", "markPublished"}
  <1>1. ASSUME BaseCheck(s) \/ AlignCheck(s) \/ (\E n \in SnapshotIds : PublishCheck(s, n))
        PROVE  call'[s].pc \in Others
    BY <1>1 DEF BaseCheck, AlignCheck, PublishCheck, Begin, TypeOK
  <1>2. ASSUME NEW next \in ProjectStatus, TransitionCheck(s, next)
        PROVE  call'[s].pc = "transition"
    BY <1>2 DEF TransitionCheck, Begin, TypeOK
  <1>3. ASSUME NEW n \in SnapshotIds, BuildCheck(s, n)
        PROVE  call'[s].pc = "round"
    BY <1>3 DEF BuildCheck, Begin, TypeOK
  <1>4. ASSUME Return(s)
        PROVE  call'[s].pc \in Others
    BY <1>4, CallKinds DEF Return, TypeOK
  <1>5. ASSUME NEW pc \in {"recordBase", "anchors", "reread"}, Goto(s, pc), call[s] # Idle
        PROVE  call'[s].pc = pc
    BY <1>5, GotoMoves
  <1>6. ASSUME Step(s)
        PROVE  call[s] # Idle
    BY <1>6, CallKinds
       DEF Step, BaseInsert, BaseRecord, TransitionUpdate, AlignWitness, AlignRead, AlignMark,
           BuildRound, BuildSupersede, BuildAnchors, BuildVariants, BuildCollect, BuildCreate,
           PublishUpdate, PublishRead, PublishMark, At
  <1>7. CASE AlignWitness(s) \/ AlignRead(s)
    <2>1. call[s] \in AlignCall
      BY <1>7, CallShape DEF AlignWitness, AlignRead, At
    <2>2. AlignWitness(s) => call'[s].pc = "align"
      BY <2>1 DEF AlignWitness, At, AlignCall, TypeOK
    <2>3. AlignRead(s) => call'[s].pc = "markReviewable"
      BY <2>1 DEF AlignRead, AlignCall, TypeOK
    <2> QED
      BY <1>7, <2>2, <2>3
  <1>8. CASE PublishRead(s)
    <2>1. call[s] \in PublishCall
      BY <1>8, CallShape DEF PublishRead, At, PublishPcs
    <2>2. call'[s].pc = "markPublished"
      BY <1>8, <2>1 DEF PublishRead, PublishCall, TypeOK
    <2> QED
      BY <2>2
  <1>9. CASE BuildRound(s) \/ BuildAnchors(s) \/ BuildVariants(s) \/ BuildCollect(s)
    <2>1. call[s] \in BuildCall
      BY <1>9, CallShape DEF BuildRound, BuildAnchors, BuildVariants, BuildCollect, At, BuildPcs
    <2>2. BuildRound(s) => call'[s].pc = "supersede"
      BY <2>1 DEF BuildRound, BuildCall, TypeOK
    <2>3. BuildAnchors(s) => call'[s].pc = "variants" \/ Return(s)
      BY <2>1 DEF BuildAnchors, BuildCall, TypeOK
    <2>4. BuildVariants(s) => call'[s].pc = "collect"
      BY <2>1 DEF BuildVariants, BuildCall, TypeOK
    <2>5. BuildCollect(s) => call'[s].pc = "collect"
      BY <2>1 DEF BuildCollect, BuildCall, TypeOK, At
    <2> QED
      BY <1>4, <1>9, <2>2, <2>3, <2>4, <2>5
  <1>10. CASE BuildSupersede(s)
    BY <1>5, <1>6, <1>10 DEF BuildSupersede, Step
  <1> QED
    BY <1>1, <1>2, <1>3, <1>4, <1>5, <1>6, <1>7, <1>8, <1>9, <1>10
       DEF Arrive, Step, BaseInsert, BaseRecord, TransitionUpdate, AlignMark, BuildCreate,
           PublishUpdate, PublishMark

(* The project's version counts its status changes. *)
LEMMA ProjectMoves ==
  ASSUME TypeOK, [Next]_vars
  PROVE  \/ project'.status = project.status /\ project'.version = project.version
         \/ /\ project'.version = project.version + 1
            /\ \/ project'.status \in {"reviewable", "published"}
               \/ \E s \in Slots : /\ call[s].pc = "transition"
                                  /\ call[s].version = project.version
                                  /\ project'.status = call[s].next
  <1>1. project \in ProjectRow
    BY DEF TypeOK
  <1>2. ASSUME NEW status, SetProjectStatus(status)
        PROVE  project'.status = status /\ project'.version = project.version + 1
    <2> DEFINE n == project.version + 1
    <2>1. project' = [project EXCEPT !.status = status, !.version = n]
      BY <1>2 DEF SetProjectStatus
    <2> HIDE DEF n
    <2>2. project'.status = status /\ project'.version = n
      BY <1>1, <2>1 DEF ProjectRow
    <2> QED
      BY <2>2 DEF n
  <1>3. ASSUME NEW s \in Slots, Arrive(s)
        PROVE  project' = project
    BY <1>3 DEF Arrive, BaseCheck, TransitionCheck, AlignCheck, BuildCheck, PublishCheck, tables
  <1>4. ASSUME NEW s \in Slots, BaseRecord(s)
        PROVE  project'.status = project.status /\ project'.version = project.version
    BY <1>1, <1>4 DEF BaseRecord, ProjectRow
  <1>5. ASSUME NEW s \in Slots, AlignMark(s) \/ PublishMark(s)
        PROVE  \/ project' = project
               \/ SetProjectStatus("reviewable") \/ SetProjectStatus("published")
    BY <1>5 DEF AlignMark, PublishMark
  <1>6. ASSUME NEW s \in Slots, TransitionUpdate(s)
        PROVE  \/ project' = project
               \/ /\ call[s].pc = "transition" /\ call[s].version = project.version
                  /\ SetProjectStatus(call[s].next)
    BY <1>6 DEF TransitionUpdate, ProjectIs, At
  <1>7. ASSUME NEW s \in Slots, Step(s)
        PROVE  \/ project' = project
               \/ BaseRecord(s) \/ AlignMark(s) \/ PublishMark(s) \/ TransitionUpdate(s)
    BY <1>7
       DEF Step, BaseInsert, AlignWitness, AlignRead, BuildRound, BuildSupersede, BuildAnchors,
           BuildVariants, BuildCollect, BuildCreate, PublishUpdate, PublishRead, tables
  <1>8. \/ project' = project
        \/ \E s \in Slots : BaseRecord(s) \/ AlignMark(s) \/ PublishMark(s) \/ TransitionUpdate(s)
    BY <1>3, <1>7
       DEF Next, Environment, ConfirmAnchor, ProposeDecision, ReviewDecision, WithdrawDecision,
           Restart, Abort, vars, tables
  <1> QED
    BY <1>2, <1>4, <1>5, <1>6, <1>8

-----------------------------------------------------------------------------
(* The transition table. *)

(* A transition in flight checked the table at some version of the         *)
(* project; if the project still has it, the check still holds.            *)
TransitionFromRead ==
    \A s \in Slots : call[s].pc = "transition" =>
        /\ call[s].version <= project.version
        /\ call[s].version = project.version =>
             ValidProjectTransition(project.status, call[s].next)

(* Every step keeps what a transition knows of the project it read. *)
LEMMA TransitionStep == TypeInv /\ TransitionFromRead /\ [Next]_vars => TransitionFromRead'
  <1> SUFFICES ASSUME TypeInv, TransitionFromRead, [Next]_vars,
                      NEW s \in Slots, call'[s].pc = "transition"
               PROVE  /\ call'[s].version <= project'.version
                      /\ call'[s].version = project'.version =>
                           ValidProjectTransition(project'.status, call'[s].next)
    BY DEF TransitionFromRead, ValidProjectTransition
  <1>1. TypeOK /\ project \in ProjectRow /\ project.version \in Nat
    BY DEF TypeInv, TypeOK, ProjectRow
  <1>2. ASSUME NEW next \in ProjectStatus, TransitionCheck(s, next)
        PROVE  /\ call'[s].version = project.version /\ call'[s].next = next
               /\ project' = project /\ ValidProjectTransition(project.status, next)
    BY <1>1, <1>2 DEF TransitionCheck, Begin, TypeOK, tables
  <1>3. CASE call'[s] = call[s]
    <2>1. call[s].version \in Nat
      BY <1>1, <1>3, CallShape DEF TransitionCall
    <2>2. /\ call[s].version <= project.version
          /\ call[s].version = project.version =>
               ValidProjectTransition(project.status, call[s].next)
      BY <1>3 DEF TransitionFromRead
    <2>3. CASE project'.status = project.status /\ project'.version = project.version
      BY <1>3, <2>2, <2>3
    <2>4. CASE project'.version = project.version + 1
      BY <1>1, <1>3, <2>1, <2>2, <2>4
    <2> QED
      BY <1>1, <2>3, <2>4, ProjectMoves
  <1>4. call'[s] # Idle
    BY CallKinds
  <1> QED
    BY <1>1, <1>2, <1>3, <1>4, OwnMoves, Leads

(* A project enters draft, aligning and archived only along the table of   *)
(* TransitionProject: the UPDATE compares the version the check read, and  *)
(* every change of the status counts it up.                                *)
THEOREM TransitionsFollowTable == Spec => TableRespected
  <1>1. Init => TransitionFromRead
    BY CallKinds DEF Init, TransitionFromRead
  <1>2. TypeInv /\ TransitionFromRead /\ [Next]_vars =>
          [project'.status # project.status =>
             \/ ValidProjectTransition(project.status, project'.status)
             \/ project'.status \in {"reviewable", "published"}]_vars
    BY ProjectMoves DEF TransitionFromRead, TypeInv
  <1> QED
    BY <1>1, <1>2, TransitionStep, TypeInvariant, PTL DEF Spec, TableRespected

-----------------------------------------------------------------------------
(* The decision chain of a build. *)

(* Decisions are made on listed variants, which stay. *)
Listed == \A d \in DecisionIds : decision[d] # "absent" => VariantOf[d] \in variants

(* While a build collects, whatever stood approved since its list is       *)
(* collected or belongs to a variant still to be asked, and whatever is    *)
(* approved or collected was approved since.                               *)
Collecting(s) ==
    /\ window[s].always \subseteq Approved
    /\ \A d \in window[s].always : d \in call[s].decisions \/ VariantOf[d] \in call[s].todo
    /\ Approved \subseteq window[s].ever
    /\ call[s].decisions \subseteq window[s].ever

Uncollected(s) == call[s].pc \in {"round", "supersede", "anchors", "variants"}

ChainInv ==
    /\ Listed
    /\ \A s \in Slots : call[s].pc = "collect" => Collecting(s)
    /\ \A s \in Slots : Uncollected(s) => call[s].decisions = {}

(* Decisions and windows are moved by the desk's handlers and by builds. *)
LEMMA DeskMoves ==
  ASSUME [Next]_vars
  PROVE  \/ decision' = decision /\ window' = window
         \/ \E d \in DecisionIds : \/ ProposeDecision(d)
                                  \/ ReviewDecision(d, "approved") \/ ReviewDecision(d, "rejected")
                                  \/ WithdrawDecision(d)
         \/ \E s \in Slots : BuildVariants(s)
  <1>1. ASSUME NEW s \in Slots, Arrive(s)
        PROVE  decision' = decision /\ window' = window
    BY <1>1 DEF Arrive, BaseCheck, TransitionCheck, AlignCheck, BuildCheck, PublishCheck, tables
  <1>2. ASSUME NEW s \in Slots, Step(s), ~BuildVariants(s)
        PROVE  decision' = decision /\ window' = window
    BY <1>2
       DEF Step, BaseInsert, BaseRecord, TransitionUpdate, AlignWitness, AlignRead, AlignMark,
           BuildRound, BuildSupersede, BuildAnchors, BuildCollect, BuildCreate,
           PublishUpdate, PublishRead, PublishMark, tables
  <1> QED
    BY <1>1, <1>2 DEF Next, Environment, ConfirmAnchor, Restart, Abort, vars, tables

(* A window only narrows at its lower edge and widens at its upper one, as *)
(* decisions leave approved and enter it.                                  *)
LEMMA WindowMoves ==
  ASSUME TypeOK, [Next]_vars, NEW s \in Slots, ~BuildVariants(s)
  PROVE  /\ window'[s].always \subseteq window[s].always
         /\ window[s].ever \subseteq window'[s].ever
         /\ Approved' \subseteq Approved \cup window'[s].ever
         /\ Approved \cap window'[s].always \subseteq Approved'
  <1>1. CASE decision' = decision /\ window' = window
    BY <1>1 DEF Approved
  <1>2. ASSUME NEW d \in DecisionIds, ProposeDecision(d)
        PROVE  Approved' = Approved /\ window' = window
    BY <1>2 DEF ProposeDecision, Book!Propose, Approved, TypeOK
  <1>3. ASSUME NEW d \in DecisionIds, ReviewDecision(d, "approved")
        PROVE  /\ window'[s].always = window[s].always
               /\ window'[s].ever = window[s].ever \cup {d}
               /\ Approved' = Approved \cup {d}
    BY <1>3 DEF ReviewDecision, Book!Review, Approved, TypeOK
  <1>4. ASSUME NEW d \in DecisionIds, ReviewDecision(d, "rejected")
        PROVE  window'[s] = window[s] /\ Approved' = Approved
    BY <1>4 DEF ReviewDecision, Book!Review, Approved, TypeOK
  <1>5. ASSUME NEW d \in DecisionIds, WithdrawDecision(d)
        PROVE  /\ window'[s].always = window[s].always \ {d}
               /\ window'[s].ever = window[s].ever
               /\ Approved' = Approved \ {d}
    BY <1>5 DEF WithdrawDecision, Book!Withdraw, Approved, TypeOK
  <1>6. ASSUME NEW t \in Slots, BuildVariants(t)
        PROVE  window'[s] = window[s] /\ Approved' = Approved
    BY <1>6 DEF BuildVariants, Approved, tables, TypeOK
  <1> QED
    BY <1>1, <1>2, <1>3, <1>4, <1>5, <1>6, DeskMoves

(* Every step keeps decisions on variants that are listed. *)
LEMMA ListedStep == TypeInv /\ Listed /\ [Next]_vars => Listed'
  <1> SUFFICES ASSUME TypeInv, Listed, [Next]_vars,
                      NEW d \in DecisionIds, decision'[d] # "absent"
               PROVE  VariantOf[d] \in variants'
    BY DEF Listed
  <1>1. variants \subseteq variants'
    <2>1. ASSUME NEW s \in Slots, Arrive(s)
          PROVE  variants' = variants
      BY <2>1 DEF Arrive, BaseCheck, TransitionCheck, AlignCheck, BuildCheck, PublishCheck, tables
    <2>2. ASSUME NEW s \in Slots, Step(s)
          PROVE  variants \subseteq variants'
      BY <2>2
         DEF Step, BaseInsert, BaseRecord, TransitionUpdate, AlignWitness, AlignRead, AlignMark,
             BuildRound, BuildSupersede, BuildAnchors, BuildVariants, BuildCollect, BuildCreate,
             PublishUpdate, PublishRead, PublishMark, tables
    <2> QED
      BY <2>1, <2>2
         DEF Next, Environment, ConfirmAnchor, ProposeDecision, ReviewDecision, WithdrawDecision,
             Restart, Abort, vars, tables
  <1>2. ASSUME NEW e \in DecisionIds, ProposeDecision(e)
        PROVE  decision'[d] = decision[d] \/ VariantOf[d] \in variants
    BY <1>2 DEF ProposeDecision, Book!Propose, TypeInv, TypeOK
  <1>3. ASSUME NEW e \in DecisionIds, NEW next \in {"approved", "rejected"}, ReviewDecision(e, next)
        PROVE  decision[d] # "absent"
    BY <1>3 DEF ReviewDecision, Book!Review, TypeInv, TypeOK
  <1>4. ASSUME NEW e \in DecisionIds, WithdrawDecision(e)
        PROVE  decision[d] # "absent"
    BY <1>4 DEF WithdrawDecision, Book!Withdraw, TypeInv, TypeOK
  <1>5. ASSUME NEW s \in Slots, BuildVariants(s)
        PROVE  decision' = decision
    BY <1>5 DEF BuildVariants, tables
  <1> QED
    BY <1>1, <1>2, <1>3, <1>4, <1>5, DeskMoves DEF Listed

(* A build that has not begun to collect has collected nothing. *)
LEMMA UncollectedStep ==
  ASSUME TypeInv, ChainInv, [Next]_vars, NEW s \in Slots, Uncollected(s)'
  PROVE  call'[s].decisions = {}
  <1>1. TypeOK
    BY DEF TypeInv
  <1>2. CASE call'[s] = call[s]
    BY <1>2 DEF ChainInv, Uncollected
  <1>3. ASSUME NEW n \in SnapshotIds, BuildCheck(s, n)
        PROVE  call'[s].decisions = {}
    BY <1>1, <1>3 DEF BuildCheck, Begin, TypeOK
  <1>4. ASSUME BuildRound(s) \/ BuildSupersede(s) \/ BuildAnchors(s)
        PROVE  call'[s].decisions = {}
    <2>1. call[s] \in BuildCall /\ call[s].decisions = {}
      BY <1>1, <1>4, CallShape
         DEF BuildRound, BuildSupersede, BuildAnchors, At, BuildPcs, ChainInv, Uncollected
    <2>2. ASSUME BuildRound(s) PROVE call'[s].decisions = call[s].decisions
      <3>1. PICK r : call' = [call EXCEPT ![s] = [call[s] EXCEPT !.pc = "supersede", !.round = r]]
        BY <2>2 DEF BuildRound
      <3>2. [call[s] EXCEPT !.pc = "supersede", !.round = r].decisions = call[s].decisions
        BY <2>1 DEF BuildCall
      <3> QED
        BY <1>1, <3>1, <3>2 DEF TypeOK
    <2>3. ASSUME BuildSupersede(s) PROVE call'[s].decisions = call[s].decisions
      <3>1. call[s] # Idle
        BY <2>3, CallKinds DEF BuildSupersede, At
      <3>2. call'[s] = [call[s] EXCEPT !.pc = "anchors"]
        BY <1>1, <2>3, <3>1, GotoMoves DEF BuildSupersede
      <3> QED
        BY <2>1, <3>2 DEF BuildCall
    <2>4. ASSUME BuildAnchors(s) PROVE call'[s] = Idle \/ call'[s].decisions = call[s].decisions
      <3>1. \/ call' = [call EXCEPT ![s] = Idle]
            \/ call' = [call EXCEPT ![s] = [call[s] EXCEPT !.pc = "variants", !.anchors = confirmed]]
        BY <2>4 DEF BuildAnchors, Return
      <3>2. [call[s] EXCEPT !.pc = "variants", !.anchors = confirmed].decisions = call[s].decisions
        BY <2>1 DEF BuildCall
      <3> QED
        BY <1>1, <3>1, <3>2 DEF TypeOK
    <2>5. call'[s] # Idle
      BY CallKinds DEF Uncollected
    <2> QED
      BY <1>4, <2>1, <2>2, <2>3, <2>4, <2>5
  <1>5. call'[s] # Idle
    BY CallKinds DEF Uncollected
  <1> QED
    BY <1>1, <1>2, <1>3, <1>4, <1>5, OwnMoves, Leads DEF Uncollected

(* Every step keeps a build between the two sets of its window. *)
LEMMA ChainStep == TypeInv /\ ChainInv /\ [Next]_vars => ChainInv'
  <1> SUFFICES ASSUME TypeInv, ChainInv, [Next]_vars,
                      NEW s \in Slots, call'[s].pc = "collect"
               PROVE  Collecting(s)'
    BY ListedStep, UncollectedStep DEF ChainInv
  <1>1. TypeOK /\ Listed
    BY DEF TypeInv, ChainInv
  <1>2. CASE BuildVariants(s)
    <2>1. call[s] \in BuildCall
      BY <1>1, <1>2, CallShape DEF BuildVariants, At, BuildPcs
    <2>2. call'[s].todo = variants
      BY <1>1, <1>2, <2>1 DEF BuildVariants, TypeOK, BuildCall
    <2>3. /\ window'[s].always = Approved /\ window'[s].ever = Approved
          /\ Approved' = Approved
      BY <1>1, <1>2 DEF BuildVariants, TypeOK, Approved, tables
    <2>4. \A d \in Approved : VariantOf[d] \in variants
      BY <1>1 DEF Approved, Listed
    <2>5. call[s].decisions = {}
      BY <1>2 DEF BuildVariants, At, ChainInv, Uncollected
    <2>6. call'[s].decisions = call[s].decisions
      BY <1>1, <1>2, <2>1 DEF BuildVariants, TypeOK, BuildCall
    <2> QED
      BY <2>2, <2>3, <2>4, <2>5, <2>6 DEF Collecting
  <1>3. CASE BuildCollect(s)
    <2>1. call[s] \in BuildCall /\ Collecting(s)
      BY <1>1, <1>3, CallShape DEF BuildCollect, At, BuildPcs, ChainInv
    <2>2. PICK v \in call[s].todo :
            call' = [call EXCEPT ![s] = [call[s] EXCEPT !.todo = call[s].todo \ {v},
                                           !.decisions = call[s].decisions \cup Collected(v)]]
      BY <1>3 DEF BuildCollect
    <2>3. /\ call'[s].todo = call[s].todo \ {v}
          /\ call'[s].decisions = call[s].decisions \cup Collected(v)
      BY <1>1, <2>1, <2>2 DEF TypeOK, BuildCall
    <2>4. window' = window /\ Approved' = Approved
      BY <1>3 DEF BuildCollect, Approved, tables
    <2>5. Collected(v) = {d \in Approved : VariantOf[d] = v}
      BY DEF Collected
    <2> QED
      BY <2>1, <2>3, <2>4, <2>5 DEF Collecting
  <1>4. CASE call'[s] = call[s] /\ ~BuildVariants(s)
    <2>1. Collecting(s)
      BY <1>4 DEF ChainInv
    <2> QED
      BY <1>1, <1>4, <2>1, WindowMoves DEF Collecting
  <1>5. call'[s] # Idle
    BY CallKinds
  <1> QED
    BY <1>1, <1>2, <1>3, <1>4, <1>5, OwnMoves, Leads

(* Every run keeps it. *)
LEMMA ChainInvariant == Spec => [](TypeInv /\ ChainInv)
  <1>1. Init => ChainInv
    BY CallKinds DEF Init, ChainInv, Listed, Uncollected
  <1> QED
    BY <1>1, ChainStep, TypeInvariant, PTL DEF Spec

(* The decision chain a build freezes holds every decision that stood      *)
(* approved since the build listed the variants, and none that was never   *)
(* approved since, whatever reviews and withdrawals pass between its       *)
(* queries.                                                                *)
THEOREM ChainsFaithful == Spec => []ChainFaithful
  <1>1. ChainInv => ChainFaithful
    BY DEF ChainInv, ChainFaithful, Collecting, At
  <1> QED
    BY <1>1, ChainInvariant, PTL

-----------------------------------------------------------------------------
(* One request at a time. *)

OneAtATime == \A s, t \in Slots : s = t

Superseded(s) == call[s].pc \in {"anchors", "variants", "collect"}
Numbered(s) == call[s].pc = "supersede" \/ Superseded(s)

(* What is pending is of the newest round.  A build leaves nothing pending, *)
(* and takes a round beyond all others, which nobody else can take: what   *)
(* it inserts is the newest again.                                         *)
RoundInv ==
    /\ PendingIsNewest
    /\ \A s \in Slots : Superseded(s) => InState("pending") = {}
    /\ \A s \in Slots : Numbered(s) =>
         \A n \in Present : snapshots[n].round < call[s].round
    /\ RoundsDistinct

(* Snapshots are written by three steps. *)
LEMMA SnapshotsWritten ==
  ASSUME [Next]_vars
  PROVE  \/ snapshots' = snapshots
         \/ \E s \in Slots : BuildSupersede(s) \/ BuildCreate(s) \/ PublishUpdate(s)
  <1>1. ASSUME NEW s \in Slots, Arrive(s)
        PROVE  snapshots' = snapshots
    BY <1>1 DEF Arrive, BaseCheck, TransitionCheck, AlignCheck, BuildCheck, PublishCheck, tables
  <1>2. ASSUME NEW s \in Slots, Step(s)
        PROVE  \/ BuildSupersede(s) \/ BuildCreate(s) \/ PublishUpdate(s)
               \/ snapshots' = snapshots
    BY <1>2 DEF Step, BaseInsert, BaseRecord, TransitionUpdate, AlignWitness, AlignRead, AlignMark,
                BuildRound, BuildAnchors, BuildVariants, BuildCollect, PublishRead, PublishMark, tables
  <1> QED
    BY <1>1, <1>2 DEF Next, Environment, ConfirmAnchor, ProposeDecision, ReviewDecision,
                      WithdrawDecision, Restart, Abort, vars, tables

(* Except by an insertion no snapshot becomes pending, and rounds stay. *)
LEMMA PendingShrinks ==
  ASSUME LifeInv, [Next]_vars, \A s \in Slots : ~BuildCreate(s)
  PROVE  /\ Present' = Present
         /\ \A n \in Present : snapshots'[n].round = snapshots[n].round
         /\ InState("pending")' \subseteq InState("pending")
  <1>1. ASSUME NEW n \in SnapshotIds, snapshots'[n] # snapshots[n]
        PROVE  /\ snapshots[n] # Absent /\ snapshots'[n] # Absent
               /\ snapshots'[n].round = snapshots[n].round
               /\ snapshots[n].status = "pending"
    <2>1. snapshots[n] # Absent
      BY <1>1, RowsAppear
    <2>2. Moved(n)
      BY <1>1, <2>1, RowMoves
    <2> DEFINE k == snapshots[n].version + 1
    <2>3. PICK status \in {"published", "superseded"} :
            snapshots'[n] = [snapshots[n] EXCEPT !.status = status, !.version = k]
      BY <2>2 DEF Moved
    <2>4. snapshots[n] \in SnapshotRow /\ k \in Nat
      BY <2>2 DEF Moved, SnapshotRow
    <2> HIDE DEF k
    <2>5. snapshots'[n] \in SnapshotRow /\ snapshots'[n].round = snapshots[n].round
      BY <2>3, <2>4 DEF SnapshotRow
    <2> QED
      BY <2>1, <2>2, <2>5, RowIsPresent DEF Moved
  <1>2. Present' = Present
    BY <1>1 DEF Present
  <1>3. \A n \in Present : snapshots'[n].round = snapshots[n].round
    BY <1>1 DEF Present
  <1>4. ASSUME NEW n \in InState("pending")'
        PROVE  n \in InState("pending")
    BY <1>1, <1>4 DEF InState, Present
  <1> QED
    BY <1>2, <1>3, <1>4

(* A build keeps the round it took. *)
LEMMA RoundKept ==
  ASSUME TypeOK, NEW s \in Slots, call'[s] # Idle,
         BuildSupersede(s) \/ BuildAnchors(s) \/ BuildVariants(s) \/ BuildCollect(s)
  PROVE  call'[s].round = call[s].round
  <1>1. call[s] \in BuildCall /\ call[s] # Idle
    BY CallShape, CallKinds
       DEF BuildSupersede, BuildAnchors, BuildVariants, BuildCollect, At, BuildPcs
  <1>2. CASE BuildSupersede(s)
    <2>1. call'[s] = [call[s] EXCEPT !.pc = "anchors"]
      BY <1>1, <1>2, GotoMoves DEF BuildSupersede
    <2> QED
      BY <1>1, <2>1 DEF BuildCall
  <1>3. CASE BuildAnchors(s)
    <2>1. call' = [call EXCEPT ![s] = [call[s] EXCEPT !.pc = "variants", !.anchors = confirmed]]
      BY <1>3 DEF BuildAnchors, Return, TypeOK
    <2>2. [call[s] EXCEPT !.pc = "variants", !.anchors = confirmed].round = call[s].round
      BY <1>1 DEF BuildCall
    <2> QED
      BY <2>1, <2>2 DEF TypeOK
  <1>4. CASE BuildVariants(s)
    <2>1. [call[s] EXCEPT !.pc = "collect", !.todo = variants].round = call[s].round
      BY <1>1 DEF BuildCall
    <2> QED
      BY <1>4, <2>1 DEF BuildVariants, TypeOK
  <1>5. CASE BuildCollect(s)
    <2>1. PICK todo, chain :
            call' = [call EXCEPT ![s] = [call[s] EXCEPT !.todo = todo, !.decisions = chain]]
      BY <1>5 DEF BuildCollect
    <2>2. [call[s] EXCEPT !.todo = todo, !.decisions = chain].round = call[s].round
      BY <1>1 DEF BuildCall
    <2> QED
      BY <2>1, <2>2 DEF TypeOK
  <1> QED
    BY <1>2, <1>3, <1>4, <1>5

(* With one request at a time, every step keeps the pending snapshot the    *)
(* newest and rounds fresh.                                                *)
LEMMA RoundStep ==
  ASSUME OneAtATime, LifeInv, RoundInv, [Next]_vars
  PROVE  RoundInv'
  <1>1. TypeInv /\ TypeOK
    BY DEF LifeInv, TypeInv
  <1>2. ASSUME NEW s \in Slots, Building(s)'
        PROVE  /\ call'[s] # Idle
               /\ ~(\E t \in Slots : BuildCreate(t) \/ PublishUpdate(t))
               /\ snapshots' = snapshots \/ BuildSupersede(s)
    <2>1. call'[s] # Idle /\ ~Return(s)
      BY <1>1, <1>2, CallKinds DEF Building, BuildPcs, Return, TypeOK
    <2>2. ~BuildCreate(s)
      BY <2>1 DEF BuildCreate
    <2>3. ~PublishUpdate(s)
      <3> SUFFICES ASSUME PublishUpdate(s) PROVE FALSE
        OBVIOUS
      <3>1. Goto(s, "reread") /\ call[s] # Idle
        BY <2>1, CallKinds DEF PublishUpdate, At
      <3>2. call'[s].pc = "reread"
        BY <1>1, <3>1, GotoMoves
      <3> QED
        BY <1>2, <3>2 DEF Building, BuildPcs
    <2> QED
      BY <2>1, <2>2, <2>3, SnapshotsWritten DEF OneAtATime
  <1>3. ASSUME NEW s \in Slots, BuildCreate(s)
        PROVE  /\ InState("pending") = {}
               /\ call[s].snapshot \in SnapshotIds
               /\ \A n \in Present : snapshots[n].round < call[s].round
               /\ \A n \in SnapshotIds \ {call[s].snapshot} : snapshots'[n] = snapshots[n]
               /\ snapshots'[call[s].snapshot].round = call[s].round
    <2>1. call[s] \in BuildCall /\ Building(s) /\ Superseded(s) /\ Numbered(s)
      BY <1>1, <1>3, CallShape DEF BuildCreate, At, Building, BuildPcs, Superseded, Numbered
    <2>2. InState("pending") = {}
      BY <2>1 DEF RoundInv
    <2>3. call[s].snapshot \in SnapshotIds
      BY <2>1 DEF BuildCall
    <2>4. /\ \A n \in SnapshotIds \ {call[s].snapshot} : snapshots'[n] = snapshots[n]
          /\ snapshots'[call[s].snapshot].round = call[s].round
      BY <1>1, <1>3, <2>3 DEF BuildCreate, TypeOK
    <2> QED
      BY <2>1, <2>2, <2>3, <2>4 DEF RoundInv
  <1>4. PendingIsNewest'
    <2>1. CASE \A s \in Slots : ~BuildCreate(s)
      BY <2>1, PendingShrinks DEF RoundInv, PendingIsNewest, InState, Present
    <2>2. ASSUME NEW s \in Slots, BuildCreate(s), NEW m \in InState("pending")', NEW n \in Present', n # m
          PROVE  snapshots'[n].round < snapshots'[m].round
      <3> DEFINE new == call[s].snapshot
      <3>1. \A k \in Present' \ {new} : k \in Present /\ snapshots'[k] = snapshots[k]
        BY <1>3, <2>2 DEF Present
      <3>2. m = new
        BY <1>3, <2>2, <3>1 DEF InState, Present
      <3> QED
        BY <1>3, <2>2, <3>1, <3>2
    <2> QED
      BY <2>1, <2>2 DEF PendingIsNewest
  <1>5. RoundsDistinct'
    <2>1. CASE \A s \in Slots : ~BuildCreate(s)
      BY <2>1, PendingShrinks DEF RoundInv, RoundsDistinct
    <2>2. ASSUME NEW s \in Slots, BuildCreate(s), NEW m \in Present', NEW n \in Present',
                 snapshots'[m].round = snapshots'[n].round
          PROVE  m = n
      <3> DEFINE new == call[s].snapshot
      <3>1. \A k \in Present' \ {new} : k \in Present /\ snapshots'[k] = snapshots[k]
        BY <1>3, <2>2 DEF Present
      <3>2. \A k \in Present : snapshots[k].round < call[s].round /\ snapshots[k].round \in Nat
        BY <1>1, <1>3, <2>2 DEF Present, TypeOK, SnapshotRow
      <3>3. call[s].round \in Nat
        BY <1>1, <2>2, CallShape DEF BuildCreate, At, BuildPcs, BuildCall
      <3>4. ASSUME NEW k \in Present' \ {new}
            PROVE  snapshots'[k].round # snapshots'[new].round
        BY <1>3, <2>2, <3>1, <3>2, <3>3, <3>4
      <3>5. CASE m = new \/ n = new
        BY <2>2, <3>4, <3>5
      <3>6. CASE m # new /\ n # new
        BY <2>2, <3>1, <3>6 DEF RoundInv, RoundsDistinct
      <3> QED
        BY <3>5, <3>6
    <2> QED
      BY <2>1, <2>2 DEF RoundsDistinct
  <1>6. ASSUME NEW s \in Slots, BuildSupersede(s)
        PROVE  InState("pending")' = {}
    <2>1. ASSUME NEW n \in SnapshotIds, Supersedes(snapshots[n])
          PROVE  snapshots'[n].status = "superseded"
      <3> DEFINE k == snapshots[n].version + 1
      <3>1. snapshots'[n] = [snapshots[n] EXCEPT !.status = "superseded", !.version = k]
        BY <1>6, <2>1 DEF BuildSupersede
      <3>2. snapshots[n] \in SnapshotRow
        BY <1>1, <2>1 DEF Supersedes, TypeOK
      <3> HIDE DEF k
      <3> QED
        BY <3>1, <3>2 DEF SnapshotRow
    <2>2. ASSUME NEW n \in SnapshotIds, ~Supersedes(snapshots[n])
          PROVE  snapshots'[n] = snapshots[n]
      BY <1>6, <2>2 DEF BuildSupersede
    <2> QED
      BY <2>1, <2>2 DEF Supersedes, InState, Present
  <1>7. ASSUME NEW s \in Slots, Building(s)'
        PROVE  \/ \E n \in SnapshotIds : BuildCheck(s, n)
               \/ call'[s] = call[s] /\ Building(s)
               \/ BuildRound(s)
               \/ BuildSupersede(s) \/ BuildAnchors(s) \/ BuildVariants(s) \/ BuildCollect(s)
    BY <1>1, <1>2, <1>7, OwnMoves, Leads DEF Building, BuildPcs
  <1>8. ASSUME NEW s \in Slots,
               BuildRound(s) \/ BuildSupersede(s) \/ BuildAnchors(s) \/ BuildVariants(s) \/ BuildCollect(s)
        PROVE  /\ Building(s)
               /\ ~BuildRound(s) => Numbered(s)
               /\ ~BuildRound(s) /\ ~BuildSupersede(s) => Superseded(s)
    BY <1>8 DEF BuildRound, BuildSupersede, BuildAnchors, BuildVariants, BuildCollect, At,
                Building, BuildPcs, Superseded, Numbered
  <1>9. ASSUME NEW s \in Slots, Superseded(s)'
         PROVE  InState("pending")' = {}
    <2>1. Building(s)'
      BY <1>9 DEF Superseded, Building, BuildPcs
    <2>2. CASE BuildSupersede(s)
      BY <1>6, <2>2
    <2>3. CASE ~BuildSupersede(s)
      <3>1. snapshots' = snapshots
        BY <1>2, <2>1, <2>3
      <3>2. \/ call'[s] = call[s]
            \/ BuildAnchors(s) \/ BuildVariants(s) \/ BuildCollect(s)
        BY <1>1, <1>2, <1>9, <2>1, <2>3, OwnMoves, Leads DEF Superseded
      <3>3. Superseded(s)
        BY <1>8, <1>9, <2>3, <3>2 DEF Superseded, BuildRound, At, BuildAnchors, BuildVariants, BuildCollect
      <3> QED
        BY <3>1, <3>3 DEF RoundInv, InState, Present
    <2> QED
      BY <2>2, <2>3
  <1>10. ASSUME NEW s \in Slots, Numbered(s)', NEW n \in Present'
         PROVE  snapshots'[n].round < call'[s].round
    <2>1. Building(s)' /\ \A t \in Slots : ~BuildCreate(t)
      BY <1>2, <1>10 DEF Numbered, Superseded, Building, BuildPcs
    <2>2. n \in Present /\ snapshots'[n].round = snapshots[n].round
      BY <1>10, <2>1, PendingShrinks
    <2>3. CASE BuildRound(s)
      <3>1. PICK r \in Rounds \cup {0} :
              /\ IsLast(r)
              /\ call' = [call EXCEPT ![s] = [@ EXCEPT !.pc = "supersede", !.round = r + 1]]
        BY <2>3 DEF BuildRound
      <3> DEFINE k == r + 1
      <3>2. call[s] \in BuildCall
        BY <1>1, <2>3, CallShape DEF BuildRound, At, BuildPcs
      <3>3. [call[s] EXCEPT !.pc = "supersede", !.round = k].round = k
        BY <3>2 DEF BuildCall
      <3>4. call'[s] = [call[s] EXCEPT !.pc = "supersede", !.round = k]
        BY <1>1, <3>1 DEF TypeOK
      <3>5. /\ snapshots[n].round <= r
            /\ snapshots[n].round \in Nat /\ r \in Nat
        BY <1>1, <2>2, <3>1 DEF IsLast, Rounds, Present, TypeOK, SnapshotRow
      <3> QED
        BY <2>2, <3>3, <3>4, <3>5
    <2>4. CASE ~BuildRound(s)
      <3>1. /\ call'[s] # Idle
            /\ \/ call'[s] = call[s]
               \/ BuildSupersede(s) \/ BuildAnchors(s) \/ BuildVariants(s) \/ BuildCollect(s)
        BY <1>1, <1>2, <1>10, <2>1, <2>4, OwnMoves, Leads DEF Numbered, Superseded
      <3>2. call'[s].round = call[s].round
        BY <1>1, <3>1, RoundKept
      <3>3. Numbered(s)
        BY <1>8, <1>10, <2>4, <3>1 DEF Numbered, Superseded
      <3> QED
        BY <2>2, <3>2, <3>3 DEF RoundInv
    <2> QED
      BY <2>3, <2>4
  <1> QED
    BY <1>4, <1>5, <1>9, <1>10 DEF RoundInv

(* So does every run. *)
LEMMA RoundInvariant ==
  ASSUME OneAtATime
  PROVE  Spec => []RoundInv
  <1>1. Init => RoundInv
    BY CallKinds DEF Init, RoundInv, InState, Present, Superseded, Numbered, PendingIsNewest,
                     RoundsDistinct
  <1>2. LifeInv /\ RoundInv /\ [Next]_vars => RoundInv'
    BY RoundStep
  <1> QED
    BY <1>1, <1>2, LifeInvariant, PTL DEF Spec

(* With one request at a time only the newest round can still be published: *)
(* SupersedeSnapshots comes before CreateSnapshot, and NextRoundNo before   *)
(* both, wherever earlier builds stopped.                                  *)
THEOREM OneRequestKeepsNewest ==
  ASSUME OneAtATime
  PROVE  Spec => []PendingIsNewest
  <1>1. RoundInv => PendingIsNewest
    BY DEF RoundInv
  <1> QED
    BY <1>1, RoundInvariant, PTL

(* With one request at a time every snapshot has a round of its own.       *)
THEOREM OneRequestNumbersRounds ==
  ASSUME OneAtATime
  PROVE  Spec => []RoundsDistinct
  <1>1. RoundInv => RoundsDistinct
    BY DEF RoundInv
  <1> QED
    BY <1>1, RoundInvariant, PTL

=============================================================================
