------------------------ MODULE EditorialDeskProofs ------------------------
(***************************************************************************)
(* Theorems about the editorial desk, for every set of variants, editors,  *)
(* ids and concurrent requests and every value of the bounds.              *)
(***************************************************************************)
EXTENDS EditorialDesk, TLAPS

(* The decision a review or a withdrawal works on has a row. *)
UnderReview(s) == call[s].pc \in {"review", "reread", "markDecided", "withdraw"}
ReviewsPresent == \A s \in Slots : UnderReview(s) => decisions[call[s].decision] # Absent

TypeInv == TypeOK /\ ReviewsPresent

(* A decision row is told from a missing one by its status. *)
LEMMA RowIsPresent == \A row \in DecisionRow : row # Absent
  BY DEF DecisionRow, DecisionStatus, Absent

(* What each position of a handler says about the locals it carries. *)
LEMMA CallShape ==
  ASSUME TypeOK, NEW s \in Slots
  PROVE  /\ call[s].pc \in {"claim", "granted"} => call[s] \in ClaimCall
         /\ call[s].pc = "insertReading" => call[s] \in ReadingCall
         /\ call[s].pc \in {"findReading", "insertDecision", "markPending"} => call[s] \in DecideCall
         /\ call[s].pc \in {"review", "reread"} => call[s] \in ReviewCall
         /\ call[s].pc = "markDecided" => call[s] \in MarkCall
         /\ call[s].pc = "withdraw" => call[s] \in WithdrawCall
         /\ UnderReview(s) => call[s].decision \in DecisionIds
  <1>1. call[s] \in Calls
    BY DEF TypeOK
  <1> QED
    BY <1>1 DEF Calls, Idle, ClaimCall, ReadingCall, DecideCall, ReviewCall, MarkCall,
                WithdrawCall, UnderReview

(* A lease ends at an instant. *)
LEMMA ClaimUntil ==
  ASSUME TypeOK, NEW c \in ClaimCall
  PROVE  clock + c.term \in Nat
  <1>1. c.term \in LeaseTerms
    BY DEF ClaimCall
  <1>2. c.term \in Nat
    BY <1>1, LeaseTermAssumption
  <1> QED
    BY <1>2 DEF TypeOK

(* Every step keeps the types. *)
LEMMA TypeStep == TypeInv /\ [Next]_vars => TypeInv'
  <1> SUFFICES ASSUME TypeInv, [Next]_vars PROVE TypeInv'
    OBVIOUS
  <1> USE DEF TypeInv
  <1> USE NullAssumption, LeaseTermAssumption
  <1>1. CASE Tick
    BY <1>1 DEF Tick, TypeOK, ReviewsPresent, UnderReview, tables, history
  <1>2. CASE Restart
    BY <1>2 DEF Restart, TypeOK, ReviewsPresent, UnderReview, Calls, Idle, tables, history
  <1>3. ASSUME NEW v \in Variants, NEW e \in Editors, ReleaseVariant(v, e)
        PROVE  TypeInv'
    <2>1. Released(variant[v]) \in VariantRow
      BY DEF Released, TypeOK, VariantRow, VariantStatus
    <2> QED
      BY <1>3, <2>1 DEF ReleaseVariant, TypeOK, ReviewsPresent, UnderReview, history
  <1>4. ASSUME NEW s \in Slots, Abort(s)
        PROVE  TypeInv'
    BY <1>4 DEF Abort, Return, TypeOK, ReviewsPresent, UnderReview, Calls, Idle, tables, history
  <1>5. ASSUME NEW s \in Slots, Arrive(s)
        PROVE  TypeInv'
    <2>1. ASSUME NEW v \in Variants, NEW e \in Editors, NEW t \in LeaseTerms,
                 ClaimCheck(s, v, e, t)
          PROVE  TypeInv'
      BY <2>1 DEF ClaimCheck, Begin, TypeOK, ReviewsPresent, UnderReview, Calls, ClaimCall,
                  VariantRow, tables, history
    <2>2. ASSUME NEW v \in Variants, NEW w \in Witnesses, NEW r \in ReadingIds,
                 ReadingCheck(s, v, w, r)
          PROVE  TypeInv'
      BY <2>2 DEF ReadingCheck, Begin, TypeOK, ReviewsPresent, UnderReview, Calls, ReadingCall,
                  tables, history
    <2>3. ASSUME NEW v \in Variants, NEW r \in ReadingIds, NEW d \in DecisionIds,
                 DecideCheck(s, v, r, d)
          PROVE  TypeInv'
      BY <2>3 DEF DecideCheck, Begin, TypeOK, ReviewsPresent, UnderReview, Calls, DecideCall,
                  VariantRow, tables, history
    <2>4. ASSUME NEW d \in DecisionIds, NEW next \in {"approved", "rejected"},
                 ReviewCheck(s, d, next)
          PROVE  TypeInv'
      BY <2>4 DEF ReviewCheck, Begin, TypeOK, ReviewsPresent, UnderReview, Calls, ReviewCall,
                  DecisionRow, tables, history
    <2>5. ASSUME NEW d \in DecisionIds, WithdrawCheck(s, d)
          PROVE  TypeInv'
      BY <2>5 DEF WithdrawCheck, Begin, TypeOK, ReviewsPresent, UnderReview, Calls, WithdrawCall,
                  DecisionRow, tables, history
    <2> QED
      BY <1>5, <2>1, <2>2, <2>3, <2>4, <2>5 DEF Arrive
  <1>6. ASSUME NEW s \in Slots, Step(s)
        PROVE  TypeInv'
    <2>1. CASE ClaimTx(s)
      <3> DEFINE c == call[s]
      <3>1. c \in ClaimCall
        BY <2>1, CallShape DEF ClaimTx, At
      <3>2. NextLease(variant[c.variant], c.editor) \in Nat
        BY <3>1 DEF NextLease, TypeOK, VariantRow, ClaimCall
      <3>3. Claimed(variant[c.variant], c.editor, c.term) \in VariantRow
        <4>1. /\ variant[c.variant] \in VariantRow
              /\ c.editor \in Editors
              /\ clock + c.term \in Nat
          BY <3>1, ClaimUntil DEF TypeOK, ClaimCall
        <4> HIDE DEF c
        <4> QED
          BY <3>2, <4>1 DEF Claimed, VariantRow, VariantStatus
      <3>4. /\ variant' \in [Variants -> VariantRow]
            /\ grants' \subseteq Grant
        BY <2>1, <3>1, <3>2, <3>3 DEF ClaimTx, TypeOK, Grant, ClaimCall
      <3>5. call'[s] \in {Idle} \cup ClaimCall
        BY <2>1, <3>1 DEF ClaimTx, Goto, Return, TypeOK, ClaimCall
      <3>6. \A t \in Slots : t # s => call'[t] = call[t]
        BY <2>1 DEF ClaimTx, Goto, Return, TypeOK
      <3>7. call' \in [Slots -> Calls]
        BY <2>1, <3>5, <3>6 DEF ClaimTx, Goto, Return, TypeOK, Calls
      <3>8. ReviewsPresent'
        BY <2>1, <3>5, <3>6 DEF ClaimTx, ReviewsPresent, UnderReview, ClaimCall, Idle
      <3> QED
        BY <2>1, <3>4, <3>7, <3>8 DEF ClaimTx, TypeOK
    <2>2. CASE ClaimReply(s)
      <3>1. call' \in [Slots -> Calls] /\ ReviewsPresent'
        BY <2>2 DEF ClaimReply, Return, TypeOK, Calls, Idle, ReviewsPresent, UnderReview, tables
      <3> QED
        BY <2>2, <3>1 DEF ClaimReply, TypeOK, tables, history
    <2>3. CASE CreateReading(s)
      BY <2>3, CallShape DEF CreateReading, At, Return, TypeOK, ReviewsPresent, UnderReview, Calls,
                  Idle, ReadingCall, ReadingRow, history
    <2>4. CASE DecideReading(s)
      BY <2>4, CallShape DEF DecideReading, At, Goto, Return, TypeOK, ReviewsPresent, UnderReview,
                  Calls, Idle, DecideCall, tables, history
    <2>5. CASE CreateDecision(s)
      BY <2>5, CallShape DEF CreateDecision, At, Goto, TypeOK, ReviewsPresent, UnderReview, Calls,
                  DecideCall, DecisionRow, DecisionStatus, Outcome, Absent
    <2>6. CASE DecideMark(s)
      <3> DEFINE c == call[s]
      <3>1. c \in DecideCall
        BY <2>6, CallShape DEF DecideMark, At
      <3>2. variant' \in [Variants -> VariantRow]
        BY <2>6, <3>1 DEF DecideMark, SetVariantStatus, TypeOK, DecideCall, VariantRow, VariantStatus
      <3>3. outcome' \in [DecisionIds -> Outcome]
        BY <2>6, <3>1 DEF DecideMark, TypeOK, DecideCall, Outcome
      <3>4. call' \in [Slots -> Calls] /\ ReviewsPresent'
        BY <2>6 DEF DecideMark, Return, TypeOK, Calls, Idle, ReviewsPresent, UnderReview
      <3> QED
        BY <2>6, <3>2, <3>3, <3>4 DEF DecideMark, TypeOK
    <2>7. CASE ReviewUpdate(s)
      BY <2>7, CallShape, RowIsPresent DEF ReviewUpdate, SetDecisionStatus, At, Goto, Return, TypeOK,
                  ReviewsPresent, UnderReview, Calls, Idle, ReviewCall, DecisionRow, DecisionStatus,
                  history
    <2>8. CASE ReviewReread(s)
      BY <2>8, CallShape DEF ReviewReread, At, TypeOK, ReviewsPresent, UnderReview, Calls, ReviewCall,
                  MarkCall, DecisionRow, VariantRow, tables, history
    <2>9. CASE ReviewMark(s)
      BY <2>9, CallShape DEF ReviewMark, SetVariantStatus, At, Return, TypeOK, ReviewsPresent,
                  UnderReview, Calls, Idle, MarkCall, DecisionRow, VariantRow, VariantStatus, history
    <2>10. CASE WithdrawUpdate(s)
      BY <2>10, CallShape, RowIsPresent DEF WithdrawUpdate, SetDecisionStatus, At, Return, TypeOK,
                  ReviewsPresent, UnderReview, Calls, Idle, WithdrawCall, DecisionRow, DecisionStatus,
                  history
    <2> QED
      BY <1>6, <2>1, <2>2, <2>3, <2>4, <2>5, <2>6, <2>7, <2>8, <2>9, <2>10 DEF Step
  <1>7. CASE UNCHANGED vars
    BY <1>7 DEF vars, tables, history, TypeOK, ReviewsPresent, UnderReview
  <1> QED
    BY <1>1, <1>2, <1>3, <1>4, <1>5, <1>6, <1>7 DEF Next

(* Every run has the types. *)
LEMMA TypeInvariant == Spec => []TypeInv
  <1>1. Init => TypeInv
    BY NullAssumption DEF Init, FreshVariant, TypeInv, TypeOK, ReviewsPresent, UnderReview,
       VariantRow, VariantStatus, Calls, Idle, Grant, Outcome
  <1> QED
    BY <1>1, TypeStep, PTL DEF Spec

(* The tables, the requests in flight and the history keep their types.    *)
THEOREM TypeCorrect == Spec => []TypeOK
  BY TypeInvariant, PTL DEF TypeInv

-----------------------------------------------------------------------------
(* Leases. *)

(* No lease beyond the stored version was ever granted, and the stored     *)
(* version was granted to nobody but the variant's named holder.  Without  *)
(* the second part a renewal could reuse another editor's version.         *)
HolderHasNewest ==
    \A g \in grants :
        /\ g.lease <= variant[g.variant].leaseVersion
        /\ /\ g.lease = variant[g.variant].leaseVersion
           /\ variant[g.variant].claimedBy # NoEditor
           => variant[g.variant].claimedBy = g.editor

LeaseInv == HolderHasNewest /\ FencingToken /\ HolderHasExpiry

(* Only ClaimTx and ReleaseVariant write the columns of a lease. *)
LEMMA LeaseColumnsKept ==
  ASSUME TypeInv, [Next]_vars,
         \A v \in Variants, e \in Editors : ~ReleaseVariant(v, e),
         \A s \in Slots : ~ClaimTx(s)
  PROVE  /\ \A v \in Variants :
              /\ variant'[v].claimedBy = variant[v].claimedBy
              /\ variant'[v].leaseVersion = variant[v].leaseVersion
              /\ variant'[v].expires = variant[v].expires
         /\ grants' = grants
  <1>1. ASSUME NEW s \in Slots, DecideMark(s) \/ ReviewMark(s)
        PROVE  /\ \A v \in Variants :
                    /\ variant'[v].claimedBy = variant[v].claimedBy
                    /\ variant'[v].leaseVersion = variant[v].leaseVersion
                    /\ variant'[v].expires = variant[v].expires
               /\ grants' = grants
    BY <1>1 DEF DecideMark, ReviewMark, SetVariantStatus, TypeInv, TypeOK, VariantRow, history
  <1>2. ASSUME NEW s \in Slots, Arrive(s)
        PROVE  variant' = variant /\ grants' = grants
    BY <1>2 DEF Arrive, ClaimCheck, ReadingCheck, DecideCheck, ReviewCheck, WithdrawCheck,
                tables, history
  <1>3. ASSUME NEW s \in Slots, Step(s)
        PROVE  \/ DecideMark(s) \/ ReviewMark(s)
               \/ variant' = variant /\ grants' = grants
    BY <1>3 DEF Step, ClaimReply, CreateReading, DecideReading, CreateDecision, ReviewUpdate,
                ReviewReread, WithdrawUpdate, tables, history
  <1> QED
    BY <1>1, <1>2, <1>3 DEF Next, vars, Tick, Restart, Abort, tables, history

(* Every step keeps the newest lease version with its holder. *)
LEMMA LeaseStep == TypeInv /\ LeaseInv /\ [Next]_vars => LeaseInv'
  <1> SUFFICES ASSUME TypeInv, LeaseInv, [Next]_vars PROVE LeaseInv'
    OBVIOUS
  <1> USE DEF TypeInv
  <1>1. ASSUME NEW s \in Slots, ClaimTx(s)
        PROVE  LeaseInv'
    <2> DEFINE c == call[s]
               row == variant[c.variant]
               new == [variant |-> c.variant, editor |-> c.editor,
                       lease |-> NextLease(row, c.editor)]
    <2>1. /\ c \in ClaimCall
          /\ c.variant \in Variants
          /\ row \in VariantRow
          /\ grants \subseteq Grant
      BY <1>1, CallShape DEF ClaimTx, At, ClaimCall, TypeOK
    <2>2. CASE variant' = variant /\ grants' = grants
      BY <2>2 DEF LeaseInv, HolderHasNewest, FencingToken, HolderHasExpiry
    <2>3. CASE /\ variant' = [variant EXCEPT ![c.variant] = Claimed(row, c.editor, c.term)]
               /\ grants' = IF c.editor = NoEditor THEN grants ELSE grants \cup {new}
      <3>1. /\ variant'[c.variant].claimedBy = c.editor
            /\ variant'[c.variant].leaseVersion = NextLease(row, c.editor)
            /\ variant'[c.variant].expires = clock + c.term
            /\ \A v \in Variants \ {c.variant} : variant'[v] = variant[v]
        BY <2>1, <2>3 DEF Claimed, TypeOK, VariantRow
      <3>2. clock + c.term # Null
        BY <2>1, ClaimUntil, NullAssumption
      <3>3. HolderHasExpiry'
        BY <3>1, <3>2 DEF LeaseInv, HolderHasExpiry
      <3>4. /\ row.leaseVersion \in Nat
            /\ NextLease(row, c.editor) \in Nat
            /\ NextLease(row, c.editor) >= row.leaseVersion
            /\ NextLease(row, c.editor) = row.leaseVersion <=> row.claimedBy = c.editor
        BY <2>1 DEF NextLease, VariantRow
      <3>5. ASSUME NEW g \in grants, g.variant = c.variant
            PROVE  /\ g.lease <= NextLease(row, c.editor)
                   /\ g.lease = NextLease(row, c.editor) /\ c.editor # NoEditor
                        => g.editor = c.editor
        <4>1. /\ g.lease \in Nat
              /\ g.lease <= row.leaseVersion
              /\ g.lease = row.leaseVersion /\ row.claimedBy # NoEditor
                   => row.claimedBy = g.editor
          BY <2>1, <3>5 DEF LeaseInv, HolderHasNewest, Grant
        <4> QED
          BY <3>4, <4>1
      <3>6. ASSUME NEW g \in grants'
            PROVE  g \in grants \/ (c.editor # NoEditor /\ g = new)
        BY <2>3
      <3>7. HolderHasNewest'
        <4> SUFFICES ASSUME NEW g \in grants'
                     PROVE  /\ g.lease <= variant'[g.variant].leaseVersion
                            /\ /\ g.lease = variant'[g.variant].leaseVersion
                               /\ variant'[g.variant].claimedBy # NoEditor
                               => variant'[g.variant].claimedBy = g.editor
          BY DEF HolderHasNewest
        <4>1. CASE g = new
          BY <3>1, <3>4, <4>1
        <4>2. CASE g \in grants /\ g.variant = c.variant
          BY <3>1, <3>5, <4>2
        <4>3. CASE g \in grants /\ g.variant # c.variant
          BY <2>1, <3>1, <4>3 DEF LeaseInv, HolderHasNewest, Grant
        <4> QED
          BY <3>6, <4>1, <4>2, <4>3
      <3>8. FencingToken'
        <4> SUFFICES ASSUME NEW g \in grants', NEW h \in grants',
                            g.variant = h.variant, g.lease = h.lease
                     PROVE  g.editor = h.editor
          BY DEF FencingToken
        <4>1. CASE g \in grants /\ h \in grants
          BY <4>1 DEF LeaseInv, FencingToken
        <4>2. CASE g = new /\ c.editor # NoEditor
          BY <3>5, <3>6, <4>2
        <4>3. CASE h = new /\ c.editor # NoEditor
          BY <3>5, <3>6, <4>3
        <4> QED
          BY <3>6, <4>1, <4>2, <4>3
      <3> QED
        BY <3>3, <3>7, <3>8 DEF LeaseInv
    <2> QED
      BY <1>1, <2>2, <2>3 DEF ClaimTx
  <1>2. ASSUME NEW v \in Variants, NEW e \in Editors, ReleaseVariant(v, e)
        PROVE  LeaseInv'
    <2>1. /\ grants' = grants /\ grants \subseteq Grant
          /\ variant'[v].claimedBy = NoEditor
          /\ variant'[v].leaseVersion = variant[v].leaseVersion
          /\ \A u \in Variants \ {v} : variant'[u] = variant[u]
      BY <1>2 DEF ReleaseVariant, Released, TypeOK, VariantRow, history
    <2> QED
      BY <2>1 DEF LeaseInv, HolderHasNewest, FencingToken, HolderHasExpiry, Grant
  <1>3. ASSUME \A v \in Variants, e \in Editors : ~ReleaseVariant(v, e),
               \A s \in Slots : ~ClaimTx(s)
        PROVE  LeaseInv'
    BY <1>3, LeaseColumnsKept
       DEF LeaseInv, HolderHasNewest, FencingToken, HolderHasExpiry, Grant, TypeOK
  <1> QED
    BY <1>1, <1>2, <1>3

(* Every run keeps it. *)
LEMMA LeaseInvariant == Spec => [](TypeInv /\ LeaseInv)
  <1>1. Init => LeaseInv
    BY DEF Init, FreshVariant, LeaseInv, HolderHasNewest, FencingToken, HolderHasExpiry
  <1> QED
    BY <1>1, LeaseStep, TypeInvariant, PTL DEF Spec

(* A lease version of a variant was never committed for two named editors. *)
THEOREM FencingTokens == Spec => []FencingToken
  BY LeaseInvariant, PTL DEF LeaseInv

(* No variant is held without an expiry. *)
THEOREM HoldersExpire == Spec => []HolderHasExpiry
  BY LeaseInvariant, PTL DEF LeaseInv

(* While a lease runs, a step leaves its holder or takes it by a release. *)
LEMMA LeaseKeptStep ==
  ASSUME TypeInv, [Next]_vars
  PROVE  \A v \in Variants :
           variant[v].claimedBy # NoEditor /\ Running(variant[v])
             => variant'[v].claimedBy \in {variant[v].claimedBy, NoEditor}
  <1> SUFFICES ASSUME NEW v \in Variants, variant[v].claimedBy # NoEditor, Running(variant[v])
               PROVE  variant'[v].claimedBy \in {variant[v].claimedBy, NoEditor}
    OBVIOUS
  <1> USE DEF TypeInv
  <1>1. ASSUME NEW s \in Slots, ClaimTx(s)
        PROVE  variant'[v].claimedBy \in {variant[v].claimedBy, NoEditor}
    <2> DEFINE c == call[s]
               row == variant[c.variant]
    <2>1. CASE /\ Claimable(row, c.editor, c.lease)
               /\ variant' = [variant EXCEPT ![c.variant] = Claimed(row, c.editor, c.term)]
      <3>1. CASE c.variant = v
        <4>1. row.claimedBy = c.editor
          BY <2>1, <3>1 DEF Claimable, HeldByOther
        <4> QED
          BY <2>1, <3>1, <4>1 DEF Claimed, TypeOK, VariantRow
      <3>2. CASE c.variant # v
        BY <2>1, <3>2 DEF TypeOK
      <3> QED
        BY <3>1, <3>2
    <2> QED
      BY <1>1, <2>1 DEF ClaimTx
  <1>2. ASSUME NEW u \in Variants, NEW e \in Editors, ReleaseVariant(u, e)
        PROVE  variant'[v].claimedBy \in {variant[v].claimedBy, NoEditor}
    BY <1>2 DEF ReleaseVariant, Released, TypeOK, VariantRow, history
  <1> QED
    BY <1>1, <1>2, LeaseColumnsKept

(* A claim never takes an unexpired lease from its holder. *)
THEOREM LeasesNotPreempted == Spec => LeaseNotPreempted
  <1>1. TypeInv /\ [Next]_vars =>
          [\A v \in Variants :
             variant[v].claimedBy # NoEditor /\ Running(variant[v])
               => variant'[v].claimedBy \in {variant[v].claimedBy, NoEditor}]_vars
    BY LeaseKeptStep
  <1> QED
    BY <1>1, TypeInvariant, PTL DEF Spec, LeaseNotPreempted

-----------------------------------------------------------------------------
(* Rows are written once, decisions adopt stored readings. *)

Drafting(s) == call[s].pc \in {"findReading", "insertDecision"}
Copying(s) == call[s].pc = "insertReading"

(* An id given to a request is no row's id and no other request's. *)
IdsReserved ==
    /\ \A s \in Slots : Drafting(s) => decisions[call[s].decision] = Absent
    /\ \A s, t \in Slots :
         Drafting(s) /\ Drafting(t) /\ call[s].decision = call[t].decision => s = t
    /\ \A s \in Slots : Copying(s) => readings[call[s].reading] = Absent
    /\ \A s, t \in Slots :
         Copying(s) /\ Copying(t) /\ call[s].reading = call[t].reading => s = t

(* The reading checked before the insertion is still there: none is        *)
(* deleted or overwritten.                                                 *)
AdoptedExists ==
    \A s \in Slots : call[s].pc = "insertDecision" => Adoptable(call[s].reading, call[s].variant)

DraftInv == IdsReserved /\ AdoptedExists /\ DecisionsTraceable

(* A step that writes neither table and starts or moves no draft. *)
Undrafted ==
    /\ readings' = readings /\ decisions' = decisions
    /\ \A s \in Slots : \/ call'[s] = call[s]
                        \/ call'[s].pc \notin {"findReading", "insertDecision", "insertReading"}

(* Goto moves a request and keeps its locals. *)
LEMMA GotoMoves ==
  ASSUME TypeOK, NEW s \in Slots, NEW pc, call[s] # Idle, Goto(s, pc)
  PROVE  /\ call'[s] = [call[s] EXCEPT !.pc = pc]
         /\ call'[s].pc = pc
         /\ \A t \in Slots : t # s => call'[t] = call[t]
  <1>1. /\ call'[s] = [call[s] EXCEPT !.pc = pc]
        /\ \A t \in Slots : t # s => call'[t] = call[t]
    BY DEF Goto, TypeOK
  <1>2. call[s] \in Calls
    BY DEF TypeOK
  <1>3. [call[s] EXCEPT !.pc = pc].pc = pc
    BY <1>2 DEF Calls, ClaimCall, ReadingCall, DecideCall, ReviewCall, MarkCall, WithdrawCall
  <1> QED
    BY <1>1, <1>3

(* Steps that store no reading or decision and begin no request that will  *)
(* leave what requests have drafted.                                       *)
LEMMA UndraftedSteps ==
  ASSUME TypeInv, [Next]_vars,
         \A s \in Slots : /\ ~CreateReading(s) /\ ~CreateDecision(s) /\ ~DecideReading(s)
                          /\ ~ReviewUpdate(s) /\ ~WithdrawUpdate(s)
                          /\ \A v \in Variants, w \in Witnesses, r \in ReadingIds :
                               ~ReadingCheck(s, v, w, r)
                          /\ \A v \in Variants, r \in ReadingIds, d \in DecisionIds :
                               ~DecideCheck(s, v, r, d)
  PROVE  Undrafted
  <1> USE DEF TypeInv
  <1>1. ASSUME NEW s \in Slots, Arrive(s)
        PROVE  Undrafted
    BY <1>1 DEF Arrive, ClaimCheck, ReviewCheck, WithdrawCheck, Begin, Undrafted, TypeOK,
                tables, history
  <1>2. ASSUME NEW s \in Slots, Step(s)
        PROVE  Undrafted
    <2>1. CASE ClaimTx(s) \/ ClaimReply(s)
      <3>1. \/ call' = [call EXCEPT ![s] = Idle]
            \/ call[s] # Idle /\ Goto(s, "granted")
        BY <2>1 DEF ClaimTx, ClaimReply, At, Return, Idle
      <3>2. \A t \in Slots : call'[t] = call[t] \/ call'[t].pc \in {"idle", "granted"}
        <4>1. CASE call' = [call EXCEPT ![s] = Idle]
          BY <4>1 DEF Idle, TypeOK
        <4>2. CASE call[s] # Idle /\ Goto(s, "granted")
          BY <4>2, GotoMoves
        <4> QED
          BY <3>1, <4>1, <4>2
      <3> QED
        BY <2>1, <3>2 DEF ClaimTx, ClaimReply, Undrafted, tables, history
    <2>2. CASE DecideMark(s) \/ ReviewReread(s) \/ ReviewMark(s)
      BY <2>2 DEF DecideMark, ReviewReread, ReviewMark, Return, Idle, Undrafted, TypeOK,
                  tables, history
    <2> QED
      BY <1>2, <2>1, <2>2 DEF Step
  <1>3. ASSUME NEW s \in Slots, Abort(s)
        PROVE  Undrafted
    BY <1>3 DEF Abort, Return, Idle, Undrafted, TypeOK, tables, history
  <1> QED
    BY <1>1, <1>2, <1>3
       DEF Next, vars, Tick, Restart, ReleaseVariant, Idle, Undrafted, tables, history

(* Every step keeps what requests have drafted. *)
LEMMA DraftStep == TypeInv /\ DraftInv /\ [Next]_vars => DraftInv'
  <1> SUFFICES ASSUME TypeInv, DraftInv, [Next]_vars PROVE DraftInv'
    OBVIOUS
  <1> USE DEF TypeInv, DraftInv
  <1>1. ASSUME NEW s \in Slots, NEW v \in Variants, NEW w \in Witnesses, NEW r \in ReadingIds,
               ReadingCheck(s, v, w, r)
        PROVE  DraftInv'
    BY <1>1 DEF ReadingCheck, FreshReading, Begin, At, TypeOK, IdsReserved, AdoptedExists,
                DecisionsTraceable, Present, Traceable, Drafting, Copying, Adoptable, tables, history
  <1>2. ASSUME NEW s \in Slots, NEW v \in Variants, NEW r \in ReadingIds, NEW d \in DecisionIds,
               DecideCheck(s, v, r, d)
        PROVE  DraftInv'
    BY <1>2 DEF DecideCheck, FreshDecision, Begin, TypeOK, IdsReserved, AdoptedExists,
                DecisionsTraceable, Present, Traceable, Drafting, Copying, Adoptable, tables, history
  <1>3. ASSUME NEW s \in Slots, CreateReading(s)
        PROVE  DraftInv'
    <2>1. /\ call[s] \in ReadingCall
          /\ readings[call[s].reading] = Absent
      BY <1>3, CallShape DEF CreateReading, At, IdsReserved, Copying
    <2>2. /\ \A r \in ReadingIds : readings[r] # Absent => readings'[r] = readings[r]
          /\ \A r \in ReadingIds : r # call[s].reading => readings'[r] = readings[r]
      BY <1>3, <2>1 DEF CreateReading, TypeOK, ReadingCall
    <2>3. /\ \A t \in Slots : t # s => call'[t] = call[t]
          /\ call'[s] = Idle /\ decisions' = decisions
      BY <1>3 DEF CreateReading, Return, TypeOK
    <2>4. IdsReserved'
      BY <1>3, <2>2, <2>3, CallShape
         DEF CreateReading, At, IdsReserved, Drafting, Copying, Idle, ReadingCall
    <2>5. AdoptedExists'
      BY <2>2, <2>3, CallShape DEF AdoptedExists, Adoptable, Idle, DecideCall
    <2>6. DecisionsTraceable'
      BY <2>2, <2>3 DEF DecisionsTraceable, Present, Traceable, TypeOK, DecisionRow
    <2> QED
      BY <2>4, <2>5, <2>6
  <1>4. ASSUME NEW s \in Slots, DecideReading(s)
        PROVE  DraftInv'
    BY <1>4, CallShape DEF DecideReading, At, Goto, Return, Idle, TypeOK, IdsReserved, AdoptedExists,
                DecisionsTraceable, Present, Traceable, Drafting, Copying, Adoptable, DecideCall,
                tables, history
  <1>5. ASSUME NEW s \in Slots, CreateDecision(s)
        PROVE  DraftInv'
    <2>1. /\ call[s] \in DecideCall
          /\ Adoptable(call[s].reading, call[s].variant)
          /\ Drafting(s)
      BY <1>5, CallShape DEF CreateDecision, At, AdoptedExists, Drafting
    <2>2. /\ \A d \in DecisionIds : d # call[s].decision => decisions'[d] = decisions[d]
          /\ decisions'[call[s].decision] =
               [variant |-> call[s].variant, reading |-> call[s].reading,
                status |-> "proposed", version |-> 1]
          /\ readings' = readings
      BY <1>5, <2>1 DEF CreateDecision, TypeOK, DecideCall
    <2>3. /\ \A t \in Slots : t # s => call'[t] = call[t]
          /\ call'[s].pc = "markPending"
      BY <1>5, <2>1 DEF CreateDecision, Goto, TypeOK, DecideCall
    <2>4. IdsReserved'
      BY <2>1, <2>2, <2>3, CallShape DEF IdsReserved, Drafting, Copying, DecideCall
    <2>5. AdoptedExists'
      BY <2>2, <2>3 DEF AdoptedExists, Adoptable
    <2>6. DecisionsTraceable'
      BY <2>1, <2>2 DEF DecisionsTraceable, Present, Traceable, Adoptable
    <2> QED
      BY <2>4, <2>5, <2>6
  <1>6. ASSUME NEW s \in Slots, ReviewUpdate(s) \/ WithdrawUpdate(s)
        PROVE  DraftInv'
    <2>1. UnderReview(s) /\ call[s].decision \in DecisionIds
      BY <1>6, CallShape DEF ReviewUpdate, WithdrawUpdate, At, UnderReview
    <2>2. decisions[call[s].decision] \in DecisionRow
      BY <2>1 DEF TypeOK, ReviewsPresent
    <2>3. \A d \in DecisionIds :
            /\ decisions'[d] = Absent <=> decisions[d] = Absent
            /\ decisions[d] # Absent => /\ decisions'[d].variant = decisions[d].variant
                                        /\ decisions'[d].reading = decisions[d].reading
      <3>1. CASE decisions' = decisions
        BY <3>1
      <3>2. ASSUME NEW next \in DecisionStatus, SetDecisionStatus(call[s].decision, next)
            PROVE  \A d \in DecisionIds :
                     /\ decisions'[d] = Absent <=> decisions[d] = Absent
                     /\ decisions[d] # Absent => /\ decisions'[d].variant = decisions[d].variant
                                                 /\ decisions'[d].reading = decisions[d].reading
        BY <2>1, <2>2, <3>2, RowIsPresent DEF SetDecisionStatus, TypeOK, DecisionRow
      <3>3. call[s].pc = "review" => call[s].next \in DecisionStatus
        BY CallShape DEF ReviewCall, DecisionStatus
      <3> QED
        BY <1>6, <3>1, <3>2, <3>3 DEF ReviewUpdate, WithdrawUpdate, At, DecisionStatus
    <2>4. /\ readings' = readings
          /\ \A t \in Slots : call'[t] = call[t] \/ ~(Drafting(t)' \/ Copying(t)')
      <3>1. \/ call' = [call EXCEPT ![s] = Idle]
            \/ call[s] # Idle /\ Goto(s, "reread")
        BY <1>6 DEF ReviewUpdate, WithdrawUpdate, At, Return, Idle
      <3>2. \A t \in Slots : call'[t] = call[t] \/ call'[t].pc \in {"idle", "reread"}
        <4>1. CASE call' = [call EXCEPT ![s] = Idle]
          BY <4>1 DEF Idle, TypeOK
        <4>2. CASE call[s] # Idle /\ Goto(s, "reread")
          BY <4>2, GotoMoves
        <4> QED
          BY <3>1, <4>1, <4>2
      <3> QED
        BY <1>6, <3>2 DEF ReviewUpdate, WithdrawUpdate, Drafting, Copying, history
    <2>5. IdsReserved'
      BY <2>3, <2>4, CallShape DEF IdsReserved, Drafting, Copying, DecideCall
    <2>6. AdoptedExists'
      BY <2>4 DEF AdoptedExists, Adoptable, Drafting
    <2>7. DecisionsTraceable'
      BY <2>3, <2>4 DEF DecisionsTraceable, Present, Traceable
    <2> QED
      BY <2>5, <2>6, <2>7
  <1>7. CASE Undrafted
    BY <1>7 DEF Undrafted, IdsReserved, AdoptedExists, DecisionsTraceable, Present, Traceable,
                Drafting, Copying, Adoptable
  <1> QED
    BY <1>1, <1>2, <1>3, <1>4, <1>5, <1>6, <1>7, UndraftedSteps

(* Every run keeps it. *)
LEMMA DraftInvariant == Spec => [](TypeInv /\ DraftInv)
  <1>1. Init => DraftInv
    BY DEF Init, DraftInv, IdsReserved, AdoptedExists, DecisionsTraceable, Present, Drafting,
           Copying, Idle
  <1> QED
    BY <1>1, DraftStep, TypeInvariant, PTL DEF Spec

(* Every stored decision adopts a stored reading of its own variant. *)
THEOREM EvidenceKept == Spec => []DecisionsTraceable
  BY DraftInvariant, PTL DEF DraftInv

-----------------------------------------------------------------------------
(* The life of a decision. *)

Updating(s) == call[s].pc \in {"review", "withdraw"}
Target(s) == IF call[s].pc = "withdraw" THEN "withdrawn" ELSE call[s].next

(* A review or withdrawal in flight read its decision at some version; if  *)
(* the row still has that version, the transition checked then is valid    *)
(* now.                                                                    *)
ReviewedFromRead ==
    \A s \in Slots : Updating(s) =>
        /\ call[s].version <= decisions[call[s].decision].version
        /\ call[s].version = decisions[call[s].decision].version =>
             ValidDecisionTransition(decisions[call[s].decision].status, Target(s))

LifeInv == TypeInv /\ DraftInv /\ ReviewedFromRead

(* The two updates either lose the race or move the row they read. *)
LEMMA UpdateShape ==
  ASSUME TypeInv, NEW s \in Slots, ReviewUpdate(s) \/ WithdrawUpdate(s)
  PROVE  LET d == call[s].decision IN
         /\ Updating(s) /\ d \in DecisionIds /\ decisions[d] \in DecisionRow
         /\ \A t \in Slots : t # s => call'[t] = call[t]
         /\ call'[s].pc \in {"idle", "reread"}
         /\ \/ decisions' = decisions
            \/ /\ decisions[d].version = call[s].version
               /\ decisions' = [decisions EXCEPT ![d] =
                    [decisions[d] EXCEPT !.status = Target(s), !.version = decisions[d].version + 1]]
  <1> DEFINE d == call[s].decision
  <1> USE DEF TypeInv
  <1>1. /\ Updating(s) /\ UnderReview(s) /\ d \in DecisionIds
    BY CallShape DEF ReviewUpdate, WithdrawUpdate, At, Updating, UnderReview
  <1>2. decisions[d] \in DecisionRow
    BY <1>1 DEF TypeOK, ReviewsPresent
  <1>3. \/ call' = [call EXCEPT ![s] = Idle]
        \/ call[s] # Idle /\ Goto(s, "reread")
    BY DEF ReviewUpdate, WithdrawUpdate, At, Return, Idle
  <1>4. /\ \A t \in Slots : t # s => call'[t] = call[t]
        /\ call'[s].pc \in {"idle", "reread"}
    <2>1. CASE call' = [call EXCEPT ![s] = Idle]
      BY <2>1 DEF Idle, TypeOK
    <2>2. CASE call[s] # Idle /\ Goto(s, "reread")
      BY <2>2, GotoMoves
    <2> QED
      BY <1>3, <2>1, <2>2
  <1>5. \/ decisions' = decisions
        \/ /\ decisions[d].version = call[s].version
           /\ SetDecisionStatus(d, Target(s))
    BY DEF ReviewUpdate, WithdrawUpdate, At, Target, DecisionIs
  <1>6. SetDecisionStatus(d, Target(s)) =>
          decisions' = [decisions EXCEPT ![d] =
             [decisions[d] EXCEPT !.status = Target(s), !.version = decisions[d].version + 1]]
    BY <1>1, <1>2 DEF SetDecisionStatus, TypeOK, DecisionRow
  <1> QED
    BY <1>1, <1>2, <1>4, <1>5, <1>6

(* Every other step leaves existing rows alone. *)
LEMMA RowsKept ==
  ASSUME TypeInv, DraftInv, [Next]_vars,
         \A s \in Slots : ~ReviewUpdate(s) /\ ~WithdrawUpdate(s)
  PROVE  \A d \in DecisionIds : decisions[d] # Absent => decisions'[d] = decisions[d]
  <1>1. ASSUME NEW s \in Slots, CreateDecision(s)
        PROVE  \A d \in DecisionIds : decisions[d] # Absent => decisions'[d] = decisions[d]
    <2>1. call[s] \in DecideCall /\ decisions[call[s].decision] = Absent
      BY <1>1, CallShape DEF CreateDecision, At, DraftInv, IdsReserved, Drafting, TypeInv
    <2> QED
      BY <1>1, <2>1 DEF CreateDecision, TypeInv, TypeOK, DecideCall
  <1>2. ASSUME NEW s \in Slots, Arrive(s)
        PROVE  decisions' = decisions
    BY <1>2 DEF Arrive, ClaimCheck, ReadingCheck, DecideCheck, ReviewCheck, WithdrawCheck, tables
  <1>3. ASSUME NEW s \in Slots, Step(s), ~CreateDecision(s)
        PROVE  decisions' = decisions
    BY <1>3 DEF Step, ClaimTx, ClaimReply, CreateReading, DecideReading, DecideMark,
                ReviewReread, ReviewMark, tables
  <1> QED
    BY <1>1, <1>2, <1>3 DEF Next, vars, Tick, Restart, Abort, ReleaseVariant, tables

(* ... and lets no request arrive at its update but by reading the row. *)
LEMMA UpdatesArrive ==
  ASSUME TypeInv, [Next]_vars, NEW s \in Slots,
         \A d \in DecisionIds : /\ ~WithdrawCheck(s, d)
                                /\ \A next \in {"approved", "rejected"} : ~ReviewCheck(s, d, next)
  PROVE  call'[s] = call[s] \/ ~Updating(s)'
  <1> USE DEF TypeInv
  <1>1. ASSUME NEW t \in Slots, Arrive(t)
        PROVE  call'[s] = call[s] \/ ~Updating(s)'
    BY <1>1 DEF Arrive, ClaimCheck, ReadingCheck, DecideCheck, ReviewCheck, WithdrawCheck, Begin,
                Updating, TypeOK
  <1>2. ASSUME NEW t \in Slots, Step(t)
        PROVE  call'[s] = call[s] \/ ~Updating(s)'
    <2>1. CASE \E pc \in {"granted", "insertDecision", "markPending", "reread"} :
                 call[t] # Idle /\ Goto(t, pc)
      BY <2>1, GotoMoves DEF Updating
    <2>2. CASE Return(t) \/ ReviewReread(t)
      BY <2>2 DEF Return, ReviewReread, Idle, Updating, TypeOK
    <2>3. call[t] # Idle
      BY <1>2 DEF Step, ClaimTx, ClaimReply, CreateReading, DecideReading, CreateDecision, DecideMark,
                  ReviewUpdate, ReviewReread, ReviewMark, WithdrawUpdate, At, Idle
    <2> QED
      BY <1>2, <2>1, <2>2, <2>3
         DEF Step, ClaimTx, ClaimReply, CreateReading, DecideReading, CreateDecision, DecideMark,
             ReviewUpdate, ReviewMark, WithdrawUpdate
  <1> QED
    BY <1>1, <1>2 DEF Next, vars, Tick, Restart, Abort, Return, ReleaseVariant, Idle, Updating, TypeOK

(* Every step keeps what a request knows of the decision it read. *)
LEMMA LifeStep == LifeInv /\ [Next]_vars => ReviewedFromRead'
  <1> SUFFICES ASSUME LifeInv, [Next]_vars, NEW s \in Slots, Updating(s)'
               PROVE  /\ call'[s].version <= decisions'[call'[s].decision].version
                      /\ call'[s].version = decisions'[call'[s].decision].version =>
                           ValidDecisionTransition(decisions'[call'[s].decision].status, Target(s)')
    BY DEF ReviewedFromRead
  <1> USE DEF LifeInv, TypeInv
  <1>1. ASSUME NEW d \in DecisionIds, NEW next \in {"approved", "rejected"}, ReviewCheck(s, d, next)
        PROVE  /\ call'[s].version <= decisions'[call'[s].decision].version
               /\ ValidDecisionTransition(decisions'[call'[s].decision].status, Target(s)')
    BY <1>1 DEF ReviewCheck, Begin, Target, TypeOK, DecisionRow, tables
  <1>2. ASSUME NEW d \in DecisionIds, WithdrawCheck(s, d)
        PROVE  /\ call'[s].version <= decisions'[call'[s].decision].version
               /\ ValidDecisionTransition(decisions'[call'[s].decision].status, Target(s)')
    BY <1>2 DEF WithdrawCheck, Begin, Target, TypeOK, DecisionRow, tables
  <1>3. CASE call'[s] = call[s]
    <2> DEFINE d == call[s].decision
    <2>1. /\ Updating(s) /\ UnderReview(s) /\ d \in DecisionIds
          /\ call[s].version \in Nat
          /\ decisions[d] # Absent /\ decisions[d] \in DecisionRow /\ decisions[d].version \in Nat
          /\ Target(s)' = Target(s)
      BY <1>3, CallShape DEF Updating, UnderReview, Target, ReviewsPresent, TypeOK, DecisionRow,
                             ReviewCall, WithdrawCall
    <2>2. CASE decisions'[d] = decisions[d]
      BY <1>3, <2>1, <2>2 DEF ReviewedFromRead
    <2>3. ASSUME NEW t \in Slots, ReviewUpdate(t) \/ WithdrawUpdate(t), decisions'[d] # decisions[d]
          PROVE  call[s].version < decisions'[d].version /\ decisions'[d].version \in Nat
      <3>1. /\ call[t].decision \in DecisionIds
            /\ decisions' = [decisions EXCEPT ![call[t].decision] =
                 [decisions[call[t].decision] EXCEPT !.status = Target(t),
                                   !.version = decisions[call[t].decision].version + 1]]
        BY <2>3, UpdateShape
      <3>2. decisions'[d].version = decisions[d].version + 1
        BY <2>1, <2>3, <3>1 DEF TypeOK, DecisionRow
      <3> QED
        BY <2>1, <3>2 DEF ReviewedFromRead
    <2>4. CASE decisions'[d] # decisions[d]
      BY <1>3, <2>1, <2>3, <2>4, RowsKept
    <2> QED
      BY <2>2, <2>4
  <1> QED
    BY <1>1, <1>2, <1>3, UpdatesArrive

(* Every run keeps it. *)
LEMMA LifeInvariant == Spec => []LifeInv
  <1>1. Init => ReviewedFromRead
    BY DEF Init, ReviewedFromRead, Updating, Idle
  <1> QED
    BY <1>1, LifeStep, DraftInvariant, PTL DEF Spec, LifeInv

(* A decision row changes along the table and with a version more. *)
LEMMA DecisionMoves ==
  ASSUME LifeInv, [Next]_vars
  PROVE  \A d \in DecisionIds :
           decisions[d] # Absent /\ decisions'[d] # decisions[d] =>
             /\ ValidDecisionTransition(decisions[d].status, decisions'[d].status)
             /\ decisions'[d] = [decisions[d] EXCEPT !.status = decisions'[d].status,
                                                     !.version = decisions[d].version + 1]
  <1> SUFFICES ASSUME NEW d \in DecisionIds, decisions[d] # Absent, decisions'[d] # decisions[d]
               PROVE  /\ ValidDecisionTransition(decisions[d].status, decisions'[d].status)
                      /\ decisions'[d] = [decisions[d] EXCEPT !.status = decisions'[d].status,
                                                              !.version = decisions[d].version + 1]
    OBVIOUS
  <1> USE DEF LifeInv
  <1>1. PICK s \in Slots : ReviewUpdate(s) \/ WithdrawUpdate(s)
    BY RowsKept
  <1>2. /\ Updating(s)
        /\ call[s].decision = d
        /\ decisions[d] \in DecisionRow
        /\ decisions[d].version = call[s].version
        /\ decisions'[d] = [decisions[d] EXCEPT !.status = Target(s),
                                                !.version = decisions[d].version + 1]
    <2>1. CASE decisions' = decisions
      BY <2>1
    <2>2. CASE call[s].decision # d
      BY <1>1, <2>2, UpdateShape DEF TypeInv, TypeOK
    <2>3. CASE call[s].decision = d /\ decisions' # decisions
      BY <1>1, <2>3, UpdateShape DEF TypeInv, TypeOK
    <2> QED
      BY <2>1, <2>2, <2>3
  <1>3. ValidDecisionTransition(decisions[d].status, Target(s))
    BY <1>2 DEF ReviewedFromRead
  <1>4. decisions'[d].status = Target(s)
    BY <1>2 DEF DecisionRow
  <1> QED
    BY <1>2, <1>3, <1>4

(* Decisions move only along ValidDecisionTransition, one version a step,  *)
(* and keep their variant and reading.                                     *)
THEOREM DecisionsFollowLifecycle == Spec => DecisionLifecycle
  <1>1. LifeInv /\ [Next]_vars =>
          [\A d \in DecisionIds :
             decisions[d] # Absent /\ decisions'[d] # decisions[d] =>
               /\ ValidDecisionTransition(decisions[d].status, decisions'[d].status)
               /\ decisions'[d] = [decisions[d] EXCEPT !.status = decisions'[d].status,
                                                       !.version = decisions[d].version + 1]]_vars
    BY DecisionMoves
  <1> QED
    BY <1>1, LifeInvariant, PTL DEF Spec, DecisionLifecycle

-----------------------------------------------------------------------------
(* What the version of a variant and its status tell about its decisions. *)

Proposing(s) == call[s].pc \in {"findReading", "insertDecision", "markPending"}
Marking(s) == call[s].pc = "markPending"

-----------------------------------------------------------------------------
(* How tables and requests move. *)

(* Every write of a variant keeps its version or raises it by one. *)
LEMMA VersionsGrow ==
  ASSUME TypeInv, [Next]_vars, NEW v \in Variants
  PROVE  /\ variant[v].version \in Nat
         /\ variant'[v].version \in Nat
         /\ variant'[v].version >= variant[v].version
  <1> USE DEF TypeInv
  <1>1. variant[v] \in VariantRow /\ variant[v].version \in Nat
    BY DEF TypeOK, VariantRow
  <1>2. variant'[v].version \in {variant[v].version, variant[v].version + 1}
    <2>1. ASSUME NEW s \in Slots, ClaimTx(s)
          PROVE  variant'[v].version = variant[v].version
      <3> DEFINE c == call[s]
      <3>1. \/ variant' = variant
            \/ variant' = [variant EXCEPT ![c.variant] = Claimed(variant[c.variant], c.editor, c.term)]
        BY <2>1 DEF ClaimTx
      <3>2. \A row \in VariantRow : Claimed(row, c.editor, c.term).version = row.version
        BY DEF Claimed, VariantRow
      <3>3. variant \in [Variants -> VariantRow]
        BY DEF TypeOK
      <3> HIDE DEF c
      <3>4. CASE c.variant = v
        BY <1>1, <3>1, <3>2, <3>3, <3>4
      <3>5. CASE c.variant # v
        BY <3>1, <3>3, <3>5
      <3> QED
        BY <3>4, <3>5
    <2>2. ASSUME NEW u \in Variants, NEW e \in Editors, ReleaseVariant(u, e)
          PROVE  variant'[v].version = variant[v].version
      BY <1>1, <2>2 DEF ReleaseVariant, Released, TypeOK, VariantRow
    <2>3. ASSUME NEW u, NEW status, SetVariantStatus(u, status)
          PROVE  variant'[v].version \in {variant[v].version, variant[v].version + 1}
      BY <1>1, <2>3 DEF SetVariantStatus, TypeOK, VariantRow
    <2>4. ASSUME NEW s \in Slots, Arrive(s)
          PROVE  variant' = variant
      BY <2>4 DEF Arrive, ClaimCheck, ReadingCheck, DecideCheck, ReviewCheck, WithdrawCheck, tables
    <2>5. ASSUME NEW s \in Slots, Step(s), ~ClaimTx(s)
          PROVE  variant' = variant \/ \E u, status : SetVariantStatus(u, status)
      BY <2>5 DEF Step, ClaimReply, CreateReading, DecideReading, CreateDecision, DecideMark,
                  ReviewUpdate, ReviewReread, ReviewMark, WithdrawUpdate, tables
    <2> QED
      BY <2>1, <2>2, <2>3, <2>4, <2>5 DEF Next, vars, Tick, Restart, Abort, tables
  <1> QED
    BY <1>1, <1>2

(* A row stays, and stays about its variant. *)
LEMMA RowsStay ==
  ASSUME LifeInv, [Next]_vars, NEW d \in Present
  PROVE  /\ d \in DecisionIds /\ decisions[d] \in DecisionRow
         /\ decisions'[d] # Absent
         /\ decisions'[d].variant = decisions[d].variant
  <1>1. d \in DecisionIds /\ decisions[d] # Absent /\ decisions[d] \in DecisionRow
    BY DEF Present, LifeInv, TypeInv, TypeOK
  <1>2. CASE decisions'[d] = decisions[d]
    BY <1>1, <1>2
  <1>3. CASE decisions'[d] # decisions[d]
    <2>1. decisions'[d] = [decisions[d] EXCEPT !.status = decisions'[d].status,
                                               !.version = decisions[d].version + 1]
      BY <1>1, <1>3, DecisionMoves
    <2>2. decisions'[d].variant = decisions[d].variant /\ "variant" \in DOMAIN decisions'[d]
      BY <1>1, <2>1 DEF DecisionRow
    <2>3. "variant" \notin DOMAIN Absent
      BY DEF Absent
    <2> QED
      BY <1>1, <2>2, <2>3
  <1> QED
    BY <1>2, <1>3

(* Rows are inserted by CreateDecision only. *)
LEMMA RowAppears ==
  ASSUME TypeInv, [Next]_vars, NEW d \in DecisionIds,
         decisions[d] = Absent, decisions'[d] # Absent
  PROVE  \E s \in Slots : CreateDecision(s) /\ call[s].decision = d
  <1> USE DEF TypeInv
  <1>1. ASSUME NEW s \in Slots, CreateDecision(s)
        PROVE  call[s].decision = d
    BY <1>1 DEF CreateDecision, TypeOK
  <1>2. ASSUME NEW s \in Slots, ReviewUpdate(s) \/ WithdrawUpdate(s)
        PROVE  FALSE
    <2>1. call[s].decision \in DecisionIds /\ decisions[call[s].decision] \in DecisionRow
      BY <1>2, UpdateShape
    <2>2. call[s].decision # d
      BY <2>1, RowIsPresent
    <2>3. decisions'[d] = decisions[d]
      BY <1>2, <2>1, <2>2, UpdateShape DEF TypeOK
    <2> QED
      BY <2>3
  <1>3. ASSUME NEW s \in Slots, Arrive(s)
        PROVE  decisions' = decisions
    BY <1>3 DEF Arrive, ClaimCheck, ReadingCheck, DecideCheck, ReviewCheck, WithdrawCheck, tables
  <1>4. ASSUME NEW s \in Slots, Step(s), ~CreateDecision(s), ~ReviewUpdate(s), ~WithdrawUpdate(s)
        PROVE  decisions' = decisions
    BY <1>4 DEF Step, ClaimTx, ClaimReply, CreateReading, DecideReading, DecideMark,
                ReviewReread, ReviewMark, tables
  <1> QED
    BY <1>1, <1>2, <1>3, <1>4 DEF Next, vars, Tick, Restart, Abort, ReleaseVariant, tables

(* A proposal in flight keeps its locals, and advances in its own steps only. *)
LEMMA ProposalsKept ==
  ASSUME TypeInv, [Next]_vars, NEW s \in Slots, Proposing(s)'
  PROVE  \/ call'[s] = call[s]
         \/ \E v \in Variants, r \in ReadingIds, d \in DecisionIds : DecideCheck(s, v, r, d)
         \/ DecideReading(s) /\ call'[s] = [call[s] EXCEPT !.pc = "insertDecision"]
         \/ CreateDecision(s) /\ call'[s] = [call[s] EXCEPT !.pc = "markPending"]
  <1> USE DEF TypeInv
  <1>1. ASSUME NEW t \in Slots, Arrive(t)
        PROVE  \/ call'[s] = call[s]
               \/ \E v \in Variants, r \in ReadingIds, d \in DecisionIds : DecideCheck(s, v, r, d)
    <2>1. CASE t # s
      BY <1>1, <2>1 DEF Arrive, ClaimCheck, ReadingCheck, DecideCheck, ReviewCheck, WithdrawCheck,
                        Begin, TypeOK
    <2>2. CASE t = s
      BY <1>1, <2>2 DEF Arrive, ClaimCheck, ReadingCheck, ReviewCheck, WithdrawCheck,
                        Begin, TypeOK, Proposing
    <2> QED
      BY <2>1, <2>2
  <1>2. ASSUME NEW t \in Slots, Step(t)
        PROVE  \/ call'[s] = call[s]
               \/ DecideReading(s) /\ call'[s] = [call[s] EXCEPT !.pc = "insertDecision"]
               \/ CreateDecision(s) /\ call'[s] = [call[s] EXCEPT !.pc = "markPending"]
    <2>1. call[t] # Idle
      BY <1>2 DEF Step, ClaimTx, ClaimReply, CreateReading, DecideReading, CreateDecision, DecideMark,
                  ReviewUpdate, ReviewReread, ReviewMark, WithdrawUpdate, At, Idle
    <2>2. CASE \E pc \in {"granted", "reread"} : Goto(t, pc)
      BY <2>1, <2>2, GotoMoves DEF Proposing
    <2>3. CASE Return(t) \/ ReviewReread(t)
      BY <2>3 DEF Return, ReviewReread, Idle, Proposing, TypeOK
    <2>4. CASE DecideReading(t) /\ Goto(t, "insertDecision")
      BY <2>1, <2>4, GotoMoves
    <2>5. CASE CreateDecision(t) /\ Goto(t, "markPending")
      BY <2>1, <2>5, GotoMoves
    <2> QED
      BY <1>2, <2>2, <2>3, <2>4, <2>5
         DEF Step, ClaimTx, ClaimReply, CreateReading, DecideReading, CreateDecision, DecideMark,
             ReviewUpdate, ReviewMark, WithdrawUpdate
  <1> QED
    BY <1>1, <1>2 DEF Next, vars, Tick, Restart, Abort, Return, ReleaseVariant, Idle, Proposing, TypeOK

(* The history of a decision is written by the two steps that follow its   *)
(* id: the insertion and the answer.                                       *)
LEMMA OutcomeMoves ==
  ASSUME TypeInv, [Next]_vars, NEW d \in DecisionIds
  PROVE  \/ outcome'[d] = outcome[d]
         \/ \E s \in Slots : /\ CreateDecision(s) /\ call[s].decision = d
                            /\ outcome'[d].base = call[s].base
                            /\ outcome'[d].answer = outcome[d].answer
         \/ \E s \in Slots : DecideMark(s) /\ call[s].decision = d
  <1> USE DEF TypeInv
  <1>1. ASSUME NEW s \in Slots, CreateDecision(s)
        PROVE  \/ outcome'[d] = outcome[d]
               \/ /\ call[s].decision = d
                  /\ outcome'[d].base = call[s].base
                  /\ outcome'[d].answer = outcome[d].answer
    BY <1>1 DEF CreateDecision, TypeOK, Outcome
  <1>2. ASSUME NEW s \in Slots, DecideMark(s)
        PROVE  outcome'[d] = outcome[d] \/ call[s].decision = d
    BY <1>2 DEF DecideMark, TypeOK
  <1>3. ASSUME NEW s \in Slots, Arrive(s)
        PROVE  outcome' = outcome
    BY <1>3 DEF Arrive, ClaimCheck, ReadingCheck, DecideCheck, ReviewCheck, WithdrawCheck, history
  <1>4. ASSUME NEW s \in Slots, Step(s), ~CreateDecision(s), ~DecideMark(s)
        PROVE  outcome' = outcome
    BY <1>4 DEF Step, ClaimTx, ClaimReply, CreateReading, DecideReading, ReviewUpdate, ReviewReread,
                ReviewMark, WithdrawUpdate, history
  <1> QED
    BY <1>1, <1>2, <1>3, <1>4 DEF Next, vars, Tick, Restart, Abort, ReleaseVariant, history

(* An answer is success exactly when the variant still has the version the *)
(* proposal read, and then that version is passed.                         *)
LEMMA AnswerShape ==
  ASSUME TypeInv, NEW s \in Slots, DecideMark(s)
  PROVE  LET c == call[s] IN
         /\ c \in DecideCall /\ Marking(s) /\ call'[s] = Idle /\ decisions' = decisions
         /\ \A d \in DecisionIds : d # c.decision => outcome'[d] = outcome[d]
         /\ outcome'[c.decision].base = outcome[c.decision].base
         /\ outcome'[c.decision].answer = "accepted" =>
              /\ variant[c.variant].version = c.base
              /\ variant'[c.variant].version = c.base + 1
  <1> DEFINE c == call[s]
  <1>1. c \in DecideCall /\ Marking(s)
    BY CallShape DEF DecideMark, At, Marking, TypeInv
  <1>2. call'[s] = Idle /\ decisions' = decisions
    BY DEF DecideMark, Return, TypeInv, TypeOK
  <1>3. /\ \A d \in DecisionIds : d # c.decision => outcome'[d] = outcome[d]
        /\ outcome'[c.decision].base = outcome[c.decision].base
    BY <1>1 DEF DecideMark, TypeInv, TypeOK, Outcome, DecideCall
  <1>4. ASSUME outcome'[c.decision].answer = "accepted"
        PROVE  /\ variant[c.variant].version = c.base
               /\ variant'[c.variant].version = c.base + 1
    <2>1. VariantIs(c.variant, c.base) /\ SetVariantStatus(c.variant, "pending")
      BY <1>1, <1>4 DEF DecideMark, TypeInv, TypeOK, Outcome, DecideCall
    <2>2. c.variant \in Variants /\ variant[c.variant] \in VariantRow
      BY <1>1 DEF TypeInv, TypeOK, DecideCall
    <2> QED
      BY <2>1, <2>2 DEF VariantIs, SetVariantStatus, TypeInv, TypeOK, VariantRow
  <1> QED
    BY <1>1, <1>2, <1>3, <1>4

-----------------------------------------------------------------------------
(* Accepted proposals. *)

(* The row of a proposal that waits for its answer is there, under the id  *)
(* of no other such proposal, and records what the proposal was based on.  *)
AnswerDue(s) ==
    LET c == call[s] IN
    /\ decisions[c.decision] # Absent
    /\ decisions[c.decision].variant = c.variant
    /\ outcome[c.decision].base = c.base
    /\ outcome[c.decision].answer = "none"

AnswersDue ==
    /\ \A s \in Slots : Marking(s) => AnswerDue(s)
    /\ \A s, t \in Slots :
         Marking(s) /\ Marking(t) /\ call[s].decision = call[t].decision => s = t
    /\ \A d \in DecisionIds : decisions[d] = Absent => outcome[d].answer = "none"

(* No proposal is ahead of its variant, and one that was accepted moved    *)
(* its variant past the version it was based on: no later one can be based *)
(* on that version and still be accepted.                                  *)
BasesReached ==
    \A s \in Slots : Proposing(s) => call[s].base <= variant[call[s].variant].version
BasesPassed ==
    \A d \in Present : outcome[d].answer = "accepted" =>
        outcome[d].base < variant[decisions[d].variant].version

BaseInv == AnswersDue /\ BasesReached /\ BasesPassed /\ AcceptedBasesDistinct

(* Every step keeps each proposal alone and unanswered until its mark. *)
LEMMA AnswersStep == LifeInv /\ BaseInv /\ [Next]_vars => AnswersDue'
  <1> SUFFICES ASSUME LifeInv, BaseInv, [Next]_vars PROVE AnswersDue'
    OBVIOUS
  <1>1. TypeInv /\ TypeOK /\ IdsReserved /\ AnswersDue
    BY DEF LifeInv, TypeInv, DraftInv, BaseInv
  <1>2. ASSUME NEW s \in Slots, Marking(s)'
        PROVE  \/ call'[s] = call[s] /\ Marking(s)
               \/ CreateDecision(s) /\ call'[s] = [call[s] EXCEPT !.pc = "markPending"]
    <2>1. \A v \in Variants, r \in ReadingIds, d \in DecisionIds : ~DecideCheck(s, v, r, d)
      BY <1>1, <1>2 DEF Marking, DecideCheck, Begin, TypeOK
    <2>2. ~DecideReading(s)
      <3> SUFFICES ASSUME DecideReading(s) PROVE FALSE
        OBVIOUS
      <3>1. call'[s] = Idle \/ Goto(s, "insertDecision")
        BY <1>1 DEF DecideReading, Return, TypeOK
      <3>2. call[s] # Idle
        BY DEF DecideReading, At, Idle
      <3>3. CASE call'[s] = Idle
        BY <1>2, <3>3 DEF Idle, Marking
      <3>4. CASE Goto(s, "insertDecision")
        <4>1. call'[s].pc = "insertDecision"
          BY <1>1, <3>2, <3>4, GotoMoves
        <4> QED
          BY <1>2, <4>1 DEF Marking
      <3> QED
        BY <3>1, <3>3, <3>4
    <2> QED
      BY <1>1, <1>2, <2>1, <2>2, ProposalsKept DEF Marking, Proposing
  <1>3. ASSUME NEW s \in Slots, CreateDecision(s)
        PROVE  /\ call[s] \in DecideCall /\ Drafting(s)
               /\ call[s].decision \in DecisionIds
               /\ decisions[call[s].decision] = Absent
    BY <1>1, <1>3, CallShape DEF CreateDecision, At, Drafting, IdsReserved, DecideCall
  <1>4. ASSUME NEW s \in Slots, Marking(s)
        PROVE  call[s].decision \in Present
    BY <1>1, <1>4, CallShape DEF Marking, AnswersDue, AnswerDue, Present, DecideCall
  <1>5. ASSUME NEW s \in Slots, Marking(s)'
        PROVE  AnswerDue(s)'
    <2> DEFINE d == call[s].decision
    <2>1. CASE call'[s] = call[s] /\ Marking(s)
      <3>1. d \in Present /\ AnswerDue(s)
        BY <1>1, <1>4, <2>1 DEF AnswersDue
      <3>2. \A t \in Slots : ~(CreateDecision(t) /\ call[t].decision = d)
        BY <1>3, <3>1 DEF Present
      <3>3. \A t \in Slots : ~(DecideMark(t) /\ call[t].decision = d)
        <4> SUFFICES ASSUME NEW t \in Slots, DecideMark(t), call[t].decision = d PROVE FALSE
          OBVIOUS
        <4>1. Marking(t) /\ call'[t] = Idle
          BY <1>1, AnswerShape
        <4> QED
          BY <1>1, <2>1, <4>1 DEF AnswersDue, Marking, Idle
      <3>4. outcome'[d] = outcome[d]
        BY <1>1, <3>1, <3>2, <3>3, OutcomeMoves DEF Present
      <3> QED
        BY <2>1, <3>1, <3>4, RowsStay DEF AnswerDue
    <2>2. CASE CreateDecision(s) /\ call'[s] = [call[s] EXCEPT !.pc = "markPending"]
      <3>1. /\ call[s] \in DecideCall /\ d \in DecisionIds /\ decisions[d] = Absent
            /\ outcome[d] \in Outcome /\ outcome[d].answer = "none"
        BY <1>1, <1>3, <2>2 DEF AnswersDue, TypeOK
      <3>2. /\ call'[s].decision = d /\ call'[s].variant = call[s].variant
            /\ call'[s].base = call[s].base
        BY <2>2, <3>1 DEF DecideCall
      <3>3. decisions'[d] = [variant |-> call[s].variant, reading |-> call[s].reading,
                             status |-> "proposed", version |-> 1]
        BY <1>1, <2>2, <3>1 DEF CreateDecision, TypeOK
      <3>4. outcome'[d].base = call[s].base /\ outcome'[d].answer = "none"
        BY <1>1, <2>2, <3>1 DEF CreateDecision, TypeOK, Outcome
      <3> QED
        BY <3>2, <3>3, <3>4 DEF AnswerDue, Absent
    <2> QED
      BY <1>2, <1>5, <2>1, <2>2
  <1>6. ASSUME NEW s \in Slots, NEW t \in Slots, Marking(s)', Marking(t)',
               call'[s].decision = call'[t].decision
        PROVE  s = t
    <2>1. ASSUME NEW u \in Slots, CreateDecision(u), call'[u] = [call[u] EXCEPT !.pc = "markPending"]
          PROVE  call'[u].decision = call[u].decision
      BY <1>3, <2>1 DEF DecideCall
    <2>2. CASE Marking(s) /\ call'[s] = call[s] /\ Marking(t) /\ call'[t] = call[t]
      BY <1>1, <1>6, <2>2 DEF AnswersDue
    <2>3. CASE CreateDecision(s) /\ CreateDecision(t)
      BY <1>1, <1>2, <1>3, <1>6, <2>1, <2>3 DEF IdsReserved, Marking, CreateDecision, At
    <2>4. ASSUME NEW u \in Slots, NEW w \in Slots, CreateDecision(u),
                 call'[u] = [call[u] EXCEPT !.pc = "markPending"],
                 Marking(w), call'[w] = call[w]
          PROVE  call'[u].decision # call'[w].decision
      BY <1>3, <1>4, <2>1, <2>4 DEF Present
    <2> QED
      BY <1>2, <1>6, <2>2, <2>3, <2>4
  <1>7. ASSUME NEW d \in DecisionIds, decisions'[d] = Absent
        PROVE  outcome'[d].answer = "none"
    <2>1. decisions[d] = Absent
      BY <1>7, RowsStay DEF Present
    <2>2. \A t \in Slots : ~(DecideMark(t) /\ call[t].decision = d)
      BY <1>1, <1>4, <2>1, AnswerShape DEF Present
    <2> QED
      BY <1>1, <2>1, <2>2, OutcomeMoves DEF AnswersDue
  <1> QED
    BY <1>5, <1>6, <1>7 DEF AnswersDue

(* Every step keeps the bases of proposals at or below the versions. *)
LEMMA BasesStep == LifeInv /\ BaseInv /\ [Next]_vars => BasesReached' /\ BasesPassed'
  <1> SUFFICES ASSUME LifeInv, BaseInv, [Next]_vars PROVE BasesReached' /\ BasesPassed'
    OBVIOUS
  <1>1. TypeInv /\ TypeOK /\ IdsReserved /\ AnswersDue
    BY DEF LifeInv, TypeInv, DraftInv, BaseInv
  <1>2. ASSUME NEW s \in Slots, Proposing(s)'
        PROVE  call'[s].base <= variant'[call'[s].variant].version
    <2>1. CASE \E v \in Variants, r \in ReadingIds, d \in DecisionIds : DecideCheck(s, v, r, d)
      BY <1>1, <2>1 DEF DecideCheck, Begin, TypeOK, VariantRow, tables
    <2>2. CASE /\ Proposing(s)
               /\ \/ call'[s] = call[s]
                  \/ \E pc \in {"insertDecision", "markPending"} :
                       call'[s] = [call[s] EXCEPT !.pc = pc]
      <3>1. call[s] \in DecideCall
        BY <1>1, <2>2, CallShape DEF Proposing
      <3>2. call'[s].base = call[s].base /\ call'[s].variant = call[s].variant
        BY <2>2, <3>1 DEF DecideCall
      <3>3. call[s].base \in Nat /\ call[s].variant \in Variants
        BY <3>1 DEF DecideCall
      <3> QED
        BY <1>1, <2>2, <3>2, <3>3, VersionsGrow DEF BaseInv, BasesReached
    <2>3. DecideReading(s) \/ CreateDecision(s) => Proposing(s)
      BY DEF DecideReading, CreateDecision, At, Proposing
    <2>4. call'[s] = call[s] => Proposing(s)
      BY <1>2 DEF Proposing
    <2> QED
      BY <1>1, <1>2, <2>1, <2>2, <2>3, <2>4, ProposalsKept
  <1>3. ASSUME NEW d \in DecisionIds, decisions'[d] # Absent, outcome'[d].answer = "accepted"
        PROVE  outcome'[d].base < variant'[decisions'[d].variant].version
    <2>1. CASE outcome'[d] = outcome[d]
      <3>1. d \in Present /\ outcome[d].answer = "accepted"
        BY <1>1, <1>3, <2>1 DEF AnswersDue, Present
      <3>2. /\ decisions'[d].variant = decisions[d].variant
            /\ decisions[d].variant \in Variants
            /\ outcome[d].base \in Nat
        BY <1>1, <3>1, RowsStay DEF DecisionRow, TypeOK, Outcome
      <3>3. outcome[d].base < variant[decisions[d].variant].version
        BY <3>1 DEF BaseInv, BasesPassed
      <3> QED
        BY <1>1, <2>1, <3>2, <3>3, VersionsGrow
    <2>2. ASSUME NEW s \in Slots, CreateDecision(s), call[s].decision = d,
                 outcome'[d].answer = outcome[d].answer
          PROVE  FALSE
      <3>1. decisions[d] = Absent
        BY <1>1, <2>2 DEF CreateDecision, At, Drafting, IdsReserved
      <3> QED
        BY <1>1, <1>3, <2>2, <3>1 DEF AnswersDue
    <2>3. ASSUME NEW s \in Slots, DecideMark(s), call[s].decision = d
          PROVE  outcome'[d].base < variant'[decisions'[d].variant].version
      <3>1. /\ call[s] \in DecideCall /\ Marking(s) /\ decisions' = decisions
            /\ outcome'[d].base = outcome[d].base
            /\ variant'[call[s].variant].version = call[s].base + 1
        BY <1>1, <1>3, <2>3, AnswerShape
      <3>2. decisions[d].variant = call[s].variant /\ outcome[d].base = call[s].base
        BY <1>1, <2>3, <3>1 DEF AnswersDue, AnswerDue
      <3>3. call[s].base \in Nat
        BY <3>1 DEF DecideCall
      <3> QED
        BY <3>1, <3>2, <3>3
    <2> QED
      BY <1>1, <2>1, <2>2, <2>3, OutcomeMoves
  <1> QED
    BY <1>2, <1>3 DEF BasesReached, BasesPassed, Present

(* Every step keeps the accepted bases of a variant distinct. *)
LEMMA DistinctStep == LifeInv /\ BaseInv /\ [Next]_vars => AcceptedBasesDistinct'
  <1> SUFFICES ASSUME LifeInv, BaseInv, [Next]_vars,
                      NEW d \in DecisionIds, NEW e \in DecisionIds,
                      decisions'[d] # Absent, decisions'[e] # Absent,
                      outcome'[d].answer = "accepted", outcome'[e].answer = "accepted",
                      decisions'[d].variant = decisions'[e].variant,
                      outcome'[d].base = outcome'[e].base,
                      d # e
               PROVE  FALSE
    BY DEF AcceptedBasesDistinct, Present
  <1>1. TypeInv /\ TypeOK /\ IdsReserved /\ AnswersDue
    BY DEF LifeInv, TypeInv, DraftInv, BaseInv
  <1>2. ASSUME NEW f \in DecisionIds, outcome'[f] = outcome[f], outcome'[f].answer = "accepted"
        PROVE  /\ f \in Present /\ outcome[f].answer = "accepted"
               /\ decisions'[f].variant = decisions[f].variant
               /\ outcome[f].base < variant[decisions[f].variant].version
    <2>1. f \in Present
      BY <1>1, <1>2 DEF AnswersDue, Present
    <2> QED
      BY <1>2, <2>1, RowsStay DEF BaseInv, BasesPassed
  <1>3. ASSUME NEW f \in DecisionIds, outcome'[f] # outcome[f], outcome'[f].answer = "accepted"
        PROVE  \E s \in Slots : DecideMark(s) /\ call[s].decision = f
    <2>1. ASSUME NEW s \in Slots, CreateDecision(s), call[s].decision = f,
                 outcome'[f].answer = outcome[f].answer
          PROVE  FALSE
      BY <1>1, <1>3, <2>1 DEF CreateDecision, At, Drafting, IdsReserved, AnswersDue
    <2> QED
      BY <1>1, <1>3, <2>1, OutcomeMoves
  <1>4. CASE outcome'[d] = outcome[d] /\ outcome'[e] = outcome[e]
    BY <1>2, <1>4 DEF BaseInv, AcceptedBasesDistinct
  <1>5. ASSUME NEW f \in DecisionIds, NEW g \in DecisionIds, f # g,
               outcome'[f] # outcome[f],
               outcome'[f].answer = "accepted", outcome'[g].answer = "accepted",
               decisions'[f].variant = decisions'[g].variant
        PROVE  outcome'[f].base # outcome'[g].base
    <2>1. PICK s \in Slots : DecideMark(s) /\ call[s].decision = f
      BY <1>3, <1>5
    <2>2. /\ call[s] \in DecideCall /\ Marking(s) /\ decisions' = decisions
          /\ outcome'[g] = outcome[g]
          /\ outcome'[f].base = outcome[f].base
          /\ variant[call[s].variant].version = call[s].base
      BY <1>1, <1>5, <2>1, AnswerShape
    <2>3. decisions[f].variant = call[s].variant /\ outcome[f].base = call[s].base
      BY <1>1, <2>1, <2>2 DEF AnswersDue, AnswerDue
    <2>4. outcome[g].base < variant[decisions[g].variant].version
      BY <1>2, <1>5, <2>2
    <2>5. outcome[g].base \in Nat
      BY <1>1 DEF TypeOK, Outcome
    <2> QED
      BY <1>5, <2>2, <2>3, <2>4, <2>5
  <1> QED
    BY <1>4, <1>5

(* Every run keeps the three. *)
LEMMA BaseInvariant == Spec => [](LifeInv /\ BaseInv)
  <1>1. Init => BaseInv
    BY DEF Init, BaseInv, AnswersDue, AnswerDue, BasesReached, BasesPassed, AcceptedBasesDistinct,
           Marking, Proposing, Present, Idle
  <1>2. LifeInv /\ BaseInv /\ [Next]_vars => BaseInv'
    BY AnswersStep, BasesStep, DistinctStep DEF BaseInv
  <1> QED
    BY <1>1, <1>2, LifeInvariant, PTL DEF Spec

(* Of the proposals made against one version of a variant at most one is   *)
(* answered with success (optimistic locking of ProposeDecision).          *)
THEOREM ProposalsExclude == Spec => []AcceptedBasesDistinct
  BY BaseInvariant, PTL DEF BaseInv

-----------------------------------------------------------------------------
(* What a variant's status tells. *)

Settled(row) == \/ row.status = "approved"
                \/ row.status = "withdrawn" /\ row.version = 3

(* A decision's version counts its moves, so an approval is its second     *)
(* version and what was withdrawn at the third had been approved; a review *)
(* on its way to mark the variant decided approved its decision.           *)
VersionsCount ==
    \A d \in Present :
        /\ decisions[d].status = "proposed" => decisions[d].version = 1
        /\ decisions[d].status = "approved" => decisions[d].version = 2
MarksSettled ==
    \A s \in Slots : call[s].pc \in {"reread", "markDecided"} => Settled(decisions[call[s].decision])

StatusInv == VersionsCount /\ MarksSettled /\ StatusBacked

(* A variant becomes pending by an answer and decided by a review's mark.  *)
LEMMA StatusMoves ==
  ASSUME TypeInv, [Next]_vars, NEW v \in Variants,
         variant'[v].status \in {"pending", "decided"}
  PROVE  \/ variant'[v].status = variant[v].status
         \/ \E s \in Slots : /\ DecideMark(s) /\ call[s].variant = v
                            /\ variant'[v].status = "pending"
         \/ \E s \in Slots : /\ ReviewMark(s) /\ decisions[call[s].decision].variant = v
                            /\ variant'[v].status = "decided"
  <1> USE DEF TypeInv
  <1>1. ASSUME NEW s \in Slots, ClaimTx(s)
        PROVE  variant'[v].status = variant[v].status
    <2> DEFINE c == call[s]
    <2>1. \/ variant' = variant
          \/ variant' = [variant EXCEPT ![c.variant] = Claimed(variant[c.variant], c.editor, c.term)]
      BY <1>1 DEF ClaimTx
    <2>2. \A row \in VariantRow : Claimed(row, c.editor, c.term).status = "claimed"
      BY DEF Claimed, VariantRow
    <2>3. variant \in [Variants -> VariantRow]
      BY DEF TypeOK
    <2> HIDE DEF c
    <2> QED
      BY <2>1, <2>2, <2>3
  <1>2. ASSUME NEW u \in Variants, NEW e \in Editors, ReleaseVariant(u, e)
        PROVE  variant'[v].status = variant[v].status
    BY <1>2 DEF ReleaseVariant, Released, TypeOK, VariantRow, history
  <1>3. ASSUME NEW s \in Slots, DecideMark(s)
        PROVE  \/ variant'[v].status = variant[v].status
               \/ call[s].variant = v /\ variant'[v].status = "pending"
    BY <1>3 DEF DecideMark, SetVariantStatus, TypeOK, VariantRow
  <1>4. ASSUME NEW s \in Slots, ReviewMark(s)
        PROVE  \/ variant'[v].status = variant[v].status
               \/ decisions[call[s].decision].variant = v /\ variant'[v].status = "decided"
    BY <1>4 DEF ReviewMark, SetVariantStatus, TypeOK, VariantRow
  <1>5. ASSUME NEW s \in Slots, Arrive(s)
        PROVE  variant' = variant
    BY <1>5 DEF Arrive, ClaimCheck, ReadingCheck, DecideCheck, ReviewCheck, WithdrawCheck, tables
  <1>6. ASSUME NEW s \in Slots, Step(s), ~ClaimTx(s), ~DecideMark(s), ~ReviewMark(s)
        PROVE  variant' = variant
    BY <1>6 DEF Step, ClaimReply, CreateReading, DecideReading, CreateDecision,
                ReviewUpdate, ReviewReread, WithdrawUpdate, tables
  <1> QED
    BY <1>1, <1>2, <1>3, <1>4, <1>5, <1>6 DEF Next, vars, Tick, Restart, Abort, tables

(* A settled decision stays settled. *)
LEMMA SettledStays ==
  ASSUME LifeInv, VersionsCount, [Next]_vars, NEW d \in Present, Settled(decisions[d])
  PROVE  Settled(decisions'[d])
  <1>1. d \in DecisionIds /\ decisions[d] # Absent /\ decisions[d] \in DecisionRow
    BY RowsStay DEF Present
  <1>2. CASE decisions'[d] # decisions[d]
    <2>1. /\ ValidDecisionTransition(decisions[d].status, decisions'[d].status)
          /\ decisions'[d] = [decisions[d] EXCEPT !.status = decisions'[d].status,
                                                  !.version = decisions[d].version + 1]
      BY <1>1, <1>2, DecisionMoves
    <2>2. decisions[d].status = "approved" /\ decisions'[d].status = "withdrawn"
      BY <2>1 DEF ValidDecisionTransition, Settled
    <2>3. decisions[d].version = 2
      BY <2>2 DEF VersionsCount
    <2>4. decisions'[d].version = decisions[d].version + 1
      BY <1>1, <2>1 DEF DecisionRow
    <2> QED
      BY <2>2, <2>3, <2>4 DEF Settled
  <1> QED
    BY <1>2

(* Every step keeps what a decision's version tells of its past. *)
LEMMA CountsStep == LifeInv /\ StatusInv /\ [Next]_vars => VersionsCount'
  <1> SUFFICES ASSUME LifeInv, StatusInv, [Next]_vars,
                      NEW d \in DecisionIds, decisions'[d] # Absent
               PROVE  /\ decisions'[d].status = "proposed" => decisions'[d].version = 1
                      /\ decisions'[d].status = "approved" => decisions'[d].version = 2
    BY DEF VersionsCount, Present
  <1>1. TypeInv /\ TypeOK /\ VersionsCount
    BY DEF LifeInv, TypeInv, StatusInv
  <1>2. CASE decisions[d] = Absent
    <2>1. PICK s \in Slots : CreateDecision(s) /\ call[s].decision = d
      BY <1>1, <1>2, RowAppears
    <2>2. decisions'[d] = [variant |-> call[s].variant, reading |-> call[s].reading,
                           status |-> "proposed", version |-> 1]
      BY <1>1, <2>1 DEF CreateDecision, TypeOK
    <2> QED
      BY <2>2
  <1>3. CASE decisions[d] # Absent /\ decisions'[d] = decisions[d]
    BY <1>1, <1>3 DEF VersionsCount, Present
  <1>4. CASE decisions[d] # Absent /\ decisions'[d] # decisions[d]
    <2>1. /\ ValidDecisionTransition(decisions[d].status, decisions'[d].status)
          /\ decisions'[d] = [decisions[d] EXCEPT !.status = decisions'[d].status,
                                                  !.version = decisions[d].version + 1]
          /\ decisions[d] \in DecisionRow
      BY <1>1, <1>4, DecisionMoves, RowsStay DEF Present
    <2>2. decisions'[d].version = decisions[d].version + 1
      BY <2>1 DEF DecisionRow
    <2>3. decisions'[d].status # "proposed"
      BY <2>1 DEF ValidDecisionTransition
    <2>4. decisions'[d].status = "approved" => decisions[d].status = "proposed"
      BY <2>1 DEF ValidDecisionTransition
    <2> QED
      BY <1>1, <1>4, <2>2, <2>3, <2>4 DEF VersionsCount, Present
  <1> QED
    BY <1>2, <1>3, <1>4

(* A review reaches its last two positions by its own steps. *)
LEMMA MarksArrive ==
  ASSUME TypeInv, [Next]_vars, NEW s \in Slots, call'[s].pc \in {"reread", "markDecided"}
  PROVE  call'[s] = call[s] \/ ReviewUpdate(s) \/ ReviewReread(s)
  <1> USE DEF TypeInv
  <1>1. ASSUME NEW t \in Slots, Arrive(t)
        PROVE  call'[s] = call[s]
    BY <1>1 DEF Arrive, ClaimCheck, ReadingCheck, DecideCheck, ReviewCheck, WithdrawCheck, Begin, TypeOK
  <1>2. ASSUME NEW t \in Slots, Step(t), ~ReviewReread(t), ~ReviewUpdate(t)
        PROVE  call'[s] = call[s]
    <2>1. call[t] # Idle
      BY <1>2 DEF Step, ClaimTx, ClaimReply, CreateReading, DecideReading, CreateDecision, DecideMark,
                  ReviewMark, WithdrawUpdate, At, Idle
    <2>2. CASE \E pc \in {"granted", "insertDecision", "markPending"} : Goto(t, pc)
      BY <2>1, <2>2, GotoMoves
    <2>3. CASE Return(t)
      BY <2>3 DEF Return, Idle, TypeOK
    <2> QED
      BY <1>2, <2>2, <2>3
         DEF Step, ClaimTx, ClaimReply, CreateReading, DecideReading, CreateDecision, DecideMark,
             ReviewMark, WithdrawUpdate
  <1>3. ASSUME NEW t \in Slots, t # s, ReviewReread(t) \/ ReviewUpdate(t)
        PROVE  call'[s] = call[s]
    BY <1>3, UpdateShape DEF ReviewReread, TypeOK
  <1> QED
    BY <1>1, <1>2, <1>3 DEF Next, vars, Tick, Restart, Abort, Return, ReleaseVariant, Idle, TypeOK

(* Every step keeps that a mark comes after its approval. *)
LEMMA MarksStep == LifeInv /\ StatusInv /\ [Next]_vars => MarksSettled'
  <1> SUFFICES ASSUME LifeInv, StatusInv, [Next]_vars,
                      NEW s \in Slots, call'[s].pc \in {"reread", "markDecided"}
               PROVE  Settled(decisions'[call'[s].decision])
    BY DEF MarksSettled, Settled
  <1> DEFINE d == call[s].decision
  <1>1. TypeInv /\ TypeOK /\ VersionsCount /\ MarksSettled
    BY DEF LifeInv, TypeInv, StatusInv
  <1>2. CASE call'[s] = call[s]
    <2>1. d \in Present /\ Settled(decisions[d])
      BY <1>1, <1>2, CallShape DEF UnderReview, TypeInv, ReviewsPresent, Present, MarksSettled
    <2> QED
      BY <1>1, <1>2, <2>1, SettledStays
  <1>3. CASE ReviewUpdate(s)
    <2>1. call[s] \in ReviewCall
      BY <1>1, <1>3, CallShape DEF ReviewUpdate, At
    <2>2. d \in DecisionIds /\ decisions[d] \in DecisionRow
      BY <1>1, <1>3, UpdateShape
    <2>3. ~Return(s)
      BY <1>1 DEF Return, Idle, TypeOK
    <2>4. call[s].next = "approved" /\ SetDecisionStatus(d, call[s].next) /\ Goto(s, "reread")
      BY <1>3, <2>3 DEF ReviewUpdate, MarksVariant
    <2>5. decisions'[d].status = "approved"
      BY <1>1, <2>2, <2>4 DEF SetDecisionStatus, TypeOK, DecisionRow
    <2>6. call'[s].decision = d
      BY <1>1, <2>1, <2>4 DEF Goto, TypeOK, ReviewCall
    <2> QED
      BY <2>5, <2>6 DEF Settled
  <1>4. CASE ReviewReread(s)
    BY <1>1, <1>4 DEF ReviewReread, At, TypeOK, MarksSettled, tables
  <1> QED
    BY <1>1, <1>2, <1>3, <1>4, MarksArrive

(* Every step keeps each status backed by a decision. *)
LEMMA BackedStep == LifeInv /\ BaseInv /\ StatusInv /\ [Next]_vars => StatusBacked'
  <1> SUFFICES ASSUME LifeInv, BaseInv, StatusInv, [Next]_vars, NEW v \in Variants
               PROVE  /\ variant'[v].status = "pending" =>
                           \E d \in DecisionIds : decisions'[d] # Absent /\ decisions'[d].variant = v
                      /\ variant'[v].status = "decided" =>
                           \E d \in DecisionIds : /\ decisions'[d] # Absent
                                                 /\ decisions'[d].variant = v
                                                 /\ Settled(decisions'[d])
    BY DEF StatusBacked, Present, Settled
  <1>1. TypeInv /\ TypeOK /\ VersionsCount /\ MarksSettled /\ StatusBacked /\ AnswersDue
    BY DEF LifeInv, TypeInv, StatusInv, BaseInv
  <1>2. ASSUME variant'[v].status = "pending"
        PROVE  \E d \in Present : decisions[d].variant = v
    <2>1. CASE variant[v].status = "pending"
      BY <1>1, <2>1 DEF StatusBacked
    <2>2. ASSUME NEW s \in Slots, DecideMark(s), call[s].variant = v
          PROVE  \E d \in Present : decisions[d].variant = v
      BY <1>1, <2>2, AnswerShape DEF AnswersDue, AnswerDue, Present, DecideCall
    <2> QED
      BY <1>1, <1>2, <2>1, <2>2, StatusMoves
  <1>3. ASSUME variant'[v].status = "decided"
        PROVE  \E d \in Present : decisions[d].variant = v /\ Settled(decisions[d])
    <2>1. CASE variant[v].status = "decided"
      BY <1>1, <2>1 DEF StatusBacked, Settled
    <2>2. ASSUME NEW s \in Slots, ReviewMark(s), decisions[call[s].decision].variant = v
          PROVE  \E d \in Present : decisions[d].variant = v /\ Settled(decisions[d])
      BY <1>1, <2>2, CallShape
         DEF ReviewMark, At, UnderReview, TypeInv, ReviewsPresent, Present, MarksSettled
    <2> QED
      BY <1>1, <1>3, <2>1, <2>2, StatusMoves
  <1> QED
    BY <1>1, <1>2, <1>3, RowsStay, SettledStays

(* Every run keeps the three. *)
LEMMA StatusInvariant == Spec => [](LifeInv /\ BaseInv /\ StatusInv)
  <1>1. Init => StatusInv
    BY DEF Init, FreshVariant, StatusInv, VersionsCount, MarksSettled, StatusBacked, Present, Idle
  <1>2. LifeInv /\ BaseInv /\ StatusInv /\ [Next]_vars => StatusInv'
    BY CountsStep, MarksStep, BackedStep DEF StatusInv
  <1> QED
    BY <1>1, <1>2, BaseInvariant, PTL DEF Spec

(* A pending variant has a decision, a decided one a decision that was     *)
(* approved.                                                               *)
THEOREM StatusesBacked == Spec => []StatusBacked
  BY StatusInvariant, PTL DEF StatusInv

-----------------------------------------------------------------------------
(* The desk implements its two abstractions, the lease service of Lease    *)
(* and the decisions of DecisionBook.                                      *)

(* Leases. *)

LeaseView == [v \in Variants |-> LeaseOf(variant[v])]
IssuedView == {[item |-> g.variant, holder |-> g.editor, token |-> g.lease] : g \in grants}

(* The clock is moved by Tick alone, which moves nothing else. *)
LEMMA ClockKept ==
  ASSUME [Next]_vars
  PROVE  Tick \/ clock' = clock
  <1>1. ASSUME NEW s \in Slots, Arrive(s)
        PROVE  clock' = clock
    BY <1>1 DEF Arrive, ClaimCheck, ReadingCheck, DecideCheck, ReviewCheck, WithdrawCheck
  <1>2. ASSUME NEW s \in Slots, Step(s)
        PROVE  clock' = clock
    BY <1>2 DEF Step, ClaimTx, ClaimReply, CreateReading, DecideReading, CreateDecision, DecideMark,
                ReviewUpdate, ReviewReread, ReviewMark, WithdrawUpdate
  <1> QED
    BY <1>1, <1>2 DEF Next, vars, Restart, Abort, ReleaseVariant

(* The transaction of a claim acquires the lease or leaves it alone. *)
LEMMA ClaimAcquires ==
  ASSUME TypeInv, NEW s \in Slots, ClaimTx(s)
  PROVE  \/ \E v \in Variants, e \in Editors : Leasing!Acquire(v, e)
         \/ UNCHANGED <<clock, LeaseView, IssuedView>>
  <1> USE DEF TypeInv
  <1>1. /\ call[s] \in ClaimCall /\ call[s].variant \in Variants /\ call[s].editor \in Editors
        /\ clock' = clock /\ clock \in Nat
    BY CallShape DEF ClaimTx, At, ClaimCall, TypeOK
  <1>2. PICK v \in Variants, e \in Editors : v = call[s].variant /\ e = call[s].editor
    BY <1>1
  <1> DEFINE row == variant[v]
             next == NextLease(row, e)
             until == clock + call[s].term
             new == [variant |-> v, editor |-> e, lease |-> next]
  <1>3. row \in VariantRow
    BY DEF TypeOK
  <1>4. CASE variant' = variant /\ grants' = grants
    BY <1>1, <1>4 DEF LeaseView, IssuedView
  <1>5. CASE /\ Claimable(row, e, call[s].lease)
             /\ variant' = [variant EXCEPT ![v] = Claimed(row, e, call[s].term)]
             /\ grants' = IF e = NoEditor THEN grants ELSE grants \cup {new}
    <2> DEFINE held == [holder |-> e, token |-> next, until |-> until]
               issue == [item |-> v, holder |-> e, token |-> next]
    <2>1. LeaseView' = [LeaseView EXCEPT ![v] = held]
      <3>1. LeaseOf(Claimed(row, e, call[s].term)) = held
        BY <1>3 DEF LeaseOf, Claimed, VariantRow
      <3>2. \A u \in Variants : LeaseOf(variant'[u]) = IF u = v THEN held ELSE LeaseOf(variant[u])
        BY <1>5, <3>1 DEF TypeOK
      <3> HIDE DEF held
      <3> QED
        BY <3>2 DEF LeaseView
    <2>2. LeaseView[v] = [holder |-> row.claimedBy, token |-> row.leaseVersion, until |-> row.expires]
      BY DEF LeaseView, LeaseOf
    <2>3. Leasing!MayAcquire(v, e)
      <3>1. \/ row.claimedBy \in {NoEditor, e}
            \/ row.expires # Null /\ row.expires \in Nat /\ ~(clock < row.expires)
        BY <1>3, <1>5 DEF Claimable, HeldByOther, Running, VariantRow
      <3>2. row.expires \in Nat /\ ~(clock < row.expires) => row.expires <= clock
        BY <1>1
      <3> QED
        BY <2>2, <3>1, <3>2 DEF Leasing!MayAcquire, LeaseView
    <2>4. until # Null /\ until > clock
      <3>1. call[s].term \in Nat \ {0}
        BY <1>1, LeaseTermAssumption DEF ClaimCall
      <3>2. until \in Nat /\ until > clock
        BY <1>1, <3>1
      <3> QED
        BY <3>2, NullAssumption
    <2>5. LeaseView'[v] = held
      BY <2>1 DEF LeaseView
    <2>6. next = IF LeaseView[v].holder = e THEN LeaseView[v].token ELSE LeaseView[v].token + 1
      BY <2>2 DEF NextLease
    <2>7. IssuedView' = IF e = NoEditor THEN IssuedView ELSE IssuedView \cup {issue}
      <3>1. new.variant = v /\ new.editor = e /\ new.lease = next
        OBVIOUS
      <3> HIDE DEF new
      <3>2. [item |-> new.variant, holder |-> new.editor, token |-> new.lease] = issue
        BY <3>1
      <3> HIDE DEF issue
      <3> QED
        BY <1>5, <3>2 DEF IssuedView
    <2>8. Leasing!Acquire(v, e)
      <3> DEFINE token == IF LeaseView[v].holder = e THEN LeaseView[v].token
                          ELSE LeaseView[v].token + 1
      <3>1. next = token
        BY <2>6
      <3>2. held = [holder |-> e, token |-> token, until |-> LeaseView'[v].until]
        BY <2>5, <3>1
      <3>3. LeaseView' = [LeaseView EXCEPT ![v] =
                            [holder |-> e, token |-> token, until |-> LeaseView'[v].until]]
        BY <2>1, <3>2
      <3>4. LeaseView'[v].until # Null /\ LeaseView'[v].until > clock
        BY <2>4, <2>5
      <3>5. IssuedView' = IF e = NoEditor THEN IssuedView
                          ELSE IssuedView \cup {[item |-> v, holder |-> e, token |-> token]}
        BY <2>7, <3>1
      <3> HIDE DEF next, until, held
      <3> QED
        BY <1>1, <2>3, <3>3, <3>4, <3>5 DEF Leasing!Acquire, LeaseView, IssuedView
    <2> QED
      BY <2>8
  <1> QED
    BY <1>2, <1>4, <1>5 DEF ClaimTx

(* Every step of the desk is one of the lease service or changes no lease. *)
LEMMA LeaseRefines ==
  ASSUME TypeInv, [Next]_vars
  PROVE  [Leasing!Next]_(Leasing!vars)
  <1> USE DEF TypeInv
  <1>1. CASE Tick
    <2>1. clock' = clock + 1 /\ LeaseView' = LeaseView /\ IssuedView' = IssuedView
      BY <1>1 DEF Tick, tables, history, LeaseView, IssuedView
    <2> QED
      BY <2>1 DEF Leasing!Next, Leasing!Tick, LeaseView, IssuedView
  <1>2. ASSUME NEW v \in Variants, NEW e \in Editors, ReleaseVariant(v, e)
        PROVE  Leasing!Release(v)
    <2> DEFINE free == [holder |-> NoEditor, token |-> variant[v].leaseVersion, until |-> Null]
    <2>1. clock' = clock /\ grants' = grants /\ variant' = [variant EXCEPT ![v] = Released(variant[v])]
      BY <1>2 DEF ReleaseVariant, history
    <2>2. LeaseOf(Released(variant[v])) = free
      BY DEF LeaseOf, Released, TypeOK, VariantRow
    <2>3. \A u \in Variants : LeaseOf(variant'[u]) = IF u = v THEN free ELSE LeaseOf(variant[u])
      BY <2>1, <2>2 DEF TypeOK
    <2>4. LeaseView[v].token = variant[v].leaseVersion
      BY DEF LeaseView, LeaseOf
    <2>5. LeaseView' = [LeaseView EXCEPT ![v] = free]
      <3> HIDE DEF free
      <3> QED
        BY <2>3 DEF LeaseView
    <2>6. LeaseView' = [LeaseView EXCEPT ![v] =
                          [holder |-> NoEditor, token |-> LeaseView[v].token, until |-> Null]]
      BY <2>4, <2>5
    <2> HIDE DEF free
    <2> QED
      BY <2>1, <2>6 DEF Leasing!Release, LeaseView, IssuedView
  <1>3. CASE /\ ~Tick
             /\ \A v \in Variants, e \in Editors : ~ReleaseVariant(v, e)
             /\ \A s \in Slots : ~ClaimTx(s)
    <2>1. clock' = clock /\ grants' = grants
      BY <1>3, ClockKept, LeaseColumnsKept
    <2>2. \A v \in Variants : LeaseOf(variant'[v]) = LeaseOf(variant[v])
      BY <1>3, LeaseColumnsKept DEF LeaseOf
    <2> QED
      BY <2>1, <2>2 DEF Leasing!vars
  <1>4. ASSUME NEW s \in Slots, ClaimTx(s)
        PROVE  [Leasing!Next]_(Leasing!vars)
    BY <1>4, ClaimAcquires DEF Leasing!Next, Leasing!vars, LeaseView, IssuedView
  <1> QED
    BY <1>1, <1>2, <1>3, <1>4 DEF Leasing!Next

(* Claims and releases behave like the single steps of Lease.  No invariant *)
(* beyond the types is needed: the transaction judges the row anew.         *)
THEOREM LeasesRefined == Spec => LeasesAtomic
  <1>1. Init => Leasing!Init
    BY DEF Init, FreshVariant, Leasing!Init, LeaseOf
  <1>2. TypeInv /\ [Next]_vars => [Leasing!Next]_(Leasing!vars)
    BY LeaseRefines
  <1> QED
    BY <1>1, <1>2, TypeInvariant, PTL DEF Spec, LeasesAtomic, Leasing!Spec

-----------------------------------------------------------------------------
(* Decisions. *)

StatusView == [d \in DecisionIds |-> decisions[d].status]

(* Every step of the desk is one of the decision book or changes no        *)
(* status.                                                                 *)
LEMMA BookRefines ==
  ASSUME LifeInv, [Next]_vars
  PROVE  [Book!Next]_StatusView
  <1> USE DEF LifeInv, TypeInv
  <1>1. ASSUME NEW s \in Slots, CreateDecision(s)
        PROVE  Book!Next
    <2>1. /\ call[s] \in DecideCall /\ call[s].decision \in DecisionIds
          /\ decisions[call[s].decision] = Absent
      BY <1>1, CallShape DEF CreateDecision, At, DraftInv, IdsReserved, Drafting, DecideCall
    <2>2. PICK d \in DecisionIds : d = call[s].decision
      BY <2>1
    <2>3. \A e \in DecisionIds : decisions'[e].status = IF e = d THEN "proposed"
                                                        ELSE decisions[e].status
      BY <1>1, <2>1, <2>2 DEF CreateDecision, TypeOK
    <2>4. Book!Propose(d)
      BY <2>1, <2>2, <2>3 DEF Book!Propose, Absent
    <2> QED
      BY <2>4 DEF Book!Next
  <1>2. ASSUME NEW s \in Slots, ReviewUpdate(s) \/ WithdrawUpdate(s), decisions' # decisions
        PROVE  Book!Next
    <2>0. PICK d \in DecisionIds : d = call[s].decision
      BY <1>2, UpdateShape
    <2>1. /\ Updating(s) /\ decisions[d] \in DecisionRow
          /\ d = call[s].decision /\ decisions[d].version = call[s].version
          /\ decisions' = [decisions EXCEPT ![d] =
               [decisions[d] EXCEPT !.status = Target(s), !.version = decisions[d].version + 1]]
      BY <1>2, <2>0, UpdateShape
    <2>2. ValidDecisionTransition(decisions[d].status, Target(s))
      BY <2>1 DEF ReviewedFromRead
    <2>3. Target(s) \in {"approved", "rejected", "withdrawn"}
      BY <2>1, CallShape DEF Updating, Target, ReviewCall
    <2>4. \A e \in DecisionIds : decisions'[e].status = IF e = d THEN Target(s)
                                                        ELSE decisions[e].status
      BY <2>1 DEF TypeOK, DecisionRow
    <2>5. CASE Target(s) = "withdrawn"
      <3>1. Book!Withdraw(d)
        BY <2>1, <2>2, <2>4, <2>5 DEF Book!Withdraw, ValidDecisionTransition
      <3> QED
        BY <2>1, <3>1 DEF Book!Next
    <2>6. ASSUME NEW next \in {"approved", "rejected"}, Target(s) = next
          PROVE  Book!Next
      <3>1. Book!Review(d, next)
        BY <2>1, <2>2, <2>4, <2>6 DEF Book!Review, ValidDecisionTransition
      <3> QED
        BY <2>6, <3>1 DEF Book!Next
    <2> QED
      BY <2>3, <2>5, <2>6
  <1>3. CASE decisions' = decisions
    BY <1>3 DEF StatusView
  <1>4. \/ decisions' = decisions
        \/ \E s \in Slots : CreateDecision(s) \/ ReviewUpdate(s) \/ WithdrawUpdate(s)
    <2>1. ASSUME NEW s \in Slots, Arrive(s)
          PROVE  decisions' = decisions
      BY <2>1 DEF Arrive, ClaimCheck, ReadingCheck, DecideCheck, ReviewCheck, WithdrawCheck, tables
    <2>2. ASSUME NEW s \in Slots, Step(s), ~CreateDecision(s), ~ReviewUpdate(s), ~WithdrawUpdate(s)
          PROVE  decisions' = decisions
      BY <2>2 DEF Step, ClaimTx, ClaimReply, CreateReading, DecideReading, DecideMark,
                  ReviewReread, ReviewMark, tables
    <2> QED
      BY <2>1, <2>2 DEF Next, vars, Tick, Restart, Abort, ReleaseVariant, tables
  <1> QED
    BY <1>1, <1>2, <1>3, <1>4

(* Proposals, reviews and withdrawals look like single steps of             *)
(* DecisionBook to whoever reads the decisions, as Publication does.        *)
THEOREM DecisionsRefined == Spec => DecisionsAtomic
  <1>1. Init => Book!Init
    BY DEF Init, Absent, Book!Init
  <1>2. LifeInv /\ [Next]_vars => [Book!Next]_StatusView
    BY BookRefines
  <1> QED
    BY <1>1, <1>2, LifeInvariant, PTL DEF Spec, DecisionsAtomic, Book!Spec, StatusView

=============================================================================
