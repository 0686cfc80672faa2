--------------------------- MODULE RunGraphProofs ---------------------------
(* Proofs about RunGraph for every number of runs, every set of inputs,    *)
(* every concurrency and every budget of external events.                  *)
EXTENDS RunGraph, FiniteSetTheorems, TLAPS

LEMMA PlanType ==
  ASSUME NEW in \in [InputFields -> BOOLEAN], NEW b \in BOOLEAN
  PROVE  planRunChildren(in, b) \in [Kinds -> JobStatus]
  BY DEF planRunChildren, Kinds, JobStatus, InputFields

LEMMA EnsureType ==
  ASSUME NEW in \in [InputFields -> BOOLEAN], NEW ch \in [Kinds -> JobStatus]
  PROVE  ensureRunChildren(ch, in) \in [Kinds -> JobStatus]
  BY PlanType DEF ensureRunChildren

LEMMA CascadeType ==
  ASSUME NEW ch \in [Kinds -> JobStatus]
  PROVE  cascadeCancelRunChildren(ch) \in [Kinds -> JobStatus]
  BY DEF cascadeCancelRunChildren, JobStatus

LEMMA DispatchType ==
  ASSUME NEW places \in [Kinds -> ChildPlaces], NEW ks
  PROVE  Dispatch(places, ks) \in [Kinds -> ChildPlaces]
  BY DEF Dispatch, ChildPlaces

LEMMA FoldType ==
  ASSUME NEW ch \in [Kinds -> JobStatus], NEW s \in JobStatus
  PROVE  foldRunStatus(ch, s) \in JobStatus
  BY DEF foldRunStatus, JobStatus

LEMMA CancelRowsType ==
  ASSUME TypeOK, NEW R, CancelRows(R)
  PROVE  /\ run' \in [Runs -> JobStatus]
         /\ child' \in [Runs -> [Kinds -> JobStatus]]
         /\ drain' \in [Runs -> BOOLEAN]
<1>1. run' \in [Runs -> JobStatus]
  BY DEF TypeOK, CancelRows, JobStatus
<1>2. child' \in [Runs -> [Kinds -> JobStatus]]
  BY CascadeType DEF TypeOK, CancelRows
<1>3. drain' \in [Runs -> BOOLEAN]
  BY DEF TypeOK, CancelRows
<1> QED
  BY <1>1, <1>2, <1>3

LEMMA SpendType ==
  ASSUME TypeOK, NEW e \in Events, Spend(e)
  PROVE  budget' \in [Events -> Nat]
  BY DEF TypeOK, Spend

-----------------------------------------------------------------------------
(* Type correctness: one lemma per process, one step per action. *)

LEMMA RunStepType ==
  ASSUME TypeOK, NEW r \in Runs, RunStep(r)
  PROVE  TypeOK'
<1> USE DEF TypeOK, rows, agents, world
<1>1. CASE RunBegin(r)
  BY <1>1 DEF RunBegin, RunPlaces
<1>2. CASE RunSkip(r)
  BY <1>2 DEF RunSkip, RunPlaces, JobStatus
<1>3. CASE RunAdmit(r)
  <2>1. run' \in [Runs -> JobStatus] /\ rpc' \in [Runs -> RunPlaces]
    BY <1>3 DEF RunAdmit, RunPlaces, JobStatus
  <2>2. child' \in [Runs -> [Kinds -> JobStatus]]
    BY <1>3, EnsureType DEF RunAdmit
  <2>3. startedAt' \in [Runs -> Nat] /\ clock' \in Nat
    BY <1>3 DEF RunAdmit
  <2> QED
    BY <1>3, <2>1, <2>2, <2>3 DEF RunAdmit
<1>4. CASE RunLaunch(r)
  <2>1. cpc' \in [Runs -> [Kinds -> ChildPlaces]]
    BY <1>4, DispatchType DEF RunLaunch
  <2> QED
    BY <1>4, <2>1 DEF RunLaunch
<1>5. CASE RunAllDone(r)
  BY <1>5 DEF RunAllDone, RunPlaces
<1>6. CASE RunSeesCancel(r)
  BY <1>6 DEF RunSeesCancel, RunPlaces
<1>7. CASE RunCancelWaited(r)
  BY <1>7 DEF RunCancelWaited, RunPlaces
<1>8. CASE RunCancelTimeout(r)
  BY <1>8 DEF RunCancelTimeout, RunPlaces
<1>9. CASE RunDeadline(r)
  BY <1>9 DEF RunDeadline, RunPlaces, JobStatus
<1>10. CASE RunFallback(r)
  <2>1. posted' \in [Runs -> SUBSET Posts]
    BY <1>10 DEF RunFallback, Posts
  <2> QED
    BY <1>10, <2>1 DEF RunFallback, RunPlaces
<1>12. CASE RunFallbackFails(r)
  BY <1>12 DEF RunFallbackFails, RunPlaces
<1>11. CASE RunFold(r)
  <2>1. run' \in [Runs -> JobStatus]
    BY <1>11, FoldType DEF RunFold, JobStatus
  <2> QED
    BY <1>11, <2>1 DEF RunFold, RunPlaces
<1> QED
  BY <1>1, <1>2, <1>3, <1>4, <1>5, <1>6, <1>7, <1>8, <1>9, <1>10, <1>11,
     <1>12
  DEF RunStep

LEMMA ChildStepType ==
  ASSUME TypeOK, NEW r \in Runs, NEW k \in Kinds, ChildStep(r, k)
  PROVE  TypeOK'
<1> USE DEF TypeOK, rows, agents, world
<1>1. CASE ChildSlot(r, k)
  BY <1>1 DEF ChildSlot, ChildPlaces
<1>2. CASE ChildStart(r, k)
  BY <1>2 DEF ChildStart, ChildPlaces, JobStatus
<1>3. ASSUME NEW outcome \in {"ok", "err", "skip"}, AgentReturn(r, k, outcome)
      PROVE  TypeOK'
  BY <1>3 DEF AgentReturn, Returned, ChildPlaces
<1>4. ASSUME NEW success \in BOOLEAN, BugbotReview(r, success)
      PROVE  TypeOK'
  BY <1>4 DEF BugbotReview, Returned, ChildPlaces, Kinds
<1>5. CASE BugbotRefused(r)
  BY <1>5 DEF BugbotRefused, Returned, ChildPlaces, Kinds
<1>6. CASE ApprovalStops(r)
  BY <1>6 DEF ApprovalStops, ChildPlaces, JobStatus, Kinds
<1>7. CASE ApprovalFails(r)
  <2>1. cpc' \in [Runs -> [Kinds -> ChildPlaces]]
    BY <1>7 DEF ApprovalFails, ChildPlaces, Kinds
  <2> QED
    BY <1>7, <2>1 DEF ApprovalFails
<1>12. CASE ApprovalSends(r)
  <2>1. cpc' \in [Runs -> [Kinds -> ChildPlaces]]
    BY <1>12 DEF ApprovalSends, ChildPlaces, Kinds
  <2> QED
    BY <1>12, <2>1 DEF ApprovalSends
<1>11. CASE ApprovalWeighs(r)
  <2>1. cpc' \in [Runs -> [Kinds -> ChildPlaces]]
    BY <1>11 DEF ApprovalWeighs, ChildPlaces, Kinds
  <2> QED
    BY <1>11, <2>1 DEF ApprovalWeighs
<1>10. CASE ApprovalRefused(r)
  <2>1. cpc' \in [Runs -> [Kinds -> ChildPlaces]]
    BY <1>10 DEF ApprovalRefused, Returned, ChildPlaces, Kinds
  <2>2. decided' \in [Runs -> BOOLEAN]
    BY <1>10 DEF ApprovalRefused
  <2> QED
    BY <1>10, <2>1, <2>2 DEF ApprovalRefused
<1>8. ASSUME NEW accepted \in BOOLEAN, ApprovalPosted(r, accepted)
      PROVE  TypeOK'
  BY <1>8 DEF ApprovalPosted, Returned, ChildPlaces, Posts, Kinds
<1>9. CASE ChildFinish(r, k)
  BY <1>9 DEF ChildFinish, ChildPlaces, JobStatus
<1> QED
  BY <1>1, <1>2, <1>3, <1>4, <1>5, <1>6, <1>7, <1>8, <1>9, <1>10,
     <1>11, <1>12
  DEF ChildStep, AgentStep

LEMMA UserType ==
  ASSUME TypeOK, User
  PROVE  TypeOK'
<1> USE DEF rows, agents, world
<1>1. ASSUME NEW r \in Runs, NEW in \in Inputs, Enqueue(r, in)
      PROVE  TypeOK'
  <2>0. in \in [InputFields -> BOOLEAN]
    BY ConstantsAssumption
  <2>1. run' \in [Runs -> JobStatus]
    BY <1>1 DEF Enqueue, TypeOK, JobStatus
  <2>2. child' \in [Runs -> [Kinds -> JobStatus]]
    <3>1. planRunChildren(in, in.draft) \in [Kinds -> JobStatus]
      BY <2>0, PlanType DEF InputFields
    <3>2. NoChildren \in [Kinds -> JobStatus]
      BY DEF NoChildren, JobStatus
    <3> QED
      BY <1>1, <3>1, <3>2, CascadeType DEF Enqueue, TypeOK
  <2>3. drain' \in [Runs -> BOOLEAN] /\ rpc' \in [Runs -> RunPlaces]
    BY <1>1 DEF Enqueue, TypeOK, RunPlaces
  <2>4. /\ input' \in [Runs -> [InputFields -> BOOLEAN]]
        /\ force' \in [Runs -> BOOLEAN]
    BY <1>1, <2>0 DEF Enqueue, TypeOK, InputFields
  <2>5. startedAt' \in [Runs -> Nat] /\ clock' \in Nat
    BY <1>1 DEF Enqueue, TypeOK
  <2> QED
    BY <1>1, <2>1, <2>2, <2>3, <2>4, <2>5 DEF Enqueue, TypeOK
<1>2. ASSUME NEW r \in Runs, RetryRun(r)
      PROVE  TypeOK'
  <2>1. budget' \in [Events -> Nat]
    BY <1>2, SpendType DEF RetryRun, Events
  <2> QED
    BY <1>2, <2>1 DEF RetryRun, TypeOK, JobStatus, RunPlaces
<1>3. ASSUME NEW r \in Runs, CancelRun(r)
      PROVE  TypeOK'
  <2>1. budget' \in [Events -> Nat]
    BY <1>3, SpendType DEF CancelRun, Events
  <2> QED
    BY <1>3, <2>1, CancelRowsType DEF CancelRun, TypeOK
<1>4. ASSUME NEW r \in Runs, NEW k \in Kinds, CancelChild(r, k)
      PROVE  TypeOK'
  <2>1. budget' \in [Events -> Nat]
    BY <1>4, SpendType DEF CancelChild, Events
  <2> QED
    BY <1>4, <2>1 DEF CancelChild, TypeOK, JobStatus
<1>5. ASSUME NEW r \in Runs, NEW k \in Kinds, RetryChild(r, k)
      PROVE  TypeOK'
  <2>1. budget' \in [Events -> Nat]
    BY <1>5, SpendType DEF RetryChild, Events
  <2>2. cpc' \in [Runs -> [Kinds -> ChildPlaces]]
    BY <1>5, DispatchType DEF RetryChild, TypeOK
  <2> QED
    BY <1>5, <2>1, <2>2 DEF RetryChild, TypeOK, JobStatus
<1>6. CASE Merge
  <2>1. budget' \in [Events -> Nat]
    BY <1>6, SpendType DEF Merge, Events
  <2> QED
    BY <1>6, <2>1 DEF Merge, TypeOK
<1>7. CASE MergedWebhook
  BY <1>7, CancelRowsType DEF MergedWebhook, TypeOK
<1>8. CASE Resume
  <2>1. budget' \in [Events -> Nat]
    BY <1>8, SpendType DEF Resume, Events
  <2>2. cpc' \in [Runs -> [Kinds -> ChildPlaces]]
    BY <1>8, DispatchType DEF Resume, TypeOK
  <2> QED
    BY <1>8, <2>1, <2>2 DEF Resume, TypeOK, RunPlaces
<1>9. CASE Restart
  <2> DEFINE runs == [r \in Runs |-> Recovered(run[r])]
             children == [r \in Runs |-> [k \in Kinds |-> Recovered(child[r][k])]]
  <2>1. budget' \in [Events -> Nat]
    BY <1>9, SpendType DEF Restart, Events
  <2>2. runs \in [Runs -> JobStatus]
    BY DEF TypeOK, JobStatus, Recovered
  <2>3. children \in [Runs -> [Kinds -> JobStatus]]
    BY DEF TypeOK, JobStatus, Recovered
  <2>4. PICK victims :
          /\ run' = [r \in Runs |-> IF r \in victims THEN "cancelled" ELSE runs[r]]
          /\ child' = [r \in Runs |-> IF r \in victims
                                      THEN cascadeCancelRunChildren(children[r])
                                      ELSE children[r]]
    BY <1>9, Zenon DEF Restart
  <2>5. run' \in [Runs -> JobStatus]
    BY <2>2, <2>4 DEF JobStatus
  <2>6. child' \in [Runs -> [Kinds -> JobStatus]]
    BY <2>3, <2>4, CascadeType
  <2>7. cpc' \in [Runs -> [Kinds -> ChildPlaces]]
    <3>1. [k \in Kinds |-> "idle"] \in [Kinds -> ChildPlaces]
      BY DEF ChildPlaces
    <3> QED
      BY <1>9, <3>1, DispatchType DEF Restart
  <2>8. rpc' \in [Runs -> RunPlaces]
    BY <1>9 DEF Restart, RunPlaces
  <2>9. startedAt' \in [Runs -> Nat] /\ clock' \in Nat
    BY <1>9 DEF Restart, TypeOK
  <2>10. indexed' \subseteq {ShaOf[r] : r \in Runs}
    BY <1>9 DEF Restart, rebuildSuccessfulAIReviewIndex
  <2> QED
    BY <1>9, <2>1, <2>5, <2>6, <2>7, <2>8, <2>9, <2>10 DEF Restart, TypeOK
<1> QED
  BY <1>1, <1>2, <1>3, <1>4, <1>5, <1>6, <1>7, <1>8, <1>9 DEF User

LEMMA InitType == Init => TypeOK
<1> SUFFICES ASSUME Init PROVE TypeOK
  OBVIOUS
<1>1. /\ run \in [Runs -> JobStatus]
      /\ rpc \in [Runs -> RunPlaces]
      /\ child \in [Runs -> [Kinds -> JobStatus]]
      /\ cpc \in [Runs -> [Kinds -> ChildPlaces]]
  BY DEF Init, JobStatus, RunPlaces, ChildPlaces, NoChildren
<1>2. /\ input \in [Runs -> [InputFields -> BOOLEAN]]
      /\ force \in [Runs -> BOOLEAN]
      /\ startedAt \in [Runs -> Nat]
      /\ clock \in Nat
  BY DEF Init, NoInput
<1>3. /\ drain \in [Runs -> BOOLEAN] /\ pending \in [Runs -> BOOLEAN]
      /\ decided \in [Runs -> BOOLEAN] /\ reviewed \in [Runs -> BOOLEAN]
      /\ noted \in [Runs -> BOOLEAN]
      /\ indexed \subseteq {ShaOf[r] : r \in Runs}
  BY DEF Init
<1>4. posted \in [Runs -> SUBSET Posts]
  BY DEF Init, Posts
<1>5. merged \in BOOLEAN /\ budget \in [Events -> Nat]
  BY ConstantsAssumption DEF Init
<1> QED
  BY <1>1, <1>2, <1>3, <1>4, <1>5 DEF TypeOK

LEMMA NextType == TypeOK /\ [Next]_vars => TypeOK'
<1> SUFFICES ASSUME TypeOK, [Next]_vars PROVE TypeOK'
  OBVIOUS
<1>1. CASE UNCHANGED vars
  BY <1>1 DEF TypeOK, vars, rows, agents, world
<1> QED
  BY <1>1, RunStepType, ChildStepType, UserType DEF Next

(* The type invariant of the run graph: whatever is enqueued, cancelled,   *)
(* retried, merged or crashes, rows and processors stay in the states the  *)
(* code names, and the review index only holds commits of known runs.      *)
THEOREM TypeCorrect == Spec => []TypeOK
  BY InitType, NextType, PTL DEF Spec

-----------------------------------------------------------------------------
(* Only ChildSlot makes a processor hold a slot it did not hold before. *)
LEMMA OnlySlotTakes ==
  ASSUME TypeOK, [Next]_vars, NEW q \in Runs, NEW j \in Kinds,
         cpc[q][j] \notin HoldsSlot, cpc'[q][j] \in HoldsSlot
  PROVE  ChildSlot(q, j)
<1> USE DEF TypeOK, rows, agents, world
<1>1. CASE UNCHANGED vars
  BY <1>1 DEF vars
<1>2. ASSUME NEW r \in Runs, RunStep(r)
      PROVE  FALSE
  <2>1. CASE RunLaunch(r)
    BY <2>1 DEF RunLaunch, Dispatch, HoldsSlot
  <2>2. CASE ~RunLaunch(r)
    <3>1. cpc' = cpc
      BY <1>2, <2>2 DEF RunStep, RunBegin, RunSkip, RunAdmit, RunAllDone,
         RunSeesCancel, RunCancelWaited, RunCancelTimeout, RunDeadline,
         RunFallback, RunFallbackFails, RunFold
    <3> QED
      BY <3>1
  <2> QED
    BY <2>1, <2>2
<1>3. ASSUME NEW r \in Runs, NEW k \in Kinds, ChildStep(r, k)
      PROVE  ChildSlot(q, j)
  <2>1. CASE ChildSlot(r, k)
    BY <2>1 DEF ChildSlot
  <2>2. CASE ChildStart(r, k)
    BY <2>2 DEF ChildStart, HoldsSlot, ChildPlaces
  <2>3. CASE AgentStep(r, k)
    <3>1. PICK x \in ChildPlaces, h \in Kinds :
             cpc[r][h] \in HoldsSlot /\ cpc' = [cpc EXCEPT ![r][h] = x]
      <4>1. ASSUME NEW outcome \in {"ok", "err", "skip"}, AgentReturn(r, k, outcome)
            PROVE  cpc[r][k] \in HoldsSlot
                   /\ \E x \in ChildPlaces : cpc' = [cpc EXCEPT ![r][k] = x]
        BY <4>1 DEF AgentReturn, Returned, HoldsSlot, ChildPlaces
      <4>2. ASSUME NEW success \in BOOLEAN, BugbotReview(r, success)
            PROVE  cpc[r]["bugbot"] \in HoldsSlot
                   /\ \E x \in ChildPlaces : cpc' = [cpc EXCEPT ![r]["bugbot"] = x]
        BY <4>2 DEF BugbotReview, Returned, HoldsSlot, ChildPlaces
      <4>3. CASE BugbotRefused(r)
        BY <4>3 DEF BugbotRefused, Returned, HoldsSlot, ChildPlaces, Kinds
      <4>4. CASE ApprovalStops(r) \/ ApprovalFails(r) \/ ApprovalSends(r)
        BY <4>4 DEF ApprovalStops, ApprovalFails, ApprovalSends, HoldsSlot,
           ChildPlaces, Kinds
      <4>5. CASE ApprovalWeighs(r)
        BY <4>5 DEF ApprovalWeighs, HoldsSlot, ChildPlaces, Kinds
      <4>6. CASE ApprovalRefused(r)
        BY <4>6 DEF ApprovalRefused, Returned, HoldsSlot, ChildPlaces, Kinds
      <4>7. ASSUME NEW accepted \in BOOLEAN, ApprovalPosted(r, accepted)
            PROVE  cpc[r]["approval"] \in HoldsSlot
                   /\ \E x \in ChildPlaces : cpc' = [cpc EXCEPT ![r]["approval"] = x]
        BY <4>7 DEF ApprovalPosted, Returned, HoldsSlot, ChildPlaces
      <4>8. "bugbot" \in Kinds /\ "approval" \in Kinds
        BY DEF Kinds
      <4> QED
        BY <2>3, <4>1, <4>2, <4>3, <4>4, <4>5, <4>6, <4>7, <4>8 DEF AgentStep
    <3> QED
      BY <3>1
  <2>4. CASE ChildFinish(r, k)
    BY <2>4 DEF ChildFinish, HoldsSlot, ChildPlaces
  <2> QED
    BY <1>3, <2>1, <2>2, <2>3, <2>4 DEF ChildStep
<1>4. CASE User
  <2>1. ASSUME NEW r \in Runs, NEW in \in Inputs, Enqueue(r, in)
        PROVE  cpc' = cpc
    BY <2>1 DEF Enqueue
  <2>2. ASSUME NEW r \in Runs, RetryRun(r) \/ CancelRun(r)
        PROVE  cpc' = cpc
    BY <2>2 DEF RetryRun, CancelRun
  <2>3. ASSUME NEW r \in Runs, NEW k \in Kinds, CancelChild(r, k)
        PROVE  cpc' = cpc
    BY <2>3 DEF CancelChild
  <2>4. ASSUME NEW r \in Runs, NEW k \in Kinds, RetryChild(r, k)
        PROVE  FALSE
    BY <2>4 DEF RetryChild, Dispatch, HoldsSlot
  <2>5. ASSUME Merge \/ MergedWebhook
        PROVE  cpc' = cpc
    BY <2>5 DEF Merge, MergedWebhook
  <2>6. CASE Resume
    BY <2>6 DEF Resume, Dispatch, HoldsSlot
  <2>7. CASE Restart
    BY <2>7 DEF Restart, Dispatch, HoldsSlot
  <2> QED
    BY <1>4, <2>1, <2>2, <2>3, <2>4, <2>5, <2>6, <2>7 DEF User
<1> QED
  BY <1>1, <1>2, <1>3, <1>4 DEF Next

-----------------------------------------------------------------------------
(* The dependency barrier. *)

LEMMA DependsOnKinds ==
  ASSUME NEW k \in Kinds
  PROVE  DependsOn(k) \subseteq Kinds /\ k \notin DependsOn(k)
  BY DEF DependsOn, Kinds

(* A cascade takes nothing back that was terminal, and leaves nothing queued. *)
LEMMA CascadeKeepsReady ==
  ASSUME NEW ch \in [Kinds -> JobStatus], NEW k \in Kinds
  PROVE  /\ agentChildReady(ch, k) => agentChildReady(cascadeCancelRunChildren(ch), k)
         /\ cascadeCancelRunChildren(ch)[k] # "queued"
         /\ jobTerminal(ch[k]) => cascadeCancelRunChildren(ch)[k] = ch[k]
         /\ ch[k] = "absent" <=> cascadeCancelRunChildren(ch)[k] = "absent"
<1>1. ASSUME NEW d \in Kinds, jobTerminal(ch[d])
      PROVE  cascadeCancelRunChildren(ch)[d] = ch[d]
  BY <1>1 DEF cascadeCancelRunChildren, jobTerminal, InFlight
<1>2. agentChildReady(ch, k) => agentChildReady(cascadeCancelRunChildren(ch), k)
  BY <1>1, DependsOnKinds DEF agentChildReady
<1>3. cascadeCancelRunChildren(ch)[k] # "queued"
  BY DEF cascadeCancelRunChildren, InFlight
<1>4. ch[k] = "absent" <=> cascadeCancelRunChildren(ch)[k] = "absent"
  BY DEF cascadeCancelRunChildren, InFlight
<1> QED
  BY <1>1, <1>2, <1>3, <1>4

LEMMA CascadeNoChildren ==
  cascadeCancelRunChildren(NoChildren) = NoChildren
  BY DEF cascadeCancelRunChildren, NoChildren, InFlight

(* The kinds a plan misses do not depend on the draft gate. *)
LEMMA PlanAbsent ==
  ASSUME NEW in \in [InputFields -> BOOLEAN], NEW b \in BOOLEAN, NEW k \in Kinds,
         planRunChildren(in, b)[k] = "absent"
  PROVE  planRunChildren(in, FALSE)[k] = "absent"
  BY DEF planRunChildren, Kinds, InputFields

LEMMA EnsureKeeps ==
  ASSUME NEW ch \in [Kinds -> JobStatus], NEW in,
         \A k \in Kinds : ch[k] = "absent" => planRunChildren(in, FALSE)[k] = "absent"
  PROVE  ensureRunChildren(ch, in) = ch
  BY DEF ensureRunChildren

LEMMA DispatchPlaces ==
  ASSUME NEW places \in [Kinds -> ChildPlaces], NEW ks, NEW k \in Kinds
  PROVE  /\ Dispatch(places, ks)[k] # "idle" => places[k] # "idle" \/ k \in ks
         /\ Dispatch(places, ks)[k] \in HoldsSlot => places[k] \in HoldsSlot
  BY DEF Dispatch, HoldsSlot

(* A processor moves from one place to another; no row changes. *)
LEMMA PlaceMoves ==
  ASSUME BarrierKept, NEW r \in Runs, NEW k \in Kinds, NEW x \in ChildPlaces,
         cpc[r][k] # "idle",
         x \in HoldsSlot => cpc[r][k] \in HoldsSlot \/ ~jobTerminal(child[r][k]),
         cpc' = [cpc EXCEPT ![r][k] = x],
         UNCHANGED <<run, child, input>>
  PROVE  PlannedOnce' /\ WaitsForDependencies' /\ CancelledHolderBlocks'
<1> USE DEF BarrierKept
<1>1. \A q \in Runs, j \in Kinds :
        cpc'[q][j] = IF q = r /\ j = k THEN x ELSE cpc[q][j]
  BY DEF TypeOK
<1>2. PlannedOnce'
  <2> SUFFICES ASSUME NEW q \in Runs
               PROVE  PlannedRow(run[q], child[q], cpc'[q], input[q])
    BY DEF PlannedOnce
  <2>1. PlannedRow(run[q], child[q], cpc[q], input[q])
    BY DEF PlannedOnce
  <2>2. CASE q = r
    BY <2>1, <2>2 DEF PlannedRow
  <2>3. CASE q # r
    BY <2>1, <2>3 DEF TypeOK
  <2> QED
    BY <2>2, <2>3
<1>3. WaitsForDependencies'
  BY <1>1 DEF WaitsForDependencies, agentChildReady
<1>4. CancelledHolderBlocks'
  <2> SUFFICES ASSUME NEW q \in Runs, NEW d \in Kinds, NEW j \in Kinds,
                      d \in DependsOn(j), cpc'[q][d] \in HoldsSlot,
                      jobTerminal(child[q][d])
               PROVE  cpc'[q][j] = "idle" /\ child[q][j] # "queued"
    BY DEF CancelledHolderBlocks
  <2>1. cpc[q][d] \in HoldsSlot
    BY <1>1
  <2>2. cpc[q][j] = "idle" /\ child[q][j] # "queued"
    BY <2>1 DEF CancelledHolderBlocks
  <2> QED
    BY <1>1, <2>2
<1> QED
  BY <1>2, <1>3, <1>4

(* A processor that holds its slot writes its own row. *)
LEMMA RowWritten ==
  ASSUME BarrierKept, NEW r \in Runs, NEW k \in Kinds, NEW x \in ChildPlaces,
         NEW s \in JobStatus \ {"queued", "absent"},
         cpc[r][k] \in HoldsSlot,
         x = "idle" \/ ~jobTerminal(s),
         cpc' = [cpc EXCEPT ![r][k] = x],
         child' = [child EXCEPT ![r][k] = s],
         UNCHANGED <<run, input>>
  PROVE  PlannedOnce' /\ WaitsForDependencies' /\ CancelledHolderBlocks'
<1> USE DEF BarrierKept
<1>1. \A q \in Runs, j \in Kinds :
        /\ cpc'[q][j] = IF q = r /\ j = k THEN x ELSE cpc[q][j]
        /\ child'[q][j] = IF q = r /\ j = k THEN s ELSE child[q][j]
  BY DEF TypeOK
<1>2. \A j \in Kinds : k \in DependsOn(j) => cpc[r][j] = "idle" /\ j # k
  <2> SUFFICES ASSUME NEW j \in Kinds, k \in DependsOn(j)
               PROVE  cpc[r][j] = "idle" /\ j # k
    OBVIOUS
  <2>1. CASE jobTerminal(child[r][k])
    BY <2>1, DependsOnKinds DEF CancelledHolderBlocks
  <2>2. CASE ~jobTerminal(child[r][k])
    BY <2>2, DependsOnKinds DEF WaitsForDependencies, agentChildReady
  <2> QED
    BY <2>1, <2>2
<1>3. cpc[r][k] # "idle"
  BY DEF HoldsSlot
<1>4. PlannedOnce'
  <2> SUFFICES ASSUME NEW q \in Runs
               PROVE  PlannedRow(run[q], child'[q], cpc'[q], input[q])
    BY DEF PlannedOnce
  <2>1. PlannedRow(run[q], child[q], cpc[q], input[q])
    BY DEF PlannedOnce
  <2>2. CASE q = r
    <3>1. /\ run[r] # "absent"
          /\ \A j \in Kinds : child[r][j] = "absent" =>
               planRunChildren(input[r], FALSE)[j] = "absent"
      BY <1>3, <2>1, <2>2 DEF PlannedRow
    <3>2. \A j \in Kinds : child'[r][j] = "absent" => child[r][j] = "absent"
      BY <1>1
    <3> QED
      BY <2>2, <3>1, <3>2 DEF PlannedRow
  <2>3. CASE q # r
    BY <2>1, <2>3 DEF TypeOK
  <2> QED
    BY <2>2, <2>3
<1>5. WaitsForDependencies'
  <2> SUFFICES ASSUME NEW q \in Runs, NEW j \in Kinds, cpc'[q][j] # "idle"
               PROVE  agentChildReady(child'[q], j)
    BY DEF WaitsForDependencies
  <2>1. cpc[q][j] # "idle" /\ agentChildReady(child[q], j)
    BY <1>1, <1>3 DEF WaitsForDependencies
  <2>2. q = r => k \notin DependsOn(j)
    BY <1>2, <2>1
  <2>3. \A d \in DependsOn(j) : child'[q][d] = child[q][d]
    BY <1>1, <2>2, DependsOnKinds
  <2> QED
    BY <2>1, <2>3 DEF agentChildReady
<1>6. CancelledHolderBlocks'
  <2> SUFFICES ASSUME NEW q \in Runs, NEW d \in Kinds, NEW j \in Kinds,
                      d \in DependsOn(j), cpc'[q][d] \in HoldsSlot,
                      jobTerminal(child'[q][d])
               PROVE  cpc'[q][j] = "idle" /\ child'[q][j] # "queued"
    BY DEF CancelledHolderBlocks
  <2>1. ~(q = r /\ d = k)
    BY <1>1 DEF HoldsSlot
  <2>2. cpc[q][j] = "idle" /\ child[q][j] # "queued"
    BY <1>1, <2>1 DEF CancelledHolderBlocks
  <2>3. ~(q = r /\ j = k)
    BY <1>3, <2>2
  <2> QED
    BY <1>1, <2>2, <2>3
<1> QED
  BY <1>4, <1>5, <1>6

(* Rows are cancelled in cascade or planned for the first time; no         *)
(* processor moves.                                                        *)
LEMMA RowsCascaded ==
  ASSUME BarrierKept, cpc' = cpc,
         \A q \in Runs :
           \/ /\ child'[q] = child[q] \/ child'[q] = cascadeCancelRunChildren(child[q])
              /\ input'[q] = input[q]
              /\ run[q] # "absent" => run'[q] # "absent"
           \/ /\ child[q] = NoChildren /\ cpc[q] = [j \in Kinds |-> "idle"]
              /\ PlannedRow(run'[q], child'[q], cpc[q], input'[q])
  PROVE  PlannedOnce' /\ WaitsForDependencies' /\ CancelledHolderBlocks'
<1> USE DEF BarrierKept
<1>1. \A q \in Runs : child[q] \in [Kinds -> JobStatus]
  BY DEF TypeOK
<1>2. PlannedOnce'
  <2> SUFFICES ASSUME NEW q \in Runs
               PROVE  PlannedRow(run'[q], child'[q], cpc[q], input'[q])
    BY DEF PlannedOnce
  <2>1. PlannedRow(run[q], child[q], cpc[q], input[q])
    BY DEF PlannedOnce
  <2>2. CASE /\ child'[q] = child[q] /\ input'[q] = input[q]
             /\ run[q] # "absent" => run'[q] # "absent"
    BY <2>1, <2>2 DEF PlannedRow
  <2>3. CASE /\ child'[q] = cascadeCancelRunChildren(child[q])
             /\ input'[q] = input[q]
             /\ run[q] # "absent" => run'[q] # "absent"
    <3>1. \A j \in Kinds : child'[q][j] = "absent" => child[q][j] = "absent"
      BY <1>1, <2>3, CascadeKeepsReady
    <3>2. child[q] = NoChildren => child'[q] = NoChildren
      BY <2>3, CascadeNoChildren
    <3> QED
      BY <2>1, <2>3, <3>1, <3>2 DEF PlannedRow
  <2> QED
    BY <2>2, <2>3
<1>3. WaitsForDependencies'
  <2> SUFFICES ASSUME NEW q \in Runs, NEW j \in Kinds, cpc[q][j] # "idle"
               PROVE  agentChildReady(child'[q], j)
    BY DEF WaitsForDependencies
  <2>1. agentChildReady(child[q], j)
    BY DEF WaitsForDependencies
  <2>2. child'[q] = child[q] \/ child'[q] = cascadeCancelRunChildren(child[q])
    OBVIOUS
  <2> QED
    BY <1>1, <2>1, <2>2, CascadeKeepsReady
<1>4. CancelledHolderBlocks'
  <2> SUFFICES ASSUME NEW q \in Runs, NEW d \in Kinds, NEW j \in Kinds,
                      d \in DependsOn(j), cpc[q][d] \in HoldsSlot,
                      jobTerminal(child'[q][d])
               PROVE  cpc[q][j] = "idle" /\ child'[q][j] # "queued"
    BY DEF CancelledHolderBlocks
  <2>1. cpc[q][d] # "idle"
    BY DEF HoldsSlot
  <2>2. CASE jobTerminal(child[q][d])
    <3>1. cpc[q][j] = "idle" /\ child[q][j] # "queued"
      BY <2>2 DEF CancelledHolderBlocks
    <3>2. child'[q] = child[q] \/ child'[q] = cascadeCancelRunChildren(child[q])
      BY <2>1
    <3> QED
      BY <1>1, <3>1, <3>2, CascadeKeepsReady
  <2>3. CASE ~jobTerminal(child[q][d])
    <3>1. cpc[q][j] = "idle"
      BY <2>3 DEF WaitsForDependencies, agentChildReady
    <3>2. child'[q] = cascadeCancelRunChildren(child[q])
      BY <2>1, <2>3
    <3> QED
      BY <1>1, <3>1, <3>2, CascadeKeepsReady
  <2> QED
    BY <2>2, <2>3
<1> QED
  BY <1>2, <1>3, <1>4

(* Ready children get processors; no row changes. *)
LEMMA ReadyDispatched ==
  ASSUME BarrierKept, UNCHANGED <<run, child, input>>,
         \A q \in Runs :
           \/ cpc'[q] = cpc[q]
           \/ cpc'[q] = Dispatch(cpc[q], readyChildren(child[q]))
  PROVE  PlannedOnce' /\ WaitsForDependencies' /\ CancelledHolderBlocks'
<1> USE DEF BarrierKept
<1>1. \A q \in Runs, j \in Kinds :
        /\ cpc'[q][j] # "idle" => cpc[q][j] # "idle" \/ j \in readyChildren(child[q])
        /\ cpc'[q][j] \in HoldsSlot => cpc[q][j] \in HoldsSlot
  <2>1. TAKE q \in Runs, j \in Kinds
  <2>2. cpc[q] \in [Kinds -> ChildPlaces]
    BY <2>1 DEF TypeOK
  <2>3. CASE cpc'[q] = cpc[q]
    BY <2>3
  <2>4. CASE cpc'[q] = Dispatch(cpc[q], readyChildren(child[q]))
    BY <2>1, <2>2, <2>4, DispatchPlaces
  <2> QED
    BY <2>1, <2>3, <2>4
<1>2. PlannedOnce'
  <2> SUFFICES ASSUME NEW q \in Runs
               PROVE  PlannedRow(run[q], child[q], cpc'[q], input[q])
    BY DEF PlannedOnce
  <2>1. PlannedRow(run[q], child[q], cpc[q], input[q])
    BY DEF PlannedOnce
  <2>2. CASE child[q] = NoChildren /\ cpc[q] = [j \in Kinds |-> "idle"]
    <3>1. readyChildren(child[q]) = {}
      BY <2>2 DEF readyChildren, NoChildren
    <3>2. Dispatch(cpc[q], readyChildren(child[q])) = cpc[q]
      BY <2>2, <3>1 DEF Dispatch
    <3> QED
      BY <2>1, <3>2
  <2> QED
    BY <2>1, <2>2 DEF PlannedRow
<1>3. WaitsForDependencies'
  BY <1>1 DEF WaitsForDependencies, readyChildren
<1>4. CancelledHolderBlocks'
  BY <1>1 DEF CancelledHolderBlocks, readyChildren
<1> QED
  BY <1>2, <1>3, <1>4

(* A crash takes every slot, and the boot dispatches only ready children. *)
LEMMA RestartBarrier ==
  ASSUME BarrierKept, Restart
  PROVE  PlannedOnce' /\ WaitsForDependencies' /\ CancelledHolderBlocks'
<1> USE DEF BarrierKept
<1> DEFINE ch(q) == [k \in Kinds |-> Recovered(child[q][k])]
<1>1. \A q \in Runs :
        /\ child'[q] = ch(q) \/ child'[q] = cascadeCancelRunChildren(ch(q))
        /\ run'[q] = "absent" <=> run[q] = "absent"
        /\ input'[q] = input[q]
        /\ cpc'[q] = Dispatch([k \in Kinds |-> "idle"], readyChildren(child'[q]))
  BY DEF Restart, Recovered, TypeOK
<1>2. \A q \in Runs : ch(q) \in [Kinds -> JobStatus]
  BY DEF TypeOK, JobStatus, Recovered
<1>3. \A q \in Runs, j \in Kinds :
        /\ cpc'[q][j] # "idle" => j \in readyChildren(child'[q])
        /\ cpc'[q][j] \notin HoldsSlot
  <2>1. [k \in Kinds |-> "idle"] \in [Kinds -> ChildPlaces]
    BY DEF ChildPlaces
  <2>2. "idle" \notin HoldsSlot
    BY DEF HoldsSlot
  <2> SUFFICES ASSUME NEW q \in Runs, NEW j \in Kinds
               PROVE  /\ cpc'[q][j] # "idle" => j \in readyChildren(child'[q])
                      /\ cpc'[q][j] \notin HoldsSlot
    OBVIOUS
  <2> DEFINE idle == [k \in Kinds |-> "idle"]
             ks == readyChildren(child'[q])
  <2>3. idle[j] = "idle"
    OBVIOUS
  <2>4. cpc'[q] = Dispatch(idle, ks)
    BY <1>1
  <2>5. idle \in [Kinds -> ChildPlaces]
    BY <2>1
  <2> HIDE DEF idle, ks
  <2>6. /\ Dispatch(idle, ks)[j] # "idle" => idle[j] # "idle" \/ j \in ks
        /\ Dispatch(idle, ks)[j] \in HoldsSlot => idle[j] \in HoldsSlot
    BY <2>5, DispatchPlaces
  <2>7. /\ cpc'[q][j] # "idle" => j \in ks
        /\ cpc'[q][j] \notin HoldsSlot
    BY <2>2, <2>3, <2>4, <2>6
  <2> QED
    BY <2>7 DEF ks
<1>4. WaitsForDependencies' /\ CancelledHolderBlocks'
  BY <1>3 DEF WaitsForDependencies, CancelledHolderBlocks, readyChildren
<1>5. ASSUME NEW q \in Runs
      PROVE  PlannedRow(run'[q], child'[q], cpc'[q], input'[q])
  <2>1. PlannedRow(run[q], child[q], cpc[q], input[q])
    BY DEF PlannedOnce
  <2>2. \A j \in Kinds : child'[q][j] = "absent" => child[q][j] = "absent"
    <3> SUFFICES ASSUME NEW j \in Kinds, child'[q][j] = "absent"
                 PROVE  child[q][j] = "absent"
      OBVIOUS
    <3>1. ch(q)[j] = "absent" => child[q][j] = "absent"
      BY DEF Recovered
    <3>2. ch(q) \in [Kinds -> JobStatus]
      BY <1>2
    <3>3. child'[q] = ch(q) \/ child'[q] = cascadeCancelRunChildren(ch(q))
      BY <1>1
    <3> HIDE DEF ch
    <3> QED
      BY <3>1, <3>2, <3>3, CascadeKeepsReady
  <2>3. CASE child[q] = NoChildren
    <3>1. ch(q) = NoChildren
      BY <2>3 DEF NoChildren, Recovered
    <3>2. child'[q] = NoChildren
      BY <1>1, <3>1, CascadeNoChildren
    <3>3. readyChildren(child'[q]) = {}
      BY <3>2 DEF readyChildren, NoChildren
    <3>4. cpc'[q] = [k \in Kinds |-> "idle"]
      BY <1>1, <3>3 DEF Dispatch
    <3> QED
      BY <3>2, <3>4 DEF PlannedRow
  <2>4. CASE child[q] # NoChildren
    BY <1>1, <2>1, <2>2, <2>4 DEF PlannedRow
  <2> QED
    BY <2>3, <2>4
<1>6. PlannedOnce'
  BY <1>5 DEF PlannedOnce
<1> QED
  BY <1>4, <1>6

(* Every step of a parent's processor keeps the barrier. *)
LEMMA RunStepBarrier ==
  ASSUME BarrierKept, NEW r \in Runs, RunStep(r)
  PROVE  PlannedOnce' /\ WaitsForDependencies' /\ CancelledHolderBlocks'
<1> USE DEF BarrierKept
<1>1. PlannedRow(run[r], child[r], cpc[r], input[r])
  BY DEF PlannedOnce
<1>2. CASE RunAdmit(r)
  <2>1. /\ cpc' = cpc /\ input' = input
        /\ run' = [run EXCEPT ![r] = "running"]
        /\ child' = [child EXCEPT ![r] = ensureRunChildren(child[r], input[r])]
    BY <1>2 DEF RunAdmit
  <2>2. child[r] \in [Kinds -> JobStatus] /\ run'[r] = "running"
    BY <2>1 DEF TypeOK
  <2>3. child'[r] = ensureRunChildren(child[r], input[r])
    BY <2>1 DEF TypeOK
  <2>4. \/ child'[r] = child[r]
        \/ /\ child[r] = NoChildren /\ cpc[r] = [j \in Kinds |-> "idle"]
           /\ PlannedRow(run'[r], child'[r], cpc[r], input'[r])
    <3>1. CASE child[r] = NoChildren /\ cpc[r] = [j \in Kinds |-> "idle"]
      <4>1. \A k \in Kinds : child'[r][k] = planRunChildren(input[r], FALSE)[k]
        BY <2>3, <3>1 DEF ensureRunChildren, NoChildren
      <4> QED
        BY <2>1, <2>2, <3>1, <4>1 DEF PlannedRow
    <3>2. CASE ~(child[r] = NoChildren /\ cpc[r] = [j \in Kinds |-> "idle"])
      <4>1. \A k \in Kinds : child[r][k] = "absent" =>
              planRunChildren(input[r], FALSE)[k] = "absent"
        BY <1>1, <3>2 DEF PlannedRow
      <4> QED
        BY <2>2, <2>3, <4>1, EnsureKeeps
    <3> QED
      BY <3>1, <3>2
  <2>5. \A q \in Runs : q # r => child'[q] = child[q] /\ run'[q] = run[q]
    BY <2>1 DEF TypeOK
  <2> QED
    BY <2>1, <2>2, <2>4, <2>5, RowsCascaded
<1>3. CASE RunLaunch(r)
  <2>1. /\ UNCHANGED <<run, child, input>>
        /\ cpc' = [cpc EXCEPT ![r] = Dispatch(cpc[r], readyChildren(child[r]))]
    BY <1>3 DEF RunLaunch, rows
  <2>2. \A q \in Runs : \/ cpc'[q] = cpc[q]
                        \/ cpc'[q] = Dispatch(cpc[q], readyChildren(child[q]))
    BY <2>1 DEF TypeOK
  <2> QED
    BY <2>1, <2>2, ReadyDispatched
<1>4. CASE RunSkip(r) \/ RunDeadline(r)
  <2>1. /\ child' = child /\ cpc' = cpc /\ input' = input
        /\ \A q \in Runs : run[q] # "absent" => run'[q] # "absent"
    BY <1>4 DEF RunSkip, RunDeadline, rows, TypeOK
  <2> QED
    BY <2>1, RowsCascaded
<1>5. CASE RunFold(r)
  <2>1. /\ child' = child /\ cpc' = cpc /\ input' = input
        /\ run' = [run EXCEPT ![r] = IF Cancelled(r) THEN "cancelled"
                                    ELSE foldRunStatus(child[r], run[r])]
    BY <1>5 DEF RunFold, rows
  <2>2. run'[r] = "cancelled" \/ run'[r] = foldRunStatus(child[r], run[r])
    BY <2>1 DEF TypeOK
  <2>3. foldRunStatus(child[r], run[r]) = "absent" => run[r] = "absent"
    BY DEF foldRunStatus
  <2>4. \A q \in Runs : run[q] # "absent" => run'[q] # "absent"
    BY <2>1, <2>2, <2>3 DEF TypeOK
  <2> QED
    BY <2>1, <2>4, RowsCascaded
<1>6. CASE UNCHANGED <<run, child, cpc, input>>
  BY <1>6, RowsCascaded
<1> QED
  BY <1>2, <1>3, <1>4, <1>5, <1>6 DEF RunStep, RunBegin, RunAllDone, RunSeesCancel,
     RunCancelWaited, RunCancelTimeout, RunFallback, RunFallbackFails, rows

(* Every step of a child's processor keeps the barrier. *)
LEMMA ChildStepBarrier ==
  ASSUME BarrierKept, NEW r \in Runs, NEW k \in Kinds, ChildStep(r, k)
  PROVE  PlannedOnce' /\ WaitsForDependencies' /\ CancelledHolderBlocks'
<1> USE DEF BarrierKept
<1>0. "approval" \in Kinds /\ "bugbot" \in Kinds
  BY DEF Kinds
<1>1. CASE ChildSlot(r, k)
  <2> DEFINE x == IF jobTerminal(child[r][k]) THEN "idle" ELSE "start"
  <2>1. /\ cpc' = [cpc EXCEPT ![r][k] = x]
        /\ cpc[r][k] = "slot"
        /\ UNCHANGED <<run, child, input>>
    BY <1>1 DEF ChildSlot, rows
  <2>2. /\ x \in ChildPlaces
        /\ x \in HoldsSlot => ~jobTerminal(child[r][k])
    BY DEF ChildPlaces, HoldsSlot
  <2> HIDE DEF x
  <2> QED
    BY <2>1, <2>2, PlaceMoves
<1>2. CASE ChildStart(r, k)
  <2>1. /\ cpc' = [cpc EXCEPT ![r][k] = "body"]
        /\ child' = [child EXCEPT ![r][k] = "running"]
        /\ cpc[r][k] = "start"
        /\ UNCHANGED <<run, input>>
    BY <1>2 DEF ChildStart, rows
  <2>2. /\ "body" \in ChildPlaces /\ "start" \in HoldsSlot
        /\ "running" \in JobStatus \ {"queued", "absent"}
        /\ ~jobTerminal("running")
    BY DEF ChildPlaces, HoldsSlot, JobStatus, jobTerminal
  <2> QED
    BY <2>1, <2>2, RowWritten
<1>3. CASE ChildFinish(r, k)
  <2> DEFINE s == CASE cpc[r][k] = "ok" -> "completed"
                    [] cpc[r][k] = "err" -> "failed"
                    [] cpc[r][k] = "skip" -> "skipped"
  <2>1. /\ cpc' = [cpc EXCEPT ![r][k] = "idle"]
        /\ child' = [child EXCEPT ![r][k] = s]
        /\ cpc[r][k] \in {"ok", "err", "skip"}
        /\ UNCHANGED <<run, input>>
    BY <1>3 DEF ChildFinish, rows
  <2>2. /\ "idle" \in ChildPlaces /\ cpc[r][k] \in HoldsSlot
        /\ s \in JobStatus \ {"queued", "absent"}
    BY <2>1 DEF ChildPlaces, HoldsSlot, JobStatus
  <2> HIDE DEF s
  <2> QED
    BY <2>1, <2>2, RowWritten
<1>4. CASE ApprovalStops(r)
  <2>1. /\ cpc' = [cpc EXCEPT ![r]["approval"] = "idle"]
        /\ child' = [child EXCEPT ![r]["approval"] = "cancelled"]
        /\ cpc[r]["approval"] = "body"
        /\ UNCHANGED <<run, input>>
    BY <1>4 DEF ApprovalStops, rows
  <2>2. /\ "idle" \in ChildPlaces /\ "body" \in HoldsSlot
        /\ "cancelled" \in JobStatus \ {"queued", "absent"}
    BY DEF ChildPlaces, HoldsSlot, JobStatus
  <2> QED
    BY <1>0, <2>1, <2>2, RowWritten
<1>5. ASSUME NEW j \in Kinds, NEW x \in ChildPlaces,
             cpc[r][j] \in HoldsSlot, cpc' = [cpc EXCEPT ![r][j] = x],
             UNCHANGED <<run, child, input>>
      PROVE  PlannedOnce' /\ WaitsForDependencies' /\ CancelledHolderBlocks'
  <2>1. cpc[r][j] # "idle"
    BY <1>5 DEF HoldsSlot
  <2> QED
    BY <1>5, <2>1, PlaceMoves
<1>6. ASSUME NEW j \in Kinds, NEW outcome \in {"ok", "err", "skip"},
             cpc[r][j] \in HoldsSlot, Returned(r, j, outcome),
             UNCHANGED <<run, child, input>>
      PROVE  PlannedOnce' /\ WaitsForDependencies' /\ CancelledHolderBlocks'
  <2> DEFINE x == IF ChildCancelled(r, j) THEN "idle" ELSE outcome
  <2>1. cpc' = [cpc EXCEPT ![r][j] = x]
    BY <1>6 DEF Returned
  <2>2. x \in ChildPlaces
    BY DEF ChildPlaces
  <2> HIDE DEF x
  <2> QED
    BY <1>5, <1>6, <2>1, <2>2
<1>7. "body" \in HoldsSlot /\ "decide" \in HoldsSlot /\ "post" \in HoldsSlot
  BY DEF HoldsSlot, ChildPlaces
<1>8. CASE \E outcome \in {"ok", "err", "skip"} : AgentReturn(r, k, outcome)
  BY <1>6, <1>7, <1>8 DEF AgentReturn, rows
<1>9. CASE (\E success \in BOOLEAN : BugbotReview(r, success)) \/ BugbotRefused(r)
  BY <1>0, <1>6, <1>7, <1>9 DEF BugbotReview, BugbotRefused, rows
<1>10. CASE ApprovalFails(r) \/ ApprovalSends(r)
  <2>1. "err" \in ChildPlaces /\ "post" \in ChildPlaces
    BY DEF ChildPlaces
  <2> QED
    BY <1>0, <1>5, <1>7, <1>10, <2>1 DEF ApprovalFails, ApprovalSends, rows
<1>11. CASE ApprovalWeighs(r)
  <2> DEFINE x == IF NoReviewerInput(r) THEN "skip" ELSE "decide"
  <2>1. /\ cpc' = [cpc EXCEPT ![r]["approval"] = x]
        /\ cpc[r]["approval"] = "body"
        /\ UNCHANGED <<run, child, input>>
    BY <1>11 DEF ApprovalWeighs, rows
  <2>2. x \in ChildPlaces
    BY DEF ChildPlaces
  <2> HIDE DEF x
  <2> QED
    BY <1>0, <1>5, <1>7, <2>1, <2>2
<1>12. CASE ApprovalRefused(r) \/ \E accepted \in BOOLEAN : ApprovalPosted(r, accepted)
  BY <1>0, <1>6, <1>7, <1>12 DEF ApprovalRefused, ApprovalPosted, rows
<1> QED
  BY <1>1, <1>2, <1>3, <1>4, <1>8, <1>9, <1>10, <1>11, <1>12 DEF ChildStep, AgentStep

(* Every external event but a call on a single child keeps the barrier. *)
LEMMA UserBarrier ==
  ASSUME BarrierKept, WithinBudget, ChildrenLeftAlone', User
  PROVE  PlannedOnce' /\ WaitsForDependencies' /\ CancelledHolderBlocks'
<1> USE DEF BarrierKept
<1>1. ASSUME NEW r \in Runs, NEW in \in Inputs, Enqueue(r, in)
      PROVE  PlannedOnce' /\ WaitsForDependencies' /\ CancelledHolderBlocks'
  <2> DEFINE plan == IF in.admits THEN planRunChildren(in, in.draft) ELSE NoChildren
  <2>1. /\ cpc' = cpc /\ run[r] = "absent"
        /\ input' = [input EXCEPT ![r] = in]
        /\ run'[r] # "absent"
        /\ child'[r] = plan
    BY <1>1 DEF Enqueue
  <2>2. \A q \in Runs : q # r =>
          /\ child'[q] = child[q] \/ child'[q] = cascadeCancelRunChildren(child[q])
          /\ run[q] # "absent" => run'[q] # "absent"
    BY <1>1 DEF Enqueue
  <2>3. /\ \A q \in Runs : q # r => input'[q] = input[q]
        /\ input'[r] = in
    BY <2>1 DEF TypeOK
  <2>4. in \in [InputFields -> BOOLEAN] /\ in.draft \in BOOLEAN
    BY ConstantsAssumption DEF InputFields
  <2>5. child[r] = NoChildren /\ cpc[r] = [j \in Kinds |-> "idle"]
    BY <2>1 DEF PlannedOnce, PlannedRow
  <2>6. PlannedRow(run'[r], child'[r], cpc[r], input'[r])
    <3>1. CASE in.admits
      <4>1. child'[r] = planRunChildren(in, in.draft)
        BY <2>1, <3>1
      <4>2. \A k \in Kinds : child'[r][k] = "absent" =>
              planRunChildren(in, FALSE)[k] = "absent"
        BY <2>4, <4>1, PlanAbsent
      <4> QED
        BY <2>1, <2>3, <4>2 DEF PlannedRow
    <3>2. CASE ~in.admits
      BY <2>1, <2>5, <3>2 DEF PlannedRow
    <3> QED
      BY <3>1, <3>2
  <2> QED
    BY <2>1, <2>2, <2>3, <2>5, <2>6, RowsCascaded
<1>2. ASSUME NEW r \in Runs, RetryRun(r)
      PROVE  PlannedOnce' /\ WaitsForDependencies' /\ CancelledHolderBlocks'
  <2>1. /\ child' = child /\ cpc' = cpc /\ input' = input
        /\ \A q \in Runs : run[q] # "absent" => run'[q] # "absent"
    BY <1>2 DEF RetryRun, TypeOK
  <2> QED
    BY <2>1, RowsCascaded
<1>3. ASSUME NEW R \in SUBSET Runs, CancelRows(R), UNCHANGED <<cpc, input>>
      PROVE  PlannedOnce' /\ WaitsForDependencies' /\ CancelledHolderBlocks'
  <2>1. \A q \in Runs :
          /\ child'[q] = child[q] \/ child'[q] = cascadeCancelRunChildren(child[q])
          /\ run[q] # "absent" => run'[q] # "absent"
    BY <1>3 DEF CancelRows
  <2> QED
    BY <1>3, <2>1, RowsCascaded
<1>4. ASSUME NEW r \in Runs, CancelRun(r)
      PROVE  PlannedOnce' /\ WaitsForDependencies' /\ CancelledHolderBlocks'
  BY <1>3, <1>4 DEF CancelRun, rows
<1>5. ASSUME NEW r \in Runs, NEW k \in Kinds, CancelChild(r, k) \/ RetryChild(r, k)
      PROVE  FALSE
  BY <1>5 DEF CancelChild, RetryChild, Spend, WithinBudget, ChildrenLeftAlone,
     BarrierKept, TypeOK, Events
<1>6. CASE Merge
  BY <1>6, RowsCascaded DEF Merge, rows
<1>7. CASE MergedWebhook
  BY <1>3, <1>7 DEF MergedWebhook, rows
<1>8. CASE Resume
  <2>1. /\ UNCHANGED <<run, child, input>>
        /\ \A q \in Runs : cpc'[q] = Dispatch(cpc[q], readyChildren(child[q]))
    BY <1>8 DEF Resume, rows
  <2> QED
    BY <2>1, ReadyDispatched
<1>9. CASE Restart
  BY <1>9, RestartBarrier
<1> QED
  BY <1>1, <1>2, <1>4, <1>5, <1>6, <1>7, <1>8, <1>9 DEF User

(* A budget is only ever spent. *)
LEMMA BudgetNext ==
  ASSUME TypeOK, WithinBudget, [Next]_vars
  PROVE  WithinBudget' /\ \A e \in Events : budget'[e] = Budget[e] => budget[e] = Budget[e]
<1> DEFINE Kept == WithinBudget' /\ \A d \in Events : budget'[d] = Budget[d] => budget[d] = Budget[d]
<1>1. ASSUME NEW e \in Events, Spend(e)
      PROVE  Kept
  <2>1. /\ budget \in [Events -> Nat] /\ Budget \in [Events -> Nat]
        /\ budget[e] > 0 /\ budget' = [budget EXCEPT ![e] = @ - 1]
    BY <1>1, ConstantsAssumption DEF Spend, TypeOK
  <2>2. \A d \in Events : budget'[d] <= budget[d]
    BY <2>1
  <2>3. \A d \in Events : budget[d] <= Budget[d]
    BY DEF WithinBudget
  <2>4. \A d \in Events : budget'[d] <= Budget[d]
    BY <2>1, <2>2, <2>3
  <2>5. \A d \in Events : budget'[d] = Budget[d] => budget[d] = Budget[d]
    BY <2>1, <2>2, <2>3
  <2> QED
    BY <2>4, <2>5 DEF WithinBudget
<1>2. ASSUME UNCHANGED budget
      PROVE  Kept
  BY <1>2 DEF WithinBudget
<1>3. ASSUME NEW r \in Runs, RunStep(r)
      PROVE  Kept
  <2>1. UNCHANGED budget
    BY <1>3 DEF RunStep, RunBegin, RunSkip, RunAdmit, RunLaunch, RunAllDone,
       RunSeesCancel, RunCancelWaited, RunCancelTimeout, RunDeadline,
       RunFallback, RunFallbackFails, RunFold, world
  <2> QED
    BY <2>1, <1>2
<1>4. ASSUME NEW r \in Runs, NEW k \in Kinds, ChildStep(r, k)
      PROVE  Kept
  <2>1. CASE ChildSlot(r, k) \/ ChildStart(r, k) \/ ChildFinish(r, k)
    BY <2>1, <1>2 DEF ChildSlot, ChildStart, ChildFinish, world
  <2>2. CASE AgentStep(r, k)
    BY <2>2, <1>2 DEF AgentStep, AgentReturn, BugbotReview, BugbotRefused,
       ApprovalStops, ApprovalFails, ApprovalWeighs, ApprovalRefused,
       ApprovalSends, ApprovalPosted, world
  <2> QED
    BY <1>4, <2>1, <2>2 DEF ChildStep
<1>5. CASE User
  <2>1. ASSUME NEW r \in Runs, NEW in \in Inputs, Enqueue(r, in)
        PROVE  Kept
    BY <2>1, <1>2 DEF Enqueue, world
  <2>2. ASSUME NEW r \in Runs, RetryRun(r) \/ CancelRun(r)
        PROVE  Kept
    BY <2>2, <1>1 DEF RetryRun, CancelRun, Events
  <2>3. ASSUME NEW r \in Runs, NEW k \in Kinds, CancelChild(r, k) \/ RetryChild(r, k)
        PROVE  Kept
    BY <2>3, <1>1 DEF CancelChild, RetryChild, Events
  <2>4. CASE Merge \/ Resume \/ Restart
    BY <2>4, <1>1 DEF Merge, Resume, Restart, Events
  <2>5. CASE MergedWebhook
    BY <2>5, <1>2 DEF MergedWebhook, world
  <2> QED
    BY <1>5, <2>1, <2>2, <2>3, <2>4, <2>5 DEF User
<1>6. CASE UNCHANGED vars
  BY <1>6, <1>2 DEF vars, world
<1> QED
  BY <1>3, <1>4, <1>5, <1>6 DEF Next

(* So what nobody has done after a step, nobody had done before it. *)
LEMMA LeftAloneBefore ==
  ASSUME TypeOK, WithinBudget, [Next]_vars
  PROVE  /\ ChildrenLeftAlone' => ChildrenLeftAlone
         /\ NeverRequeued' => NeverRequeued /\ ChildrenLeftAlone'
  BY BudgetNext DEF ChildrenLeftAlone, NeverRequeued, Events

LEMMA BarrierNext ==
  ASSUME BarrierInv, [Next]_vars
  PROVE  BarrierInv'
<1>1. TypeOK' /\ WithinBudget' /\ (ChildrenLeftAlone' => ChildrenLeftAlone)
  BY NextType, BudgetNext, LeftAloneBefore DEF BarrierInv
<1>2. SUFFICES ASSUME ChildrenLeftAlone'
               PROVE  BarrierKept'
  BY <1>1 DEF BarrierInv
<1>3. BarrierKept /\ WithinBudget
  BY <1>1, <1>2 DEF BarrierInv
<1>4. CASE User
  BY <1>1, <1>2, <1>3, <1>4, UserBarrier DEF BarrierKept
<1>5. CASE \E r \in Runs : RunStep(r)
  BY <1>1, <1>3, <1>5, RunStepBarrier DEF BarrierKept
<1>6. CASE \E r \in Runs, k \in Kinds : ChildStep(r, k)
  BY <1>1, <1>3, <1>6, ChildStepBarrier DEF BarrierKept
<1>7. CASE UNCHANGED vars
  BY <1>1, <1>3, <1>7, RowsCascaded DEF vars, rows, BarrierKept
<1> QED
  BY <1>4, <1>5, <1>6, <1>7 DEF Next

LEMMA BarrierInit == Init => BarrierInv
<1> SUFFICES ASSUME Init PROVE BarrierInv
  OBVIOUS
<1>1. TypeOK
  BY InitType
<1>2. WithinBudget
  BY ConstantsAssumption DEF Init, WithinBudget
<1>3. PlannedOnce
  BY DEF Init, PlannedOnce, PlannedRow
<1>4. WaitsForDependencies /\ CancelledHolderBlocks
  BY DEF Init, WaitsForDependencies, CancelledHolderBlocks, HoldsSlot
<1> QED
  BY <1>1, <1>2, <1>3, <1>4 DEF BarrierInv, BarrierKept

(* Through every cancel of a run, supersede, retry of a run, merge, admin  *)
(* resume and crash, a child has a processor only while all it depends on  *)
(* is terminal and prepare has succeeded, until somebody cancels or        *)
(* retries a single child, which can take a dependency back.               *)
THEOREM BarrierHolds == Spec => []DependencyBarrier
<1>1. BarrierInv /\ [Next]_vars => BarrierInv'
  BY BarrierNext
<1>2. BarrierInv => DependencyBarrier
  BY DEF BarrierInv, BarrierKept, DependencyBarrier
<1> QED
  BY <1>1, <1>2, BarrierInit, PTL DEF Spec

-----------------------------------------------------------------------------
(* Rows that are over. *)

(* Which rows a step may change: those it cascades over, those it plans,   *)
(* and the row of a processor that holds its slot.                         *)
LEMMA RowChange ==
  ASSUME BarrierKept, WithinBudget, ChildrenLeftAlone', [Next]_vars,
         NEW r \in Runs, NEW k \in Kinds,
         child[r] # NoChildren,
         child[r][k] = "absent" \/ jobTerminal(child[r][k]),
         cpc[r][k] \notin HoldsSlot
  PROVE  child'[r][k] = child[r][k]
<1> USE DEF BarrierKept
<1>0. /\ child[r] \in [Kinds -> JobStatus]
      /\ child \in [Runs -> [Kinds -> JobStatus]]
      /\ PlannedRow(run[r], child[r], cpc[r], input[r])
  BY DEF TypeOK, PlannedOnce
<1>1. cascadeCancelRunChildren(child[r])[k] = child[r][k]
  BY DEF cascadeCancelRunChildren, InFlight, jobTerminal
<1>2. ASSUME child' = child
      PROVE  child'[r][k] = child[r][k]
  BY <1>2
<1>3. ASSUME NEW q \in Runs, RunStep(q)
      PROVE  child'[r][k] = child[r][k]
  <2>1. CASE RunAdmit(q)
    <3>1. child' = [child EXCEPT ![q] = ensureRunChildren(child[q], input[q])]
      BY <2>1 DEF RunAdmit
    <3>2. \A j \in Kinds : child[r][j] = "absent" =>
            planRunChildren(input[r], FALSE)[j] = "absent"
      BY <1>0 DEF PlannedRow
    <3>3. ensureRunChildren(child[r], input[r]) = child[r]
      BY <1>0, <3>2, EnsureKeeps
    <3> QED
      BY <1>0, <3>1, <3>3
  <2>2. CASE ~RunAdmit(q)
    BY <1>2, <1>3, <2>2 DEF RunStep, RunBegin, RunSkip, RunLaunch, RunAllDone,
       RunSeesCancel, RunCancelWaited, RunCancelTimeout, RunDeadline,
       RunFallback, RunFallbackFails, RunFold
  <2> QED
    BY <2>1, <2>2
<1>4. ASSUME NEW q \in Runs, NEW j \in Kinds, ChildStep(q, j)
      PROVE  child'[r][k] = child[r][k]
  <2>1. ASSUME NEW h \in Kinds, NEW s, cpc[q][h] \in HoldsSlot,
               child' = [child EXCEPT ![q][h] = s]
        PROVE  child'[r][k] = child[r][k]
    <3>1. q # r \/ h # k
      BY <2>1
    <3> QED
      BY <1>0, <2>1, <3>1
  <2>2. CASE ChildStart(q, j) \/ ChildFinish(q, j)
    BY <2>1, <2>2 DEF ChildStart, ChildFinish, HoldsSlot, ChildPlaces
  <2>3. CASE ChildSlot(q, j)
    BY <1>2, <2>3 DEF ChildSlot
  <2>4. CASE AgentStep(q, j)
    <3>1. CASE ApprovalStops(q)
      BY <2>1, <3>1 DEF ApprovalStops, HoldsSlot, ChildPlaces, Kinds
    <3>2. CASE ~ApprovalStops(q)
      BY <1>2, <2>4, <3>2 DEF AgentStep, AgentReturn, BugbotReview, BugbotRefused,
         ApprovalFails, ApprovalWeighs, ApprovalRefused, ApprovalSends, ApprovalPosted
    <3> QED
      BY <3>1, <3>2
  <2> QED
    BY <1>4, <2>2, <2>3, <2>4 DEF ChildStep
<1>5. CASE User
  <2>1. ASSUME NEW q \in Runs, NEW in \in Inputs, Enqueue(q, in)
        PROVE  child'[r][k] = child[r][k]
    <3>1. run[q] = "absent"
      BY <2>1 DEF Enqueue
    <3>2. q # r
      BY <1>0, <3>1 DEF PlannedRow
    <3>3. child'[r] = child[r] \/ child'[r] = cascadeCancelRunChildren(child[r])
      BY <2>1, <3>2 DEF Enqueue
    <3> QED
      BY <1>1, <3>3
  <2>2. ASSUME NEW R, CancelRows(R)
        PROVE  child'[r][k] = child[r][k]
    <3>1. child'[r] = child[r] \/ child'[r] = cascadeCancelRunChildren(child[r])
      BY <2>2 DEF CancelRows
    <3> QED
      BY <1>1, <3>1
  <2>3. ASSUME NEW q \in Runs, CancelRun(q)
        PROVE  child'[r][k] = child[r][k]
    BY <2>2, <2>3 DEF CancelRun
  <2>4. CASE MergedWebhook
    BY <2>2, <2>4 DEF MergedWebhook
  <2>5. ASSUME NEW q \in Runs, NEW j \in Kinds, CancelChild(q, j) \/ RetryChild(q, j)
        PROVE  FALSE
    BY <2>5 DEF CancelChild, RetryChild, Spend, WithinBudget, ChildrenLeftAlone,
       TypeOK, Events
  <2>6. ASSUME NEW q \in Runs, RetryRun(q)
        PROVE  child'[r][k] = child[r][k]
    BY <1>2, <2>6 DEF RetryRun
  <2>7. CASE Merge \/ Resume
    BY <1>2, <2>7 DEF Merge, Resume
  <2>8. CASE Restart
    <3> DEFINE ch == [j \in Kinds |-> Recovered(child[r][j])]
    <3>1. child'[r] = ch \/ child'[r] = cascadeCancelRunChildren(ch)
      BY <2>8 DEF Restart
    <3>2. ch[k] = child[r][k]
      BY DEF Recovered, jobTerminal
    <3>3. cascadeCancelRunChildren(ch)[k] = child[r][k]
      BY <3>2 DEF cascadeCancelRunChildren, InFlight, jobTerminal
    <3> QED
      BY <3>1, <3>2, <3>3
  <2> QED
    BY <1>5, <2>1, <2>3, <2>4, <2>5, <2>6, <2>7, <2>8 DEF User
<1>6. CASE UNCHANGED vars
  BY <1>2, <1>6 DEF vars
<1> QED
  BY <1>3, <1>4, <1>5, <1>6 DEF Next

(* A row that is over stays over, and as it is. *)
LEMMA OverStays ==
  ASSUME BarrierKept, WithinBudget, ChildrenLeftAlone', [Next]_vars,
         NEW r \in Runs, NEW k \in Kinds, Over(r, k)
  PROVE  child'[r][k] = child[r][k] /\ Over(r, k)'
<1>1. child[r] # NoChildren
  BY DEF Over, NoChildren, jobTerminal
<1>2. child'[r][k] = child[r][k]
  BY <1>1, RowChange DEF Over
<1>3. cpc'[r][k] \notin HoldsSlot
  <2> SUFFICES ASSUME cpc'[r][k] \in HoldsSlot PROVE FALSE
    OBVIOUS
  <2>1. TypeOK /\ cpc[r][k] \notin HoldsSlot
    BY DEF Over, BarrierKept
  <2>2. ChildSlot(r, k)
    BY <2>1, OnlySlotTakes
  <2>3. cpc'[r][k] = "idle"
    BY <2>1, <2>2 DEF ChildSlot, Over, TypeOK
  <2> QED
    BY <2>3 DEF HoldsSlot
<1> QED
  BY <1>2, <1>3 DEF Over
-----------------------------------------------------------------------------
(* The decision comes after the reviewers. *)

(* The approval agent gets to weighing only through ApprovalWeighs. *)
LEMMA OnlyWeighsDecides ==
  ASSUME TypeOK, [Next]_vars, NEW r \in Runs,
         cpc[r]["approval"] \notin {"decide", "post"},
         cpc'[r]["approval"] \in {"decide", "post"}
  PROVE  ApprovalWeighs(r)
<1> USE DEF TypeOK
<1>0. "approval" \in Kinds /\ "bugbot" \in Kinds
  BY DEF Kinds
<1>1. ASSUME cpc' = cpc
      PROVE  FALSE
  BY <1>1
<1>3. ASSUME NEW places \in [Kinds -> ChildPlaces], NEW ks,
             cpc'[r] = Dispatch(places, ks),
             places["approval"] \notin {"decide", "post"}
      PROVE  FALSE
  BY <1>0, <1>3 DEF Dispatch
<1>4. ASSUME NEW q \in Runs, RunStep(q)
      PROVE  FALSE
  <2>1. CASE RunLaunch(q)
    <3>1. cpc'[r] = cpc[r] \/ cpc'[r] = Dispatch(cpc[r], readyChildren(child[r]))
      BY <2>1 DEF RunLaunch
    <3> QED
      BY <1>3, <3>1
  <2>2. CASE ~RunLaunch(q)
    BY <1>1, <1>4, <2>2 DEF RunStep, RunBegin, RunSkip, RunAdmit, RunAllDone,
       RunSeesCancel, RunCancelWaited, RunCancelTimeout, RunDeadline,
       RunFallback, RunFallbackFails, RunFold
  <2> QED
    BY <2>1, <2>2
<1>5. ASSUME NEW q \in Runs, NEW k \in Kinds, ChildStep(q, k)
      PROVE  ApprovalWeighs(r)
  <2>1. ASSUME NEW j \in Kinds, NEW outcome \in {"ok", "err", "skip"},
               Returned(q, j, outcome)
        PROVE  FALSE
    BY <1>0, <2>1 DEF Returned
  <2>2. CASE ChildSlot(q, k) \/ ChildStart(q, k) \/ ChildFinish(q, k)
    <3>1. CASE ChildSlot(q, k)
      BY <1>0, <3>1 DEF ChildSlot
    <3>2. CASE ChildStart(q, k)
      BY <1>0, <3>2 DEF ChildStart
    <3>3. CASE ChildFinish(q, k)
      BY <1>0, <3>3 DEF ChildFinish
    <3> QED
      BY <2>2, <3>1, <3>2, <3>3
  <2>3. CASE \/ \E outcome \in {"ok", "err", "skip"} : AgentReturn(q, k, outcome)
             \/ \E success \in BOOLEAN : BugbotReview(q, success)
             \/ BugbotRefused(q) \/ ApprovalRefused(q)
             \/ \E accepted \in BOOLEAN : ApprovalPosted(q, accepted)
    BY <1>0, <2>1, <2>3 DEF AgentReturn, BugbotReview, BugbotRefused, ApprovalRefused,
       ApprovalPosted
  <2>4. CASE ApprovalStops(q) \/ ApprovalFails(q)
    <3>1. CASE ApprovalStops(q)
      BY <1>0, <3>1 DEF ApprovalStops
    <3>2. CASE ApprovalFails(q)
      BY <1>0, <3>2 DEF ApprovalFails
    <3> QED
      BY <2>4, <3>1, <3>2
  <2>5. CASE ApprovalWeighs(q)
    <3>1. q = r
      BY <1>0, <2>5 DEF ApprovalWeighs
    <3> QED
      BY <2>5, <3>1
  <2>6. CASE ApprovalSends(q)
    BY <1>0, <2>6 DEF ApprovalSends
  <2> QED
    BY <1>5, <2>2, <2>3, <2>4, <2>5, <2>6 DEF ChildStep, AgentStep
<1>6. CASE User
  <2>1. ASSUME NEW q \in Runs, NEW k \in Kinds, RetryChild(q, k)
        PROVE  FALSE
    <3>1. PICK ks : cpc'[r] = cpc[r] \/ cpc'[r] = Dispatch(cpc[r], ks)
      BY <2>1 DEF RetryChild
    <3> QED
      BY <1>3, <3>1
  <2>2. CASE Resume
    <3>1. cpc'[r] = Dispatch(cpc[r], readyChildren(child[r]))
      BY <2>2 DEF Resume
    <3> QED
      BY <1>3, <3>1
  <2>3. CASE Restart
    <3> DEFINE idle == [j \in Kinds |-> "idle"]
    <3>1. cpc'[r] = Dispatch(idle, readyChildren(child'[r]))
      BY <2>3 DEF Restart
    <3>2. idle \in [Kinds -> ChildPlaces] /\ idle["approval"] = "idle"
      BY <1>0 DEF ChildPlaces
    <3> HIDE DEF idle
    <3> QED
      BY <1>3, <3>1, <3>2
  <2>4. CASE ~Resume /\ ~Restart /\ ~\E q \in Runs, k \in Kinds : RetryChild(q, k)
    BY <1>1, <1>6, <2>4 DEF User, Enqueue, RetryRun, CancelRun, CancelChild, Merge,
       MergedWebhook
  <2> QED
    BY <2>1, <2>2, <2>3, <2>4
<1>7. CASE UNCHANGED vars
  BY <1>1, <1>7 DEF vars
<1> QED
  BY <1>4, <1>5, <1>6, <1>7 DEF Next

(* A notification reaches GitHub only through these two. *)
LEMMA OnlyTwoPost ==
  ASSUME TypeOK, [Next]_vars, NEW r \in Runs, NEW p, p \in posted'[r], p \notin posted[r]
  PROVE  \/ p = "decision" /\ \E accepted \in BOOLEAN : ApprovalPosted(r, accepted)
         \/ p = "fallback" /\ RunFallback(r)
<1> USE DEF TypeOK
<1>1. posted' # posted
  OBVIOUS
<1>2. ASSUME NEW q \in Runs, RunStep(q)
      PROVE  p = "fallback" /\ RunFallback(r)
  <2>1. RunFallback(q)
    BY <1>1, <1>2 DEF RunStep, RunBegin, RunSkip, RunAdmit, RunLaunch, RunAllDone,
       RunSeesCancel, RunCancelWaited, RunCancelTimeout, RunDeadline,
       RunFallbackFails, RunFold, agents
  <2>2. PICK card \in githubListPRReviews :
          posted' = [posted EXCEPT ![q] = @ \cup IF card THEN {"fallback"} ELSE {}]
    BY <2>1 DEF RunFallback
  <2> QED
    BY <2>1, <2>2
<1>3. ASSUME NEW q \in Runs, NEW k \in Kinds, ChildStep(q, k)
      PROVE  p = "decision" /\ \E accepted \in BOOLEAN : ApprovalPosted(r, accepted)
  <2>1. PICK accepted \in BOOLEAN : ApprovalPosted(q, accepted)
    BY <1>1, <1>3 DEF ChildStep, ChildSlot, ChildStart, ChildFinish, AgentStep,
       AgentReturn, BugbotReview, BugbotRefused, ApprovalStops, ApprovalFails,
       ApprovalWeighs, ApprovalRefused, ApprovalSends, agents
  <2>2. posted' = [posted EXCEPT ![q] = @ \cup IF accepted THEN {"decision"} ELSE {}]
    BY <2>1 DEF ApprovalPosted
  <2> QED
    BY <2>1, <2>2
<1>4. CASE User
  BY <1>1, <1>4 DEF User, Enqueue, RetryRun, CancelRun, CancelChild, RetryChild,
     Merge, MergedWebhook, Resume, Restart, agents
<1>5. CASE UNCHANGED vars
  BY <1>1, <1>5 DEF vars, agents
<1> QED
  BY <1>2, <1>3, <1>4, <1>5 DEF Next

LEMMA DecisionNext ==
  ASSUME DecisionInv, [Next]_vars
  PROVE  DecisionInv'
<1>1. /\ BarrierInv /\ BarrierInv' /\ TypeOK /\ WithinBudget
      /\ ChildrenLeftAlone' => ChildrenLeftAlone
  BY BarrierNext, LeftAloneBefore DEF DecisionInv, BarrierInv
<1>2. SUFFICES ASSUME ChildrenLeftAlone', NEW r \in Runs,
                      \/ cpc'[r]["approval"] \in {"decide", "post"}
                      \/ "decision" \in posted'[r]
               PROVE  /\ \A k \in {"bugbot", "security", "cloud"} : Over(r, k)'
                      /\ ~NoReviewerInput(r)'
  BY <1>1 DEF DecisionInv, DecisionKept
<1>3. BarrierKept /\ DecisionKept
  BY <1>1, <1>2 DEF DecisionInv, BarrierInv
<1>4. {"bugbot", "security", "cloud", "approval"} \subseteq Kinds
  BY DEF Kinds
<1>5. CASE cpc[r]["approval"] \in {"decide", "post"} \/ "decision" \in posted[r]
  <2>1. /\ \A k \in {"bugbot", "security", "cloud"} : Over(r, k)
        /\ ~NoReviewerInput(r)
    BY <1>3, <1>5 DEF DecisionKept
  <2>2. \A k \in {"bugbot", "security", "cloud"} :
          child'[r][k] = child[r][k] /\ Over(r, k)'
    BY <1>1, <1>2, <1>3, <1>4, <2>1, OverStays
  <2> QED
    BY <2>1, <2>2 DEF NoReviewerInput
<1>6. CASE cpc[r]["approval"] \notin {"decide", "post"} /\ "decision" \notin posted[r]
  <2>1. "decision" \notin posted'[r]
    BY <1>1, <1>6, OnlyTwoPost DEF ApprovalPosted
  <2>2. ApprovalWeighs(r)
    BY <1>1, <1>2, <1>6, <2>1, OnlyWeighsDecides
  <2>3. /\ cpc[r]["approval"] = "body"
        /\ UNCHANGED <<child>>
        /\ cpc' = [cpc EXCEPT ![r]["approval"] =
                     IF NoReviewerInput(r) THEN "skip" ELSE "decide"]
    BY <2>2 DEF ApprovalWeighs
  <2>4. ~NoReviewerInput(r)
    BY <1>1, <1>2, <1>4, <2>1, <2>3 DEF TypeOK
  <2>5. DependsOn("approval") = {"bugbot", "security", "cloud"}
    BY DEF DependsOn
  <2>6. \A k \in {"bugbot", "security", "cloud"} : jobTerminal(child[r][k])
    BY <1>3, <1>4, <2>3, <2>5 DEF BarrierKept, WaitsForDependencies, agentChildReady
  <2>7. \A k \in {"bugbot", "security", "cloud"} : cpc[r][k] \notin HoldsSlot
    BY <1>3, <1>4, <2>3, <2>5, <2>6 DEF BarrierKept, CancelledHolderBlocks
  <2>8. \A k \in {"bugbot", "security", "cloud"} : cpc'[r][k] = cpc[r][k]
    BY <1>1, <1>4, <2>3 DEF TypeOK
  <2> QED
    BY <2>3, <2>4, <2>6, <2>7, <2>8 DEF Over, NoReviewerInput
<1> QED
  BY <1>5, <1>6

(* runApprovalAgent: through every cancel of a run, supersede, retry of a  *)
(* run, merge, resume and crash, a decision on GitHub is that of a run     *)
(* whose reviewers are through, did not both fail, and whose cloud agent   *)
(* pushes no more, until somebody cancels or retries a single child.       *)
THEOREM DecisionHolds == Spec => []DecisionAfterReviewers
<1>1. Init => DecisionInv
  <2> SUFFICES ASSUME Init PROVE DecisionInv
    OBVIOUS
  <2>1. DecisionKept
    BY DEF Init, DecisionKept, Kinds
  <2> QED
    BY <2>1, BarrierInit DEF DecisionInv
<1>2. DecisionInv /\ [Next]_vars => DecisionInv'
  BY DecisionNext
<1>3. DecisionInv => DecisionAfterReviewers
  BY DEF DecisionInv, DecisionKept, DecisionAfterReviewers, Over, NoReviewerInput
<1> QED
  BY <1>1, <1>2, <1>3, PTL DEF Spec

-----------------------------------------------------------------------------
(* The life of a run that is only superseded, merged and cancelled. *)

(* A run that is frozen stays frozen, child by child. *)
LEMMA FrozenStays ==
  ASSUME BarrierKept, WithinBudget, ChildrenLeftAlone', ProcessorHasRow, [Next]_vars,
         NEW r \in Runs, Frozen(r)
  PROVE  child'[r] = child[r] /\ Frozen(r)'
<1>1. TypeOK /\ TypeOK'
  BY NextType DEF BarrierKept
<1>2. ASSUME NEW k \in Kinds
      PROVE  child'[r][k] = child[r][k] /\ cpc'[r][k] \notin HoldsSlot
  <2>1. /\ child[r] # NoChildren
        /\ child[r][k] = "absent" \/ jobTerminal(child[r][k])
        /\ cpc[r][k] \notin HoldsSlot
    BY DEF Frozen, AllChildrenTerminal
  <2>2. child'[r][k] = child[r][k]
    BY <2>1, RowChange
  <2>3. CASE cpc'[r][k] \in HoldsSlot
    <3>1. ChildSlot(r, k)
      BY <1>1, <2>1, <2>3, OnlySlotTakes
    <3>2. child[r][k] # "absent"
      BY <3>1 DEF ChildSlot, ProcessorHasRow
    <3>3. cpc'[r][k] = "idle"
      BY <1>1, <2>1, <3>1, <3>2 DEF ChildSlot, TypeOK
    <3> QED
      BY <2>2, <3>3 DEF HoldsSlot
  <2> QED
    BY <2>2, <2>3
<1>3. child'[r] = child[r]
  BY <1>1, <1>2 DEF TypeOK
<1> QED
  BY <1>2, <1>3 DEF Frozen, AllChildrenTerminal

(* A child's processor moves from its place to another, or writes its own  *)
(* row as it does.                                                         *)
LEMMA ChildStepShape ==
  ASSUME TypeOK, NEW r \in Runs, NEW k \in Kinds, ChildStep(r, k)
  PROVE  \E j \in Kinds, x \in ChildPlaces :
           /\ cpc[r][j] # "idle"
           /\ cpc' = [cpc EXCEPT ![r][j] = x]
           /\ \/ /\ child' = child
                 /\ x \in HoldsSlot => cpc[r][j] \in HoldsSlot \/ ~jobTerminal(child[r][j])
              \/ \E s \in JobStatus \ {"queued", "absent"} :
                   /\ child' = [child EXCEPT ![r][j] = s]
                   /\ x \in HoldsSlot => ~jobTerminal(s)
<1> DEFINE Shape(j, x) ==
      /\ cpc[r][j] # "idle"
      /\ cpc' = [cpc EXCEPT ![r][j] = x]
      /\ \/ /\ child' = child
            /\ x \in HoldsSlot => cpc[r][j] \in HoldsSlot \/ ~jobTerminal(child[r][j])
         \/ \E s \in JobStatus \ {"queued", "absent"} :
              /\ child' = [child EXCEPT ![r][j] = s]
              /\ x \in HoldsSlot => ~jobTerminal(s)
<1>0. "bugbot" \in Kinds /\ "approval" \in Kinds
  BY DEF Kinds
<1>1. SUFFICES \E j \in Kinds, x \in ChildPlaces : Shape(j, x)
  OBVIOUS
<1>2. CASE ChildSlot(r, k)
  <2>1. Shape(k, IF jobTerminal(child[r][k]) THEN "idle" ELSE "start")
    BY <1>2 DEF ChildSlot, HoldsSlot
  <2> HIDE DEF Shape
  <2> QED
    BY <2>1 DEF ChildPlaces
<1>3. CASE ChildStart(r, k)
  <2>1. "running" \in JobStatus \ {"queued", "absent"} /\ ~jobTerminal("running")
    BY DEF JobStatus, jobTerminal
  <2>2. Shape(k, "body")
    BY <1>3, <2>1 DEF ChildStart
  <2> HIDE DEF Shape
  <2> QED
    BY <2>2 DEF ChildPlaces
<1>4. CASE ChildFinish(r, k)
  <2> DEFINE s == CASE cpc[r][k] = "ok" -> "completed"
                    [] cpc[r][k] = "err" -> "failed"
                    [] cpc[r][k] = "skip" -> "skipped"
  <2>1. s \in JobStatus \ {"queued", "absent"}
    BY <1>4 DEF ChildFinish, JobStatus
  <2>2. child' = [child EXCEPT ![r][k] = s]
    BY <1>4 DEF ChildFinish
  <2>3. cpc[r][k] # "idle" /\ cpc' = [cpc EXCEPT ![r][k] = "idle"]
    BY <1>4 DEF ChildFinish
  <2> HIDE DEF s
  <2>4. Shape(k, "idle")
    BY <2>1, <2>2, <2>3 DEF HoldsSlot
  <2> HIDE DEF Shape
  <2> QED
    BY <2>4 DEF ChildPlaces
<1>5. CASE ApprovalStops(r)
  <2>1. Shape("approval", "idle")
    BY <1>5 DEF ApprovalStops, JobStatus, HoldsSlot
  <2> HIDE DEF Shape
  <2> QED
    BY <1>0, <2>1 DEF ChildPlaces
<1>6. ASSUME NEW j \in Kinds, NEW x \in ChildPlaces,
             cpc[r][j] \in HoldsSlot, cpc' = [cpc EXCEPT ![r][j] = x], child' = child
      PROVE  \E h \in Kinds, y \in ChildPlaces : Shape(h, y)
  <2>1. Shape(j, x)
    BY <1>6 DEF HoldsSlot
  <2> HIDE DEF Shape
  <2> QED
    BY <2>1
<1> HIDE DEF Shape
<1>7. ASSUME NEW j \in Kinds, NEW outcome \in {"ok", "err", "skip"},
             cpc[r][j] \in HoldsSlot, Returned(r, j, outcome), child' = child
      PROVE  \E h \in Kinds, y \in ChildPlaces : Shape(h, y)
  <2> DEFINE x == IF ChildCancelled(r, j) THEN "idle" ELSE outcome
  <2>1. cpc' = [cpc EXCEPT ![r][j] = x]
    BY <1>7 DEF Returned
  <2>2. x \in ChildPlaces
    BY DEF ChildPlaces
  <2> HIDE DEF x
  <2> QED
    BY <1>6, <1>7, <2>1, <2>2
<1>8. "body" \in HoldsSlot /\ "decide" \in HoldsSlot /\ "post" \in HoldsSlot
  BY DEF HoldsSlot, ChildPlaces
<1>9. CASE \E outcome \in {"ok", "err", "skip"} : AgentReturn(r, k, outcome)
  BY <1>7, <1>8, <1>9 DEF AgentReturn
<1>10. CASE (\E success \in BOOLEAN : BugbotReview(r, success)) \/ BugbotRefused(r)
  BY <1>0, <1>7, <1>8, <1>10 DEF BugbotReview, BugbotRefused
<1>11. CASE ApprovalFails(r) \/ ApprovalSends(r)
  <2>1. "err" \in ChildPlaces /\ "post" \in ChildPlaces
    BY DEF ChildPlaces
  <2> QED
    BY <1>0, <1>6, <1>8, <1>11, <2>1 DEF ApprovalFails, ApprovalSends
<1>12. CASE ApprovalWeighs(r)
  <2> DEFINE x == IF NoReviewerInput(r) THEN "skip" ELSE "decide"
  <2>1. /\ cpc' = [cpc EXCEPT ![r]["approval"] = x]
        /\ cpc[r]["approval"] = "body"
        /\ child' = child
    BY <1>12 DEF ApprovalWeighs
  <2>2. x \in ChildPlaces
    BY DEF ChildPlaces
  <2> HIDE DEF x
  <2> QED
    BY <1>0, <1>6, <1>8, <2>1, <2>2
<1>13. CASE ApprovalRefused(r) \/ \E accepted \in BOOLEAN : ApprovalPosted(r, accepted)
  BY <1>0, <1>7, <1>8, <1>13 DEF ApprovalRefused, ApprovalPosted
<1> QED
  BY <1>2, <1>3, <1>4, <1>5, <1>9, <1>10, <1>11, <1>12, <1>13 DEF ChildStep, AgentStep

(* A child's processor touches neither the parent row nor its processor.   *)
LEMMA ChildStepParent ==
  ASSUME NEW r \in Runs, NEW k \in Kinds, ChildStep(r, k)
  PROVE  run' = run /\ rpc' = rpc
  BY DEF ChildStep, ChildSlot, ChildStart, ChildFinish, AgentStep, AgentReturn,
     BugbotReview, BugbotRefused, ApprovalStops, ApprovalFails, ApprovalWeighs,
     ApprovalRefused, ApprovalSends, ApprovalPosted

(* What is left of the external events. *)
LEMMA OnlyStops ==
  ASSUME TypeOK, WithinBudget, NeverRequeued', User
  PROVE  \/ \E r \in Runs, in \in Inputs : Enqueue(r, in)
         \/ (\E R \in SUBSET Runs : CancelRows(R)) /\ UNCHANGED <<rpc, cpc>>
         \/ UNCHANGED <<run, rpc, child, cpc>>
<1>1. ASSUME NEW e \in Events \ {"cancel", "merge"}, Spend(e)
      PROVE  FALSE
  BY <1>1 DEF Spend, WithinBudget, NeverRequeued, TypeOK
<1>2. ASSUME NEW r \in Runs, RetryRun(r)
      PROVE  FALSE
  BY <1>1, <1>2 DEF RetryRun, Events
<1>3. ASSUME NEW r \in Runs, NEW k \in Kinds, CancelChild(r, k) \/ RetryChild(r, k)
      PROVE  FALSE
  BY <1>1, <1>3 DEF CancelChild, RetryChild, Events
<1>4. ASSUME Resume \/ Restart
      PROVE  FALSE
  BY <1>1, <1>4 DEF Resume, Restart, Events
<1>5. ASSUME NEW r \in Runs, CancelRun(r)
      PROVE  (\E R \in SUBSET Runs : CancelRows(R)) /\ UNCHANGED <<rpc, cpc>>
  BY <1>5 DEF CancelRun
<1>6. CASE MergedWebhook
  BY <1>6 DEF MergedWebhook
<1>7. CASE Merge
  BY <1>7 DEF Merge
<1> QED
  BY <1>2, <1>3, <1>4, <1>5, <1>6, <1>7 DEF User

LEMMA ProcessorHasRowNext ==
  ASSUME BarrierKept, WithinBudget, LifecycleKept, NeverRequeued', [Next]_vars
  PROVE  ProcessorHasRow'
<1> USE DEF BarrierKept
<1>1. TypeOK /\ ChildrenLeftAlone' /\ ProcessorHasRow
  BY LeftAloneBefore DEF LifecycleKept
<1>2. SUFFICES ASSUME NEW r \in Runs, NEW k \in Kinds, cpc'[r][k] # "idle"
               PROVE  child'[r][k] # "absent"
  BY DEF ProcessorHasRow
<1>3. ASSUME NEW ch \in [Kinds -> JobStatus], ch[k] # "absent"
      PROVE  cascadeCancelRunChildren(ch)[k] # "absent"
  BY <1>3, CascadeKeepsReady
<1>4. child[r] \in [Kinds -> JobStatus]
  BY DEF TypeOK
<1>5. CASE UNCHANGED <<child, cpc>>
  BY <1>1, <1>2, <1>5 DEF ProcessorHasRow
<1>6. ASSUME NEW q \in Runs, RunStep(q)
      PROVE  child'[r][k] # "absent"
  <2>1. CASE RunAdmit(q)
    <3>1. child[r][k] # "absent"
      BY <1>1, <1>2, <2>1 DEF RunAdmit, ProcessorHasRow
    <3>2. child'[r][k] = child[r][k] \/ child'[r][k] = ensureRunChildren(child[r], input[r])[k]
      BY <2>1 DEF RunAdmit, TypeOK
    <3> QED
      BY <3>1, <3>2 DEF ensureRunChildren
  <2>2. CASE RunLaunch(q)
    <3>1. child' = child
      BY <2>2 DEF RunLaunch
    <3>2. cpc'[r] = cpc[r] \/ cpc'[r] = Dispatch(cpc[r], readyChildren(child[r]))
      BY <2>2 DEF RunLaunch, TypeOK
    <3>3. cpc[r][k] # "idle" \/ k \in readyChildren(child[r])
      <4>1. cpc[r] \in [Kinds -> ChildPlaces]
        BY DEF TypeOK
      <4>2. CASE cpc'[r] = Dispatch(cpc[r], readyChildren(child[r]))
        BY <1>2, <4>1, <4>2, DispatchPlaces
      <4> QED
        BY <1>2, <3>2, <4>2
    <3> QED
      BY <1>1, <3>1, <3>3 DEF ProcessorHasRow, readyChildren
  <2>3. CASE ~RunAdmit(q) /\ ~RunLaunch(q)
    BY <1>5, <1>6, <2>3 DEF RunStep, RunBegin, RunSkip, RunAllDone, RunSeesCancel,
       RunCancelWaited, RunCancelTimeout, RunDeadline, RunFallback, RunFallbackFails,
       RunFold
  <2> QED
    BY <2>1, <2>2, <2>3
<1>7. ASSUME NEW q \in Runs, NEW j \in Kinds, ChildStep(q, j)
      PROVE  child'[r][k] # "absent"
  <2>1. PICK h \in Kinds, x \in ChildPlaces :
          /\ cpc[q][h] # "idle"
          /\ cpc' = [cpc EXCEPT ![q][h] = x]
          /\ \/ child' = child
             \/ \E s \in JobStatus \ {"queued", "absent"} : child' = [child EXCEPT ![q][h] = s]
    BY <1>1, <1>7, ChildStepShape
  <2>2. cpc[r][k] # "idle"
    BY <1>1, <1>2, <2>1 DEF TypeOK
  <2>3. child[r][k] # "absent"
    BY <1>1, <2>2 DEF ProcessorHasRow
  <2>4. CASE child' = child
    BY <2>3, <2>4
  <2>5. ASSUME NEW s \in JobStatus \ {"queued", "absent"},
               child' = [child EXCEPT ![q][h] = s]
        PROVE  child'[r][k] # "absent"
    BY <1>1, <2>3, <2>5 DEF TypeOK
  <2> QED
    BY <2>1, <2>4, <2>5
<1>8. CASE User
  <2>1. ASSUME NEW q \in Runs, NEW in \in Inputs, Enqueue(q, in)
        PROVE  child'[r][k] # "absent"
    <3>1. cpc[r][k] # "idle"
      BY <1>2, <2>1 DEF Enqueue
    <3>2. child[r][k] # "absent"
      BY <1>1, <3>1 DEF ProcessorHasRow
    <3>3. PlannedRow(run[q], child[q], cpc[q], input[q]) /\ run[q] = "absent"
      BY <2>1 DEF PlannedOnce, Enqueue
    <3>4. q # r
      BY <3>1, <3>3 DEF PlannedRow
    <3>5. child'[r] = child[r] \/ child'[r] = cascadeCancelRunChildren(child[r])
      BY <2>1, <3>4 DEF Enqueue
    <3> QED
      BY <1>3, <1>4, <3>2, <3>5
  <2>2. ASSUME NEW R \in SUBSET Runs, CancelRows(R), cpc' = cpc
        PROVE  child'[r][k] # "absent"
    <3>1. child'[r] = child[r] \/ child'[r] = cascadeCancelRunChildren(child[r])
      BY <2>2 DEF CancelRows
    <3> QED
      BY <1>1, <1>2, <1>3, <1>4, <2>2, <3>1 DEF ProcessorHasRow
  <2> QED
    BY <1>1, <1>5, <1>8, <2>1, <2>2, OnlyStops
<1> QED
  BY <1>5, <1>6, <1>7, <1>8 DEF Next, vars

(* Whatever stops a run leaves it where it is. *)
LEMMA StoppedPlace ==
  ASSUME NEW r \in Runs, PlaceAgrees(r), rpc'[r] = rpc[r], cpc'[r] = cpc[r],
         Frozen(r) => Frozen(r)',
         \/ run'[r] = run[r] /\ child'[r] = child[r]
         \/ run[r] \in InFlight /\ run'[r] = "cancelled"
         \/ run[r] \notin InFlight /\ run'[r] = run[r]
  PROVE  PlaceAgrees(r)'
  BY DEF PlaceAgrees, InFlight

LEMMA PlaceNext ==
  ASSUME BarrierKept, WithinBudget, LifecycleKept, NeverRequeued', [Next]_vars,
         NEW r \in Runs
  PROVE  PlaceAgrees(r)'
<1> USE DEF BarrierKept
<1>1. /\ TypeOK /\ TypeOK' /\ ChildrenLeftAlone' /\ ProcessorHasRow
      /\ PlaceAgrees(r)
  BY LeftAloneBefore, NextType DEF LifecycleKept
<1>2. Frozen(r) => Frozen(r)'
  BY <1>1, FrozenStays
<1>3. CASE /\ rpc'[r] = rpc[r] /\ run'[r] = run[r]
           /\ cpc'[r] = cpc[r] /\ child'[r] = child[r]
  BY <1>1, <1>2, <1>3, StoppedPlace
<1>4. CASE RunStep(r)
  <2>1. CASE RunBegin(r)
    <3>1. /\ rpc[r] = "spawned"
          /\ rpc'[r] = IF jobTerminal(run[r]) \/ run[r] = "completed_with_errors"
                       THEN "idle" ELSE "gate"
          /\ run' = run /\ cpc' = cpc
      BY <1>1, <2>1 DEF RunBegin, TypeOK
    <3> QED
      BY <1>1, <3>1 DEF PlaceAgrees, jobTerminal
  <2>2. CASE RunSkip(r)
    BY <1>1, <2>2 DEF RunSkip, PlaceAgrees, TypeOK
  <2>3. CASE RunAdmit(r)
    <3>1. rpc[r] = "gate" /\ rpc'[r] = "loop" /\ run'[r] = "running" /\ cpc' = cpc
      BY <1>1, <2>3 DEF RunAdmit, TypeOK
    <3>2. \A k \in Kinds : cpc'[r][k] \notin HoldsSlot
      BY <1>1, <3>1 DEF PlaceAgrees, HoldsSlot
    <3> QED
      BY <3>1, <3>2 DEF PlaceAgrees
  <2>4. CASE RunLaunch(r)
    <3>1. rpc[r] = "loop" /\ rpc' = rpc /\ run' = run /\ child' = child /\ ~Cancelled(r)
      BY <2>4 DEF RunLaunch
    <3>2. cpc'[r] = Dispatch(cpc[r], readyChildren(child[r]))
      BY <1>1, <2>4 DEF RunLaunch, TypeOK
    <3>3. \A k \in Kinds : cpc'[r][k] \in HoldsSlot => cpc[r][k] \in HoldsSlot
      BY <1>1, <3>2, DispatchPlaces DEF TypeOK
    <3> QED
      BY <1>1, <3>1, <3>3 DEF PlaceAgrees
  <2>5. CASE RunAllDone(r)
    <3>1. /\ rpc[r] = "loop" /\ rpc'[r] = "final" /\ run' = run /\ cpc' = cpc
          /\ child' = child /\ run[r] # "cancelled" /\ AllChildrenTerminal(r)
      BY <1>1, <2>5 DEF RunAllDone, TypeOK, Cancelled
    <3>2. run[r] = "running"
      BY <1>1, <3>1 DEF PlaceAgrees
    <3>3. \A k \in Kinds : cpc[r][k] \notin HoldsSlot
      BY <1>1, <3>1 DEF PlaceAgrees, AllChildrenTerminal, ProcessorHasRow, HoldsSlot
    <3>4. Frozen(r)
      BY <3>1, <3>3 DEF Frozen
    <3> QED
      BY <1>2, <3>1, <3>2, <3>4 DEF PlaceAgrees
  <2>6. CASE RunSeesCancel(r)
    <3>1. rpc'[r] = "cwait" /\ run' = run /\ run[r] = "cancelled"
      BY <1>1, <2>6 DEF RunSeesCancel, TypeOK, Cancelled
    <3> QED
      BY <3>1 DEF PlaceAgrees
  <2>7. CASE RunCancelWaited(r) \/ RunCancelTimeout(r)
    <3>1. rpc[r] = "cwait" /\ rpc'[r] = "final" /\ run' = run
      BY <1>1, <2>7 DEF RunCancelWaited, RunCancelTimeout, TypeOK
    <3> QED
      BY <1>1, <3>1 DEF PlaceAgrees
  <2>8. CASE RunDeadline(r)
    <3>1. /\ rpc[r] = "loop" /\ rpc'[r] = "idle"
          /\ run'[r] = IF jobTerminal(run[r]) THEN run[r] ELSE "error"
      BY <1>1, <2>8 DEF RunDeadline, TypeOK
    <3> QED
      BY <3>1 DEF PlaceAgrees, jobTerminal
  <2>9. CASE RunFallback(r) \/ RunFallbackFails(r)
    <3>1. rpc[r] = "final" /\ rpc'[r] = "fold" /\ run' = run
      BY <1>1, <2>9 DEF RunFallback, RunFallbackFails, TypeOK
    <3> QED
      BY <1>1, <1>2, <3>1 DEF PlaceAgrees
  <2>10. CASE RunFold(r)
    <3>1. /\ rpc[r] \in {"final", "fold"} /\ rpc'[r] = "idle"
          /\ run'[r] = IF Cancelled(r) THEN "cancelled" ELSE foldRunStatus(child[r], run[r])
      BY <1>1, <2>10 DEF RunFold, TypeOK
    <3>2. CASE Frozen(r)
      <4>1. foldRunStatus(child[r], run[r]) \notin {"queued", "running"}
        BY <3>2 DEF foldRunStatus, Frozen, AllChildrenTerminal, jobTerminal
      <4> QED
        BY <3>1, <4>1 DEF PlaceAgrees
    <3>3. CASE ~Frozen(r)
      BY <1>1, <3>1, <3>3 DEF PlaceAgrees, Cancelled
    <3> QED
      BY <3>2, <3>3
  <2> QED
    BY <1>4, <2>1, <2>2, <2>3, <2>4, <2>5, <2>6, <2>7, <2>8, <2>9, <2>10 DEF RunStep
<1>5. ASSUME NEW q \in Runs, RunStep(q), q # r
      PROVE  PlaceAgrees(r)'
  <2>1. /\ rpc'[r] = rpc[r] /\ run'[r] = run[r]
        /\ cpc'[r] = cpc[r] /\ child'[r] = child[r]
    BY <1>1, <1>5 DEF RunStep, RunBegin, RunSkip, RunAdmit, RunLaunch, RunAllDone,
       RunSeesCancel, RunCancelWaited, RunCancelTimeout, RunDeadline, RunFallback,
       RunFallbackFails, RunFold, TypeOK
  <2> QED
    BY <1>3, <2>1
<1>6. ASSUME NEW q \in Runs, NEW k \in Kinds, ChildStep(q, k)
      PROVE  PlaceAgrees(r)'
  <2>1. run' = run /\ rpc' = rpc
    BY <1>6, ChildStepParent
  <2>2. PICK j \in Kinds, x \in ChildPlaces :
          /\ cpc[q][j] # "idle"
          /\ cpc' = [cpc EXCEPT ![q][j] = x]
          /\ \/ /\ child' = child
                /\ x \in HoldsSlot => cpc[q][j] \in HoldsSlot \/ ~jobTerminal(child[q][j])
             \/ \E s \in JobStatus \ {"queued", "absent"} :
                  /\ child' = [child EXCEPT ![q][j] = s]
                  /\ x \in HoldsSlot => ~jobTerminal(s)
    BY <1>1, <1>6, ChildStepShape
  <2>3. CASE q # r
    BY <1>1, <1>3, <2>1, <2>2, <2>3 DEF TypeOK
  <2>4. CASE q = r
    <3>1. rpc[r] \notin {"spawned", "gate"}
      BY <1>1, <2>2, <2>4 DEF PlaceAgrees
    <3>2. ASSUME \A h \in Kinds : cpc[r][h] \in HoldsSlot => ~jobTerminal(child[r][h])
          PROVE  \A h \in Kinds : cpc'[r][h] \in HoldsSlot => ~jobTerminal(child'[r][h])
      <4> SUFFICES ASSUME NEW h \in Kinds, cpc'[r][h] \in HoldsSlot
                   PROVE  ~jobTerminal(child'[r][h])
        OBVIOUS
      <4>1. CASE h = j
        BY <1>1, <2>2, <2>4, <3>2, <4>1 DEF TypeOK
      <4>2. CASE h # j
        BY <1>1, <2>2, <2>4, <3>2, <4>2 DEF TypeOK
      <4> QED
        BY <4>1, <4>2
    <3> QED
      BY <1>1, <1>2, <2>1, <3>1, <3>2 DEF PlaceAgrees
  <2> QED
    BY <2>3, <2>4
<1>7. CASE User
  <2>1. ASSUME NEW q \in Runs, NEW in \in Inputs, Enqueue(q, in)
        PROVE  PlaceAgrees(r)'
    <3>1. CASE q = r
      <4>1. /\ cpc' = cpc /\ run[r] = "absent"
            /\ rpc'[r] = "spawned" /\ run'[r] \in {"queued", "skipped"}
        BY <1>1, <2>1, <3>1 DEF Enqueue, TypeOK
      <4>2. cpc[r] = [j \in Kinds |-> "idle"]
        BY <4>1 DEF PlannedOnce, PlannedRow
      <4> QED
        BY <4>1, <4>2 DEF PlaceAgrees
    <3>2. CASE q # r
      <4>1. /\ cpc'[r] = cpc[r] /\ rpc'[r] = rpc[r]
            /\ \/ run'[r] = run[r] /\ child'[r] = child[r]
               \/ run[r] \in InFlight /\ run'[r] = "cancelled"
               \/ run[r] \notin InFlight /\ run'[r] = run[r]
        BY <1>1, <2>1, <3>2 DEF Enqueue, TypeOK
      <4> QED
        BY <1>1, <1>2, <4>1, StoppedPlace
    <3> QED
      BY <3>1, <3>2
  <2>2. ASSUME NEW R \in SUBSET Runs, CancelRows(R), UNCHANGED <<rpc, cpc>>
        PROVE  PlaceAgrees(r)'
    <3>1. \/ run'[r] = run[r] /\ child'[r] = child[r]
          \/ run[r] \in InFlight /\ run'[r] = "cancelled"
          \/ run[r] \notin InFlight /\ run'[r] = run[r]
      BY <2>2 DEF CancelRows
    <3> QED
      BY <1>1, <1>2, <2>2, <3>1, StoppedPlace
  <2> QED
    BY <1>1, <1>3, <1>7, <2>1, <2>2, OnlyStops
<1> QED
  BY <1>3, <1>4, <1>5, <1>6, <1>7 DEF Next, vars

(* pending_decision = false is never taken back. *)
LEMMA DecidedStays ==
  ASSUME TypeOK, [Next]_vars, NEW r \in Runs, decided[r]
  PROVE  decided'[r]
<1>1. CASE decided' = decided
  BY <1>1
<1>2. ASSUME NEW q \in Runs, RunStep(q)
      PROVE  decided' = decided
  BY <1>2 DEF RunStep, RunBegin, RunSkip, RunAdmit, RunLaunch, RunAllDone,
     RunSeesCancel, RunCancelWaited, RunCancelTimeout, RunDeadline, RunFallback,
     RunFallbackFails, RunFold, agents
<1>3. ASSUME NEW q \in Runs, NEW k \in Kinds, ChildStep(q, k)
      PROVE  decided' = decided \/ decided' = [decided EXCEPT ![q] = TRUE]
  BY <1>3 DEF ChildStep, ChildSlot, ChildStart, ChildFinish, AgentStep, AgentReturn,
     BugbotReview, BugbotRefused, ApprovalStops, ApprovalFails, ApprovalWeighs,
     ApprovalRefused, ApprovalSends, ApprovalPosted, agents
<1>4. CASE User
  BY <1>4 DEF User, Enqueue, RetryRun, CancelRun, CancelChild, RetryChild, Merge,
     MergedWebhook, Resume, Restart, agents
<1> QED
  BY <1>1, <1>2, <1>3, <1>4 DEF Next, vars, agents, TypeOK

(* A status changes to completed only as the fold of a run that is frozen. *)
LEMMA OnlyFoldCompletes ==
  ASSUME BarrierKept, WithinBudget, LifecycleKept, NeverRequeued', [Next]_vars,
         NEW r \in Runs, run'[r] \in {"completed", "completed_with_errors"}
  PROVE  \/ run[r] = run'[r] /\ rpc[r] = "idle" /\ rpc'[r] = "idle"
         \/ RunFold(r) /\ run[r] = "running"
<1>1. TypeOK /\ PlaceAgrees(r) /\ EndAgrees(r)
  BY DEF BarrierKept, LifecycleKept
<1>2. CASE run'[r] = run[r]
  <2>1. rpc[r] = "idle"
    BY <1>1, <1>2 DEF EndAgrees
  <2>2. ASSUME NEW q \in Runs, RunStep(q)
        PROVE  rpc'[r] = "idle"
    BY <1>1, <2>1, <2>2 DEF RunStep, RunBegin, RunSkip, RunAdmit, RunLaunch, RunAllDone,
       RunSeesCancel, RunCancelWaited, RunCancelTimeout, RunDeadline, RunFallback,
       RunFallbackFails, RunFold, TypeOK
  <2>3. ASSUME NEW q \in Runs, NEW in \in Inputs, Enqueue(q, in)
        PROVE  rpc'[r] = "idle"
    BY <1>1, <1>2, <2>1, <2>3 DEF Enqueue, TypeOK
  <2>4. ASSUME User
        PROVE  rpc'[r] = "idle"
    <3>1. \/ \E q \in Runs, in \in Inputs : Enqueue(q, in)
          \/ rpc' = rpc
      BY <1>1, <2>4, OnlyStops
    <3> QED
      BY <2>1, <2>3, <3>1
  <2>5. ASSUME NEW q \in Runs, NEW k \in Kinds, ChildStep(q, k)
        PROVE  rpc'[r] = "idle"
    BY <2>1, <2>5, ChildStepParent
  <2> QED
    BY <1>2, <2>1, <2>2, <2>4, <2>5 DEF Next, vars
<1>3. CASE run'[r] # run[r]
  <2>1. ASSUME NEW q \in Runs, RunStep(q)
        PROVE  RunFold(r) /\ run[r] = "running"
    <3>1. q = r
      BY <1>1, <1>3, <2>1 DEF RunStep, RunBegin, RunSkip, RunAdmit, RunLaunch,
         RunAllDone, RunSeesCancel, RunCancelWaited, RunCancelTimeout, RunDeadline,
         RunFallback, RunFallbackFails, RunFold, TypeOK
    <3>2. RunFold(r)
      BY <1>1, <1>3, <2>1, <3>1 DEF RunStep, RunBegin, RunSkip, RunAdmit, RunLaunch,
         RunAllDone, RunSeesCancel, RunCancelWaited, RunCancelTimeout, RunDeadline,
         RunFallback, RunFallbackFails, TypeOK
    <3>3. run[r] # "cancelled" /\ rpc[r] \in {"final", "fold"}
      BY <1>1, <3>2 DEF RunFold, Cancelled, TypeOK
    <3> QED
      BY <1>1, <3>2, <3>3 DEF PlaceAgrees
  <2>2. ASSUME NEW q \in Runs, NEW in \in Inputs, Enqueue(q, in)
        PROVE  FALSE
    BY <1>1, <1>3, <2>2 DEF Enqueue, TypeOK
  <2>3. ASSUME NEW R, CancelRows(R)
        PROVE  FALSE
    BY <1>3, <2>3 DEF CancelRows
  <2>4. CASE User
    BY <1>1, <1>3, <2>2, <2>3, <2>4, OnlyStops
  <2> QED
    BY <1>3, <2>1, <2>4, ChildStepParent DEF Next, vars
<1> QED
  BY <1>2, <1>3

LEMMA EndNext ==
  ASSUME BarrierKept, WithinBudget, LifecycleKept, NeverRequeued', [Next]_vars,
         NEW r \in Runs
  PROVE  EndAgrees(r)'
<1>1. /\ TypeOK /\ ChildrenLeftAlone' /\ ProcessorHasRow
      /\ PlaceAgrees(r) /\ EndAgrees(r)
  BY LeftAloneBefore DEF BarrierKept, LifecycleKept
<1>2. Frozen(r) => Frozen(r)' /\ child'[r] = child[r]
  BY <1>1, FrozenStays
<1>3. ASSUME run'[r] \in {"completed", "completed_with_errors"}
      PROVE  /\ Frozen(r)' /\ rpc'[r] = "idle"
             /\ run'[r] = "completed" =>
                  \A k \in Kinds : child'[r][k] \notin {"failed", "error"}
  <2>1. CASE run[r] = run'[r] /\ rpc[r] = "idle" /\ rpc'[r] = "idle"
    BY <1>1, <1>2, <1>3, <2>1 DEF EndAgrees
  <2>2. CASE RunFold(r) /\ run[r] = "running"
    <3>1. /\ rpc[r] \in {"final", "fold"} /\ rpc'[r] = "idle"
          /\ run'[r] = foldRunStatus(child[r], run[r])
      BY <1>1, <2>2 DEF RunFold, Cancelled, TypeOK
    <3>2. Frozen(r)
      BY <1>1, <2>2, <3>1 DEF PlaceAgrees
    <3>3. child[r] # NoChildren
      BY <3>2 DEF Frozen, AllChildrenTerminal
    <3>4. run'[r] = "completed" =>
            \A k \in Kinds : child[r][k] \notin {"failed", "error"}
      BY <3>1, <3>3 DEF foldRunStatus
    <3> QED
      BY <1>2, <3>1, <3>2, <3>4
  <2> QED
    BY <1>3, <2>1, <2>2, OnlyFoldCompletes
<1>4. ASSUME "decision" \in posted'[r]
      PROVE  decided'[r]
  <2>1. CASE "decision" \in posted[r]
    BY <1>1, <2>1, DecidedStays DEF EndAgrees
  <2>2. CASE "decision" \notin posted[r]
    BY <1>1, <1>4, <2>2, OnlyTwoPost DEF ApprovalPosted, TypeOK
  <2> QED
    BY <2>1, <2>2
<1>5. ASSUME "fallback" \in posted'[r]
      PROVE  Frozen(r)' /\ "decision" \notin posted'[r]
  <2>1. CASE "fallback" \in posted[r]
    <3>1. Frozen(r) /\ "decision" \notin posted[r]
      BY <1>1, <2>1 DEF EndAgrees
    <3>2. cpc[r]["approval"] # "post"
      BY <3>1 DEF Frozen, HoldsSlot, ChildPlaces, Kinds
    <3> QED
      BY <1>1, <1>2, <3>1, <3>2, OnlyTwoPost DEF ApprovalPosted
  <2>2. CASE "fallback" \notin posted[r]
    <3>1. RunFallback(r)
      BY <1>1, <1>5, <2>2, OnlyTwoPost
    <3>2. rpc[r] = "final" /\ run[r] # "cancelled" /\ ~decided[r]
      BY <3>1 DEF RunFallback, OwesComment, Cancelled
    <3>3. Frozen(r) /\ "decision" \notin posted[r]
      BY <1>1, <3>2 DEF PlaceAgrees, EndAgrees
    <3>4. cpc[r]["approval"] # "post"
      BY <3>3 DEF Frozen, HoldsSlot, ChildPlaces, Kinds
    <3> QED
      BY <1>1, <1>2, <3>3, <3>4, OnlyTwoPost DEF ApprovalPosted
  <2> QED
    BY <2>1, <2>2
<1> QED
  BY <1>3, <1>4, <1>5 DEF EndAgrees

LEMMA LifecycleHolds == Spec => []LifecycleInv
<1>1. Init => LifecycleInv
  <2> SUFFICES ASSUME Init PROVE LifecycleInv
    OBVIOUS
  <2>1. ProcessorHasRow
    BY DEF Init, ProcessorHasRow
  <2>2. \A r \in Runs : PlaceAgrees(r) /\ EndAgrees(r)
    BY DEF Init, PlaceAgrees, EndAgrees
  <2> QED
    BY <2>1, <2>2, BarrierInit DEF LifecycleInv, LifecycleKept
<1>2. LifecycleInv /\ [Next]_vars => LifecycleInv'
  <2> SUFFICES ASSUME LifecycleInv, [Next]_vars PROVE LifecycleInv'
    OBVIOUS
  <2>1. BarrierInv /\ BarrierInv' /\ TypeOK /\ WithinBudget
    BY BarrierNext DEF LifecycleInv, BarrierInv
  <2>2. ASSUME NeverRequeued'
        PROVE  LifecycleKept'
    <3>1. BarrierKept /\ LifecycleKept
      BY <2>1, <2>2, LeftAloneBefore DEF LifecycleInv, BarrierInv
    <3> QED
      BY <2>1, <2>2, <3>1, ProcessorHasRowNext, PlaceNext, EndNext DEF LifecycleKept
  <2> QED
    BY <2>1, <2>2 DEF LifecycleInv
<1> QED
  BY <1>1, <1>2, PTL DEF Spec

(* processPRRun: with several commits superseding each other, merges,      *)
(* cancels, failing agents and deadlines, no parent row is left in flight  *)
(* without a processor, as long as nothing is queued again.                *)
THEOREM NoRunIsOrphaned == Spec => []NoOrphanedRun
<1>1. LifecycleInv => NoOrphanedRun
  BY DEF LifecycleInv, LifecycleKept, PlaceAgrees, NoOrphanedRun, InFlight
<1> QED
  BY <1>1, LifecycleHolds, PTL

(* finalizePRRun: under the same events, a run that says completed has     *)
(* only terminal children, and no failed one if it says so without errors. *)
THEOREM FoldIsHonest == Spec => []FoldHonest
<1>1. LifecycleInv => FoldHonest
  BY DEF LifecycleInv, LifecycleKept, EndAgrees, FoldHonest, Frozen
<1> QED
  BY <1>1, LifecycleHolds, PTL

(* ensureFinalCOMMENTReview: under the same events, no run ever gets both  *)
(* the decision and the COMMENT that stands in for it.                     *)
THEOREM NotifiedOnce == Spec => []SingleNotification
<1>1. LifecycleInv => SingleNotification
  BY DEF LifecycleInv, LifecycleKept, EndAgrees, SingleNotification
<1> QED
  BY <1>1, LifecycleHolds, PTL
=============================================================================
