--------------------------- MODULE WebhooksProofs ---------------------------
(* Proofs about Webhooks for any requests, deliveries, ends and number of  *)
(* crashes: one run in the queue, receipts that settle with their jobs,    *)
(* and a receipt for every job; and, in the last part, about what the      *)
(* webhook of a labelled issue starts (IssueRun).                          *)
EXTENDS Webhooks, IssueRun, FiniteSetTheorems, WellFoundedInduction, TLAPS

(* Receipts and rows. *)

LEMMA ReceiptNames ==
  /\ \A r \in Requests : <<"live", r>> \in Receipts /\ <<"backfill", r>> \in Receipts
  /\ \A r, s \in Requests : <<"live", r>> = <<"live", s>> => r = s
  /\ \A r, s \in Requests : <<"live", r>> # <<"backfill", s>>
  /\ \A x \in Receipts : \E r \in Requests : x = <<"live", r>> \/ x = <<"backfill", r>>
  BY DEF Receipts

LEMMA StatusKinds ==
  /\ "queued" \in Statuses /\ "running" \in Statuses /\ "cancelled" \in Statuses
  /\ "skipped" \in Statuses /\ "absent" \notin Statuses
  /\ InFlight = {"queued", "running"} /\ InFlight \subseteq Statuses
  /\ Finished \subseteq Statuses /\ "queued" \notin Finished /\ "running" \notin Finished
  /\ "cancelled" \notin InFlight
  BY DEF Statuses, InFlight, Finished

LEMMA TerminalOutcome ==
  ASSUME NEW s
  PROVE  /\ jobTerminalWebhookOutcome(s) \in Outcomes
         /\ jobTerminalWebhookOutcome(s) # "none"
         /\ s \in Statuses /\ jobTerminalWebhookOutcome(s) = "queued" =>
              s \in InFlight \cup {"completed_with_errors"}
  BY DEF jobTerminalWebhookOutcome, Outcomes, Statuses, InFlight

LEMMA ReceiptType ==
  ASSUME TypeOK, NEW x \in Receipts
  PROVE  /\ receipt[x].job \in Requests \cup {NoJob}
         /\ receipt[x].outcome \in Outcomes \cup {"none"}
         /\ receipt[x].outcome = "none" <=> receipt[x] = NoReceipt
         /\ receipt[x].job # NoJob => receipt[x] # NoReceipt /\ receipt[x].job \in Requests
<1>1. receipt[x] \in {NoReceipt} \cup [outcome : Outcomes, job : Requests \cup {NoJob}]
  BY DEF TypeOK
<1>2. "none" \notin Outcomes /\ NoReceipt.outcome = "none" /\ NoReceipt.job = NoJob
  BY DEF Outcomes, NoReceipt
<1>3. CASE receipt[x] = NoReceipt
  BY <1>2, <1>3
<1>4. CASE receipt[x] \in [outcome : Outcomes, job : Requests \cup {NoJob}]
  BY <1>2, <1>4
<1> QED
  BY <1>1, <1>3, <1>4

ReceiptMaps ==
  [Receipts -> {NoReceipt} \cup [outcome : Outcomes, job : Requests \cup {NoJob}]]

(* What the receipts are after some of them have settled with their jobs. *)
Settled(new, xs, jobs) ==
  /\ new \in ReceiptMaps
  /\ \A x \in Receipts :
       /\ new[x].job = receipt[x].job
       /\ new[x] = NoReceipt <=> receipt[x] = NoReceipt
       /\ new[x].outcome = "none" <=> receipt[x].outcome = "none"
       /\ new[x].outcome = "queued" =>
            /\ receipt[x].outcome = "queued"
            /\ x \in xs /\ receipt[x].job # NoJob /\ jobs[receipt[x].job] \in Statuses =>
                 jobs[receipt[x].job] \in InFlight \cup {"completed_with_errors"}

LEMMA ReconciledSettles ==
  ASSUME TypeOK, NEW xs, NEW jobs
  PROVE  Settled(reconciled(xs, jobs), xs, jobs)
<1> DEFINE new == reconciled(xs, jobs)
           kind == {NoReceipt} \cup [outcome : Outcomes, job : Requests \cup {NoJob}]
<1>1. SUFFICES ASSUME NEW x \in Receipts
               PROVE  /\ new[x] \in kind
                      /\ new[x].job = receipt[x].job
                      /\ new[x] = NoReceipt <=> receipt[x] = NoReceipt
                      /\ new[x].outcome = "none" <=> receipt[x].outcome = "none"
                      /\ new[x].outcome = "queued" =>
                           /\ receipt[x].outcome = "queued"
                           /\ x \in xs /\ receipt[x].job # NoJob
                                /\ jobs[receipt[x].job] \in Statuses =>
                                jobs[receipt[x].job] \in InFlight \cup {"completed_with_errors"}
  BY DEF Settled, reconciled, ReceiptMaps
<1> DEFINE o == jobTerminalWebhookOutcome(jobs[receipt[x].job])
<1>2. o \in Outcomes /\ o # "none"
      /\ (jobs[receipt[x].job] \in Statuses /\ o = "queued" =>
            jobs[receipt[x].job] \in InFlight \cup {"completed_with_errors"})
  BY TerminalOutcome
<1>3. receipt[x] \in kind
  BY DEF TypeOK
<1>4. CASE x \in xs /\ receipt[x].outcome = "queued" /\ receipt[x].job # NoJob
  <2>1. new[x] = [receipt[x] EXCEPT !.outcome = o]
    BY <1>4 DEF reconciled
  <2>2. receipt[x] \in [outcome : Outcomes, job : Requests \cup {NoJob}]
    BY <1>3, <1>4 DEF NoReceipt
  <2> HIDE DEF o, new
  <2>3. /\ new[x] \in [outcome : Outcomes, job : Requests \cup {NoJob}]
        /\ new[x].outcome = o /\ new[x].job = receipt[x].job
    BY <1>2, <2>1, <2>2
  <2>4. new[x] # NoReceipt /\ receipt[x] # NoReceipt
    BY <1>2, <1>4, <2>3 DEF NoReceipt
  <2> QED
    BY <1>2, <1>4, <2>3, <2>4
<1>5. CASE ~(x \in xs /\ receipt[x].outcome = "queued" /\ receipt[x].job # NoJob)
  <2>1. new[x] = receipt[x]
    BY <1>5 DEF reconciled
  <2> HIDE DEF new
  <2> QED
    BY <1>3, <1>5, <2>1
<1> QED
  BY <1>4, <1>5

(* finishWebhookReceipt on receipts that have settled. *)
LEMMA FinishWrites ==
  ASSUME TypeOK, NEW r \in Requests, NEW old, NEW xs, NEW jobs, Settled(old, xs, jobs),
         NEW o \in Outcomes, NEW j \in Requests \cup {NoJob}, Finish(r, old, o, j)
  PROVE  /\ receipt' \in ReceiptMaps
         /\ receipt'[<<"live", r>>].outcome = o /\ receipt'[<<"live", r>>].job = j
         /\ \A x \in Receipts : x # <<"live", r>> => receipt'[x] = old[x]
         /\ seen' = seen \cup {<<"live", r>>}
         /\ OnFile' = OnFile \cup {<<"live", r>>}
<1>1. <<"live", r>> \in Receipts
  BY ReceiptNames
<1>2. /\ receipt' = [old EXCEPT ![<<"live", r>>] = [outcome |-> o, job |-> j]]
      /\ seen' = seen \cup {<<"live", r>>}
  BY DEF Finish
<1>3. old \in ReceiptMaps
  BY DEF Settled
<1>4. [outcome |-> o, job |-> j] \in [outcome : Outcomes, job : Requests \cup {NoJob}]
  OBVIOUS
<1>5. receipt' \in ReceiptMaps
  BY <1>1, <1>2, <1>3, <1>4 DEF ReceiptMaps
<1>6. receipt'[<<"live", r>>] = [outcome |-> o, job |-> j]
  BY <1>1, <1>2, <1>3 DEF ReceiptMaps
<1>7. \A x \in Receipts : x # <<"live", r>> => receipt'[x] = old[x]
  BY <1>2, <1>3
<1>8. o # "none"
  BY DEF Outcomes
<1>9. OnFile' = OnFile \cup {<<"live", r>>}
  BY <1>1, <1>6, <1>7, <1>8 DEF OnFile, Settled
<1> QED
  BY <1>2, <1>5, <1>6, <1>7, <1>9

LEMMA Unsettled ==
  ASSUME TypeOK
  PROVE  Settled(receipt, {}, job)
  BY DEF Settled, ReceiptMaps, TypeOK

LEMMA StampType ==
  ASSUME NEW js, Stamp(js)
  PROVE  started' \in [Requests -> Nat]
<1> DEFINE now == 1 + Max({started[j] : j \in Requests})
           stamp(j) == IF j \in js THEN now ELSE started[j]
           runs == {j \in Requests : OfPR(j) /\ job'[j] \in InFlight}
           before(j) == {stamp(k) : k \in {k \in runs : stamp(k) < stamp(j)}}
<1>1. started' = [j \in Requests |-> IF j \in runs THEN 1 + Cardinality(before(j)) ELSE 0]
  BY DEF Stamp
<1>2. ASSUME NEW j \in Requests PROVE Cardinality(before(j)) \in Nat
  <2> DEFINE ks == {k \in runs : stamp(k) < stamp(j)}
  <2>1. IsFiniteSet(Requests) /\ ks \subseteq Requests
    BY RequestsAssumption
  <2>2. IsFiniteSet(ks)
    BY <2>1, FS_Subset
  <2> DEFINE f == [k \in ks |-> stamp(k)]
  <2> HIDE DEF stamp
  <2>3. before(j) = {f[k] : k \in ks}
    OBVIOUS
  <2> HIDE DEF ks, before
  <2>4. f \in Surjection(ks, before(j))
    BY <2>3 DEF Surjection
  <2> HIDE DEF f
  <2>5. IsFiniteSet(before(j))
    BY <2>2, <2>4, FS_Surjection
  <2> QED
    BY <2>5, FS_CardinalityType
<1> HIDE DEF before, runs
<1> QED
  BY <1>1, <1>2

LEMMA CancelType ==
  ASSUME TypeOK, NEW js, js \subseteq loaded, Cancel(js)
  PROVE  /\ job' \in [Requests -> Statuses \cup {"absent"}]
         /\ \A j \in Requests : job'[j] = IF j \in js THEN "cancelled" ELSE job[j]
         /\ started' \in [Requests -> Nat]
         /\ loaded' \subseteq {j \in Requests : job'[j] # "absent"}
         /\ UNCHANGED <<loaded, proc, reviewed>>
<1>1. /\ job' = [j \in Requests |-> IF j \in js THEN "cancelled" ELSE job[j]]
      /\ Stamp({}) /\ UNCHANGED <<loaded, proc, reviewed>>
  BY DEF Cancel
<1>2. started' \in [Requests -> Nat]
  BY <1>1, StampType
<1> QED
  BY <1>1, <1>2, StatusKinds DEF TypeOK

LEMMA InFlightLoaded ==
  ASSUME TypeOK
  PROVE  /\ InFlightPR \subseteq loaded /\ loaded \subseteq Requests
         /\ \A c : Superseded(c) \subseteq InFlightPR /\ InFlightForSHA(c) \subseteq InFlightPR
         /\ \A j \in InFlightPR : job[j] # "absent"
  BY StatusKinds DEF TypeOK, InFlightPR, Superseded, InFlightForSHA

LEMMA StartsType ==
  ASSUME TypeOK, NEW js, NEW jobs
  PROVE  /\ Starts(js, jobs) \in [Requests -> {"idle", "gate", "run"}]
         /\ \A j \in Requests : Starts(js, jobs)[j] # "idle" =>
              proc[j] # "idle" \/ jobs[j] \in InFlight
  BY StatusKinds DEF TypeOK, Starts

LEMMA LeavesType ==
  ASSUME TypeOK, NEW j \in Requests, NEW status \in Statuses,
         NEW goes \in {"idle", "gate", "run"}, Leaves(j, status, goes)
  PROVE  /\ job' \in [Requests -> Statuses \cup {"absent"}] /\ job'[j] = status
         /\ \A k \in Requests : k # j => job'[k] = job[k]
         /\ loaded \subseteq {k \in Requests : job'[k] # "absent"}
         /\ Settled(receipt', {x \in seen : receipt[x].job \in {j}}, job')
         /\ seen \subseteq OnFile'
         /\ proc' \in [Requests -> {"idle", "gate", "run"}] /\ proc'[j] = goes
         /\ \A k \in Requests : k # j => proc'[k] = proc[k]
         /\ UNCHANGED <<sent, hpc, target, loaded, reviewed, seen, boot, crashes>>
<1>1. /\ job' = [job EXCEPT ![j] = status]
      /\ receipt' = persisted({j}, job')
      /\ proc' = [proc EXCEPT ![j] = goes]
      /\ UNCHANGED <<sent, hpc, target, loaded, reviewed, seen, boot, crashes>>
  BY DEF Leaves
<1>2. Settled(receipt', {x \in seen : receipt[x].job \in {j}}, job')
  BY <1>1, ReconciledSettles DEF persisted
<1>3. seen \subseteq OnFile'
  BY <1>2 DEF Settled, OnFile, TypeOK
<1> QED
  BY <1>1, <1>2, <1>3, StatusKinds DEF TypeOK

LEMMA ProcType ==
  ASSUME TypeOK, NEW j \in Requests, ProcStep(j)
  PROVE  /\ proc[j] # "idle"
         /\ \E status \in Statuses, goes \in {"idle", "gate", "run"} :
              /\ status # "queued" \/ job[j] = "queued"
              /\ Leaves(j, status, goes)
         /\ started' \in [Requests -> Nat]
<1>1. CASE ProcSkips(j)
  BY <1>1, StampType, StatusKinds DEF ProcSkips
<1>2. CASE ProcAdmits(j)
  BY <1>2, StampType, StatusKinds DEF ProcAdmits
<1>3. CASE ProcEnds(j)
  <2>1. PICK end \in Ends : Leaves(j, IF job[j] = "cancelled" THEN "cancelled" ELSE end, "idle")
    BY <1>3 DEF ProcEnds
  <2>2. end \in Statuses /\ end # "queued"
    BY <2>1, RequestsAssumption, StatusKinds
  <2> DEFINE status == IF job[j] = "cancelled" THEN "cancelled" ELSE end
  <2>3. status \in Statuses /\ status # "queued" /\ Leaves(j, status, "idle")
    BY <2>1, <2>2, StatusKinds
  <2> HIDE DEF status
  <2>4. proc[j] = "run" /\ started' \in [Requests -> Nat]
    BY <1>3, StampType DEF ProcEnds
  <2> QED
    BY <2>3, <2>4
<1> QED
  BY <1>1, <1>2, <1>3 DEF ProcStep

-----------------------------------------------------------------------------
(* What the steps do, in one form for all that are alike. *)

(* Rows may be cancelled, their receipts settle, and the request gets a    *)
(* receipt that is not queued.                                             *)
Answers(r) ==
  \E js \in SUBSET InFlightPR, o \in Outcomes \ {"queued"},
     j \in Requests \cup {NoJob}, old \in ReceiptMaps :
       /\ \A k \in Requests : job'[k] = IF k \in js THEN "cancelled" ELSE job[k]
       /\ Settled(old, {x \in seen : receipt[x].job \in js}, job')
       /\ Finish(r, old, o, j)

(* The handler answers without a job. *)
Closes(r) ==
  /\ hpc[r] \in {"unsent", "route"} /\ hpc' = [hpc EXCEPT ![r] = "done"]
  /\ job' \in [Requests -> Statuses \cup {"absent"}]
  /\ started' \in [Requests -> Nat]
  /\ Answers(r)
  /\ UNCHANGED <<sent, target, loaded, proc, reviewed, boot, crashes>>

LEMMA CloseStep ==
  ASSUME TypeOK, NEW r \in Requests,
         Refuse(r) \/ Repeat(r) \/ Merged(r) \/ Reviewed(r) \/ Answer(r)
  PROVE  Closes(r)
<1>1. ASSUME NEW o \in Outcomes \ {"queued"}, NEW j \in Requests \cup {NoJob},
             Finish(r, receipt, o, j), UNCHANGED rows
      PROVE  /\ job' \in [Requests -> Statuses \cup {"absent"}]
             /\ started' \in [Requests -> Nat]
             /\ UNCHANGED <<loaded, proc, reviewed>>
             /\ Answers(r)
  <2>1. Settled(receipt, {x \in seen : receipt[x].job \in {}}, job')
    BY DEF Settled, ReceiptMaps, TypeOK
  <2>2. \A k \in Requests : job'[k] = IF k \in {} THEN "cancelled" ELSE job[k]
    BY <1>1 DEF rows
  <2>3. {} \in SUBSET InFlightPR
    OBVIOUS
  <2>4. receipt \in ReceiptMaps
    BY DEF ReceiptMaps, TypeOK
  <2>5. Answers(r)
    BY <1>1, <2>1, <2>2, <2>3, <2>4 DEF Answers
  <2> QED
    BY <1>1, <2>5 DEF TypeOK, rows
<1>2. ASSUME NEW js \in SUBSET InFlightPR, NEW o \in Outcomes \ {"queued"}, Cancel(js),
             Finish(r, persisted(js, job'), o, NoJob)
      PROVE  /\ job' \in [Requests -> Statuses \cup {"absent"}]
             /\ started' \in [Requests -> Nat]
             /\ UNCHANGED <<loaded, proc, reviewed>>
             /\ Answers(r)
  <2>1. js \subseteq loaded
    BY InFlightLoaded
  <2>2. Settled(persisted(js, job'), {x \in seen : receipt[x].job \in js}, job')
    BY ReconciledSettles DEF persisted
  <2>3. NoJob \in Requests \cup {NoJob}
    OBVIOUS
  <2>4. persisted(js, job') \in ReceiptMaps
    BY <2>2 DEF Settled
  <2>5. /\ job' \in [Requests -> Statuses \cup {"absent"}]
        /\ started' \in [Requests -> Nat]
        /\ \A k \in Requests : job'[k] = IF k \in js THEN "cancelled" ELSE job[k]
        /\ UNCHANGED <<loaded, proc, reviewed>>
    BY <1>2, <2>1, CancelType
  <2>6. Answers(r)
    BY <1>2, <2>2, <2>3, <2>4, <2>5 DEF Answers
  <2> QED
    BY <2>5, <2>6
<1>3. /\ "error" \in Outcomes \ {"queued"} /\ "duplicate" \in Outcomes \ {"queued"}
      /\ "skipped" \in Outcomes \ {"queued"} /\ "ignored" \in Outcomes \ {"queued"}
      /\ NoJob \in Requests \cup {NoJob}
  BY DEF Outcomes
<1>4. CASE Refuse(r)
  <2>1. Finish(r, receipt, "error", NoJob) /\ UNCHANGED rows
    BY <1>4 DEF Refuse
  <2> QED
    BY <1>1, <1>3, <1>4, <2>1 DEF Refuse, Closes, Done, At
<1>5. CASE Repeat(r)
  <2>1. PICK x \in Prior(r) : Finish(r, receipt, "duplicate", receipt[x].job)
    BY <1>5 DEF Repeat
  <2>2. x \in Receipts
    BY <2>1 DEF Prior, TypeOK, OnFile
  <2>3. receipt[x].job \in Requests \cup {NoJob} /\ UNCHANGED rows
    BY <1>5, <2>2, ReceiptType DEF Repeat
  <2> QED
    BY <1>1, <1>3, <1>5, <2>1, <2>3 DEF Repeat, Closes, Done, At
<1>6. CASE Merged(r)
  <2>1. Cancel(InFlightPR) /\ Finish(r, persisted(InFlightPR, job'), "skipped", NoJob)
        /\ InFlightPR \in SUBSET InFlightPR
    BY <1>6 DEF Merged
  <2> QED
    BY <1>2, <1>3, <1>6, <2>1 DEF Merged, Closes, Done, At
<1>7. CASE Reviewed(r)
  <2> DEFINE js == Superseded(sent[r].commit)
  <2>1. Cancel(js) /\ Finish(r, persisted(js, job'), "skipped", NoJob)
        /\ js \in SUBSET InFlightPR
    BY <1>7, InFlightLoaded DEF Reviewed
  <2> HIDE DEF js
  <2> QED
    BY <1>2, <1>3, <1>7, <2>1 DEF Reviewed, Closes, Done, At
<1>8. CASE Answer(r)
  <2>1. PICK o \in {"skipped", "ignored"} : Finish(r, receipt, o, NoJob)
    BY <1>8 DEF Answer
  <2>2. o \in Outcomes \ {"queued"} /\ UNCHANGED rows
    BY <1>3, <1>8, <2>1 DEF Answer
  <2> QED
    BY <1>1, <1>3, <1>8, <2>1, <2>2 DEF Answer, Closes, Done, At
<1> QED
  BY <1>4, <1>5, <1>6, <1>7, <1>8

(* A row is made, and the rows js it supersedes are cancelled. *)
Enqueues(r, js, s) ==
  /\ OfPR(r) => \A j \in InFlightPR : j \in js
  /\ job' \in [Requests -> Statuses \cup {"absent"}]
  /\ job'[r] = s
  /\ \A k \in Requests : k # r => job'[k] = IF k \in js THEN "cancelled" ELSE job[k]
  /\ started' \in [Requests -> Nat]
  /\ loaded' = loaded \cup {r}
  /\ Settled(receipt', {x \in seen : receipt[x].job \in js}, job')
  /\ hpc[r] = "enqueue"
  /\ target' = [target EXCEPT ![r] = r]
  /\ hpc' = [hpc EXCEPT ![r] = "finish"]
  /\ UNCHANGED <<sent, proc, reviewed, seen, boot, crashes>>

LEMMA EnqueueStep ==
  ASSUME TypeOK, NEW r \in Requests, Enqueue(r)
  PROVE  \E js \in SUBSET InFlightPR, s \in {"queued", "skipped"} : Enqueues(r, js, s)
<1> DEFINE js == IF OfPR(r) THEN Superseded(sent[r].commit) ELSE {}
           s == IF sent[r].kind = "unadmitted" THEN "skipped" ELSE "queued"
<1>1. /\ At(r, "enqueue")
      /\ OfPR(r) => InFlightForSHA(sent[r].commit) = {}
      /\ job' = [j \in Requests |-> IF j = r THEN s
                                    ELSE IF j \in js THEN "cancelled" ELSE job[j]]
      /\ Stamp({r})
      /\ loaded' = loaded \cup {r}
      /\ receipt' = persisted(js, job')
      /\ target' = [target EXCEPT ![r] = r]
      /\ hpc' = [hpc EXCEPT ![r] = "finish"]
      /\ UNCHANGED <<sent, proc, reviewed, seen, boot, crashes>>
  BY DEF Enqueue
<1>2. js \in SUBSET InFlightPR /\ s \in {"queued", "skipped"}
  BY InFlightLoaded
<1>3. OfPR(r) => \A j \in InFlightPR : j \in js
  BY <1>1 DEF Superseded, InFlightForSHA
<1> HIDE DEF js, s
<1>4. job' \in [Requests -> Statuses \cup {"absent"}]
  BY <1>1, <1>2, StatusKinds DEF TypeOK
<1>5. started' \in [Requests -> Nat]
  BY <1>1, StampType
<1>6. Settled(receipt', {x \in seen : receipt[x].job \in js}, job')
  BY <1>1, ReconciledSettles DEF persisted
<1>7. job'[r] = s
      /\ \A k \in Requests : k # r => job'[k] = IF k \in js THEN "cancelled" ELSE job[k]
  BY <1>1
<1> QED
  BY <1>1, <1>2, <1>3, <1>4, <1>5, <1>6, <1>7 DEF At, Enqueues

(* The runs but one are cancelled, and what is queued is dispatched. *)
Dispatches(js) ==
  /\ \A j, k \in InFlightPR : j \in js \/ k \in js \/ j = k
  /\ job' \in [Requests -> Statuses \cup {"absent"}]
  /\ \A k \in Requests : job'[k] = IF k \in js THEN "cancelled" ELSE job[k]
  /\ Settled(receipt', {x \in seen : receipt[x].job \in js}, job')
  /\ started' \in [Requests -> Nat]
  /\ proc' \in [Requests -> {"idle", "gate", "run"}]
  /\ \A j \in Requests : proc'[j] # "idle" => proc[j] # "idle" \/ job'[j] \in InFlight
  /\ boot = "dispatch" /\ boot' = "up"
  /\ UNCHANGED <<sent, hpc, target, loaded, reviewed, seen, crashes>>

LEMMA DispatchStep ==
  ASSUME TypeOK, Dispatch
  PROVE  \E js \in SUBSET InFlightPR : Dispatches(js)
<1>1. /\ boot = "dispatch" /\ boot' = "up"
      /\ started' \in [Requests -> Nat]
      /\ UNCHANGED <<sent, hpc, target, loaded, reviewed, seen, crashes>>
      /\ proc' = Starts(QueuedJobs(job'), job')
  BY StampType DEF Dispatch, Boot
<1>2. /\ proc' \in [Requests -> {"idle", "gate", "run"}]
      /\ \A j \in Requests : proc'[j] # "idle" => proc[j] # "idle" \/ job'[j] \in InFlight
  BY <1>1, StartsType
<1>3. CASE InFlightPR = {}
  <2>1. job' = job /\ receipt' = receipt
    BY <1>3 DEF Dispatch
  <2>2. Settled(receipt', {x \in seen : receipt[x].job \in {}}, job')
    BY <2>1 DEF Settled, ReceiptMaps, TypeOK
  <2>3. {} \in SUBSET InFlightPR
        /\ \A j, k \in InFlightPR : j \in {} \/ k \in {} \/ j = k
    BY <1>3
  <2>4. job' \in [Requests -> Statuses \cup {"absent"}]
        /\ \A k \in Requests : job'[k] = IF k \in {} THEN "cancelled" ELSE job[k]
    BY <2>1 DEF TypeOK
  <2> QED
    BY <1>1, <1>2, <2>2, <2>3, <2>4 DEF Dispatches
<1>4. CASE InFlightPR # {}
  <2>1. PICK k \in Newest(InFlightPR) :
          /\ job' = [j \in Requests |-> IF j \in Pruned(k) THEN "cancelled" ELSE job[j]]
          /\ receipt' = persisted(Pruned(k), job')
    BY <1>4 DEF Dispatch
  <2>2. /\ Pruned(k) \in SUBSET InFlightPR
        /\ \A i, j \in InFlightPR : i \in Pruned(k) \/ j \in Pruned(k) \/ i = j
    BY DEF Pruned
  <2>3. Settled(receipt', {x \in seen : receipt[x].job \in Pruned(k)}, job')
    BY <2>1, ReconciledSettles DEF persisted
  <2>4. job' \in [Requests -> Statuses \cup {"absent"}]
        /\ \A j \in Requests : job'[j] = IF j \in Pruned(k) THEN "cancelled" ELSE job[j]
    BY <2>1, StatusKinds DEF TypeOK
  <2> QED
    BY <1>1, <1>2, <2>2, <2>3, <2>4 DEF Dispatches
<1> QED
  BY <1>3, <1>4

(* One receipt keeps its job, and settles with it when that is in js. *)
Keeps(x, js) ==
  /\ receipt'[x].job = receipt[x].job
  /\ receipt'[x] = NoReceipt <=> receipt[x] = NoReceipt
  /\ receipt'[x].outcome = "none" <=> receipt[x].outcome = "none"
  /\ receipt'[x].outcome = "queued" =>
       /\ receipt[x].outcome = "queued"
       /\ x \in seen /\ receipt[x].job \in js =>
            job'[receipt[x].job] \in InFlight \cup {"completed_with_errors"}

LEMMA SettledKeeps ==
  ASSUME TypeOK, NEW js, js \subseteq Requests, NEW old,
         Settled(old, {x \in seen : receipt[x].job \in js}, job'),
         \A k \in js : job'[k] \in Statuses,
         NEW x \in Receipts, receipt'[x] = old[x]
  PROVE  Keeps(x, js)
  BY RequestsAssumption DEF Settled, Keeps

(* The rows js are cancelled and settle, and the request is answered. *)
Closing(r, js) ==
  /\ \A k \in Requests : job'[k] = IF k \in js THEN "cancelled" ELSE job[k]
  /\ receipt' \in ReceiptMaps
  /\ receipt'[<<"live", r>>].outcome \in Outcomes \ {"queued"}
  /\ \A x \in Receipts : x # <<"live", r>> => Keeps(x, js)
  /\ seen' = seen \cup {<<"live", r>>}
  /\ OnFile' = OnFile \cup {<<"live", r>>}

LEMMA ClosesWrites ==
  ASSUME TypeOK, NEW r \in Requests, Closes(r)
  PROVE  \E js \in SUBSET InFlightPR : Closing(r, js)
<1>1. PICK js \in SUBSET InFlightPR, o \in Outcomes \ {"queued"},
           j \in Requests \cup {NoJob}, old \in ReceiptMaps :
        /\ \A k \in Requests : job'[k] = IF k \in js THEN "cancelled" ELSE job[k]
        /\ Settled(old, {x \in seen : receipt[x].job \in js}, job')
        /\ Finish(r, old, o, j)
  BY DEF Closes, Answers
<1>2. js \subseteq Requests /\ o \in Outcomes
  BY <1>1, InFlightLoaded
<1>3. \A k \in js : job'[k] \in Statuses
  BY <1>1, <1>2, StatusKinds
<1>4. /\ receipt' \in ReceiptMaps
      /\ receipt'[<<"live", r>>].outcome = o
      /\ \A x \in Receipts : x # <<"live", r>> => receipt'[x] = old[x]
      /\ seen' = seen \cup {<<"live", r>>}
      /\ OnFile' = OnFile \cup {<<"live", r>>}
  BY <1>1, <1>2, FinishWrites
<1>5. \A x \in Receipts : x # <<"live", r>> => Keeps(x, js)
  BY <1>1, <1>2, <1>3, <1>4, SettledKeeps
<1> QED
  BY <1>1, <1>4, <1>5 DEF Closing

-----------------------------------------------------------------------------
(* Type correctness. *)

(* A backfill is made for a job that has no receipt, so it is no double. *)
LEMMA HookNames ==
  ASSUME TypeOK, BackfillInv, NEW x \in {"backfill"} \X Backfilled
  PROVE  /\ x \in Receipts /\ x[2] \in Requests /\ x = <<"backfill", x[2]>>
         /\ x[2] \in Backfilled /\ x \notin OnFile /\ x \notin Doubled
<1>1. x[2] \in Backfilled /\ x = <<"backfill", x[2]>> /\ Backfilled \subseteq Requests
  BY DEF Backfilled, TypeOK
<1>2. x \in Receipts /\ x[2] \in Requests
  BY <1>1, ReceiptNames
<1>3. x \notin OnFile
  BY <1>1, <1>2 DEF Backfilled, BackfillInv
<1> QED
  BY <1>1, <1>2, <1>3 DEF Doubled

LEMMA TypeNext ==
  ASSUME TypeOK, BackfillInv, [Next]_vars
  PROVE  TypeOK'
<1> DEFINE Places == {"unsent", "route", "enqueue", "finish", "fanout", "done"}
<1>t. TypeOK' <=>
        /\ sent' \in Cases /\ hpc' \in [Requests -> Places]
        /\ target' \in [Requests -> Requests \cup {NoJob}]
        /\ job' \in [Requests -> Statuses \cup {"absent"}]
        /\ started' \in [Requests -> Nat]
        /\ loaded' \subseteq {j \in Requests : job'[j] # "absent"}
        /\ proc' \in [Requests -> {"idle", "gate", "run"}]
        /\ reviewed' \subseteq Requests
        /\ receipt' \in ReceiptMaps
        /\ seen' \subseteq OnFile'
        /\ boot' \in {"cold", "jobs", "hooks", "recover", "dispatch", "up"}
        /\ crashes' \in 0..Crashes
  BY DEF TypeOK, ReceiptMaps
<1>0. TypeOK /\ receipt \in ReceiptMaps
  BY DEF TypeOK, ReceiptMaps
<1>1. ASSUME NEW r \in Requests, Closes(r) PROVE TypeOK'
  <2>1. PICK js \in SUBSET InFlightPR : Closing(r, js)
    BY <1>1, ClosesWrites
  <2>2. seen' \subseteq OnFile'
    BY <1>0, <2>1 DEF Closing, TypeOK
  <2>3. loaded' \subseteq {j \in Requests : job'[j] # "absent"}
    BY <1>0, <1>1, <2>1 DEF Closing, TypeOK, Closes
  <2>4. hpc' \in [Requests -> Places]
    BY <1>0, <1>1 DEF Closing, TypeOK, Closes
  <2> QED
    BY <1>0, <1>1, <1>t, <2>1, <2>2, <2>3, <2>4 DEF Closing, TypeOK, Closes
<1>2. ASSUME NEW r \in Requests, Receive(r) \/ Route(r) PROVE TypeOK'
  <2>1. hpc' \in [Requests -> Places]
        /\ UNCHANGED <<sent, target, rows, notes, boot, crashes>>
    BY <1>0, <1>2 DEF TypeOK, Receive, Route
  <2> QED
    BY <1>0, <1>t, <2>1 DEF TypeOK, rows, notes, OnFile
<1>3. ASSUME NEW r \in Requests, Reuse(r) PROVE TypeOK'
  <2>1. PICK j \in Newest(InFlightForSHA(sent[r].commit)) :
          target' = [target EXCEPT ![r] = j]
    BY <1>3 DEF Reuse
  <2>2. j \in Requests
    BY <2>1, InFlightLoaded DEF Newest
  <2>3. hpc' = [hpc EXCEPT ![r] = "finish"]
        /\ UNCHANGED <<sent, rows, notes, boot, crashes>>
    BY <1>3 DEF Reuse
  <2> QED
    BY <1>0, <1>t, <2>1, <2>2, <2>3 DEF TypeOK, rows, notes, OnFile
<1>4. ASSUME NEW r \in Requests, Enqueue(r) PROVE TypeOK'
  <2>1. PICK js \in SUBSET InFlightPR, s \in {"queued", "skipped"} : Enqueues(r, js, s)
    BY <1>4, EnqueueStep
  <2>2. loaded' \subseteq {j \in Requests : job'[j] # "absent"}
    BY <1>0, <2>1 DEF Enqueues, TypeOK
  <2>3. receipt' \in ReceiptMaps /\ seen' \subseteq OnFile'
    BY <1>0, <2>1 DEF Enqueues, TypeOK, Settled, OnFile
  <2>4. hpc' \in [Requests -> Places] /\ target' \in [Requests -> Requests \cup {NoJob}]
    BY <1>0, <2>1 DEF Enqueues, TypeOK
  <2> QED
    BY <1>0, <1>t, <2>1, <2>2, <2>3, <2>4 DEF Enqueues, TypeOK
<1>5. ASSUME NEW r \in Requests, Note(r) PROVE TypeOK'
  <2>1. /\ Finish(r, receipt, "queued", target[r])
        /\ hpc' = [hpc EXCEPT ![r] = "fanout"]
        /\ UNCHANGED <<sent, target, rows, boot, crashes>>
    BY <1>5 DEF Note
  <2>2. "queued" \in Outcomes /\ target[r] \in Requests \cup {NoJob}
    BY <1>0 DEF TypeOK, Outcomes
  <2>3. receipt' \in ReceiptMaps /\ seen' = seen \cup {<<"live", r>>}
        /\ OnFile' = OnFile \cup {<<"live", r>>}
    BY <2>1, <2>2, Unsettled, FinishWrites
  <2> QED
    BY <1>0, <1>t, <2>1, <2>3 DEF TypeOK, rows
<1>6. ASSUME NEW r \in Requests, FanOut(r) PROVE TypeOK'
  <2>1. Settled(receipt', {x \in seen : receipt[x].job \in {target[r]}}, job)
    BY <1>6, ReconciledSettles DEF FanOut, persisted
  <2>2. proc' \in [Requests -> {"idle", "gate", "run"}]
    BY <1>6, StartsType DEF FanOut
  <2>3. receipt' \in ReceiptMaps /\ seen' \subseteq OnFile'
    BY <1>0, <1>6, <2>1 DEF TypeOK, Settled, OnFile, FanOut
  <2> QED
    BY <1>0, <1>t, <1>6, <2>2, <2>3 DEF TypeOK, FanOut, Done
<1>7. ASSUME NEW j \in Requests, ProcStep(j) PROVE TypeOK'
  <2>1. PICK status \in Statuses, goes \in {"idle", "gate", "run"} : Leaves(j, status, goes)
    BY <1>7, ProcType
  <2>2. started' \in [Requests -> Nat]
    BY <1>7, ProcType
  <2>3. /\ job' \in [Requests -> Statuses \cup {"absent"}]
        /\ loaded \subseteq {k \in Requests : job'[k] # "absent"}
        /\ receipt' \in ReceiptMaps /\ seen \subseteq OnFile'
        /\ proc' \in [Requests -> {"idle", "gate", "run"}]
        /\ UNCHANGED <<sent, hpc, target, loaded, reviewed, seen, boot, crashes>>
    BY <2>1, LeavesType DEF Settled
  <2> QED
    BY <1>0, <1>t, <2>2, <2>3 DEF TypeOK
<1>8. ASSUME NEW j \in Requests, ProcReviews(j) PROVE TypeOK'
  BY <1>0, <1>t, <1>8 DEF TypeOK, ProcReviews, notes, OnFile
<1>9. ASSUME ShowList PROVE TypeOK'
  <2>1. Settled(receipt', seen, job)
    BY <1>9, ReconciledSettles DEF ShowList
  <2>2. receipt' \in ReceiptMaps /\ seen' \subseteq OnFile'
    BY <1>0, <1>9, <2>1 DEF TypeOK, Settled, OnFile, ShowList
  <2> QED
    BY <1>0, <1>t, <1>9, <2>2 DEF TypeOK, ShowList, rows
<1>10. ASSUME Crash PROVE TypeOK'
  <2>1. hpc' \in [Requests -> Places]
    BY <1>0, <1>10 DEF TypeOK, Crash
  <2>2. crashes' \in 0..Crashes
    BY <1>0, <1>10, RequestsAssumption DEF TypeOK, Crash
  <2> QED
    BY <1>0, <1>t, <1>10, <2>1, <2>2 DEF TypeOK, Crash, OnFile
<1>11. ASSUME HydrateWatches PROVE TypeOK'
  BY <1>0, <1>t, <1>11 DEF TypeOK, HydrateWatches, Boot, rows, notes, OnFile
<1>12. ASSUME HydrateJobs PROVE TypeOK'
  BY <1>0, <1>t, <1>12 DEF TypeOK, HydrateJobs, Boot, notes, OnFile
<1>13. ASSUME HydrateHooks PROVE TypeOK'
  <2>1. PICK new : /\ new = {"backfill"} \X Backfilled
                   /\ receipt' = [x \in Receipts |->
                        IF x \in Doubled THEN NoReceipt
                        ELSE IF x \in new
                             THEN [outcome |-> jobTerminalWebhookOutcome(job[x[2]]), job |-> x[2]]
                             ELSE receipt[x]]
                   /\ seen' = (OnFile \ Doubled) \cup new
    BY <1>13 DEF HydrateHooks
  <2>2. \A x \in new : x \in Receipts /\ x[2] \in Requests /\ x \notin Doubled
    BY <2>1, HookNames
  <2>3. \A x \in new : [outcome |-> jobTerminalWebhookOutcome(job[x[2]]), job |-> x[2]]
                         \in [outcome : Outcomes, job : Requests \cup {NoJob}]
    BY <2>2, TerminalOutcome
  <2>4. receipt' \in ReceiptMaps
    BY <1>0, <2>1, <2>3 DEF ReceiptMaps
  <2>5. seen' \subseteq OnFile'
    BY <2>1, <2>2, TerminalOutcome DEF OnFile
  <2> QED
    BY <1>0, <1>t, <1>13, <2>4, <2>5 DEF TypeOK, HydrateHooks, Boot, rows
<1>14. ASSUME Recover PROVE TypeOK'
  <2>1. started' \in [Requests -> Nat]
    BY <1>14, StampType DEF Recover
  <2> QED
    BY <1>0, <1>t, <1>14, <2>1, StatusKinds DEF TypeOK, Recover, Boot, notes, OnFile
<1>15. ASSUME Dispatch PROVE TypeOK'
  <2>1. PICK js \in SUBSET InFlightPR : Dispatches(js)
    BY <1>15, DispatchStep
  <2>2. loaded' \subseteq {j \in Requests : job'[j] # "absent"}
    BY <1>0, <2>1 DEF Dispatches, TypeOK
  <2>3. receipt' \in ReceiptMaps /\ seen' \subseteq OnFile'
    BY <1>0, <2>1 DEF Dispatches, TypeOK, Settled, OnFile
  <2> QED
    BY <1>0, <1>t, <2>1, <2>2, <2>3 DEF Dispatches, TypeOK
<1>16. ASSUME UNCHANGED vars PROVE TypeOK'
  BY <1>0, <1>t, <1>16 DEF TypeOK, vars, OnFile
<1> QED
  BY <1>1, <1>2, <1>3, <1>4, <1>5, <1>6, <1>7, <1>8, <1>9, <1>10, <1>11, <1>12,
     <1>13, <1>14, <1>15, <1>16, CloseStep
  DEF Next, Deliver, Handle, Processor, BootStep

-----------------------------------------------------------------------------
(* What any step leaves of rows, handlers and receipts. *)

(* A row that is there stays, and only its own request makes it. *)
LEMMA RowSteps ==
  ASSUME TypeOK, MemoryInv, [Next]_vars, NEW j \in Requests
  PROVE  /\ job[j] # "absent" => job'[j] # "absent"
         /\ job[j] = "absent" /\ job'[j] # "absent" => Enqueue(j)
<1>1. ASSUME NEW r \in Requests, Closes(r)
      PROVE  job'[j] = job[j] \/ (job[j] # "absent" /\ job'[j] = "cancelled")
  <2>1. PICK js \in SUBSET InFlightPR : Closing(r, js)
    BY <1>1, ClosesWrites
  <2> QED
    BY <2>1, InFlightLoaded DEF Closing
<1>2. ASSUME NEW r \in Requests, Enqueue(r)
      PROVE  /\ job'[r] # "absent"
             /\ r # j => job'[j] = job[j] \/ (job[j] # "absent" /\ job'[j] = "cancelled")
  <2>1. PICK js \in SUBSET InFlightPR, s \in {"queued", "skipped"} : Enqueues(r, js, s)
    BY <1>2, EnqueueStep
  <2> QED
    BY <2>1, InFlightLoaded DEF Enqueues
<1>3. ASSUME NEW k \in Requests, ProcStep(k)
      PROVE  job'[j] = job[j] \/ (job[j] # "absent" /\ job'[j] # "absent")
  <2>1. PICK status \in Statuses, goes \in {"idle", "gate", "run"} : Leaves(k, status, goes)
    BY <1>3, ProcType
  <2>2. job'[k] = status /\ (k # j => job'[j] = job[j])
    BY <2>1, LeavesType
  <2>3. job[k] # "absent"
    BY <1>3, ProcType DEF MemoryInv
  <2> QED
    BY <2>2, <2>3, StatusKinds
<1>4. ASSUME Dispatch
      PROVE  job'[j] = job[j] \/ (job[j] # "absent" /\ job'[j] = "cancelled")
  <2>1. PICK js \in SUBSET InFlightPR : Dispatches(js)
    BY <1>4, DispatchStep
  <2> QED
    BY <2>1, InFlightLoaded DEF Dispatches
<1>5. ASSUME Recover
      PROVE  job'[j] = job[j] \/ (job[j] # "absent" /\ job'[j] # "absent")
  BY <1>5 DEF Recover
<1> QED
  BY <1>1, <1>2, <1>3, <1>4, <1>5, CloseStep
  DEF Next, Deliver, Handle, Receive, Route, Reuse, Note, FanOut, Processor,
      ProcReviews, ShowList, Crash, BootStep, rows, HydrateWatches,
      HydrateJobs, HydrateHooks, vars

Early == {"unsent", "route", "enqueue"}

(* The places a handler may come from. *)
LEMMA HandlerSteps ==
  ASSUME TypeOK, [Next]_vars, NEW r \in Requests
  PROVE  /\ hpc'[r] \in Early => hpc[r] \in Early
         /\ hpc'[r] = "finish" =>
              \/ hpc[r] = "finish" /\ target'[r] = target[r]
              \/ Reuse(r) \/ Enqueue(r)
         /\ hpc'[r] = "fanout" =>
              (hpc[r] = "fanout" /\ target'[r] = target[r]) \/ Note(r)
         /\ hpc[r] = "finish" =>
              (hpc'[r] = "finish" /\ target'[r] = target[r]) \/ Note(r) \/ Crash
<1> DEFINE Goes == /\ hpc'[r] \in Early => hpc[r] \in Early
                   /\ hpc'[r] = "finish" =>
                        \/ hpc[r] = "finish" /\ target'[r] = target[r]
                        \/ Reuse(r) \/ Enqueue(r)
                   /\ hpc'[r] = "fanout" =>
                        (hpc[r] = "fanout" /\ target'[r] = target[r]) \/ Note(r)
                   /\ hpc[r] = "finish" =>
                        (hpc'[r] = "finish" /\ target'[r] = target[r]) \/ Note(r) \/ Crash
<1>0. hpc \in [Requests -> Early \cup {"finish", "fanout", "done"}]
      /\ target \in [Requests -> Requests \cup {NoJob}]
  BY DEF TypeOK, Early
<1>1. ASSUME NEW s \in Requests, Closes(s) PROVE Goes
  BY <1>0, <1>1 DEF Closes, Early
<1>2. ASSUME NEW s \in Requests, Receive(s) \/ Route(s) PROVE Goes
  BY <1>0, <1>2 DEF Receive, Route, At, Early
<1>3. ASSUME NEW s \in Requests, Reuse(s) PROVE Goes
  BY <1>0, <1>3 DEF Reuse, At, Early
<1>4. ASSUME NEW s \in Requests, Enqueue(s) PROVE Goes
  <2>1. /\ hpc[s] = "enqueue" /\ hpc' = [hpc EXCEPT ![s] = "finish"]
        /\ target' = [target EXCEPT ![s] = s]
    BY <1>4 DEF Enqueue, At
  <2> QED
    BY <1>0, <1>4, <2>1 DEF Early
<1>5. ASSUME NEW s \in Requests, Note(s) PROVE Goes
  <2>1. /\ hpc[s] = "finish" /\ hpc' = [hpc EXCEPT ![s] = "fanout"]
        /\ target' = target
    BY <1>5 DEF Note, At
  <2> QED
    BY <1>0, <1>5, <2>1 DEF Early
<1>6. ASSUME NEW s \in Requests, FanOut(s) PROVE Goes
  <2>1. /\ hpc[s] = "fanout" /\ hpc' = [hpc EXCEPT ![s] = "done"]
        /\ target' = [target EXCEPT ![s] = NoJob]
    BY <1>6 DEF FanOut, At, Done
  <2> QED
    BY <1>0, <2>1 DEF Early
<1>7. ASSUME Crash PROVE Goes
  BY <1>0, <1>7 DEF Crash, Early
<1>8. ASSUME UNCHANGED <<hpc, target>> PROVE Goes
  BY <1>8
<1> HIDE DEF Goes
<1>9. Goes
  BY <1>1, <1>2, <1>3, <1>4, <1>5, <1>6, <1>7, <1>8, CloseStep
  DEF Next, Deliver, Handle, Processor, ProcStep, ProcSkips, ProcAdmits,
      ProcEnds, Leaves, ProcReviews, ShowList, BootStep, HydrateWatches,
      HydrateJobs, HydrateHooks, Recover, Dispatch, vars
<1> QED
  BY <1>9 DEF Goes

(* No receipt is stored, none gets another job, and none is forgotten. *)
Steady ==
  \A x \in Receipts :
    /\ receipt'[x].job = receipt[x].job
    /\ receipt'[x] = NoReceipt <=> receipt[x] = NoReceipt
    /\ receipt'[x].outcome = "none" <=> receipt[x].outcome = "none"
    /\ receipt'[x].outcome = "queued" => receipt[x].outcome = "queued"

LEMMA ReceiptSteps ==
  ASSUME TypeOK, [Next]_vars
  PROVE  \/ \E r \in Requests : Closes(r) \/ Note(r)
         \/ HydrateHooks
         \/ Steady /\ (seen' = seen \/ Crash)
<1>1. ASSUME NEW xs, NEW jobs, Settled(receipt', xs, jobs) PROVE Steady
  BY <1>1 DEF Settled, Steady
<1>2. ASSUME UNCHANGED receipt PROVE Steady
  BY <1>2 DEF Steady
<1>3. ASSUME NEW r \in Requests, Enqueue(r) PROVE Steady /\ seen' = seen
  BY <1>1, <1>3, EnqueueStep DEF Enqueues
<1>4. ASSUME NEW r \in Requests, FanOut(r) PROVE Steady /\ seen' = seen
  BY <1>1, <1>4, ReconciledSettles DEF FanOut, persisted
<1>5. ASSUME NEW j \in Requests, ProcStep(j) PROVE Steady /\ seen' = seen
  <2>1. PICK status \in Statuses, goes \in {"idle", "gate", "run"} : Leaves(j, status, goes)
    BY <1>5, ProcType
  <2> QED
    BY <1>1, <2>1, LeavesType
<1>6. ASSUME ShowList PROVE Steady /\ seen' = seen
  BY <1>1, <1>6, ReconciledSettles DEF ShowList
<1>7. ASSUME Dispatch PROVE Steady /\ seen' = seen
  BY <1>1, <1>7, DispatchStep DEF Dispatches
<1> QED
  BY <1>2, <1>3, <1>4, <1>5, <1>6, <1>7, CloseStep
  DEF Next, Deliver, Handle, Receive, Route, Reuse, Processor, ProcReviews,
      Crash, BootStep, notes, HydrateWatches, HydrateJobs, Recover, vars

(* The receipt a handler stores when it has enqueued. *)
LEMMA NoteWrites ==
  ASSUME TypeOK, NEW r \in Requests, Note(r)
  PROVE  /\ receipt'[<<"live", r>>].outcome = "queued"
         /\ receipt'[<<"live", r>>].job = target[r]
         /\ \A x \in Receipts : x # <<"live", r>> => receipt'[x] = receipt[x]
         /\ seen' = seen \cup {<<"live", r>>}
         /\ OnFile' = OnFile \cup {<<"live", r>>}
<1>1. Finish(r, receipt, "queued", target[r])
  BY DEF Note
<1>2. "queued" \in Outcomes /\ target[r] \in Requests \cup {NoJob}
  BY DEF TypeOK, Outcomes
<1> QED
  BY <1>1, <1>2, Unsettled, FinishWrites

(* The receipts after the backfill. *)
LEMMA HooksWrite ==
  ASSUME TypeOK, BackfillInv, HydrateHooks, NEW x \in Receipts
  PROVE  /\ x \in Doubled => receipt'[x] = NoReceipt /\ x[1] = "backfill"
         /\ x \notin Doubled /\ x \in OnFile => receipt'[x] = receipt[x] /\ x \in seen'
         /\ x \notin OnFile =>
              \/ receipt'[x] = receipt[x]
              \/ /\ x \in {"backfill"} \X Backfilled /\ x \in seen'
                 /\ receipt'[x].job = x[2]
         /\ x \in {"backfill"} \X Backfilled => receipt'[x].job = x[2] /\ x \in seen'
<1> DEFINE new == {"backfill"} \X Backfilled
<1>1. /\ receipt' = [y \in Receipts |->
           IF y \in Doubled THEN NoReceipt
           ELSE IF y \in new
                THEN [outcome |-> jobTerminalWebhookOutcome(job[y[2]]), job |-> y[2]]
                ELSE receipt[y]]
      /\ seen' = (OnFile \ Doubled) \cup new
  BY DEF HydrateHooks
<1>2. x \in new => x \notin OnFile /\ x \notin Doubled
  BY HookNames
<1>3. x \in Doubled => x[1] = "backfill"
  BY DEF Doubled
<1> HIDE DEF new
<1>4. x \in new => receipt'[x].job = x[2] /\ x \in seen'
  BY <1>1, <1>2
<1>5. x \notin new /\ x \notin Doubled => receipt'[x] = receipt[x]
  BY <1>1
<1>6. x \in OnFile /\ x \notin Doubled => x \notin new /\ x \in seen'
  BY <1>1, <1>2
<1>7. x \in Doubled => receipt'[x] = NoReceipt /\ x \in OnFile
  BY <1>1 DEF Doubled
<1> QED
  BY <1>2, <1>3, <1>4, <1>5, <1>6, <1>7 DEF new

-----------------------------------------------------------------------------
(* The parts of the invariant. *)

LEMMA BackfillNext ==
  ASSUME TypeOK, BackfillInv, [Next]_vars
  PROVE  BackfillInv'
<1> SUFFICES ASSUME NEW j \in Requests, <<"backfill", j>> \in OnFile'
             PROVE  receipt'[<<"backfill", j>>].job = j
  BY DEF BackfillInv
<1> DEFINE x == <<"backfill", j>>
<1>0. /\ x \in Receipts /\ \A r \in Requests : x # <<"live", r>>
      /\ x \in OnFile => receipt[x].job = j
      /\ x \in OnFile <=> receipt[x].outcome # "none"
      /\ receipt'[x].outcome # "none" /\ x[2] = j
  BY ReceiptNames DEF BackfillInv, OnFile
<1> HIDE DEF x
<1>1. ASSUME NEW r \in Requests, Closes(r) PROVE receipt'[x].job = j
  <2>1. PICK js \in SUBSET InFlightPR : Closing(r, js)
    BY <1>1, ClosesWrites
  <2>2. Keeps(x, js)
    BY <1>0, <2>1 DEF Closing
  <2> QED
    BY <1>0, <2>2 DEF Keeps
<1>2. ASSUME NEW r \in Requests, Note(r) PROVE receipt'[x].job = j
  BY <1>0, <1>2, NoteWrites
<1>3. ASSUME HydrateHooks PROVE receipt'[x].job = j
  <2>1. NoReceipt.outcome = "none"
    BY DEF NoReceipt
  <2> QED
    BY <1>0, <1>3, <2>1, HooksWrite
<1>4. ASSUME Steady PROVE receipt'[x].job = j
  BY <1>0, <1>4 DEF Steady
<1>5. receipt'[x].job = j
  BY <1>1, <1>2, <1>3, <1>4, ReceiptSteps
<1> QED
  BY <1>5 DEF x

(* Places, rows and receipts are in the states the code names, and memory  *)
(* holds nothing that is not on file.                                      *)
THEOREM TypeCorrect == Spec => []TypeOK
<1>1. Init => TypeOK /\ BackfillInv
  BY RequestsAssumption
  DEF Init, TypeOK, BackfillInv, OnFile, NoReceipt, Statuses
<1>2. TypeOK /\ BackfillInv /\ [Next]_vars => (TypeOK /\ BackfillInv)'
  BY TypeNext, BackfillNext
<1> QED
  BY <1>1, <1>2, PTL DEF Spec

LEMMA MemoryNext ==
  ASSUME TypeOK, MemoryInv, [Next]_vars
  PROVE  MemoryInv'
<1>0. \A j \in Requests : /\ job[j] # "absent" => job'[j] # "absent"
                          /\ job[j] = "absent" /\ job'[j] # "absent" => Enqueue(j)
  BY RowSteps
<1>1. ASSUME NEW j \in Requests, proc'[j] # "idle" PROVE job'[j] # "absent"
  <2>1. ASSUME NEW k \in Requests, ProcStep(k) PROVE proc[j] # "idle"
    <3>1. PICK status \in Statuses, goes \in {"idle", "gate", "run"} : Leaves(k, status, goes)
      BY <2>1, ProcType
    <3>2. k # j => proc'[j] = proc[j]
      BY <3>1, LeavesType
    <3> QED
      BY <1>1, <2>1, <3>2, ProcType
  <2>2. ASSUME NEW r \in Requests, FanOut(r)
        PROVE  proc[j] # "idle" \/ job'[j] # "absent"
    <3>1. proc' = Starts({target[r]}, job) /\ job' = job
      BY <2>2 DEF FanOut
    <3>2. proc[j] # "idle" \/ job[j] \in InFlight
      BY <1>1, <3>1, StartsType
    <3> QED
      BY <3>1, <3>2, StatusKinds
  <2>3. ASSUME Dispatch PROVE proc[j] # "idle" \/ job'[j] # "absent"
    BY <1>1, <2>3, DispatchStep, StatusKinds DEF Dispatches
  <2>4. proc[j] # "idle" \/ job'[j] # "absent"
    BY <1>1, <2>1, <2>2, <2>3, CloseStep
    DEF Next, Deliver, Handle, Closes, Receive, Route, Reuse, Enqueue, Note,
        Processor, ProcReviews, ShowList, Crash, BootStep, HydrateWatches,
        HydrateJobs, HydrateHooks, Recover, rows, vars
  <2> QED
    BY <1>0, <2>4 DEF MemoryInv
<1>2. ASSUME boot' \notin {"cold", "jobs"}
      PROVE  loaded' = {j \in Requests : job'[j] # "absent"}
  <2> DEFINE all == {j \in Requests : job[j] # "absent"}
             later == {j \in Requests : job'[j] # "absent"}
  <2>1. CASE HydrateJobs
    BY <2>1 DEF HydrateJobs
  <2>2. CASE ~HydrateJobs
    <3>1. boot \notin {"cold", "jobs"}
      <4>1. boot' = boot \/ boot \in {"hooks", "recover", "dispatch"}
        BY <1>2, <2>2, CloseStep
        DEF Next, Deliver, Handle, Closes, Receive, Route, Reuse, Enqueue, Note,
            FanOut, Processor, ProcStep, ProcSkips, ProcAdmits, ProcEnds, Leaves,
            ProcReviews, ShowList, Crash, BootStep, HydrateWatches, HydrateHooks,
            Recover, Dispatch, Boot, vars
      <4> QED
        BY <1>2, <4>1
    <3>2. loaded = all
      BY <3>1 DEF MemoryInv
    <3>3. CASE \E r \in Requests : Enqueue(r)
      <4>1. PICK r \in Requests : Enqueue(r)
        BY <3>3
      <4>2. loaded' = loaded \cup {r} /\ job'[r] # "absent"
        BY <4>1, EnqueueStep DEF Enqueues
      <4>3. \A j \in Requests : j # r => (job'[j] = "absent" <=> job[j] = "absent")
        <5>1. PICK js \in SUBSET InFlightPR, s \in {"queued", "skipped"} : Enqueues(r, js, s)
          BY <4>1, EnqueueStep
        <5> QED
          BY <5>1, InFlightLoaded DEF Enqueues
      <4> QED
        BY <3>2, <4>2, <4>3
    <3>4. CASE ~\E r \in Requests : Enqueue(r)
      <4>1. later = all
        BY <1>0, <3>4
      <4>2. loaded' = loaded
        BY <1>2, <2>2, <3>4, CloseStep, DispatchStep
        DEF Next, Deliver, Handle, Closes, Receive, Route, Reuse, Note, FanOut,
            Processor, ProcStep, ProcSkips, ProcAdmits, ProcEnds, Leaves,
            ProcReviews, ShowList, Crash, BootStep, HydrateWatches,
            HydrateHooks, Recover, Dispatches, rows, vars
      <4> QED
        BY <3>2, <4>1, <4>2
    <3> QED
      BY <3>3, <3>4
  <2> QED
    BY <2>1, <2>2
<1> QED
  BY <1>1, <1>2 DEF MemoryInv

LEMMA HandlerNext ==
  ASSUME TypeOK, MemoryInv, BackfillInv, HandlerInv, [Next]_vars
  PROVE  HandlerInv'
<1> SUFFICES ASSUME NEW r \in Requests
             PROVE  /\ hpc'[r] \in Early => job'[r] = "absent"
                    /\ hpc'[r] \in Early \cup {"finish"} =>
                         receipt'[<<"live", r>>] = NoReceipt
                    /\ hpc'[r] \in {"finish", "fanout"} =>
                         target'[r] \in Requests /\ job'[target'[r]] # "absent"
                    /\ hpc'[r] = "fanout" => receipt'[<<"live", r>>].job = target'[r]
  BY DEF HandlerInv, Early
<1> DEFINE x == <<"live", r>>
<1>0. /\ x \in Receipts /\ x[1] = "live"
      /\ \A s \in Requests : s # r => x # <<"live", s>>
  BY ReceiptNames
<1>h. /\ hpc[r] \in Early => job[r] = "absent"
      /\ hpc[r] \in Early \cup {"finish"} => receipt[x] = NoReceipt
      /\ hpc[r] \in {"finish", "fanout"} => target[r] \in Requests /\ job[target[r]] # "absent"
      /\ hpc[r] = "fanout" => receipt[x].job = target[r]
  BY DEF HandlerInv, Early
<1>s. /\ hpc'[r] \in Early => hpc[r] \in Early
      /\ hpc'[r] = "finish" =>
           (hpc[r] = "finish" /\ target'[r] = target[r]) \/ Reuse(r) \/ Enqueue(r)
      /\ hpc'[r] = "fanout" =>
           (hpc[r] = "fanout" /\ target'[r] = target[r]) \/ Note(r)
  BY HandlerSteps
<1>r. \A j \in Requests : /\ job[j] # "absent" => job'[j] # "absent"
                          /\ job[j] = "absent" /\ job'[j] # "absent" => Enqueue(j)
  BY RowSteps
<1>e. Enqueue(r) => hpc[r] = "enqueue" /\ hpc'[r] = "finish" /\ target'[r] = r
                    /\ job'[r] # "absent"
  <2> SUFFICES ASSUME Enqueue(r)
               PROVE  hpc[r] = "enqueue" /\ hpc'[r] = "finish" /\ target'[r] = r
                      /\ job'[r] # "absent"
    OBVIOUS
  <2>1. PICK js \in SUBSET InFlightPR, s \in {"queued", "skipped"} : Enqueues(r, js, s)
    BY EnqueueStep
  <2> QED
    BY <2>1 DEF Enqueues, TypeOK
<1>u. Reuse(r) => hpc[r] = "enqueue" /\ target'[r] \in Requests /\ job[target'[r]] # "absent"
  <2> SUFFICES ASSUME Reuse(r)
               PROVE  hpc[r] = "enqueue" /\ target'[r] \in Requests /\ job[target'[r]] # "absent"
    OBVIOUS
  <2>1. PICK j \in Newest(InFlightForSHA(sent[r].commit)) : target' = [target EXCEPT ![r] = j]
    BY DEF Reuse
  <2>2. j \in InFlightPR
    BY <2>1, InFlightLoaded DEF Newest
  <2>3. j \in Requests /\ job[j] # "absent" /\ target'[r] = j
    BY <2>1, <2>2, InFlightLoaded DEF TypeOK
  <2> QED
    BY <2>3 DEF Reuse, At
<1>n. Note(r) => hpc[r] = "finish" /\ hpc'[r] = "fanout" /\ target' = target
                 /\ receipt'[x].job = target[r]
  BY NoteWrites DEF Note, At, TypeOK
<1> HIDE DEF x
<1>1. hpc'[r] \in Early => job'[r] = "absent"
  BY <1>h, <1>s, <1>r, <1>e DEF Early
<1>2. ASSUME hpc'[r] # "done", ~Note(r)
      PROVE  /\ receipt[x] = NoReceipt => receipt'[x] = NoReceipt
             /\ receipt'[x].job = receipt[x].job
  <2>1. ASSUME NEW s \in Requests, Closes(s)
        PROVE  /\ receipt[x] = NoReceipt => receipt'[x] = NoReceipt
               /\ receipt'[x].job = receipt[x].job
    <3>1. s # r
      BY <1>2, <2>1 DEF Closes, TypeOK
    <3>2. PICK js \in SUBSET InFlightPR : Closing(s, js)
      BY <2>1, ClosesWrites
    <3>3. Keeps(x, js)
      BY <1>0, <3>1, <3>2 DEF Closing
    <3> QED
      BY <3>3 DEF Keeps
  <2>2. ASSUME NEW s \in Requests, Note(s) PROVE receipt'[x] = receipt[x]
    BY <1>0, <1>2, <2>2, NoteWrites
  <2>3. ASSUME HydrateHooks PROVE receipt'[x] = receipt[x]
    BY <1>0, <2>3, HooksWrite
  <2>4. ASSUME Steady
        PROVE  /\ receipt[x] = NoReceipt => receipt'[x] = NoReceipt
               /\ receipt'[x].job = receipt[x].job
    BY <1>0, <2>4 DEF Steady
  <2> QED
    BY <2>1, <2>2, <2>3, <2>4, ReceiptSteps
<1>3. hpc'[r] \in Early \cup {"finish"} => receipt'[x] = NoReceipt
  BY <1>h, <1>s, <1>e, <1>u, <1>n, <1>2 DEF Early
<1>4. hpc'[r] \in {"finish", "fanout"} =>
        target'[r] \in Requests /\ job'[target'[r]] # "absent"
  BY <1>h, <1>s, <1>r, <1>e, <1>u, <1>n
<1>5. hpc'[r] = "fanout" => receipt'[x].job = target'[r]
  BY <1>h, <1>s, <1>n, <1>2
<1> QED
  BY <1>1, <1>3, <1>4, <1>5 DEF x

LEMMA ReceiptNext ==
  ASSUME TypeOK, MemoryInv, BackfillInv, HandlerInv, ReceiptInv, [Next]_vars
  PROVE  ReceiptInv'
<1> SUFFICES ASSUME NEW x \in Receipts, receipt'[x].outcome = "queued"
             PROVE  receipt'[x].job \in Requests /\ job'[receipt'[x].job] # "absent"
  BY DEF ReceiptInv
<1>r. \A j \in Requests : job[j] # "absent" => job'[j] # "absent"
  BY RowSteps
<1>0. ASSUME receipt[x].outcome = "queued", receipt'[x].job = receipt[x].job
      PROVE  receipt'[x].job \in Requests /\ job'[receipt'[x].job] # "absent"
  BY <1>0, <1>r DEF ReceiptInv
<1>1. ASSUME NEW r \in Requests, Closes(r)
      PROVE  receipt'[x].job \in Requests /\ job'[receipt'[x].job] # "absent"
  <2>1. PICK js \in SUBSET InFlightPR : Closing(r, js)
    BY <1>1, ClosesWrites
  <2>2. Keeps(x, js)
    BY <2>1 DEF Closing
  <2> QED
    BY <1>0, <2>2 DEF Keeps
<1>2. ASSUME NEW r \in Requests, Note(r)
      PROVE  receipt'[x].job \in Requests /\ job'[receipt'[x].job] # "absent"
  <2>1. target[r] \in Requests /\ job[target[r]] # "absent"
    BY <1>2 DEF HandlerInv, Note, At
  <2> QED
    BY <1>0, <1>2, <1>r, <2>1, NoteWrites
<1>3. ASSUME HydrateHooks
      PROVE  receipt'[x].job \in Requests /\ job'[receipt'[x].job] # "absent"
  <2>1. NoReceipt.outcome # "queued"
    BY DEF NoReceipt
  <2>2. CASE x \in {"backfill"} \X Backfilled
    <3>1. receipt'[x].job = x[2] /\ x[2] \in loaded
      BY <1>3, <2>2, HooksWrite DEF Backfilled
    <3> QED
      BY <1>r, <3>1 DEF TypeOK
  <2>3. CASE x \notin {"backfill"} \X Backfilled
    BY <1>0, <1>3, <2>1, <2>3, HooksWrite
  <2> QED
    BY <2>2, <2>3
<1>4. ASSUME Steady
      PROVE  receipt'[x].job \in Requests /\ job'[receipt'[x].job] # "absent"
  BY <1>0, <1>4 DEF Steady
<1> QED
  BY <1>1, <1>2, <1>3, <1>4, ReceiptSteps

LEMMA CoverNext ==
  ASSUME TypeOK, MemoryInv, BackfillInv, HandlerInv, CoverInv, [Next]_vars
  PROVE  CoverInv'
<1> DEFINE Later == {"recover", "dispatch", "up"}
<1> SUFFICES ASSUME boot' \in Later, NEW j \in Requests, job'[j] # "absent"
             PROVE  \/ \E x \in seen' : receipt'[x].job = j
                    \/ \E r \in Requests : target'[r] = j /\ hpc'[r] = "finish"
  BY DEF CoverInv
<1>1. CASE HydrateHooks
  <2>1. boot = "hooks" /\ job' = job
    BY <1>1 DEF HydrateHooks, Boot, rows
  <2>2. j \in loaded
    BY <2>1 DEF MemoryInv
  <2>3. CASE j \in Backfilled
    <3>1. <<"backfill", j>> \in {"backfill"} \X Backfilled /\ <<"backfill", j>> \in Receipts
          /\ <<"backfill", j>>[2] = j
      BY <2>3, ReceiptNames
    <3> QED
      BY <1>1, <3>1, HooksWrite
  <2>4. CASE j \notin Backfilled
    <3>1. PICK x \in OnFile : receipt[x].job = j
      BY <2>2, <2>4 DEF Backfilled
    <3>2. PICK y \in OnFile : receipt[y].job = j /\ y \notin Doubled
      <4>1. CASE x \in Doubled
        <5>1. PICK y \in OnFile : y[1] = "live" /\ receipt[y].job = receipt[x].job
          BY <4>1 DEF Doubled
        <5>2. y \notin Doubled
          BY <5>1 DEF Doubled
        <5> QED
          BY <3>1, <5>1, <5>2
      <4> QED
        BY <3>1, <4>1
    <3>3. y \in Receipts
      BY DEF OnFile
    <3>4. receipt'[y] = receipt[y] /\ y \in seen'
      BY <1>1, <3>2, <3>3, HooksWrite
    <3> QED
      BY <3>2, <3>4
  <2> QED
    BY <2>3, <2>4
<1>2. CASE ~HydrateHooks
  <2>1. boot \in Later /\ ~Crash
    <3>1. boot' = boot \/ boot \in Later \/ Crash \/ HydrateWatches \/ HydrateJobs
      BY <1>2, CloseStep
      DEF Next, Deliver, Handle, Closes, Receive, Route, Reuse, Enqueue, Note,
          FanOut, Processor, ProcStep, ProcSkips, ProcAdmits, ProcEnds, Leaves,
          ProcReviews, ShowList, BootStep, Recover, Dispatch, Boot, vars
    <3> QED
      BY <3>1 DEF Crash, HydrateWatches, HydrateJobs, Boot
  <2>2. CASE job[j] = "absent"
    <3>1. Enqueue(j)
      BY <2>2, RowSteps
    <3>2. PICK js \in SUBSET InFlightPR, s \in {"queued", "skipped"} : Enqueues(j, js, s)
      BY <3>1, EnqueueStep
    <3>3. target'[j] = j /\ hpc'[j] = "finish"
      BY <3>2 DEF Enqueues, TypeOK
    <3> QED
      BY <3>3
  <2>3. CASE \E x \in seen : receipt[x].job = j
    <3>1. PICK x \in seen : receipt[x].job = j
      BY <2>3
    <3>2. x \in Receipts /\ receipt[x] # NoReceipt
      BY ReceiptType DEF TypeOK, OnFile
    <3>3. ASSUME NEW r \in Requests, Closes(r) PROVE x \in seen' /\ receipt'[x].job = j
      <4>1. PICK js \in SUBSET InFlightPR : Closing(r, js)
        BY <3>3, ClosesWrites
      <4>2. x # <<"live", r>>
        BY <3>2, <3>3 DEF Closes, HandlerInv
      <4>3. Keeps(x, js) /\ seen' = seen \cup {<<"live", r>>}
        BY <3>2, <4>1, <4>2 DEF Closing
      <4> QED
        BY <3>1, <4>3 DEF Keeps
    <3>4. ASSUME NEW r \in Requests, Note(r) PROVE x \in seen' /\ receipt'[x].job = j
      <4>1. x # <<"live", r>>
        BY <3>2, <3>4 DEF Note, At, HandlerInv
      <4> QED
        BY <3>1, <3>2, <3>4, <4>1, NoteWrites
    <3>5. ASSUME Steady, seen' = seen PROVE x \in seen' /\ receipt'[x].job = j
      BY <3>1, <3>2, <3>5 DEF Steady
    <3>6. x \in seen' /\ receipt'[x].job = j
      BY <1>2, <2>1, <3>3, <3>4, <3>5, ReceiptSteps
    <3> QED
      BY <3>6
  <2>4. CASE \E r \in Requests : target[r] = j /\ hpc[r] = "finish"
    <3>1. PICK r \in Requests : target[r] = j /\ hpc[r] = "finish"
      BY <2>4
    <3>2. CASE Note(r)
      <4>1. <<"live", r>> \in seen' /\ receipt'[<<"live", r>>].job = j
        BY <3>1, <3>2, NoteWrites
      <4> QED
        BY <4>1
    <3>3. CASE ~Note(r)
      <4>1. hpc'[r] = "finish" /\ target'[r] = target[r]
        BY <2>1, <3>1, <3>3, HandlerSteps
      <4> QED
        BY <3>1, <4>1
    <3> QED
      BY <3>2, <3>3
  <2> QED
    BY <2>1, <2>2, <2>3, <2>4 DEF CoverInv
<1> QED
  BY <1>1, <1>2

(* A receipt that stays queued is about a row that did not end now. *)
LEMMA StaysUnsettled ==
  ASSUME TypeOK, ReceiptInv, seen = OnFile, NEW x \in Receipts,
         NEW js, Keeps(x, js), receipt'[x].outcome = "queued",
         job[receipt[x].job] \in InFlight \cup {"completed_with_errors"},
         \A k \in Requests : k \notin js => job'[k] = job[k]
  PROVE  job'[receipt'[x].job] \in InFlight \cup {"completed_with_errors"}
<1>1. /\ receipt'[x].job = receipt[x].job /\ receipt[x].outcome = "queued"
      /\ x \in seen /\ receipt[x].job \in js =>
           job'[receipt[x].job] \in InFlight \cup {"completed_with_errors"}
  BY DEF Keeps
<1>2. x \in seen /\ receipt[x].job \in Requests
  BY <1>1 DEF OnFile, ReceiptInv
<1> QED
  BY <1>1, <1>2

LEMMA SettledNext ==
  ASSUME TypeOK, MemoryInv, HandlerInv, ReceiptInv, SettledInv, [Next]_vars
  PROVE  SettledInv'
<1> DEFINE Open == InFlight \cup {"completed_with_errors"}
<1> SUFFICES ASSUME crashes' = Crashes
             PROVE  /\ boot' = "up" /\ seen' = OnFile'
                    /\ \A r \in Requests :
                         hpc'[r] = "done" /\ receipt'[<<"live", r>>].outcome = "queued" =>
                           job'[receipt'[<<"live", r>>].job] \in Open
  BY DEF SettledInv, ReceiptsSettle
<1>0. crashes' = crashes /\ ~Crash
  <2>1. ~Crash
    BY RequestsAssumption DEF Crash, TypeOK
  <2> QED
    BY <2>1, CloseStep
    DEF Next, Deliver, Handle, Closes, Receive, Route, Reuse, Enqueue, Note,
        FanOut, Processor, ProcStep, ProcSkips, ProcAdmits, ProcEnds, Leaves,
        ProcReviews, ShowList, BootStep, HydrateWatches, HydrateJobs,
        HydrateHooks, Recover, Dispatch, vars
<1>1. boot = "up" /\ seen = OnFile
      /\ \A r \in Requests :
           hpc[r] = "done" /\ receipt[<<"live", r>>].outcome = "queued" =>
             job[receipt[<<"live", r>>].job] \in Open
  BY <1>0 DEF SettledInv, ReceiptsSettle
<1>2. ~BootStep
  BY <1>1 DEF BootStep, HydrateWatches, HydrateJobs, HydrateHooks, Recover, Dispatch, Boot
<1>3. boot' = "up"
  BY <1>0, <1>1, <1>2, CloseStep
  DEF Next, Deliver, Handle, Closes, Receive, Route, Reuse, Enqueue, Note,
      FanOut, Processor, ProcStep, ProcSkips, ProcAdmits, ProcEnds, Leaves,
      ProcReviews, ShowList, vars
<1>4. seen' = OnFile'
  <2>1. ASSUME NEW r \in Requests, Closes(r) PROVE seen' = OnFile'
    BY <1>1, <2>1, ClosesWrites DEF Closing
  <2>2. ASSUME NEW r \in Requests, Note(r) PROVE seen' = OnFile'
    BY <1>1, <2>2, NoteWrites
  <2>3. ASSUME Steady, seen' = seen PROVE seen' = OnFile'
    BY <1>1, <2>3 DEF Steady, OnFile
  <2>4. ~HydrateHooks
    BY <1>2 DEF BootStep
  <2> QED
    BY <1>0, <2>1, <2>2, <2>3, <2>4, ReceiptSteps
<1>5. ASSUME NEW r \in Requests, hpc'[r] = "done", receipt'[<<"live", r>>].outcome = "queued"
      PROVE  job'[receipt'[<<"live", r>>].job] \in Open
  <2> DEFINE x == <<"live", r>>
  <2>0. x \in Receipts /\ \A s \in Requests : s # r => x # <<"live", s>>
    BY ReceiptNames
  <2>q. receipt'[x].outcome = "queued"
    BY <1>5
  <2>d. hpc[r] = "done" /\ receipt[x].outcome = "queued" => job[receipt[x].job] \in Open
    BY <1>1
  <2> HIDE DEF x, Open
  <2>1. ASSUME NEW s \in Requests, Closes(s) PROVE job'[receipt'[x].job] \in Open
    <3>1. PICK js \in SUBSET InFlightPR : Closing(s, js)
      BY <2>1, ClosesWrites
    <3>2. x # <<"live", s>>
      BY <2>q, <3>1 DEF Closing
    <3>3. s # r
      BY <3>2 DEF x
    <3>4. hpc[r] = "done" /\ Keeps(x, js)
      BY <1>5, <2>0, <2>1, <3>1, <3>2, <3>3 DEF Closes, Closing, TypeOK
    <3>5. receipt[x].outcome = "queued"
      BY <2>q, <3>4 DEF Keeps
    <3>6. \A k \in Requests : k \notin js => job'[k] = job[k]
      BY <3>1 DEF Closing
    <3> QED
      BY <1>1, <2>0, <2>q, <2>d, <3>4, <3>5, <3>6, StaysUnsettled DEF Open
  <2>2. ASSUME UNCHANGED <<job, receipt>>, hpc[r] = "done"
        PROVE  job'[receipt'[x].job] \in Open
    BY <2>q, <2>d, <2>2
  <2>3. ASSUME NEW s \in Requests, Receive(s) \/ Route(s) \/ Reuse(s)
        PROVE  job'[receipt'[x].job] \in Open
    <3>1. hpc[r] = "done"
      BY <1>5, <2>3 DEF Receive, Route, Reuse, TypeOK
    <3> QED
      BY <2>2, <2>3, <3>1 DEF Receive, Route, Reuse, rows, notes
  <2>4. ASSUME NEW s \in Requests, Enqueue(s) PROVE job'[receipt'[x].job] \in Open
    <3>1. PICK js \in SUBSET InFlightPR, t \in {"queued", "skipped"} : Enqueues(s, js, t)
      BY <2>4, EnqueueStep
    <3>2. hpc[r] = "done"
      BY <1>5, <3>1 DEF Enqueues, TypeOK
    <3>3. js \subseteq Requests /\ \A k \in js : job'[k] \in Statuses
      <4>1. job' \in [Requests -> Statuses \cup {"absent"}]
        BY <3>1 DEF Enqueues
      <4>2. js \subseteq Requests /\ \A k \in js : job[k] # "absent"
        BY <3>1, InFlightLoaded
      <4>3. \A k \in js : job'[k] # "absent"
        BY <4>2, RowSteps
      <4> QED
        BY <4>1, <4>2, <4>3
    <3>4. Keeps(x, js)
      BY <2>0, <3>1, <3>3, SettledKeeps DEF Enqueues
    <3>5. receipt[x].outcome = "queued" /\ receipt'[x].job = receipt[x].job
          /\ receipt[x].job \in Requests /\ job[receipt[x].job] # "absent" /\ x \in seen
      BY <1>1, <2>0, <2>q, <3>4 DEF Keeps, ReceiptInv, OnFile
    <3>6. receipt[x].job # s
      <4>1. job[s] = "absent"
        BY <3>1 DEF Enqueues, HandlerInv
      <4> QED
        BY <3>5, <4>1
    <3>7. receipt[x].job \notin js => job'[receipt[x].job] = job[receipt[x].job]
      BY <3>1, <3>5, <3>6 DEF Enqueues
    <3> QED
      BY <2>q, <2>d, <3>2, <3>4, <3>5, <3>7 DEF Keeps, Open
  <2>5. ASSUME NEW s \in Requests, Note(s) PROVE job'[receipt'[x].job] \in Open
    <3>1. s # r /\ hpc[r] = "done" /\ job' = job
      BY <1>5, <2>5 DEF Note, TypeOK, rows
    <3>2. receipt'[x] = receipt[x]
      BY <2>0, <2>5, <3>1, NoteWrites
    <3> QED
      BY <2>q, <2>d, <3>1, <3>2
  <2>6. ASSUME NEW s \in Requests, FanOut(s) PROVE job'[receipt'[x].job] \in Open
    <3>1. job' = job /\ hpc[s] = "fanout" /\ hpc' = [hpc EXCEPT ![s] = "done"]
      BY <2>6 DEF FanOut, At, Done
    <3>2. Settled(receipt', {y \in seen : receipt[y].job \in {target[s]}}, job')
      BY <2>6, <3>1, ReconciledSettles DEF FanOut, persisted
    <3>3. target[s] \in Requests /\ job[target[s]] \in Statuses
      BY <3>1 DEF HandlerInv, TypeOK
    <3>4. Keeps(x, {target[s]})
      BY <2>0, <3>1, <3>2, <3>3, SettledKeeps
    <3>5. CASE r = s
      <4>1. receipt[x].job = target[s]
        BY <3>1, <3>5 DEF HandlerInv, x
      <4>2. x \in seen /\ receipt'[x].job = receipt[x].job
        BY <1>1, <2>0, <2>q, <3>4 DEF Keeps, OnFile
      <4> QED
        BY <2>q, <3>4, <4>1, <4>2 DEF Keeps, Open
    <3>6. CASE r # s
      <4>1. hpc[r] = "done" /\ receipt[x].outcome = "queued"
            /\ receipt'[x].job = receipt[x].job
        BY <1>5, <2>q, <3>1, <3>4, <3>6 DEF Keeps, TypeOK
      <4> QED
        BY <2>d, <3>1, <4>1
    <3> QED
      BY <3>5, <3>6
  <2>7. ASSUME NEW j \in Requests, ProcStep(j) PROVE job'[receipt'[x].job] \in Open
    <3>1. PICK status \in Statuses, goes \in {"idle", "gate", "run"} : Leaves(j, status, goes)
      BY <2>7, ProcType
    <3>2. /\ job'[j] = status /\ \A k \in Requests : k # j => job'[k] = job[k]
          /\ Settled(receipt', {y \in seen : receipt[y].job \in {j}}, job')
          /\ hpc' = hpc
      BY <3>1, LeavesType
    <3>3. Keeps(x, {j})
      BY <2>0, <3>2, SettledKeeps
    <3>4. hpc[r] = "done" /\ receipt[x].outcome = "queued"
      BY <1>5, <2>q, <3>2, <3>3 DEF Keeps
    <3>5. \A k \in Requests : k \notin {j} => job'[k] = job[k]
      BY <3>2
    <3> QED
      BY <1>1, <2>0, <2>q, <2>d, <3>3, <3>4, <3>5, StaysUnsettled DEF Open
  <2>8. ASSUME NEW j \in Requests, ProcReviews(j) PROVE job'[receipt'[x].job] \in Open
    BY <1>5, <2>2, <2>8 DEF ProcReviews, notes
  <2>9. ASSUME ShowList PROVE job'[receipt'[x].job] \in Open
    <3>1. Steady /\ UNCHANGED <<hpc, job>>
      BY <2>9, ReconciledSettles DEF ShowList, Settled, Steady, rows
    <3> QED
      BY <1>5, <2>0, <2>q, <2>d, <3>1 DEF Steady
  <2>10. ASSUME UNCHANGED vars PROVE job'[receipt'[x].job] \in Open
    BY <1>5, <2>2, <2>10 DEF vars
  <2>11. job'[receipt'[x].job] \in Open
    BY <1>0, <1>2, <2>1, <2>3, <2>4, <2>5, <2>6, <2>7, <2>8, <2>9, <2>10, CloseStep
    DEF Next, Deliver, Handle, Processor
  <2> QED
    BY <2>11 DEF x
<1> QED
  BY <1>3, <1>4, <1>5

LEMMA QueueNext ==
  ASSUME TypeOK, MemoryInv, QueueInv, [Next]_vars
  PROVE  QueueInv'
<1> SUFFICES ASSUME boot' = "up", NEW j \in Requests, NEW k \in Requests,
                    OfPR(j)', OfPR(k)', job'[j] = "queued", job'[k] = "queued"
             PROVE  j = k
  BY DEF QueueInv
<1>0. sent' = sent
  BY CloseStep
  DEF Next, Deliver, Handle, Closes, Receive, Route, Reuse, Enqueue, Note,
      FanOut, Processor, ProcStep, ProcSkips, ProcAdmits, ProcEnds, Leaves,
      ProcReviews, ShowList, Crash, BootStep, HydrateWatches, HydrateJobs,
      HydrateHooks, Recover, Dispatch, vars
<1>1. OfPR(j) /\ OfPR(k)
  BY <1>0 DEF OfPR
<1>2. boot \notin {"cold", "jobs"} =>
        \A i \in Requests : OfPR(i) /\ job[i] = "queued" => i \in InFlightPR
  BY DEF MemoryInv, InFlightPR, InFlight
<1>3. CASE Dispatch
  <2>1. PICK js \in SUBSET InFlightPR : Dispatches(js)
    BY <1>3, DispatchStep
  <2>2. j \notin js /\ k \notin js /\ job[j] = "queued" /\ job[k] = "queued"
        /\ boot = "dispatch"
    BY <2>1 DEF Dispatches
  <2> QED
    BY <1>1, <1>2, <2>1, <2>2 DEF Dispatches
<1>4. CASE ~Dispatch
  <2>1. boot = "up"
    BY <1>4, CloseStep
    DEF Next, Deliver, Handle, Closes, Receive, Route, Reuse, Enqueue, Note,
        FanOut, Processor, ProcStep, ProcSkips, ProcAdmits, ProcEnds, Leaves,
        ProcReviews, ShowList, Crash, BootStep, HydrateWatches, HydrateJobs,
        HydrateHooks, Recover, Boot, vars
  <2>2. ASSUME job[j] = "queued", job[k] = "queued" PROVE j = k
    BY <1>1, <2>1, <2>2 DEF QueueInv
  <2>3. ASSUME NEW r \in Requests, Closes(r) PROVE j = k
    <3>1. PICK js \in SUBSET InFlightPR : Closing(r, js)
      BY <2>3, ClosesWrites
    <3> QED
      BY <2>2, <3>1 DEF Closing
  <2>4. ASSUME NEW r \in Requests, Enqueue(r) PROVE j = k
    <3>1. PICK js \in SUBSET InFlightPR, s \in {"queued", "skipped"} : Enqueues(r, js, s)
      BY <2>4, EnqueueStep
    <3>2. \A i \in Requests : i # r /\ job'[i] = "queued" => job[i] = "queued" /\ i \notin js
      BY <3>1 DEF Enqueues
    <3>3. CASE OfPR(r)
      <4>1. \A i \in Requests : OfPR(i) /\ job'[i] = "queued" => i = r
        BY <1>2, <2>1, <3>1, <3>2, <3>3 DEF Enqueues
      <4> QED
        BY <1>1, <4>1
    <3>4. CASE ~OfPR(r)
      <4>1. j # r /\ k # r
        BY <1>1, <3>4
      <4> QED
        BY <2>2, <3>2, <4>1
    <3> QED
      BY <3>3, <3>4
  <2>5. ASSUME NEW i \in Requests, ProcStep(i) PROVE j = k
    <3>1. PICK status \in Statuses, goes \in {"idle", "gate", "run"} :
            (status # "queued" \/ job[i] = "queued") /\ Leaves(i, status, goes)
      BY <2>5, ProcType
    <3>2. job'[i] = status /\ \A h \in Requests : h # i => job'[h] = job[h]
      BY <3>1, LeavesType
    <3> QED
      BY <2>2, <3>1, <3>2
  <2>6. ASSUME UNCHANGED job PROVE j = k
    BY <2>2, <2>6
  <2> QED
    BY <1>4, <2>1, <2>3, <2>4, <2>5, <2>6, CloseStep
    DEF Next, Deliver, Handle, Receive, Route, Reuse, Note, FanOut, Processor,
        ProcReviews, ShowList, Crash, BootStep, HydrateWatches, HydrateJobs,
        HydrateHooks, Recover, Boot, rows, vars
<1> QED
  BY <1>3, <1>4

-----------------------------------------------------------------------------
(* Together. *)

LEMMA InvInductive == Spec => [](TypeOK /\ WebhooksInv)
<1>1. Init => TypeOK /\ WebhooksInv
  <2> SUFFICES ASSUME Init PROVE TypeOK /\ WebhooksInv
    OBVIOUS
  <2>1. \A x \in Receipts : receipt[x] = NoReceipt /\ NoReceipt.outcome = "none"
    BY DEF Init, NoReceipt
  <2>2. TypeOK /\ BackfillInv
    BY RequestsAssumption DEF Init, TypeOK, BackfillInv, OnFile, NoReceipt, Statuses
  <2>3. MemoryInv
    BY DEF Init, MemoryInv
  <2>4. HandlerInv
    BY <2>1, ReceiptNames DEF Init, HandlerInv
  <2>5. ReceiptInv
    BY <2>1 DEF ReceiptInv
  <2>6. CoverInv /\ QueueInv
    BY DEF Init, CoverInv, QueueInv
  <2>7. SettledInv
    BY <2>1, ReceiptNames DEF Init, SettledInv, OnFile, ReceiptsSettle
  <2> QED
    BY <2>2, <2>3, <2>4, <2>5, <2>6, <2>7 DEF WebhooksInv
<1>2. TypeOK /\ WebhooksInv /\ [Next]_vars => (TypeOK /\ WebhooksInv)'
  <2> SUFFICES ASSUME TypeOK, WebhooksInv, [Next]_vars PROVE (TypeOK /\ WebhooksInv)'
    OBVIOUS
  <2>1. BackfillInv /\ MemoryInv /\ HandlerInv /\ ReceiptInv
        /\ CoverInv /\ SettledInv /\ QueueInv
    BY DEF WebhooksInv
  <2> QED
    BY <2>1, TypeNext, BackfillNext, MemoryNext, HandlerNext, ReceiptNext,
       CoverNext, SettledNext, QueueNext DEF WebhooksInv
<1> QED
  BY <1>1, <1>2, PTL DEF Spec

(* prEnqueueMu: once the boot has pruned, the pull request never has two   *)
(* runs in the queue.                                                      *)
THEOREM OneQueuedHolds == Spec => []OneQueued
<1>1. WebhooksInv => OneQueued
  <2> SUFFICES ASSUME QueueInv, boot = "up"
               PROVE  Cardinality({j \in Requests : OfPR(j) /\ job[j] = "queued"}) <= 1
    BY DEF WebhooksInv, OneQueued
  <2> DEFINE S == {j \in Requests : OfPR(j) /\ job[j] = "queued"}
  <2>1. \A j, k \in S : j = k
    BY DEF QueueInv
  <2> HIDE DEF S
  <2>2. CASE S = {}
    BY <2>2, FS_EmptySet DEF S
  <2>3. CASE S # {}
    <3>1. PICK j : S = {j}
      BY <2>1, <2>3
    <3>2. Cardinality(S) = 1
      BY <3>1, FS_Singleton
    <3> QED
      BY <3>2 DEF S
  <2> QED
    BY <2>2, <2>3
<1> QED
  BY <1>1, InvInductive, PTL

(* jobTerminalWebhookOutcome: without a crash, a receipt whose handler is  *)
(* through is not queued when its job has ended.                           *)
THEOREM SettleHolds == Spec => []ReceiptsSettle
<1>1. WebhooksInv => ReceiptsSettle
  BY DEF WebhooksInv, SettledInv, ReceiptsSettle
<1> QED
  BY <1>1, InvInductive, PTL

(* backfillSCMWebhooksFromJobs: when the boot is through, every job of a   *)
(* webhook has a receipt that can be looked at, or a handler stores one.   *)
THEOREM ReceiptHolds == Spec => []JobHasReceipt
<1>1. WebhooksInv => JobHasReceipt
  BY DEF WebhooksInv, CoverInv, JobHasReceipt
<1> QED
  BY <1>1, InvInductive, PTL


-----------------------------------------------------------------------------
(* Issue runs.                                                             *)

IssueRunStatus == {"absent", "queued", "running", "cancelled", "error", "completed",
              "completed_with_errors"}
IssueChildStatus == {"absent", "queued", "running", "cancelled", "failed", "completed",
                     "skipped"}
IssuePolicy == [auto : BOOLEAN, human : BOOLEAN]

IssuePlaces == {"idle", "spawned", "begin", "loop", "wait", "fold", "end"}
IssueAgentPlaces == {"idle", "slot", "start", "body", "ok", "err"}
USE DEF IssuePlaces, IssueAgentPlaces

(* Type correctness. *)
IssueTypes ==
  /\ asked \in [Runs -> {"no", "admitted", "done"}]
  /\ index \in Runs \cup {0}
  /\ run \in [Runs -> IssueRunStatus]
  /\ place \in [Runs -> IssuePlaces]
  /\ child \in [Runs -> [Children -> IssueChildStatus]]
  /\ at \in [Runs -> [Children -> IssueAgentPlaces]]
  /\ policy \in [Runs -> IssuePolicy]
  /\ manual \subseteq Runs \X Coders
  /\ plan \in [Runs -> {"none", "tried", "posted", "waived"}]
  /\ prs \in [Runs -> [Children -> Nat]]
  /\ heard \subseteq Runs \X Coders
  /\ budget \in [Events -> Nat]

(* Somebody approved c, or the preferences r was planned with ask nobody.  *)
IssueSanctioned(r, c) == <<r, c>> \in manual \/ (policy[r].auto /\ ~policy[r].human)

(* A delivery that is not worked off has no rows; a processor has a row; a *)
(* pull request has an implement row; and every implement row is           *)
(* sanctioned, so that whatever starts or repeats one needs no gate of its *)
(* own.                                                                    *)
IssueAskedInv == \A r \in Runs :
  asked[r] # "done" => run[r] = "absent" /\ \A c \in Children : child[r][c] = "absent"
IssuePlaceInv == \A r \in Runs : place[r] # "idle" => run[r] # "absent"
IssueAtInv == \A r \in Runs, c \in Children :
  at[r][c] # "idle" => child[r][c] # "absent"
IssueCodeInv == \A r \in Runs, c \in Children :
  prs[r][c] > 0 => child[r][c] # "absent" /\ c \in Coders
IssueRowInv == \A r \in Runs, c \in Coders :
  child[r][c] # "absent" => IssueSanctioned(r, c)

IssueSanctionInv ==
  IssueAskedInv /\ IssuePlaceInv /\ IssueAtInv /\ IssueCodeInv /\ IssueRowInv
IssueInv == IssueTypes /\ IssueSanctionInv

LEMMA IssueSpendType ==
  ASSUME IssueTypes, NEW e \in Events, Spend(e)
  PROVE  budget' \in [Events -> Nat]
  BY DEF IssueTypes, Spend

(* dispatchQueuedNonStackSCMJobs takes up queued rows only. *)
LEMMA IssueDispatchType ==
  ASSUME NEW status, NEW kids, NEW places \in [Runs -> IssuePlaces],
         NEW procs \in [Runs -> [Children -> IssueAgentPlaces]],
         DispatchQueued(status, kids, places, procs)
  PROVE  /\ place' \in [Runs -> IssuePlaces]
         /\ at' \in [Runs -> [Children -> IssueAgentPlaces]]
  BY DEF DispatchQueued

LEMMA IssueDispatchWakes ==
  ASSUME NEW status, NEW kids, NEW places, NEW procs,
         DispatchQueued(status, kids, places, procs), NEW r \in Runs
  PROVE  /\ place'[r] # "idle" => places[r] # "idle" \/ status[r] = "queued"
         /\ \A c \in Children : at'[r][c] # "idle" =>
              procs[r][c] # "idle" \/ kids[r][c] = "queued"
  BY DEF DispatchQueued

LEMMA IssueInitHolds == ASSUME IssueAssumption PROVE IssueInit => IssueInv
<1> SUFFICES ASSUME IssueInit PROVE IssueInv
  OBVIOUS
<1>1. /\ asked \in [Runs -> {"no", "admitted", "done"}]
      /\ index \in Runs \cup {0}
      /\ run \in [Runs -> IssueRunStatus]
      /\ place \in [Runs -> IssuePlaces]
      /\ child \in [Runs -> [Children -> IssueChildStatus]]
      /\ at \in [Runs -> [Children -> IssueAgentPlaces]]
  BY DEF IssueInit, IssueRunStatus, IssueChildStatus
<1>2. /\ policy \in [Runs -> IssuePolicy]
      /\ manual \subseteq Runs \X Coders
      /\ plan \in [Runs -> {"none", "tried", "posted", "waived"}]
      /\ prs \in [Runs -> [Children -> Nat]]
      /\ heard \subseteq Runs \X Coders
      /\ budget \in [Events -> Nat]
  BY DEF IssueInit, IssuePolicy, IssueAssumption
<1>3. IssueAskedInv /\ IssuePlaceInv /\ IssueAtInv
  BY DEF IssueInit, IssueAskedInv, IssuePlaceInv, IssueAtInv
<1>4. IssueCodeInv
  BY DEF IssueInit, IssueCodeInv
<1>5. Coders \subseteq Children
  BY DEF IssueAssumption, Children, Coders
<1>6. IssueRowInv
  BY <1>5 DEF IssueInit, IssueRowInv
<1> QED
  BY <1>1, <1>2, <1>3, <1>4, <1>6 DEF IssueInv, IssueTypes, IssueSanctionInv

(* Types, action by action. *)
LEMMA IssueIntakeTypes ==
  ASSUME IssueTypes, NEW r \in Runs, Ignore(r) \/ Arrive(r)
  PROVE  IssueTypes'
  BY DEF IssueTypes, Ignore, Arrive, parents, approvals, outside

LEMMA IssueEnqueueTypes ==
  ASSUME IssueAssumption, IssueTypes, NEW r \in Runs, NEW p \in Policies, EnqueueRun(r, p)
  PROVE  IssueTypes'
<1>1. p \in IssuePolicy
  BY DEF IssueAssumption, IssuePolicy
<1>2. planIssueRunChildren(p) \in [Children -> IssueChildStatus]
  BY DEF planIssueRunChildren, IssueChildStatus
<1> QED
  BY <1>1, <1>2 DEF IssueTypes, EnqueueRun, Wake, IssueRunStatus, parents, approvals,
     outside

LEMMA IssueFoldType ==
  ASSUME NEW r \in Runs
  PROVE  foldRunStatus(r) \in IssueRunStatus \ {"absent"}
  BY DEF foldRunStatus, IssueRunStatus

LEMMA IssueRunTypes ==
  ASSUME IssueAssumption, IssueTypes, NEW r \in Runs, RunStep(r)
  PROVE  IssueTypes'
<1>1. CASE RunLaunch(r)
  <2>1. Dispatched(r, Children) \in [Children -> IssueAgentPlaces]
    BY DEF IssueTypes, Dispatched
  <2> QED
    BY <1>1, <2>1 DEF IssueTypes, RunLaunch, intake, parents, approvals, outside
<1>2. CASE RunDeadline(r)
  BY <1>2 DEF IssueTypes, RunDeadline, Forgotten, intake, outside, IssueRunStatus
<1>3. CASE RunFold(r)
  BY <1>3, IssueFoldType DEF IssueTypes, RunFold, intake, approvals, outside
<1>4. CASE RunBegin(r) \/ RunAllDone(r) \/ RunSeesCancel(r) \/ RunWaited(r) \/ RunEnd(r)
  BY <1>4 DEF IssueTypes, RunBegin, RunAllDone, RunSeesCancel, RunWaited, RunEnd,
     intake, approvals, outside
<1>5. CASE RunStart(r)
  BY <1>5 DEF IssueTypes, RunStart, intake, approvals, outside, IssueRunStatus
<1> QED
  BY <1>1, <1>2, <1>3, <1>4, <1>5 DEF RunStep

LEMMA IssueReturnedType ==
  ASSUME IssueTypes, NEW r \in Runs, NEW c \in Children,
           NEW outcome \in {"ok", "err"}, Returned(r, c, outcome)
  PROVE  /\ at' \in [Runs -> [Children -> IssueAgentPlaces]]
         /\ UNCHANGED <<intake, parents, approvals, budget>>
         /\ at[r][c] = "body"
         /\ \A q \in Runs, d \in Children :
              at'[q][d] # "idle" => at[q][d] # "idle"
  BY DEF IssueTypes, Returned

LEMMA IssueAgentTypes ==
  ASSUME IssueAssumption, IssueTypes, NEW r \in Runs, AgentReturns(r)
  PROVE  IssueTypes'
<1>1. {Prepare, Investigate, Publish} \subseteq Children /\ Coders \subseteq Children
  BY DEF IssueAssumption, Prepare, Investigate, Publish, Children, Coders
<1>2. CASE PrepareReturns(r) \/ InvestigateReturns(r)
  BY <1>1, <1>2, IssueReturnedType DEF IssueTypes, PrepareReturns, InvestigateReturns,
     intake, parents, approvals, outside
<1>3. CASE PublishReturns(r)
  BY <1>1, <1>3, IssueReturnedType DEF IssueTypes, PublishReturns, intake, parents,
     approvals
<1>4. ASSUME NEW c \in Coders, NEW opens \in BOOLEAN, CoderReturns(r, c, opens)
      PROVE  IssueTypes'
  <2>1. child' \in [Runs -> [Children -> IssueChildStatus]]
    BY <1>1, <1>4 DEF IssueTypes, CoderReturns, IssueChildStatus
  <2>2. prs' \in [Runs -> [Children -> Nat]]
    BY <1>1, <1>4 DEF IssueTypes, CoderReturns, OpenPullRequest
  <2> QED
    BY <1>1, <1>4, <2>1, <2>2, IssueReturnedType DEF IssueTypes, CoderReturns, intake,
       parents, approvals
<1> QED
  BY <1>2, <1>3, <1>4 DEF AgentReturns

LEMMA IssueChildTypes ==
  ASSUME IssueTypes, NEW r \in Runs, NEW c \in Children, ChildStep(r, c)
  PROVE  IssueTypes'
<1>1. CASE ChildSlot(r, c)
  BY <1>1 DEF IssueTypes, ChildSlot, intake, parents, approvals, outside
<1>2. CASE ChildStart(r, c)
  BY <1>2 DEF IssueTypes, ChildStart, intake, parents, approvals, outside, IssueChildStatus
<1>3. CASE ChildFinish(r, c)
  BY <1>3 DEF IssueTypes, ChildFinish, intake, parents, approvals, outside, IssueChildStatus
<1> QED
  BY <1>1, <1>2, <1>3 DEF ChildStep

(* The first free implement row, by the well-foundedness of <. *)
LEMMA IssueSmallest ==
  ASSUME NEW T, T \subseteq Nat, T # {}
  PROVE  \E x \in T : \A y \in T : x <= y
<1>1. PICK x \in T : \A y \in T : ~(<<y, x>> \in OpToRel(<, Nat))
  <2> DEFINE R == OpToRel(<, Nat)
  <2>1. IsWellFoundedOn(R, Nat)
    BY NatLessThanWellFounded
  <2> HIDE DEF R
  <2> QED
    BY <2>1, WFMin DEF R
<1>2. \A y \in T : ~(y < x)
  BY <1>1 DEF OpToRel
<1>3. x \in Nat
  BY <1>1
<1>4. \A y \in T : x <= y
  BY <1>2, <1>3
<1> QED
  BY <1>4

LEMMA IssueFirstCoder ==
  ASSUME IssueAssumption, NEW r \in Runs, FreeCoders(r) # {}
  PROVE  FirstOf(FreeCoders(r)) \in Coders /\ child[r][FirstOf(FreeCoders(r))] = "absent"
<1>1. FreeCoders(r) \subseteq Nat
  BY DEF FreeCoders, Coders, IssueAssumption
<1>2. \E c \in FreeCoders(r) : \A d \in FreeCoders(r) : c <= d
  BY <1>1, IssueSmallest
<1>3. FirstOf(FreeCoders(r)) \in FreeCoders(r)
  BY <1>2 DEF FirstOf
<1> QED
  BY <1>3 DEF FreeCoders

LEMMA IssueApproveTypes ==
  ASSUME IssueAssumption, IssueTypes, NEW r \in Runs, Approve(r)
  PROVE  IssueTypes'
<1>1. Coders \subseteq Children
  BY DEF IssueAssumption, Children, Coders
<1>2. /\ budget' \in [Events -> Nat]
      /\ place' \in [Runs -> IssuePlaces]
      /\ UNCHANGED <<intake, policy, at, outside>>
  BY IssueSpendType DEF Approve, Events, Wake, IssueTypes
<1>3. CASE UNCHANGED <<run, child, approvals>>
  BY <1>2, <1>3 DEF IssueTypes, intake, outside, approvals
<1>4. CASE FreeCoders(r) # {} /\ NewCoder(r, FirstOf(FreeCoders(r)))
  <2>1. PICK c \in Coders : NewCoder(r, c)
    BY <1>4, IssueFirstCoder
  <2>2. /\ child' \in [Runs -> [Children -> IssueChildStatus]]
        /\ run' \in [Runs -> IssueRunStatus]
    BY <1>1, <2>1 DEF NewCoder, IssueTypes, IssueChildStatus, IssueRunStatus
  <2>3. manual' \subseteq Runs \X Coders /\ heard' \subseteq Runs \X Coders
    BY <2>1 DEF NewCoder, IssueTypes
  <2> QED
    BY <1>2, <2>2, <2>3 DEF IssueTypes, intake, outside
<1> QED
  BY <1>3, <1>4 DEF Approve

LEMMA IssueUserTypes ==
  ASSUME IssueAssumption, IssueTypes, NEW r \in Runs, User(r)
  PROVE  IssueTypes'
<1>1. CASE Approve(r)
  BY <1>1, IssueApproveTypes
<1>2. CASE CancelRun(r)
  <2>1. run' \in [Runs -> IssueRunStatus] /\ heard' \subseteq Runs \X Coders
    BY <1>2 DEF CancelRun, IssueTypes, Forgotten, IssueRunStatus
  <2> QED
    BY <1>2, <2>1, IssueSpendType DEF CancelRun, IssueTypes, Events, intake, outside
<1>3. CASE Retry(r)
  <2>1. /\ run' \in [Runs -> IssueRunStatus]
        /\ place' \in [Runs -> IssuePlaces]
    BY <1>3 DEF Retry, IssueTypes, Wake, IssueRunStatus
  <2> QED
    BY <1>3, <2>1, IssueSpendType DEF Retry, IssueTypes, Events, intake, outside, approvals
<1>4. ASSUME NEW c \in Children, CancelChild(r, c)
      PROVE  IssueTypes'
  <2>1. /\ child' \in [Runs -> [Children -> IssueChildStatus]]
        /\ plan' \in [Runs -> {"none", "tried", "posted", "waived"}]
    BY <1>4 DEF CancelChild, IssueTypes, IssueChildStatus
  <2> QED
    BY <1>4, <2>1, IssueSpendType DEF CancelChild, IssueTypes, Events, intake, parents,
       approvals
<1>5. ASSUME NEW c \in Children, RetryChild(r, c)
      PROVE  IssueTypes'
  <2>1. /\ child' \in [Runs -> [Children -> IssueChildStatus]]
        /\ at' \in [Runs -> [Children -> IssueAgentPlaces]]
    BY <1>5 DEF RetryChild, IssueTypes, IssueChildStatus
  <2> QED
    BY <1>5, <2>1, IssueSpendType DEF RetryChild, IssueTypes, Events, intake, parents,
       approvals, outside
<1> QED
  BY <1>1, <1>2, <1>3, <1>4, <1>5 DEF User

LEMMA IssueResumeTypes ==
  ASSUME IssueTypes, Resume
  PROVE  IssueTypes'
<1>1. /\ place' \in [Runs -> IssuePlaces]
      /\ at' \in [Runs -> [Children -> IssueAgentPlaces]]
  BY IssueDispatchType DEF Resume, IssueTypes
<1> QED
  BY <1>1, IssueSpendType DEF Resume, IssueTypes, Events, intake, approvals, outside

(* A restart makes no row and forgets no row. *)
IssueRestartFacts ==
  /\ asked' = [r \in Runs |-> IF asked[r] = "admitted" THEN "done" ELSE asked[r]]
  /\ child' = [r \in Runs |-> [c \in Children |-> Recovered(child[r][c])]]
  /\ \A r \in Runs :
       (run'[r] = "cancelled" /\ run[r] # "absent") \/ run'[r] = Recovered(run[r])
  /\ UNCHANGED <<policy, manual, outside>>

LEMMA IssueRestartIs ==
  ASSUME IssueTypes, Restart
  PROVE  /\ IssueTypes'
         /\ IssueRestartFacts
         /\ \A r \in Runs : place'[r] # "idle" => run'[r] = "queued"
         /\ \A r \in Runs, c \in Children :
              at'[r][c] # "idle" => child'[r][c] = "queued"
<1>1. /\ asked' \in [Runs -> {"no", "admitted", "done"}]
      /\ index' \in Runs \cup {0}
      /\ child' \in [Runs -> [Children -> IssueChildStatus]]
  BY DEF Restart, IssueTypes, Recovered, IssueChildStatus
<1>2. PICK s : run' = [r \in Runs |-> IF Recovered(run[r]) = "queued" /\ r # s
                              THEN "cancelled" ELSE Recovered(run[r])]
  BY DEF Restart
<1>3. run' \in [Runs -> IssueRunStatus]
  BY <1>2 DEF IssueTypes, Recovered, IssueRunStatus
<1>4. \A r \in Runs :
        (run'[r] = "cancelled" /\ run[r] # "absent") \/ run'[r] = Recovered(run[r])
  BY <1>2 DEF Recovered
<1>5. /\ place' \in [Runs -> IssuePlaces]
      /\ at' \in [Runs -> [Children -> IssueAgentPlaces]]
      /\ \A r \in Runs : place'[r] # "idle" => run'[r] = "queued"
      /\ \A r \in Runs, c \in Children :
           at'[r][c] # "idle" => child'[r][c] = "queued"
  <2> DEFINE places == [r \in Runs |-> "idle"]
             procs == [r \in Runs |-> [c \in Children |-> "idle"]]
  <2>1. DispatchQueued(run', child', places, procs)
    BY DEF Restart
  <2>2. /\ places \in [Runs -> IssuePlaces]
        /\ procs \in [Runs -> [Children -> IssueAgentPlaces]]
        /\ \A r \in Runs : places[r] = "idle"
        /\ \A r \in Runs, c \in Children : procs[r][c] = "idle"
    OBVIOUS
  <2> HIDE DEF places, procs
  <2>3. /\ place' \in [Runs -> IssuePlaces]
        /\ at' \in [Runs -> [Children -> IssueAgentPlaces]]
    BY <2>1, <2>2, IssueDispatchType
  <2>4. ASSUME NEW r \in Runs
        PROVE  /\ place'[r] # "idle" => run'[r] = "queued"
               /\ \A c \in Children : at'[r][c] # "idle" => child'[r][c] = "queued"
    <3>1. /\ place'[r] # "idle" => places[r] # "idle" \/ run'[r] = "queued"
          /\ \A c \in Children : at'[r][c] # "idle" =>
               procs[r][c] # "idle" \/ child'[r][c] = "queued"
      BY <2>1, IssueDispatchWakes
    <3> QED
      BY <2>2, <3>1
  <2> QED
    BY <2>3, <2>4
<1>6. heard' \subseteq Runs \X Coders /\ budget' \in [Events -> Nat]
  BY IssueSpendType DEF Restart, Forgotten, IssueTypes, Events
<1> QED
  BY <1>1, <1>3, <1>4, <1>5, <1>6 DEF Restart, IssueRestartFacts, IssueTypes, outside

(* What every action but EnqueueRun does to rows: none goes, one that comes *)
(* is approved, processors and pull requests belong to rows that are there. *)
IssueSame ==
  /\ policy' = policy /\ manual \subseteq manual'
  /\ \A r \in Runs :
       /\ asked'[r] # "done" => asked[r] # "done"
       /\ run'[r] = "absent" <=> run[r] = "absent"
       /\ place'[r] # "idle" => place[r] # "idle" \/ run[r] # "absent"
  /\ \A r \in Runs, c \in Children :
       /\ child[r][c] # "absent" => child'[r][c] # "absent"
       /\ child'[r][c] # "absent" =>
            child[r][c] # "absent" \/ (<<r, c>> \in manual' /\ run[r] # "absent")
       /\ at'[r][c] # "idle" => at[r][c] # "idle" \/ child[r][c] # "absent"
       /\ prs'[r][c] > 0 => prs[r][c] > 0 \/ (child[r][c] # "absent" /\ c \in Coders)

LEMMA IssueSameKeeps ==
  ASSUME IssueAssumption, IssueInv, IssueSame
  PROVE  IssueSanctionInv'
<1> USE DEF IssueSame, IssueInv, IssueSanctionInv
<1>1. IssueAskedInv'
  <2>1. SUFFICES ASSUME NEW r \in Runs, asked'[r] # "done"
                 PROVE  run'[r] = "absent" /\ \A c \in Children : child'[r][c] = "absent"
    BY DEF IssueAskedInv
  <2>2. run[r] = "absent" /\ \A c \in Children : child[r][c] = "absent"
    BY <2>1 DEF IssueAskedInv
  <2> QED
    BY <2>2
<1>2. IssuePlaceInv'
  BY DEF IssuePlaceInv
<1>3. IssueAtInv'
  BY DEF IssueAtInv
<1>4. IssueCodeInv'
  BY DEF IssueCodeInv
<1>5. IssueRowInv'
  <2>1. Coders \subseteq Children
    BY DEF IssueAssumption, Children, Coders
  <2> QED
    BY <2>1 DEF IssueRowInv, IssueSanctioned
<1> QED
  BY <1>1, <1>2, <1>3, <1>4, <1>5

(* Rows are planned, and the policy is set, before anything has a processor. *)
LEMMA IssueEnqueueKeeps ==
  ASSUME IssueAssumption, IssueInv, NEW r \in Runs, NEW p \in Policies, EnqueueRun(r, p)
  PROVE  IssueSanctionInv'
<1> USE DEF IssueInv, IssueSanctionInv
<1>1. /\ run[r] = "absent"
      /\ \A c \in Children :
           child[r][c] = "absent" /\ at[r][c] = "idle" /\ ~(prs[r][c] > 0)
  BY DEF EnqueueRun, IssueAskedInv, IssueAtInv, IssueCodeInv
<1>2. /\ UNCHANGED <<at, manual, prs>>
      /\ asked'[r] = "done" /\ run'[r] = "queued" /\ policy'[r] = p
      /\ child'[r] = planIssueRunChildren(p)
      /\ \A q \in Runs \ {r} :
           /\ asked'[q] = asked[q] /\ run'[q] = run[q] /\ policy'[q] = policy[q]
           /\ child'[q] = child[q] /\ place'[q] = place[q]
  BY DEF EnqueueRun, Wake, IssueTypes, approvals, outside
<1>3. IssueAskedInv'
  BY <1>2 DEF IssueAskedInv
<1>4. IssuePlaceInv'
  BY <1>2 DEF IssuePlaceInv
<1>5. IssueAtInv'
  <2>1. \A q \in Runs \ {r}, c \in Children :
          at[q][c] # "idle" => child'[q][c] # "absent"
    BY <1>2 DEF IssueAtInv
  <2>2. \A c \in Children : at'[r][c] = "idle"
    BY <1>1, <1>2
  <2> QED
    BY <1>2, <2>1, <2>2 DEF IssueAtInv
<1>6. IssueCodeInv'
  BY <1>1, <1>2 DEF IssueCodeInv
<1>7. IssueRowInv'
  <2>1. ASSUME NEW c \in Coders, child'[r][c] # "absent"
        PROVE  policy'[r].auto /\ ~policy'[r].human
    BY <1>2, <2>1 DEF planIssueRunChildren, Coders, Children, Publish, IssueAssumption
  <2> QED
    BY <1>2, <2>1 DEF IssueRowInv, IssueSanctioned
<1> QED
  BY <1>3, <1>4, <1>5, <1>6, <1>7

LEMMA IssueRunKeeps ==
  ASSUME IssueAssumption, IssueInv, NEW r \in Runs, RunStep(r)
  PROVE  IssueSame
<1> USE DEF IssueInv
<1>0. /\ run \in [Runs -> IssueRunStatus] /\ at \in [Runs -> [Children -> IssueAgentPlaces]]
      /\ place \in [Runs -> IssuePlaces]
  BY DEF IssueTypes
<1>1. /\ UNCHANGED <<asked, policy, child, manual, prs>>
      /\ at' = at \/ (at' = [at EXCEPT ![r] = Dispatched(r, Children)])
      /\ \A q \in Runs \ {r} : run'[q] = run[q] /\ place'[q] = place[q]
      /\ place[r] # "idle"
  BY <1>0 DEF RunStep, RunBegin, RunStart, RunLaunch, RunAllDone, RunSeesCancel,
     RunWaited, RunDeadline, RunFold, RunEnd,
     intake, parents, approvals, outside
<1>2. run'[r] # "absent" /\ run[r] # "absent"
  <2>1. run[r] # "absent"
    BY <1>1 DEF IssueSanctionInv, IssuePlaceInv
  <2>2. run'[r] \in {run[r], "running", "error", foldRunStatus(r)}
    BY <1>0 DEF RunStep, RunBegin, RunStart, RunLaunch, RunAllDone, RunSeesCancel,
       RunWaited, RunDeadline, RunFold, RunEnd, parents
  <2> QED
    BY <2>1, <2>2, IssueFoldType
<1>3. \A q \in Runs, c \in Children :
        at'[q][c] # "idle" => at[q][c] # "idle" \/ child[q][c] # "absent"
  <2>1. \A c \in Children : Dispatched(r, Children)[c] # "idle" =>
           at[r][c] # "idle" \/ child[r][c] # "absent"
    BY DEF Dispatched
  <2> QED
    BY <1>0, <1>1, <2>1
<1> QED
  BY <1>1, <1>2, <1>3 DEF IssueSame

LEMMA IssueAgentKeeps ==
  ASSUME IssueAssumption, IssueInv, NEW r \in Runs, AgentReturns(r)
  PROVE  IssueSame
<1> USE DEF IssueInv
<1>1. {Prepare, Investigate, Publish} \subseteq Children /\ Coders \subseteq Children
  BY DEF IssueAssumption, Prepare, Investigate, Publish, Children, Coders
<1>2. CASE PrepareReturns(r) \/ InvestigateReturns(r) \/ PublishReturns(r)
  <2>1. PICK c \in Children, outcome \in {"ok", "err"} : Returned(r, c, outcome)
    BY <1>1, <1>2 DEF PrepareReturns, InvestigateReturns, PublishReturns
  <2>2. UNCHANGED <<child, prs>>
    BY <1>2 DEF PrepareReturns, InvestigateReturns, PublishReturns, outside
  <2> QED
    BY <2>1, <2>2, IssueReturnedType DEF IssueSame, intake, parents, approvals
<1>3. ASSUME NEW c \in Coders, NEW opens \in BOOLEAN, CoderReturns(r, c, opens)
      PROVE  IssueSame
  <2>1. PICK outcome \in {"ok", "err"} : Returned(r, c, outcome)
    BY <1>3 DEF CoderReturns
  <2>2. /\ at[r][c] = "body" /\ UNCHANGED <<intake, parents, approvals, budget>>
        /\ \A q \in Runs, d \in Children :
             at'[q][d] # "idle" => at[q][d] # "idle"
    BY <1>1, <2>1, IssueReturnedType
  <2>3. child[r][c] # "absent"
    BY <1>1, <2>2 DEF IssueSanctionInv, IssueAtInv
  <2>4. \A q \in Runs, d \in Children :
          child'[q][d] = "absent" <=> child[q][d] = "absent"
    BY <1>1, <1>3, <2>3 DEF CoderReturns, IssueTypes
  <2>5. \A q \in Runs, d \in Children :
          prs'[q][d] > 0 => prs[q][d] > 0 \/ (child[q][d] # "absent" /\ d \in Coders)
    <3>1. CASE UNCHANGED prs
      BY <3>1
    <3>2. CASE OpenPullRequest(r, c)
      <4>1. \A q \in Runs, d \in Children :
              prs'[q][d] = prs[q][d] \/ (q = r /\ d = c)
        BY <1>1, <3>2 DEF OpenPullRequest, IssueTypes
      <4> QED
        BY <2>3, <4>1
    <3> QED
      BY <1>3, <3>1, <3>2 DEF CoderReturns
  <2> QED
    BY <2>2, <2>4, <2>5 DEF IssueSame, intake, parents, approvals
<1> QED
  BY <1>2, <1>3 DEF AgentReturns

LEMMA IssueChildKeeps ==
  ASSUME IssueInv, NEW r \in Runs, NEW c \in Children, ChildStep(r, c)
  PROVE  IssueSame
<1> USE DEF IssueInv
<1>1. /\ UNCHANGED <<intake, parents, approvals, prs>> /\ at[r][c] # "idle"
      /\ \A q \in Runs, d \in Children :
           at'[q][d] # "idle" => at[q][d] # "idle"
  <2>0. at \in [Runs -> [Children -> IssueAgentPlaces]]
    BY DEF IssueTypes
  <2>1. CASE ChildSlot(r, c)
    BY <2>0, <2>1 DEF ChildSlot, outside
  <2>2. CASE ChildStart(r, c)
    BY <2>0, <2>2 DEF ChildStart, outside
  <2>3. CASE ChildFinish(r, c)
    BY <2>0, <2>3 DEF ChildFinish, outside
  <2> QED
    BY <2>1, <2>2, <2>3 DEF ChildStep
<1>2. child[r][c] # "absent"
  BY <1>1 DEF IssueSanctionInv, IssueAtInv
<1>3. \A q \in Runs, d \in Children :
        child'[q][d] = "absent" <=> child[q][d] = "absent"
  BY <1>2 DEF ChildStep, ChildSlot, ChildStart, ChildFinish, IssueTypes
<1> QED
  BY <1>1, <1>3 DEF IssueSame, intake, parents, approvals

LEMMA IssueUserKeeps ==
  ASSUME IssueAssumption, IssueInv, NEW r \in Runs, User(r)
  PROVE  IssueSame
<1> USE DEF IssueInv
<1>0. Coders \subseteq Children
  BY DEF IssueAssumption, Children, Coders
<1>1. CASE Approve(r)
  <2>1. /\ UNCHANGED <<asked, policy, at, prs>> /\ run[r] # "absent"
        /\ \A q \in Runs :
             place'[q] # "idle" => place[q] # "idle" \/ run[q] # "absent"
    BY <1>1 DEF Approve, intake, outside, Wake, IssueTypes
  <2>2. CASE UNCHANGED <<run, child, approvals>>
    BY <2>1, <2>2 DEF IssueSame, approvals
  <2>3. CASE FreeCoders(r) # {} /\ NewCoder(r, FirstOf(FreeCoders(r)))
    <3>1. PICK c \in Coders : NewCoder(r, c)
      BY <2>3, IssueFirstCoder
    <3>2. /\ manual \subseteq manual' /\ <<r, c>> \in manual'
          /\ \A q \in Runs : run'[q] = "absent" <=> run[q] = "absent"
          /\ \A q \in Runs, d \in Children :
               child'[q][d] = child[q][d] \/ (q = r /\ d = c /\ child'[q][d] = "queued")
      BY <1>0, <3>1 DEF NewCoder, IssueTypes
    <3> QED
      BY <2>1, <3>2 DEF IssueSame
  <2> QED
    BY <1>1, <2>2, <2>3 DEF Approve
<1>2. CASE CancelRun(r)
  BY <1>2 DEF CancelRun, IssueSame, IssueTypes, intake, outside, Pending
<1>3. CASE Retry(r)
  BY <1>3 DEF Retry, IssueSame, IssueTypes, intake, outside, approvals, Wake
<1>4. ASSUME NEW c \in Children, CancelChild(r, c)
      PROVE  IssueSame
  BY <1>4 DEF CancelChild, IssueSame, IssueTypes, intake, parents, approvals, Pending
<1>5. ASSUME NEW c \in Children, RetryChild(r, c)
      PROVE  IssueSame
  BY <1>5 DEF RetryChild, IssueSame, IssueTypes, intake, parents, approvals, outside
<1> QED
  BY <1>1, <1>2, <1>3, <1>4, <1>5 DEF User

LEMMA IssueResumeKeeps ==
  ASSUME IssueInv, Resume
  PROVE  IssueSame
<1>1. /\ \A r \in Runs :
           place'[r] # "idle" => place[r] # "idle" \/ run[r] = "queued"
      /\ \A r \in Runs, c \in Children :
           at'[r][c] # "idle" => at[r][c] # "idle" \/ child[r][c] = "queued"
  BY IssueDispatchWakes DEF Resume
<1> QED
  BY <1>1 DEF Resume, IssueSame, intake, approvals, outside

LEMMA IssueRestartKeeps ==
  ASSUME IssueInv, Restart
  PROVE  IssueSame
<1>1. /\ UNCHANGED <<policy, manual, prs>>
      /\ \A r \in Runs : asked'[r] # "done" => asked[r] # "done"
      /\ \A r \in Runs : run'[r] = "absent" <=> run[r] = "absent"
      /\ \A r \in Runs, c \in Children :
           child'[r][c] = "absent" <=> child[r][c] = "absent"
  BY IssueRestartIs DEF IssueRestartFacts, IssueInv, outside, Recovered
<1>2. /\ \A r \in Runs : place'[r] # "idle" => run'[r] = "queued"
      /\ \A r \in Runs, c \in Children :
           at'[r][c] # "idle" => child'[r][c] = "queued"
  BY IssueRestartIs DEF IssueInv
<1> QED
  BY <1>1, <1>2 DEF IssueSame

LEMMA IssueStepKeeps ==
  ASSUME IssueAssumption, IssueInv, [IssueNext]_issueVars
  PROVE  IssueInv'
<1> USE DEF IssueInv
<1>1. ASSUME NEW r \in Runs, Ignore(r) \/ Arrive(r)
      PROVE  IssueInv'
  <2>1. IssueSame
    BY <1>1 DEF Ignore, Arrive, IssueSame, IssueTypes, parents, approvals, outside
  <2> QED
    BY <1>1, <2>1, IssueIntakeTypes, IssueSameKeeps
<1>2. ASSUME NEW r \in Runs, NEW p \in Policies, EnqueueRun(r, p)
      PROVE  IssueInv'
  BY <1>2, IssueEnqueueTypes, IssueEnqueueKeeps
<1>3. ASSUME NEW r \in Runs, RunStep(r)
      PROVE  IssueInv'
  BY <1>3, IssueRunTypes, IssueRunKeeps, IssueSameKeeps
<1>4. ASSUME NEW r \in Runs, AgentReturns(r)
      PROVE  IssueInv'
  BY <1>4, IssueAgentTypes, IssueAgentKeeps, IssueSameKeeps
<1>5. ASSUME NEW r \in Runs, NEW c \in Children, ChildStep(r, c)
      PROVE  IssueInv'
  BY <1>5, IssueChildTypes, IssueChildKeeps, IssueSameKeeps
<1>6. ASSUME NEW r \in Runs, User(r)
      PROVE  IssueInv'
  BY <1>6, IssueUserTypes, IssueUserKeeps, IssueSameKeeps
<1>7. CASE Resume
  BY <1>7, IssueResumeTypes, IssueResumeKeeps, IssueSameKeeps
<1>8. CASE Restart
  BY <1>8, IssueRestartIs, IssueRestartKeeps, IssueSameKeeps
<1>9. CASE UNCHANGED issueVars
  <2>1. IssueTypes' /\ IssueSame
    BY <1>9 DEF issueVars, intake, parents, approvals, outside, IssueTypes, IssueSame
  <2> QED
    BY <2>1, IssueSameKeeps
<1> QED
  BY <1>1, <1>2, <1>3, <1>4, <1>5, <1>6, <1>7, <1>8, <1>9 DEF IssueNext

(* planIssueRunChildren, enqueueIssueImplement, runIssueImplementAgent: a   *)
(* pull request is only opened where somebody approved coding or the       *)
(* preferences ask nobody, for every number of runs and rows, every mix of *)
(* policies, failures, retries, cancels and reboots.                       *)
THEOREM CodingHolds == IssueSpec => []CodingIsSanctioned
<1>1. IssueInit => IssueInv
  BY IssueAssumption, IssueInitHolds
<1>2. IssueInv /\ [IssueNext]_issueVars => IssueInv'
  BY IssueAssumption, IssueStepKeeps
<1>3. IssueInv => CodingIsSanctioned
  BY DEF IssueInv, IssueSanctionInv, IssueCodeInv, IssueRowInv, CodingIsSanctioned,
     IssueSanctioned
<1> QED
  BY <1>1, <1>2, <1>3, PTL DEF IssueSpec
=============================================================================
