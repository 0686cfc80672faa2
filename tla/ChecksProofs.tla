---------------------------- MODULE ChecksProofs ----------------------------
(* Proofs about Checks for any jobs, peers, slots and budgets: what the    *)
(* check run of a job at rest says, and that a cancel leaves none open.    *)
EXTENDS Checks, SequenceTheorems, TLAPS

(* What the calls to GitHub do to its list. *)

Elsewhere(j, n) ==
  \A k \in Jobs, m \in Names : k # j \/ m # n =>
    gh'[k][m] = gh[k][m] /\ (<<k, m>> \in excused' <=> <<k, m>> \in excused)

LEMMA AppendedType ==
  ASSUME TypeOK, NEW j \in Jobs, NEW n \in Names, NEW s \in Open
  PROVE  [gh EXCEPT ![j][n] = Append(@, s)] \in [Jobs -> [Names -> Seq(Open \cup Conclusions)]]
<1>1. gh \in [Jobs -> [Names -> Seq(Open \cup Conclusions)]] /\ s \in Open \cup Conclusions
  BY DEF TypeOK
<1>2. gh[j] \in [Names -> Seq(Open \cup Conclusions)] /\ gh[j][n] \in Seq(Open \cup Conclusions)
  BY <1>1
<1>3. Append(gh[j][n], s) \in Seq(Open \cup Conclusions)
  BY <1>1, <1>2
<1> QED
  BY <1>1, <1>2, <1>3

LEMMA SpendType ==
  ASSUME TypeOK, NEW e \in Events, Spend(e)
  PROVE  budget' \in [Events -> Nat]
<1>1. budget \in [Events -> Nat] /\ budget[e] \in Nat
  BY DEF TypeOK
<1>2. budget[e] - 1 \in Nat /\ budget' = [budget EXCEPT ![e] = budget[e] - 1]
  BY <1>1 DEF Spend
<1> QED
  BY <1>1, <1>2

LEMMA ExcuseOnly ==
  ASSUME TypeOK, NEW j \in Jobs, NEW n \in Names, UNCHANGED gh,
         excused' = excused \cup {<<j, n>>}
  PROVE  /\ excused' \subseteq Jobs \X Names /\ excused \subseteq excused'
         /\ Elsewhere(j, n) /\ <<j, n>> \in excused'
<1>1. \A k \in Jobs, m \in Names : k # j \/ m # n => <<k, m>> # <<j, n>>
  OBVIOUS
<1>2. Elsewhere(j, n)
  BY <1>1 DEF Elsewhere
<1> QED
  BY <1>2 DEF TypeOK

(* A check run that is not in the list stays out of it. *)
LEMMA UpdatedSeq ==
  ASSUME NEW S, NEW seq \in Seq(S), NEW i, NEW e \in S
  PROVE  /\ [seq EXCEPT ![i] = e] \in Seq(S)
         /\ Len([seq EXCEPT ![i] = e]) = Len(seq)
<1>1. CASE i \in 1..Len(seq)
  BY <1>1, ExceptSeq
<1>2. CASE i \notin 1..Len(seq)
  <2>1. [seq EXCEPT ![i] = e] = seq
    BY <1>2
  <2> QED
    BY <2>1
<1> QED
  BY <1>1, <1>2

LEMMA CompletedType ==
  ASSUME TypeOK, NEW j \in Jobs, NEW n \in Names, NEW id, NEW c \in Conclusions
  PROVE  [gh EXCEPT ![j][n][id] = c] \in [Jobs -> [Names -> Seq(Open \cup Conclusions)]]
<1>1. gh \in [Jobs -> [Names -> Seq(Open \cup Conclusions)]] /\ c \in Open \cup Conclusions
  BY DEF TypeOK
<1>2. gh[j] \in [Names -> Seq(Open \cup Conclusions)] /\ gh[j][n] \in Seq(Open \cup Conclusions)
  BY <1>1
<1>3. [gh[j][n] EXCEPT ![id] = c] \in Seq(Open \cup Conclusions)
  BY <1>1, <1>2, UpdatedSeq
<1> QED
  BY <1>1, <1>2, <1>3

LEMMA CreatedFacts ==
  ASSUME TypeOK, NEW j \in Jobs, NEW n \in Names, NEW s \in Open, Created(j, n, s)
  PROVE  /\ gh' \in [Jobs -> [Names -> Seq(Open \cup Conclusions)]]
         /\ excused' \subseteq Jobs \X Names /\ excused \subseteq excused'
         /\ budget' \in [Events -> Nat]
         /\ Elsewhere(j, n)
         /\ \/ /\ j \notin Crons /\ excused' = excused
               /\ gh'[j][n] = Append(gh[j][n], s) /\ gh' # gh
               /\ Len(gh'[j][n]) = Len(gh[j][n]) + 1 /\ Shown(j, n)' = s
            \/ gh' = gh /\ (j \in Crons \/ <<j, n>> \in excused')
<1>1. CASE j \notin Crons /\ gh' = [gh EXCEPT ![j][n] = Append(@, s)] /\ UNCHANGED <<excused, budget>>
  <2>1. gh' \in [Jobs -> [Names -> Seq(Open \cup Conclusions)]]
    BY <1>1, AppendedType
  <2>2. gh[j][n] \in Seq(Open \cup Conclusions)
    BY DEF TypeOK
  <2>3. gh'[j][n] = Append(gh[j][n], s) /\ Elsewhere(j, n)
    BY <1>1 DEF TypeOK, Elsewhere
  <2>4. Len(gh'[j][n]) = Len(gh[j][n]) + 1 /\ gh'[j][n][Len(gh[j][n]) + 1] = s
    BY <2>2, <2>3
  <2>5. gh'[j][n] # <<>> /\ gh' # gh
    BY <2>2, <2>4
  <2>6. Shown(j, n)' = s
    BY <2>4, <2>5 DEF Shown, Last
  <2> QED
    BY <1>1, <2>1, <2>3, <2>4, <2>5, <2>6 DEF TypeOK
<1>2. CASE j \in Crons /\ UNCHANGED <<gh, excused, budget>>
  BY <1>2 DEF TypeOK, Elsewhere
<1>3. CASE /\ j \notin Crons /\ Spend("fault") /\ UNCHANGED gh
           /\ excused' = excused \cup {<<j, n>>}
  BY <1>3, SpendType, ExcuseOnly DEF TypeOK, Events
<1> QED
  BY <1>1, <1>2, <1>3 DEF Created

LEMMA CompletedFacts ==
  ASSUME TypeOK, NEW j \in Jobs, NEW n \in Names, NEW id \in Nat, NEW c \in Conclusions,
         Completed(j, id, n, c)
  PROVE  /\ gh' \in [Jobs -> [Names -> Seq(Open \cup Conclusions)]]
         /\ excused' \subseteq Jobs \X Names /\ excused \subseteq excused'
         /\ budget' \in [Events -> Nat]
         /\ Elsewhere(j, n)
         /\ Len(gh'[j][n]) = Len(gh[j][n])
         /\ gh'[j][n] = <<>> <=> gh[j][n] = <<>>
         /\ gh[j][n] # <<>> /\ id = Len(gh[j][n]) /\ <<j, n>> \notin excused' =>
              Shown(j, n)' = c
<1>0. gh[j][n] \in Seq(Open \cup Conclusions)
  BY DEF TypeOK
<1>1. CASE id # 0 /\ gh' = [gh EXCEPT ![j][n][id] = c] /\ UNCHANGED <<excused, budget>>
  <2>1. gh' \in [Jobs -> [Names -> Seq(Open \cup Conclusions)]]
    BY <1>1, CompletedType
  <2>2. gh'[j][n] = [gh[j][n] EXCEPT ![id] = c] /\ Elsewhere(j, n)
    BY <1>1 DEF TypeOK, Elsewhere
  <2>3. gh'[j][n] \in Seq(Open \cup Conclusions) /\ Len(gh'[j][n]) = Len(gh[j][n])
    <3>1. [gh[j][n] EXCEPT ![id] = c] \in Seq(Open \cup Conclusions)
      BY <1>0, UpdatedSeq
    <3>2. Len([gh[j][n] EXCEPT ![id] = c]) = Len(gh[j][n])
      BY <1>0, UpdatedSeq
    <3> QED
      BY <2>2, <3>1, <3>2
  <2>4. gh'[j][n] = <<>> <=> gh[j][n] = <<>>
    BY <1>0, <2>3
  <2>5. gh[j][n] # <<>> /\ id = Len(gh[j][n]) => gh'[j][n][Len(gh'[j][n])] = c
    BY <1>0, <2>2, <2>3
  <2>6. gh[j][n] # <<>> /\ id = Len(gh[j][n]) => Shown(j, n)' = c
    BY <2>4, <2>5 DEF Shown, Last
  <2> QED
    BY <1>1, <2>1, <2>2, <2>3, <2>4, <2>6 DEF TypeOK
<1>2. CASE id = 0 /\ UNCHANGED <<gh, excused, budget>>
  BY <1>0, <1>2 DEF TypeOK, Elsewhere
<1>3. CASE id # 0 /\ Spend("fault") /\ UNCHANGED gh /\ excused' = excused \cup {<<j, n>>}
  BY <1>0, <1>3, SpendType, ExcuseOnly DEF TypeOK, Events
<1> QED
  BY <1>1, <1>2, <1>3 DEF Completed

-----------------------------------------------------------------------------
(* A step of one job leaves the others alone. *)

(* Nothing of job j moves, or it is excused. *)
Apart(j) ==
  /\ gh'[j] = gh[j] /\ job'[j] = job[j] /\ ids'[j] = ids[j] /\ ingress'[j] = ingress[j]
  /\ got'[j] = got[j] /\ proc'[j] = proc[j] /\ verdict'[j] = verdict[j]
  /\ closing'[j] = closing[j]
  /\ j \in early => j \in early'
  /\ \A n \in Names : <<j, n>> \in excused => <<j, n>> \in excused'

Others(j) == \A k \in Jobs \ {j} : Apart(k)

LEMMA ApartKeeps ==
  ASSUME NEW j \in Jobs, JobInv(j), Apart(j)
  PROVE  JobInv(j)'
<1>1. \A n \in Names : Shown(j, n)' = Shown(j, n)
  BY DEF Apart, Shown
<1>2. cancelled(j)' = cancelled(j)
  BY DEF Apart, cancelled
<1>3. "appsec" \in Names /\ Peers \subseteq Names
  BY DEF Names
<1>4. KnownInv(j)'
  BY <1>3 DEF JobInv, KnownInv, Apart
<1>5. PlaceInv(j)'
  BY <1>2, <1>3 DEF JobInv, PlaceInv, Apart
<1>6. StoryInv(j)'
  BY <1>1, <1>2, <1>3 DEF JobInv, StoryInv, Apart, Agreed
<1>7. PeerInv(j)'
  BY <1>1, <1>2, <1>3 DEF JobInv, PeerInv, Apart
<1> QED
  BY <1>4, <1>5, <1>6, <1>7 DEF JobInv

LEMMA ElsewhereOnly ==
  ASSUME TypeOK, NEW j \in Jobs, NEW n \in Names, Elsewhere(j, n),
         gh' \in [Jobs -> [Names -> Seq(Open \cup Conclusions)]]
  PROVE  \A k \in Jobs \ {j} :
           gh'[k] = gh[k] /\ \A m \in Names : <<k, m>> \in excused' <=> <<k, m>> \in excused
<1> SUFFICES ASSUME NEW k \in Jobs \ {j}
             PROVE  gh'[k] = gh[k] /\ \A m \in Names : <<k, m>> \in excused' <=> <<k, m>> \in excused
  OBVIOUS
<1>1. gh[k] \in [Names -> Seq(Open \cup Conclusions)] /\ gh'[k] \in [Names -> Seq(Open \cup Conclusions)]
  BY DEF TypeOK
<1>2. \A m \in Names : gh'[k][m] = gh[k][m]
  BY DEF Elsewhere
<1> QED
  BY <1>1, <1>2 DEF Elsewhere

(* A write of one job's place, row or verdict. *)
LEMMA GoFacts ==
  ASSUME TypeOK, NEW j \in Jobs, NEW p \in Places, Go(j, p)
  PROVE  /\ proc' \in [Jobs -> Places] /\ proc'[j] = p
         /\ \A k \in Jobs \ {j} : proc'[k] = proc[k]
  BY DEF TypeOK, Go

LEMMA WakeFacts ==
  ASSUME TypeOK, NEW j \in Jobs, Wake(j)
  PROVE  /\ proc' \in [Jobs -> Places]
         /\ proc'[j] = IF proc[j] = "idle" THEN "spawned" ELSE proc[j]
         /\ \A k \in Jobs \ {j} : proc'[k] = proc[k]
  BY DEF TypeOK, Wake, Woken, Places

-----------------------------------------------------------------------------
(* The processor. *)

(* A step that changes the row, the place and the verdict of a job, and no *)
(* more.                                                                   *)
RowStep(j, p, s, v) ==
  /\ proc' = [proc EXCEPT ![j] = p]
  /\ job' = [job EXCEPT ![j] = s]
  /\ verdict' = [verdict EXCEPT ![j] = v]
  /\ UNCHANGED <<gh, ids, forced, handler, closing, history, budget>>

LEMMA RowStepKeeps ==
  ASSUME TypeOK, NEW j \in Jobs, JobInv(j), proc[j] # "created",
         NEW p \in Places \ {"created"}, NEW s \in JobStatus,
         NEW v \in Verdicts \cup {"none"}, RowStep(j, p, s, v),
         p \in {"publish", "finish"} => v \in Verdicts,
         s = "cancelled" => cancelled(j),
         PlaceInv(j)', StoryInv(j)'
  PROVE  TypeOK' /\ Others(j) /\ JobInv(j)'
<1>1. proc'[j] = p /\ job'[j] = s /\ verdict'[j] = v
  BY DEF RowStep, TypeOK
<1>2. TypeOK'
  BY DEF TypeOK, RowStep, handler, history
<1>3. Others(j)
  BY DEF TypeOK, RowStep, Others, Apart, handler, history
<1>4. KnownInv(j)'
  BY <1>1 DEF JobInv, KnownInv, RowStep, handler, history
<1>5. PeerInv(j)'
  BY <1>1 DEF JobInv, PeerInv, RowStep, handler, history, cancelled, Shown
<1> QED
  BY <1>2, <1>3, <1>4, <1>5 DEF JobInv

LEMMA RowStepFacts ==
  ASSUME TypeOK, NEW j \in Jobs, NEW p, NEW s, NEW v, RowStep(j, p, s, v)
  PROVE  /\ proc'[j] = p /\ job'[j] = s /\ verdict'[j] = v
         /\ cancelled(j)' <=> s = "cancelled"
         /\ closing' = closing /\ excused' = excused /\ gh' = gh
         /\ Shown(j, "appsec")' = Shown(j, "appsec")
  BY DEF RowStep, TypeOK, cancelled, Shown, history

LEMMA BeginKeeps ==
  ASSUME TypeOK, NEW j \in Jobs, JobInv(j), Begin(j)
  PROVE  TypeOK' /\ Others(j) /\ JobInv(j)'
<1>1. CASE job[j] = "queued"
  <2>1. RowStep(j, "create", "running", verdict[j])
    BY <1>1 DEF Begin, RowStep, Go, TypeOK
  <2>2. PlaceInv(j)' /\ StoryInv(j)'
    BY <1>1, <2>1, RowStepFacts DEF JobInv, PlaceInv, StoryInv, cancelled
  <2> QED
    <3>1. /\ "create" \in Places \ {"created"} /\ "running" \in JobStatus
          /\ verdict[j] \in Verdicts \cup {"none"} /\ proc[j] # "created"
      BY DEF Begin, TypeOK, Places, Attempt, JobStatus
    <3> QED
      BY <2>1, <2>2, <3>1, RowStepKeeps
<1>2. CASE job[j] # "queued"
  <2>1. RowStep(j, "leave", job[j], verdict[j])
    BY <1>2 DEF Begin, RowStep, Go, TypeOK
  <2>2. PlaceInv(j)' /\ StoryInv(j)'
    BY <2>1, RowStepFacts DEF JobInv, PlaceInv, StoryInv, cancelled, Begin, Attempt, Agreed
  <2> QED
    BY <2>1, <2>2, RowStepKeeps DEF Begin, TypeOK, Places, Attempt, JobStatus, cancelled
<1> QED
  BY <1>1, <1>2

LEMMA CheckoutKeeps ==
  ASSUME TypeOK, NEW j \in Jobs, JobInv(j), NEW ok \in BOOLEAN, CheckoutReturns(j, ok)
  PROVE  TypeOK' /\ Others(j) /\ JobInv(j)'
<1>0. proc[j] = "checkout"
  BY DEF CheckoutReturns
<1>1. PICK p \in {"abort", "scan", "leave", "fail"}, s \in JobStatus :
         /\ RowStep(j, p, s, verdict[j])
         /\ p = "fail" => s = "error" /\ ~cancelled(j)
         /\ p # "fail" => s = job[j]
         /\ p \in {"abort", "leave"} => cancelled(j)
  BY DEF CheckoutReturns, RowStep, Go, TypeOK, JobStatus, Terminal
<1>2. PlaceInv(j)'
  BY <1>0, <1>1, RowStepFacts DEF JobInv, PlaceInv, cancelled, Attempt
<1>3. StoryInv(j)'
  BY <1>0, <1>1, RowStepFacts DEF JobInv, PlaceInv, StoryInv, cancelled, Attempt, Agreed
<1> QED
  BY <1>0, <1>1, <1>2, <1>3, RowStepKeeps DEF Places, Attempt, TypeOK, cancelled

LEMMA ScanKeeps ==
  ASSUME TypeOK, NEW j \in Jobs, JobInv(j), NEW accepted \in BOOLEAN, ScanStarts(j, accepted)
  PROVE  TypeOK' /\ Others(j) /\ JobInv(j)'
<1>0. proc[j] = "scan"
  BY DEF ScanStarts
<1>1. PICK p \in {"abort", "gate", "publish"}, v \in Verdicts \cup {"none"} :
         /\ RowStep(j, p, job[j], v)
         /\ p = "abort" => cancelled(j)
         /\ p = "publish" => v \in Verdicts
  BY DEF ScanStarts, RowStep, Go, TypeOK, Verdicts, rows
<1>2. PlaceInv(j)'
  BY <1>0, <1>1, RowStepFacts DEF JobInv, PlaceInv, cancelled, Attempt
<1>3. StoryInv(j)'
  BY <1>0, <1>1, RowStepFacts DEF JobInv, PlaceInv, StoryInv, cancelled, Attempt, Agreed
<1> QED
  BY <1>0, <1>1, <1>2, <1>3, RowStepKeeps DEF Places, Attempt, TypeOK, cancelled

LEMMA GateKeeps ==
  ASSUME TypeOK, NEW j \in Jobs, JobInv(j), NEW v \in Verdicts, GateReturns(j, v)
  PROVE  TypeOK' /\ Others(j) /\ JobInv(j)'
<1>0. proc[j] = "gate" /\ RowStep(j, "publish", job[j], v)
  BY DEF GateReturns, RowStep, Go, TypeOK, rows
<1>1. PlaceInv(j)' /\ StoryInv(j)'
  BY <1>0, RowStepFacts DEF JobInv, PlaceInv, StoryInv, cancelled, Attempt, Agreed
<1> QED
  BY <1>0, <1>1, RowStepKeeps DEF Places, Attempt, TypeOK, cancelled

LEMMA FinishKeeps ==
  ASSUME TypeOK, NEW j \in Jobs, JobInv(j), Finish(j)
  PROVE  TypeOK' /\ Others(j) /\ JobInv(j)'
<1>0. proc[j] = "finish"
  BY DEF Finish
<1>1. PICK s \in JobStatus :
         /\ RowStep(j, "leave", s, verdict[j])
         /\ cancelled(j) => s = job[j]
         /\ ~cancelled(j) => s = "completed" \/ (s = "failed" /\ verdict[j] = "fail")
  BY DEF Finish, RowStep, Go, TypeOK, JobStatus, Terminal
<1>2. PlaceInv(j)'
  BY <1>0, <1>1, RowStepFacts DEF JobInv, PlaceInv, cancelled, Attempt
<1>3. StoryInv(j)'
  BY <1>0, <1>1, RowStepFacts DEF JobInv, PlaceInv, StoryInv, cancelled, Attempt, Agreed
<1> QED
  BY <1>0, <1>1, <1>2, <1>3, RowStepKeeps DEF Places, Attempt, TypeOK, cancelled

LEMMA LeaveKeeps ==
  ASSUME TypeOK, NEW j \in Jobs, JobInv(j), Leave(j)
  PROVE  TypeOK' /\ Others(j) /\ JobInv(j)'
<1>0. proc[j] = "leave" /\ RowStep(j, "idle", job[j], verdict[j])
  BY DEF Leave, RowStep, Go, TypeOK, rows
<1>1. PlaceInv(j)' /\ StoryInv(j)'
  BY <1>0, RowStepFacts DEF JobInv, PlaceInv, StoryInv, cancelled, Attempt, Agreed
<1> QED
  BY <1>0, <1>1, RowStepKeeps DEF Places, Attempt, TypeOK, cancelled

(* Calls to GitHub: what they change and what they leave. *)
LEMMA CallElsewhere ==
  ASSUME TypeOK, NEW j \in Jobs, NEW n \in Names, Elsewhere(j, n),
         gh' \in [Jobs -> [Names -> Seq(Open \cup Conclusions)]],
         excused \subseteq excused',
         UNCHANGED <<job, ids, ingress, got, verdict, early>>,
         \A k \in Jobs \ {j} : proc'[k] = proc[k] /\ closing'[k] = closing[k]
  PROVE  Others(j)
  BY ElsewhereOnly DEF Others, Apart

(* githubUpdateCheckRun on the check run of the gate, by the processor. *)
LEMMA CompleteKeeps ==
  ASSUME TypeOK, NEW j \in Jobs, JobInv(j), NEW p \in (Places \ Attempt) \cup {"finish"},
         proc[j] \in {"abort", "fail", "publish"},
         NEW c \in Conclusions, Completed(j, ids[j]["appsec"], "appsec", c), Go(j, p),
         UNCHANGED <<rows, handler, verdict, closing, early>>,
         proc[j] = "abort" => p = "leave",
         proc[j] = "fail" => p = "leave" /\ c = "failure",
         proc[j] = "publish" => p = "finish" /\ c = gateCheckOutcome(verdict[j])
  PROVE  TypeOK' /\ Others(j) /\ JobInv(j)'
<1>0. "appsec" \in Names /\ ids[j]["appsec"] \in Nat /\ p \in Places
  BY DEF TypeOK, Names, Places, Attempt
<1>1. /\ gh' \in [Jobs -> [Names -> Seq(Open \cup Conclusions)]]
      /\ excused' \subseteq Jobs \X Names /\ excused \subseteq excused'
      /\ budget' \in [Events -> Nat]
      /\ Elsewhere(j, "appsec")
      /\ Len(gh'[j]["appsec"]) = Len(gh[j]["appsec"])
      /\ gh'[j]["appsec"] = <<>> <=> gh[j]["appsec"] = <<>>
      /\ gh[j]["appsec"] # <<>> /\ ids[j]["appsec"] = Len(gh[j]["appsec"])
           /\ <<j, "appsec">> \notin excused' => Shown(j, "appsec")' = c
  BY <1>0, CompletedFacts
<1>2. /\ proc' \in [Jobs -> Places] /\ proc'[j] = p
      /\ \A k \in Jobs \ {j} : proc'[k] = proc[k]
  BY <1>0, GoFacts
<1>3. TypeOK'
  BY <1>1, <1>2 DEF TypeOK, rows, handler, Attempt
<1>4. Others(j)
  BY <1>0, <1>1, <1>2, CallElsewhere DEF rows, handler
<1>5. KnownInv(j)'
  <2>1. \A n \in Peers : n \in Names /\ n # "appsec"
    BY ChecksAssumption DEF Names
  <2>2. \A n \in Peers : gh'[j][n] = gh[j][n] /\ (<<j, n>> \in excused' <=> <<j, n>> \in excused)
    BY <1>1, <2>1 DEF Elsewhere
  <2>3. \A n \in Names : n = "appsec" \/ n \in Peers
    BY DEF Names
  <2> QED
    BY <1>1, <1>2, <2>2, <2>3 DEF JobInv, KnownInv, rows, handler, Attempt
<1>6. PlaceInv(j)'
  BY <1>1, <1>2 DEF JobInv, PlaceInv, rows, handler, cancelled, Attempt
<1>7. StoryInv(j)'
  <2>1. SUFFICES ASSUME <<j, "appsec">> \notin excused', gh'[j]["appsec"] # <<>>
                 PROVE  StoryInv(j)'
    BY DEF StoryInv
  <2>2. <<j, "appsec">> \notin excused /\ Shown(j, "appsec")' = c
    <3>1. <<j, "appsec">> \notin excused /\ gh[j]["appsec"] # <<>>
      BY <1>1, <2>1
    <3>2. Len(gh[j]["appsec"]) = ids[j]["appsec"] + IF proc[j] = "created" THEN 1 ELSE 0
      BY <3>1 DEF JobInv, KnownInv
    <3>3. ids[j]["appsec"] = Len(gh[j]["appsec"])
      BY <1>0, <3>2
    <3> QED
      BY <1>1, <2>1, <3>1, <3>3
  <2>3. c \notin Open
    BY DEF Conclusions, Open
  <2>4. CASE proc[j] = "abort"
    BY <1>2, <2>2, <2>3, <2>4 DEF JobInv, PlaceInv, StoryInv, rows, cancelled
  <2>5. CASE proc[j] = "fail"
    BY <1>2, <2>2, <2>3, <2>5 DEF JobInv, PlaceInv, StoryInv, rows, cancelled
  <2>6. CASE proc[j] = "publish"
    BY <1>2, <2>2, <2>3, <2>6 DEF JobInv, PlaceInv, StoryInv, rows, cancelled, Attempt, Agreed, TypeOK
  <2> QED
    BY <2>4, <2>5, <2>6
<1>8. PeerInv(j)'
  <2>1. \A n \in Peers : n \in Names /\ n # "appsec"
    BY ChecksAssumption DEF Names
  <2>2. \A n \in Peers : Shown(j, n)' = Shown(j, n) /\ (<<j, n>> \in excused' <=> <<j, n>> \in excused)
    BY <1>1, <2>1 DEF Elsewhere, Shown
  <2> QED
    BY <2>2 DEF JobInv, PeerInv, rows, handler, cancelled
<1> QED
  BY <1>3, <1>4, <1>5, <1>6, <1>7, <1>8 DEF JobInv

LEMMA GateOutcome ==
  ASSUME NEW v \in Verdicts
  PROVE  gateCheckOutcome(v) \in Conclusions
  BY DEF Verdicts, gateCheckOutcome, Conclusions

LEMMA ProcCallKeeps ==
  ASSUME TypeOK, NEW j \in Jobs, JobInv(j), Abort(j) \/ CheckoutFails(j) \/ PublishGate(j)
  PROVE  TypeOK' /\ Others(j) /\ JobInv(j)'
<1>0. /\ "leave" \in (Places \ Attempt) \cup {"finish"}
      /\ "cancelled" \in Conclusions /\ "failure" \in Conclusions
  BY DEF Places, Attempt, Conclusions
<1>1. CASE Abort(j)
  BY <1>0, <1>1, CompleteKeeps DEF Abort
<1>2. CASE CheckoutFails(j)
  BY <1>0, <1>2, CompleteKeeps DEF CheckoutFails
<1>3. CASE PublishGate(j)
  <2>1. verdict[j] \in Verdicts
    BY <1>3 DEF TypeOK, PublishGate
  <2>2. gateCheckOutcome(verdict[j]) \in Conclusions /\ "finish" \in (Places \ Attempt) \cup {"finish"}
    BY <2>1, GateOutcome
  <2> QED
    BY <1>3, <2>2, CompleteKeeps DEF PublishGate
<1> QED
  BY <1>1, <1>2, <1>3

LEMMA PeerNames ==
  /\ "appsec" \in Names /\ "appsec" \notin Peers
  /\ \A n \in Peers : n \in Names /\ n # "appsec"
  /\ \A n \in Names : n = "appsec" \/ n \in Peers
  BY ChecksAssumption DEF Names

(* githubCreateCheckRun of the gate: the id is on the wire, or there is    *)
(* none.                                                                   *)
LEMMA CreateKeeps ==
  ASSUME TypeOK, NEW j \in Jobs, JobInv(j), CreateCheck(j)
  PROVE  TypeOK' /\ Others(j) /\ JobInv(j)'
<1>0. proc[j] = "create" /\ UNCHANGED <<job, forced, ingress, peers, got, verdict, closing, early>>
  BY DEF CreateCheck, handler
<1>1. /\ gh' \in [Jobs -> [Names -> Seq(Open \cup Conclusions)]]
      /\ excused' \subseteq Jobs \X Names /\ excused \subseteq excused'
      /\ budget' \in [Events -> Nat]
      /\ Elsewhere(j, "appsec")
      /\ \/ /\ j \notin Crons /\ excused' = excused
            /\ gh'[j]["appsec"] = Append(gh[j]["appsec"], "in_progress") /\ gh' # gh
            /\ Len(gh'[j]["appsec"]) = Len(gh[j]["appsec"]) + 1
            /\ Shown(j, "appsec")' = "in_progress"
         \/ gh' = gh /\ (j \in Crons \/ <<j, "appsec">> \in excused')
  BY CreatedFacts, PeerNames DEF CreateCheck, Open
<1>2. \A n \in Peers : /\ gh'[j][n] = gh[j][n] /\ Shown(j, n)' = Shown(j, n)
                       /\ <<j, n>> \in excused' <=> <<j, n>> \in excused
  BY <1>1, PeerNames DEF Elsewhere, Shown
<1>3. cancelled(j)' = cancelled(j)
  BY <1>0 DEF cancelled
<1>4. PeerInv(j)'
  BY <1>0, <1>2, <1>3 DEF JobInv, PeerInv
<1>5. CASE gh' # gh
  <2>1. Go(j, "created") /\ ids' = ids
    BY <1>5 DEF CreateCheck
  <2>2. /\ proc' \in [Jobs -> Places] /\ proc'[j] = "created"
        /\ \A k \in Jobs \ {j} : proc'[k] = proc[k]
    BY <2>1, GoFacts DEF Places, Attempt
  <2>3. TypeOK'
    BY <1>0, <1>1, <2>1, <2>2 DEF TypeOK
  <2>4. Others(j)
    BY <1>0, <1>1, <2>1, <2>2, CallElsewhere, PeerNames
  <2>5. KnownInv(j)'
    <3>1. Len(gh'[j]["appsec"]) = Len(gh[j]["appsec"]) + 1
      BY <1>1, <1>5
    <3>2. <<j, "appsec">> \notin excused' => Len(gh[j]["appsec"]) = ids[j]["appsec"]
      <4>1. ids[j]["appsec"] \in Nat
        BY PeerNames DEF TypeOK
      <4> QED
        BY <1>0, <1>1, <4>1 DEF JobInv, KnownInv
    <3>3. j \notin Crons
      BY <1>1, <1>5
    <3> QED
      BY <1>0, <1>2, <2>1, <2>2, <3>1, <3>2, <3>3 DEF JobInv, KnownInv
  <2>6. PlaceInv(j)' /\ StoryInv(j)'
    BY <1>0, <1>1, <1>3, <2>2 DEF JobInv, PlaceInv, StoryInv, Attempt
  <2> QED
    BY <1>4, <2>3, <2>4, <2>5, <2>6 DEF JobInv
<1>6. CASE gh' = gh
  <2>1. Go(j, afterCreate(j)) /\ ids' = [ids EXCEPT ![j]["appsec"] = 0]
    BY <1>6 DEF CreateCheck
  <2>2. /\ proc' \in [Jobs -> Places] /\ proc'[j] = afterCreate(j)
        /\ \A k \in Jobs \ {j} : proc'[k] = proc[k]
        /\ afterCreate(j) = IF cancelled(j) THEN "abort" ELSE "checkout"
    BY <2>1, GoFacts DEF Places, Attempt, afterCreate
  <2>3. /\ ids' \in [Jobs -> [Names -> Nat]] /\ ids'[j]["appsec"] = 0
        /\ \A n \in Peers : ids'[j][n] = ids[j][n]
        /\ \A k \in Jobs \ {j} : ids'[k] = ids[k]
    BY <2>1, PeerNames DEF TypeOK
  <2>4. TypeOK'
    BY <1>0, <1>1, <2>2, <2>3 DEF TypeOK
  <2>5. Others(j)
    BY <1>0, <1>1, <1>6, <2>2, <2>3 DEF Others, Apart
  <2>6. <<j, "appsec">> \in excused' \/ \A n \in Names : gh'[j][n] = <<>>
    BY <1>1, <1>6 DEF JobInv, KnownInv
  <2>7. KnownInv(j)'
    <3>1. <<j, "appsec">> \notin excused' => Len(gh'[j]["appsec"]) = 0
      BY <2>6, PeerNames
    <3>2. proc'[j] # "created"
      BY <2>2
    <3>3. j \in Crons => \A n \in Names : gh'[j][n] = <<>>
      BY <1>6 DEF JobInv, KnownInv
    <3>4. got'[j]["appsec"] = 0
      BY <1>0 DEF JobInv, KnownInv
    <3>5. j \notin early' => \A n \in Peers :
            /\ ingress'[j] # "done" => ids'[j][n] = 0
            /\ ingress'[j] \in {"no", "fanout"} => got'[j][n] = 0
            /\ <<j, n>> \notin excused' =>
                 Len(gh'[j][n]) = IF ingress'[j] = "done" THEN ids'[j][n] ELSE got'[j][n]
      BY <1>0, <1>2, <2>3 DEF JobInv, KnownInv
    <3> QED
      BY <2>3, <3>1, <3>2, <3>3, <3>4, <3>5 DEF KnownInv
  <2>8. PlaceInv(j)' /\ StoryInv(j)'
    BY <1>0, <1>1, <1>3, <2>2, <2>6, PeerNames DEF JobInv, PlaceInv, StoryInv, Attempt, cancelled
  <2> QED
    BY <1>4, <2>4, <2>5, <2>7, <2>8 DEF JobInv
<1> QED
  BY <1>5, <1>6

(* The id comes back: from now on a cancel finds it. *)
LEMMA SaveKeeps ==
  ASSUME TypeOK, NEW j \in Jobs, JobInv(j), SaveCheck(j)
  PROVE  TypeOK' /\ Others(j) /\ JobInv(j)'
<1>0. /\ proc[j] = "created" /\ Go(j, afterCreate(j))
      /\ UNCHANGED <<gh, job, forced, ingress, peers, got, verdict, closing, early, excused, budget>>
      /\ ids' = [ids EXCEPT ![j]["appsec"] = Len(gh[j]["appsec"])]
  BY DEF SaveCheck, handler, history
<1>1. /\ proc' \in [Jobs -> Places] /\ proc'[j] = afterCreate(j)
      /\ \A k \in Jobs \ {j} : proc'[k] = proc[k]
      /\ afterCreate(j) = IF cancelled(j) THEN "abort" ELSE "checkout"
  BY <1>0, GoFacts DEF Places, Attempt, afterCreate
<1>2. Len(gh[j]["appsec"]) \in Nat
  BY PeerNames DEF TypeOK
<1>3. /\ ids' \in [Jobs -> [Names -> Nat]] /\ ids'[j]["appsec"] = Len(gh[j]["appsec"])
      /\ \A n \in Peers : ids'[j][n] = ids[j][n]
      /\ \A k \in Jobs \ {j} : ids'[k] = ids[k]
  BY <1>0, <1>2, PeerNames DEF TypeOK
<1>4. /\ cancelled(j)' = cancelled(j)
      /\ \A n \in Names : Shown(j, n)' = Shown(j, n)
  BY <1>0 DEF cancelled, Shown
<1>5. TypeOK'
  BY <1>0, <1>1, <1>3 DEF TypeOK
<1>6. Others(j)
  BY <1>0, <1>1, <1>3 DEF Others, Apart
<1>7. KnownInv(j)'
  BY <1>0, <1>1, <1>2, <1>3 DEF JobInv, KnownInv
<1>8. PlaceInv(j)' /\ StoryInv(j)'
  BY <1>0, <1>1, <1>4, PeerNames DEF JobInv, PlaceInv, StoryInv, Attempt, cancelled
<1>9. PeerInv(j)'
  BY <1>0, <1>4, PeerNames DEF JobInv, PeerInv
<1> QED
  BY <1>5, <1>6, <1>7, <1>8, <1>9 DEF JobInv

-----------------------------------------------------------------------------
(* The closers of a cancel. *)

LEMMA CloseKeeps ==
  ASSUME TypeOK, NEW j \in Jobs, JobInv(j), NEW n \in Names, CloseOne(j, n)
  PROVE  TypeOK' /\ Others(j) /\ JobInv(j)'
<1>0. /\ n \in closing[j] /\ closing' = [closing EXCEPT ![j] = @ \ {n}]
      /\ UNCHANGED <<job, ids, forced, ingress, peers, got, proc, verdict, early>>
  BY DEF CloseOne, rows, handler, processor
<1>1. /\ gh' \in [Jobs -> [Names -> Seq(Open \cup Conclusions)]]
      /\ excused' \subseteq Jobs \X Names /\ excused \subseteq excused'
      /\ budget' \in [Events -> Nat]
      /\ Elsewhere(j, n)
      /\ Len(gh'[j][n]) = Len(gh[j][n])
      /\ gh'[j][n] = <<>> <=> gh[j][n] = <<>>
      /\ gh[j][n] # <<>> /\ ids[j][n] = Len(gh[j][n]) /\ <<j, n>> \notin excused' =>
           Shown(j, n)' = "cancelled"
  <2>1. ids[j][n] \in Nat /\ "cancelled" \in Conclusions /\ Completed(j, ids[j][n], n, "cancelled")
    BY DEF CloseOne, toClose, TypeOK, Conclusions
  <2> QED
    BY <2>1, CompletedFacts
<1>2. /\ closing'[j] = closing[j] \ {n} /\ \A k \in Jobs \ {j} : closing'[k] = closing[k]
      /\ closing' \in [Jobs -> SUBSET Names]
  BY <1>0 DEF TypeOK
<1>3. \A m \in Names \ {n} : /\ gh'[j][m] = gh[j][m] /\ Shown(j, m)' = Shown(j, m)
                             /\ <<j, m>> \in excused' <=> <<j, m>> \in excused
  BY <1>1 DEF Elsewhere, Shown
<1>4. \A m \in Names : Len(gh'[j][m]) = Len(gh[j][m]) /\ (gh'[j][m] = <<>> <=> gh[j][m] = <<>>)
  BY <1>1, <1>3
<1>5. cancelled(j)' = cancelled(j)
  BY <1>0 DEF cancelled
<1>6. TypeOK'
  BY <1>0, <1>1, <1>2 DEF TypeOK
<1>7. Others(j)
  BY <1>0, <1>1, <1>2, CallElsewhere
<1>8. KnownInv(j)'
  BY <1>0, <1>1, <1>4, PeerNames DEF JobInv, KnownInv
<1>9. PlaceInv(j)'
  BY <1>0, <1>1, <1>2, <1>5, PeerNames DEF JobInv, PlaceInv
<1>10. StoryInv(j)'
  <2>1. CASE n # "appsec"
    BY <1>0, <1>1, <1>2, <1>3, <1>4, <1>5, <2>1, PeerNames DEF JobInv, StoryInv, Agreed
  <2>2. CASE n = "appsec"
    <3>1. SUFFICES ASSUME <<j, "appsec">> \notin excused', gh'[j]["appsec"] # <<>>
                   PROVE  StoryInv(j)'
      BY DEF StoryInv
    <3>2. cancelled(j)
      BY <1>0, <1>1, <3>1 DEF JobInv, PlaceInv
    <3>3. proc[j] # "created" => ids[j]["appsec"] = Len(gh[j]["appsec"])
      <4>1. ids[j]["appsec"] \in Nat
        BY PeerNames DEF TypeOK
      <4> QED
        BY <1>1, <3>1, <4>1 DEF JobInv, KnownInv
    <3>4. proc[j] # "created" => Shown(j, "appsec")' = "cancelled"
      BY <1>1, <1>4, <2>2, <3>1, <3>3
    <3> QED
      BY <1>0, <3>2, <3>4 DEF StoryInv, cancelled, Open
  <2> QED
    BY <2>1, <2>2
<1>11. PeerInv(j)'
  <2>1. SUFFICES ASSUME cancelled(j), j \notin early, NEW m \in Peers, <<j, m>> \notin excused',
                        Shown(j, m)' \in Open
                 PROVE  m \in closing'[j]
    BY <1>0, <1>5 DEF JobInv, PeerInv
  <2>2. CASE m # n
    BY <1>2, <1>3, <2>1, <2>2, PeerNames DEF JobInv, PeerInv
  <2>3. CASE m = n
    <3>1. ingress[j] \in {"no", "done"} /\ <<j, n>> \notin excused
      BY <1>1, <2>1, <2>3 DEF JobInv, PeerInv
    <3>2. gh'[j][n] # <<>>
      BY <2>1, <2>3 DEF Shown, Open
    <3>3. Len(gh[j][n]) # 0
      <4>1. gh[j][n] \in Seq(Open \cup Conclusions) /\ gh[j][n] # <<>>
        BY <1>1, <3>2 DEF TypeOK
      <4> QED
        BY <4>1
    <3>4. ids[j][n] = Len(gh[j][n])
      BY <2>1, <2>3, <3>1, <3>3 DEF JobInv, KnownInv
    <3>5. Shown(j, n)' = "cancelled"
      BY <1>1, <2>1, <2>3, <3>2, <3>4
    <3> QED
      BY <2>1, <2>3, <3>5 DEF Open
  <2> QED
    BY <2>2, <2>3
<1> QED
  BY <1>6, <1>7, <1>8, <1>9, <1>10, <1>11 DEF JobInv

-----------------------------------------------------------------------------
(* Intake. *)

(* enqueueSCMJob: the row is new, and no check run of a peer is there. *)
LEMMA PushKeeps ==
  ASSUME TypeOK, NEW j \in Jobs, JobInv(j), Push(j)
  PROVE  TypeOK' /\ Others(j) /\ JobInv(j)'
<1>0. /\ j \notin Crons /\ ingress[j] = "no" /\ job[j] = "absent"
      /\ job' = [job EXCEPT ![j] = "queued"] /\ ingress' = [ingress EXCEPT ![j] = "fanout"]
      /\ UNCHANGED <<gh, ids, forced, peers, got, proc, verdict, closing, early, excused, budget>>
  BY DEF Push, enqueueSCMJob, processor, history
<1>1. TypeOK'
  BY <1>0 DEF TypeOK, JobStatus
<1>2. Others(j)
  BY <1>0 DEF Others, Apart, TypeOK
<1>3. job'[j] = "queued" /\ ingress'[j] = "fanout"
  BY <1>0 DEF TypeOK
<1>4. KnownInv(j)'
  BY <1>0, <1>3 DEF JobInv, KnownInv
<1>5. PlaceInv(j)' /\ StoryInv(j)' /\ PeerInv(j)'
  BY <1>0, <1>3 DEF JobInv, PlaceInv, StoryInv, PeerInv, cancelled
<1> QED
  BY <1>1, <1>2, <1>4, <1>5 DEF JobInv

LEMMA TickKeeps ==
  ASSUME TypeOK, NEW j \in Jobs, JobInv(j), Tick(j)
  PROVE  TypeOK' /\ Others(j) /\ JobInv(j)'
<1>0. /\ job[j] = "absent" /\ job' = [job EXCEPT ![j] = "queued"] /\ Wake(j)
      /\ UNCHANGED <<gh, ids, forced, ingress, peers, got, verdict, closing, early, excused, budget>>
  BY DEF Tick, enqueueSCMJob, handler, history
<1>1. /\ proc' \in [Jobs -> Places]
      /\ proc'[j] = IF proc[j] = "idle" THEN "spawned" ELSE proc[j]
      /\ \A k \in Jobs \ {j} : proc'[k] = proc[k]
  BY <1>0, WakeFacts
<1>2. TypeOK'
  BY <1>0, <1>1 DEF TypeOK, JobStatus
<1>3. Others(j)
  BY <1>0, <1>1 DEF Others, Apart, TypeOK
<1>4. job'[j] = "queued"
  BY <1>0 DEF TypeOK
<1>5. KnownInv(j)'
  BY <1>0, <1>1 DEF JobInv, KnownInv
<1>6. PlaceInv(j)' /\ StoryInv(j)' /\ PeerInv(j)'
  BY <1>0, <1>1, <1>4 DEF JobInv, PlaceInv, StoryInv, PeerInv, cancelled, Attempt
<1> QED
  BY <1>2, <1>3, <1>5, <1>6 DEF JobInv

LEMMA FanOutKeeps ==
  ASSUME TypeOK, NEW j \in Jobs, JobInv(j), NEW wanted \in SUBSET Peers, FanOut(j, wanted)
  PROVE  TypeOK' /\ Others(j) /\ JobInv(j)'
<1>0. /\ ingress[j] = "fanout" /\ ingress' = [ingress EXCEPT ![j] = "publish"]
      /\ peers' = [peers EXCEPT ![j] = wanted]
      /\ UNCHANGED <<gh, job, ids, forced, got, proc, verdict, closing, early, excused, budget>>
  BY DEF FanOut, rows, processor, history
<1>1. TypeOK'
  BY <1>0 DEF TypeOK
<1>2. Others(j)
  BY <1>0 DEF Others, Apart, TypeOK
<1>3. ingress'[j] = "publish"
  BY <1>0 DEF TypeOK
<1>4. KnownInv(j)'
  BY <1>0, <1>3 DEF JobInv, KnownInv
<1>5. PlaceInv(j)' /\ StoryInv(j)' /\ PeerInv(j)'
  BY <1>0, <1>3 DEF JobInv, PlaceInv, StoryInv, PeerInv, cancelled, Agreed, Shown
<1> QED
  BY <1>1, <1>2, <1>4, <1>5 DEF JobInv

(* publishPeerCheckerStatuses: nobody has cancelled, or the job is early. *)
LEMMA PublishPeerKeeps ==
  ASSUME TypeOK, NEW j \in Jobs, JobInv(j), NEW n \in Peers, PublishPeer(j, n)
  PROVE  TypeOK' /\ Others(j) /\ JobInv(j)'
<1>0. /\ ingress[j] = "publish"
      /\ got' = [got EXCEPT ![j][n] = publishedId(j, n)]
      /\ peers' = [peers EXCEPT ![j] = @ \ {n}]
      /\ UNCHANGED <<job, ids, forced, ingress, proc, verdict, closing, early>>
  BY DEF PublishPeer, rows, processor
<1>1. /\ gh' \in [Jobs -> [Names -> Seq(Open \cup Conclusions)]]
      /\ excused' \subseteq Jobs \X Names /\ excused \subseteq excused'
      /\ budget' \in [Events -> Nat]
      /\ Elsewhere(j, n)
      /\ \/ /\ j \notin Crons /\ gh' # gh
            /\ Len(gh'[j][n]) = Len(gh[j][n]) + 1
         \/ gh' = gh /\ (j \in Crons \/ <<j, n>> \in excused')
  BY CreatedFacts, PeerNames DEF PublishPeer, Open
<1>2. /\ publishedId(j, n) \in Nat
      /\ <<j, n>> \notin excused' => publishedId(j, n) = Len(gh'[j][n])
  <2>1. gh'[j][n] \in Seq(Open \cup Conclusions) /\ Len(gh'[j][n]) \in Nat
    BY <1>1, PeerNames
  <2>2. CASE gh' # gh
    BY <2>1, <2>2 DEF publishedId
  <2>3. CASE gh' = gh
    <3>1. <<j, n>> \notin excused' => gh'[j][n] = <<>>
      BY <1>1, <2>3, PeerNames DEF JobInv, KnownInv
    <3> QED
      BY <2>3, <3>1 DEF publishedId
  <2> QED
    BY <2>2, <2>3
<1>3. /\ got' \in [Jobs -> [Names -> Nat]] /\ got'[j][n] = publishedId(j, n)
      /\ \A m \in Names \ {n} : got'[j][m] = got[j][m]
      /\ \A k \in Jobs \ {j} : got'[k] = got[k]
  BY <1>0, <1>2, PeerNames DEF TypeOK
<1>4. \A m \in Names \ {n} : /\ gh'[j][m] = gh[j][m] /\ Shown(j, m)' = Shown(j, m)
                             /\ <<j, m>> \in excused' <=> <<j, m>> \in excused
  BY <1>1 DEF Elsewhere, Shown
<1>5. cancelled(j)' = cancelled(j)
  BY <1>0 DEF cancelled
<1>6. TypeOK'
  BY <1>0, <1>1, <1>3 DEF TypeOK
<1>7. Others(j)
  BY <1>0, <1>1, <1>3, ElsewhereOnly, PeerNames DEF Others, Apart
<1>8. KnownInv(j)'
  <2>1. j \in Crons => \A m \in Names : gh'[j][m] = <<>>
    BY <1>1 DEF JobInv, KnownInv
  <2>2. got'[j]["appsec"] = 0
    BY <1>3, PeerNames DEF JobInv, KnownInv
  <2>3. <<j, "appsec">> \notin excused' =>
          Len(gh'[j]["appsec"]) = ids'[j]["appsec"] + IF proc'[j] = "created" THEN 1 ELSE 0
    BY <1>0, <1>4, PeerNames DEF JobInv, KnownInv
  <2>4. ASSUME j \notin early, NEW m \in Peers
        PROVE  /\ ids'[j][m] = 0
               /\ <<j, m>> \notin excused' => Len(gh'[j][m]) = got'[j][m]
    <3>1. CASE m = n
      BY <1>0, <1>2, <1>3, <2>4, <3>1 DEF JobInv, KnownInv
    <3>2. CASE m # n
      BY <1>0, <1>3, <1>4, <2>4, <3>2, PeerNames DEF JobInv, KnownInv
    <3> QED
      BY <3>1, <3>2
  <2> QED
    BY <1>0, <2>1, <2>2, <2>3, <2>4 DEF KnownInv
<1>9. PlaceInv(j)' /\ StoryInv(j)'
  BY <1>0, <1>4, <1>5, PeerNames DEF JobInv, PlaceInv, StoryInv, Agreed
<1>10. PeerInv(j)'
  BY <1>0, <1>5 DEF JobInv, PeerInv
<1> QED
  BY <1>6, <1>7, <1>8, <1>9, <1>10 DEF JobInv

(* finishSCMIngressPipeline: what was collected is what the row has. *)
LEMMA IngestedKeeps ==
  ASSUME TypeOK, NEW j \in Jobs, JobInv(j), Ingested(j)
  PROVE  TypeOK' /\ Others(j) /\ JobInv(j)'
<1>0. /\ ingress[j] = "publish" /\ ingress' = [ingress EXCEPT ![j] = "done"] /\ Wake(j)
      /\ ids' = [ids EXCEPT ![j] = Merged(j)]
      /\ got' = [got EXCEPT ![j] = [n \in Names |-> 0]]
      /\ UNCHANGED <<gh, job, forced, peers, verdict, closing, early, excused, budget>>
  BY DEF Ingested, history
<1>1. /\ proc' \in [Jobs -> Places]
      /\ proc'[j] = IF proc[j] = "idle" THEN "spawned" ELSE proc[j]
      /\ \A k \in Jobs \ {j} : proc'[k] = proc[k]
  BY <1>0, WakeFacts
<1>2. Merged(j) \in [Names -> Nat]
  BY DEF Merged, TypeOK
<1>3. /\ ids' \in [Jobs -> [Names -> Nat]] /\ ids'[j] = Merged(j)
      /\ got' \in [Jobs -> [Names -> Nat]] /\ ingress'[j] = "done"
      /\ \A n \in Names : got'[j][n] = 0
      /\ \A k \in Jobs \ {j} : ids'[k] = ids[k] /\ got'[k] = got[k] /\ ingress'[k] = ingress[k]
  BY <1>0, <1>2 DEF TypeOK
<1>4. TypeOK'
  BY <1>0, <1>1, <1>3 DEF TypeOK
<1>5. Others(j)
  BY <1>0, <1>1, <1>3 DEF Others, Apart
<1>6. KnownInv(j)'
  <2>1. ids'[j]["appsec"] = ids[j]["appsec"]
    BY <1>3, PeerNames DEF JobInv, KnownInv, Merged
  <2>2. j \notin early => \A n \in Peers : ids'[j][n] = got[j][n]
    BY <1>0, <1>3, PeerNames DEF JobInv, KnownInv, Merged
  <2> QED
    BY <1>0, <1>1, <1>3, <2>1, <2>2, PeerNames DEF JobInv, KnownInv
<1>7. PlaceInv(j)' /\ StoryInv(j)'
  BY <1>0, <1>1 DEF JobInv, PlaceInv, StoryInv, Agreed, Shown, cancelled, Attempt
<1>8. PeerInv(j)'
  BY <1>0 DEF JobInv, PeerInv, cancelled
<1> QED
  BY <1>4, <1>5, <1>6, <1>7, <1>8 DEF JobInv

-----------------------------------------------------------------------------
(* Users, resume and reboot. *)

LEMMA CancelKeeps ==
  ASSUME TypeOK, NEW j \in Jobs, JobInv(j), Cancel(j)
  PROVE  TypeOK' /\ Others(j) /\ JobInv(j)'
<1>0. /\ job[j] \in {"queued", "running"} /\ job' = [job EXCEPT ![j] = "cancelled"]
      /\ closing' = [closing EXCEPT ![j] = Names] /\ budget' \in [Events -> Nat]
      /\ early' = IF ingress[j] \in {"no", "done"} THEN early ELSE early \cup {j}
      /\ UNCHANGED <<gh, ids, forced, ingress, peers, got, proc, verdict, excused>>
  BY SpendType DEF Cancel, handler, processor, Events
<1>1. job'[j] = "cancelled" /\ closing'[j] = Names
  BY <1>0 DEF TypeOK
<1>2. TypeOK'
  BY <1>0 DEF TypeOK, JobStatus, Terminal
<1>3. Others(j)
  BY <1>0 DEF Others, Apart, TypeOK
<1>4. KnownInv(j)'
  BY <1>0 DEF JobInv, KnownInv
<1>5. PlaceInv(j)' /\ StoryInv(j)'
  BY <1>0, <1>1, PeerNames DEF JobInv, PlaceInv, StoryInv, cancelled
<1>6. PeerInv(j)'
  BY <1>0, <1>1, PeerNames DEF PeerInv, cancelled
<1> QED
  BY <1>2, <1>3, <1>4, <1>5, <1>6 DEF JobInv

(* A retry of a job at rest; the checks of any other are excused. *)
LEMMA RetryKeeps ==
  ASSUME TypeOK, NEW j \in Jobs, JobInv(j), Retry(j)
  PROVE  TypeOK' /\ Others(j) /\ JobInv(j)'
<1>0. /\ job' = [job EXCEPT ![j] = "queued"] /\ Wake(j) /\ forced' = forced \cup {j}
      /\ budget' \in [Events -> Nat]
      /\ excused' = IF Quiet(j) THEN excused ELSE excused \cup ({j} \X Names)
      /\ UNCHANGED <<gh, ids, ingress, peers, got, verdict, closing, early>>
  BY SpendType DEF Retry, handler, Events
<1>1. /\ proc' \in [Jobs -> Places]
      /\ proc'[j] = IF proc[j] = "idle" THEN "spawned" ELSE proc[j]
      /\ \A k \in Jobs \ {j} : proc'[k] = proc[k]
  BY <1>0, WakeFacts
<1>2. job'[j] = "queued"
  BY <1>0 DEF TypeOK
<1>3. /\ excused \subseteq excused' /\ excused' \subseteq Jobs \X Names
      /\ <<j, "appsec">> \notin excused' => Quiet(j)
  BY <1>0, PeerNames DEF TypeOK
<1>4. TypeOK'
  BY <1>0, <1>1, <1>3 DEF TypeOK, JobStatus
<1>5. Others(j)
  BY <1>0, <1>1, <1>3 DEF Others, Apart, TypeOK
<1>6. KnownInv(j)'
  BY <1>0, <1>1, <1>3, PeerNames DEF JobInv, KnownInv, Quiet
<1>7. PlaceInv(j)' /\ StoryInv(j)' /\ PeerInv(j)'
  BY <1>0, <1>1, <1>2, <1>3 DEF PlaceInv, StoryInv, PeerInv, Quiet, cancelled, Attempt
<1> QED
  BY <1>4, <1>5, <1>6, <1>7 DEF JobInv

LEMMA DispatchedFacts ==
  ASSUME NEW place \in [Jobs -> Places], NEW status
  PROVE  /\ Dispatched(place, status) \in [Jobs -> Places]
         /\ \A j \in Jobs : \/ Dispatched(place, status)[j] = place[j]
                            \/ place[j] = "idle" /\ Dispatched(place, status)[j] = "spawned"
  BY DEF Dispatched, Woken, Places

LEMMA ResumeKeeps ==
  ASSUME TypeOK, ChecksInv, Resume
  PROVE  TypeOK' /\ ChecksInv'
<1>0. /\ budget' \in [Events -> Nat] /\ proc' = Dispatched(proc, job)
      /\ UNCHANGED <<gh, job, ids, forced, ingress, peers, got, verdict, closing, early, excused>>
  BY SpendType DEF Resume, rows, handler, history, Events
<1>1. /\ proc' \in [Jobs -> Places]
      /\ \A j \in Jobs : proc'[j] = proc[j] \/ (proc[j] = "idle" /\ proc'[j] = "spawned")
  <2>1. proc \in [Jobs -> Places]
    BY DEF TypeOK
  <2> QED
    BY <1>0, <2>1, DispatchedFacts
<1>2. TypeOK'
  BY <1>0, <1>1 DEF TypeOK
<1>3. ASSUME NEW j \in Jobs PROVE JobInv(j)'
  <2>1. JobInv(j)
    BY DEF ChecksInv
  <2>2. KnownInv(j)'
    BY <1>0, <1>1, <2>1 DEF JobInv, KnownInv
  <2>3. PlaceInv(j)' /\ StoryInv(j)'
    BY <1>0, <1>1, <2>1 DEF JobInv, PlaceInv, StoryInv, cancelled, Attempt, Agreed, Shown
  <2>4. PeerInv(j)'
    BY <1>0, <2>1 DEF JobInv, PeerInv, cancelled, Shown
  <2> QED
    BY <2>2, <2>3, <2>4 DEF JobInv
<1> QED
  BY <1>2, <1>3 DEF ChecksInv

(* recoverStuckRunningSCMJobs: what was at rest is as it was; the checks   *)
(* of a job that was hit where the code has no answer are excused.         *)
LEMMA RestartKeeps ==
  ASSUME TypeOK, ChecksInv, Restart
  PROVE  TypeOK' /\ ChecksInv'
<1>0. /\ job' = [j \in Jobs |-> Recovered(job[j])]
      /\ proc' = Dispatched([j \in Jobs |-> "idle"], job')
      /\ closing' = [j \in Jobs |-> {}]
      /\ ingress' = [j \in Jobs |-> IF ingress[j] = "no" THEN "no" ELSE "done"]
      /\ peers' = [j \in Jobs |-> {}]
      /\ got' = [j \in Jobs |-> [n \in Names |-> 0]]
      /\ early' = early \cup {j \in Jobs : ingress[j] \in {"fanout", "publish"}}
      /\ UNCHANGED <<gh, ids, forced, verdict>> /\ budget' \in [Events -> Nat]
  BY SpendType DEF Restart, Events
<1>1. /\ excused \subseteq excused' /\ excused' \subseteq Jobs \X Names
      /\ \A j \in Jobs, n \in Names : <<j, n>> \notin excused' =>
           Quiet(j) \/ (job[j] \notin Terminal /\ proc[j] # "created")
  BY DEF Restart, TypeOK
<1>2. [j \in Jobs |-> "idle"] \in [Jobs -> Places]
  BY DEF Places
<1>3. /\ proc' \in [Jobs -> Places]
      /\ \A j \in Jobs : proc'[j] \in {"idle", "spawned"}
  BY <1>0, <1>2, DispatchedFacts
<1>4. TypeOK'
  <2>1. job' \in [Jobs -> JobStatus]
    BY <1>0 DEF TypeOK, Recovered, JobStatus
  <2>2. /\ closing' \in [Jobs -> SUBSET Names] /\ peers' \in [Jobs -> SUBSET Peers]
        /\ ingress' \in [Jobs -> {"no", "fanout", "publish", "done"}]
        /\ got' \in [Jobs -> [Names -> Nat]] /\ early' \subseteq Jobs
    BY <1>0 DEF TypeOK
  <2> QED
    BY <1>0, <1>1, <1>3, <2>1, <2>2 DEF TypeOK
<1>5. ASSUME NEW j \in Jobs PROVE JobInv(j)'
  <2>0. JobInv(j) /\ job'[j] = Recovered(job[j]) /\ closing'[j] = {}
    BY <1>0 DEF ChecksInv
  <2>1. KnownInv(j)'
    <3>1. <<j, "appsec">> \notin excused' =>
            Len(gh'[j]["appsec"]) = ids'[j]["appsec"] + IF proc'[j] = "created" THEN 1 ELSE 0
      BY <1>0, <1>1, <1>3, <2>0, PeerNames DEF JobInv, KnownInv, Quiet
    <3>2. ASSUME j \notin early', NEW n \in Peers
          PROVE  /\ ingress'[j] # "done" => ids'[j][n] = 0
                 /\ <<j, n>> \notin excused' =>
                      Len(gh'[j][n]) = IF ingress'[j] = "done" THEN ids'[j][n] ELSE got'[j][n]
      <4>1. j \notin early /\ ingress[j] \in {"no", "done"} /\ ingress'[j] = ingress[j]
        BY <1>0, <3>2 DEF TypeOK
      <4>2. got'[j][n] = 0
        BY <1>0, PeerNames
      <4> QED
        BY <1>0, <1>1, <2>0, <4>1, <4>2, PeerNames DEF JobInv, KnownInv
    <3> QED
      BY <1>0, <2>0, <3>1, <3>2, PeerNames DEF JobInv, KnownInv
  <2>2. PlaceInv(j)'
    BY <1>3, <2>0 DEF PlaceInv, Attempt
  <2>3. StoryInv(j)'
    <3>1. SUFFICES ASSUME <<j, "appsec">> \notin excused', gh[j]["appsec"] # <<>>
                   PROVE  StoryInv(j)'
      BY <1>0 DEF StoryInv
    <3>2. <<j, "appsec">> \notin excused /\ (job[j] \in Terminal => Quiet(j))
      BY <1>1, <3>1, PeerNames
    <3>3. /\ Shown(j, "appsec")' = Shown(j, "appsec") /\ (Agreed(j)' <=> Agreed(j))
      BY <1>0 DEF Shown, Agreed
    <3>4. job'[j] # "running" /\ (job'[j] \in Terminal => job'[j] = job[j])
      BY <2>0 DEF Recovered, Terminal
    <3>5. CASE job'[j] \in Terminal
      <4>1. job'[j] = job[j] /\ closing[j] = {} /\ proc[j] = "idle"
        BY <3>2, <3>4, <3>5 DEF Quiet
      <4>2. StoryInv(j)
        BY <2>0 DEF JobInv
      <4> QED
        <5>1. /\ job'[j] \in {"completed", "failed"} => Agreed(j)'
              /\ job'[j] = "failed" => verdict[j] = "fail"
              /\ job'[j] = "error" => Shown(j, "appsec")' = "failure"
              /\ job'[j] = "cancelled" => Shown(j, "appsec")' \notin Open
          BY <3>1, <3>2, <3>3, <4>1, <4>2 DEF StoryInv, cancelled
        <5> QED
          BY <1>0, <3>4, <5>1 DEF StoryInv, cancelled
    <3>6. CASE job'[j] \notin Terminal
      BY <3>4, <3>6 DEF StoryInv, cancelled, Terminal
    <3> QED
      BY <3>5, <3>6
  <2>4. PeerInv(j)'
    <3>1. SUFFICES ASSUME job'[j] = "cancelled", j \notin early'
                   PROVE  PeerInv(j)'
      BY DEF PeerInv, cancelled
    <3>2. job[j] = "cancelled" /\ j \notin early
      BY <1>0, <2>0, <3>1 DEF Recovered
    <3>3. ingress'[j] \in {"no", "done"}
      BY <1>0
    <3>4. ASSUME NEW n \in Peers, <<j, n>> \notin excused', Shown(j, n)' \in Open
          PROVE  FALSE
      <4>1. <<j, n>> \notin excused /\ Quiet(j)
        BY <1>1, <3>2, <3>4, PeerNames DEF Terminal
      <4>2. Shown(j, n) \in Open
        BY <1>0, <3>4 DEF Shown
      <4> QED
        BY <2>0, <3>2, <4>1, <4>2 DEF JobInv, PeerInv, cancelled, Quiet
    <3> QED
      BY <3>3, <3>4 DEF PeerInv
  <2> QED
    BY <2>1, <2>2, <2>3, <2>4 DEF JobInv
<1> QED
  BY <1>4, <1>5 DEF ChecksInv

-----------------------------------------------------------------------------
(* Every step, and what follows. *)

LEMMA OneJob ==
  ASSUME ChecksInv, NEW j \in Jobs, Others(j), JobInv(j)'
  PROVE  ChecksInv'
<1>1. ASSUME NEW k \in Jobs \ {j} PROVE JobInv(k)'
  BY ApartKeeps DEF Others, ChecksInv
<1> QED
  BY <1>1 DEF ChecksInv

LEMMA InvInit ==
  ASSUME Init
  PROVE  TypeOK /\ ChecksInv
<1>1. TypeOK
  BY ChecksAssumption DEF Init, TypeOK, JobStatus, Places
<1>2. ASSUME NEW j \in Jobs PROVE JobInv(j)
  BY PeerNames DEF Init, JobInv, KnownInv, PlaceInv, StoryInv, PeerInv, cancelled, Attempt
<1> QED
  BY <1>1, <1>2 DEF ChecksInv

LEMMA InvNext ==
  ASSUME TypeOK, ChecksInv, [Next]_vars
  PROVE  TypeOK' /\ ChecksInv'
<1>1. ASSUME NEW j \in Jobs, Push(j) \/ Tick(j) \/ HandlerStep(j)
      PROVE  TypeOK' /\ ChecksInv'
  <2>1. TypeOK' /\ Others(j) /\ JobInv(j)'
    BY <1>1, PushKeeps, TickKeeps, FanOutKeeps, PublishPeerKeeps, IngestedKeeps
    DEF ChecksInv, HandlerStep
  <2> QED
    BY <2>1, OneJob
<1>2. ASSUME NEW j \in Jobs, ProcStep(j)
      PROVE  TypeOK' /\ ChecksInv'
  <2>1. TypeOK' /\ Others(j) /\ JobInv(j)'
    BY <1>2, BeginKeeps, CreateKeeps, SaveKeeps, ProcCallKeeps, CheckoutKeeps, ScanKeeps,
       GateKeeps, FinishKeeps, LeaveKeeps DEF ChecksInv, ProcStep
  <2> QED
    BY <2>1, OneJob
<1>3. ASSUME NEW j \in Jobs, Closer(j) \/ Cancel(j) \/ Retry(j)
      PROVE  TypeOK' /\ ChecksInv'
  <2>1. TypeOK' /\ Others(j) /\ JobInv(j)'
    BY <1>3, CloseKeeps, CancelKeeps, RetryKeeps DEF ChecksInv, Closer
  <2> QED
    BY <2>1, OneJob
<1>4. CASE UNCHANGED vars
  <2>1. TypeOK'
    BY <1>4 DEF TypeOK, vars
  <2>2. \A j \in Jobs : Apart(j)
    BY <1>4 DEF Apart, vars
  <2> QED
    BY <2>1, <2>2, ApartKeeps DEF ChecksInv
<1>5. Handled \subseteq Jobs
  BY ChecksAssumption
<1> QED
  BY <1>1, <1>2, <1>3, <1>4, <1>5, ResumeKeeps, RestartKeeps DEF Next

LEMMA InvHolds == Spec => [](TypeOK /\ ChecksInv)
<1>1. Init => TypeOK /\ ChecksInv
  BY InvInit
<1>2. TypeOK /\ ChecksInv /\ [Next]_vars => (TypeOK /\ ChecksInv)'
  BY InvNext
<1> QED
  BY <1>1, <1>2, PTL DEF Spec

(* Rows, check runs, handlers, processors and closers stay in the states   *)
(* scm_orchestrator.go and scm_checker.go name, for any jobs, peers, slots *)
(* and budgets.                                                            *)
THEOREM TypeCorrect == Spec => []TypeOK
  BY InvHolds, PTL

(* closeSCMJobGitHubChecks and processContinuousSCMJob: however a cancel   *)
(* and the id of the check run cross, one of the two closes the check run  *)
(* that GitHub shows.                                                      *)
THEOREM AppSecAnswered == Spec => []AppSecIsAnswered
<1>1. TypeOK /\ ChecksInv => AppSecIsAnswered
  <2> SUFFICES ASSUME TypeOK, ChecksInv, NEW j \in Jobs, Quiet(j), job[j] \in Terminal,
                      <<j, "appsec">> \notin excused, gh[j]["appsec"] # <<>>
               PROVE  Shown(j, "appsec") \notin Open
    BY DEF AppSecIsAnswered, Shown, Open
  <2>1. StoryInv(j) /\ closing[j] = {} /\ proc[j] = "idle"
    BY DEF ChecksInv, JobInv, Quiet
  <2>2. Agreed(j) => Shown(j, "appsec") \notin Open
    BY DEF Agreed, gateCheckOutcome, Verdicts, Open
  <2> QED
    BY <2>1, <2>2 DEF StoryInv, Terminal, cancelled, Open
<1> QED
  BY <1>1, InvHolds, PTL

(* gateCheckOutcome: at rest the check run says what the row says, and the *)
(* row what the gate said, over any number of retries and restarts.        *)
THEOREM RowAgrees == Spec => []RowAndCheckAgree
<1>1. TypeOK /\ ChecksInv => RowAndCheckAgree
  <2> SUFFICES ASSUME TypeOK, ChecksInv, NEW j \in Jobs, Quiet(j),
                      <<j, "appsec">> \notin excused, Shown(j, "appsec") # "none"
               PROVE  /\ job[j] = "error" => Shown(j, "appsec") = "failure"
                      /\ job[j] = "failed" => verdict[j] = "fail"
                      /\ job[j] \in {"completed", "failed"} =>
                           <<verdict[j], Shown(j, "appsec")>> \in
                             {<<"pass", "success">>, <<"fail", "failure">>, <<"unavailable", "neutral">>}
    BY DEF RowAndCheckAgree
  <2>1. StoryInv(j) /\ proc[j] = "idle" /\ gh[j]["appsec"] # <<>>
    BY DEF ChecksInv, JobInv, Quiet, Shown
  <2>2. Agreed(j) => <<verdict[j], Shown(j, "appsec")>> \in
                       {<<"pass", "success">>, <<"fail", "failure">>, <<"unavailable", "neutral">>}
    BY DEF Agreed, gateCheckOutcome, Verdicts
  <2> QED
    BY <2>1, <2>2 DEF StoryInv
<1> QED
  BY <1>1, InvHolds, PTL

(* closeSCMJobGitHubChecks: a cancel that comes once the handler has       *)
(* merged the ids leaves no check run of a peer open, for any peers.       *)
THEOREM PeersAreClosed == Spec => []CancelClosesPeers
<1>1. ChecksInv => CancelClosesPeers
  BY DEF ChecksInv, JobInv, PeerInv, CancelClosesPeers, Quiet
<1> QED
  BY <1>1, InvHolds, PTL

=============================================================================
