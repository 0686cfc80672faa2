------------------------------ MODULE JobStore ------------------------------
(***************************************************************************)
(* Where the row of a job is kept: in memory (scmJobLive, a pointer to an  *)
(* object), in a file that every persistSCMJob rewrites, and in            *)
(* ClickHouse, whose inserts go out in goroutines of their own, may be     *)
(* dropped, and meet in a table that keeps the newest row of a job only    *)
(* once it has merged its parts.  A boot reads the file, then ClickHouse.  *)
(* The server answers before that, and a handler that asks for a row that  *)
(* is not in memory reads the file itself: two objects may then stand for  *)
(* one job.                                                                *)
(*                                                                         *)
(* The job is a child of a run.  Its row carries what the dashboard shows  *)
(* of it: the posts to GitHub, the evidence built from them, the tail of   *)
(* the agent's output.  A change of a row and the check that precedes it   *)
(* without a call in between are one step; each write of the file, and     *)
(* each insert handed to the writer, is one, with a time of its own.       *)
(***************************************************************************)
EXTENDS Integers, Sequences, FiniteSets

CONSTANTS
  maxInFlightInserts, \* capacity of ClickHouseWriter.sem
  Budget,             \* how often each external event may happen
  Mixes               \* the sets of events that may happen in one behaviour

(* A crash, one that takes the state directory with it; a request that     *)
(* cancels, retries or looks; a file that cannot be written, an insert     *)
(* that is given up or a query that fails.                                 *)
Events == {"crash", "loss", "cancel", "retry", "look", "file", "drop"}

ASSUME JobStoreAssumption ==
  /\ maxInFlightInserts \in Nat \ {0}
  /\ Budget \in [Events -> Nat]
  /\ Mixes \subseteq SUBSET Events

Active == {"queued", "running"}
Terminal == {"completed", "cancelled"}   \* a failed job ends as a completed one
NoEnd == "none"
EndOf(r) == IF r.status \in Terminal THEN r.status ELSE NoEnd
NoEvidence == [status |-> "none", posts |-> 0]
NewJob == [status |-> "queued", fin |-> 0, posts |-> 0, tail |-> 0, evidence |-> NoEvidence]
NoRow == [NewJob EXCEPT !.status = "absent"]

(* The goroutines that touch the row. *)
Actors == {"request", "proc", "boot"}
Asks == {"cancel", "retry", "look"}

VARIABLES
  objs,    \* the objects of this process, in the order they were made
  live,    \* the one scmJobLive points to, 0 for none
  file,    \* jobs/<id>.json
  log,     \* length of artifacts/live.log
  inserts, \* rows on their way to ClickHouse, each with its finished_at
  table,   \* the rows opa.scm_jobs was given
  clock,   \* the time of the last write
  pc,      \* where each goroutine is
  at,      \* the object it works on
  then,    \* where it goes when the row is persisted
  got,     \* the row it has read and not yet stored
  ask,     \* what the request wants
  made,    \* history: posts this process or the row it loaded knows of
  heard,   \* history: length of the log when a sink was last closed
  ended,   \* history: the end that is on file, until somebody retries
  twins,   \* history: this process has had two objects for the job
  missed,  \* history: a retry met a processor that was about to leave
  gap,     \* history: the last copy of the row did not get through
  budget   \* external events still to come

memory == <<objs, live>>
copies == <<inserts, table, clock>>
places == <<pc, at, then, got, ask>>
history == <<made, heard, ended, twins, missed, gap>>
vars == <<memory, file, log, copies, places, history, budget>>

Happened == {e \in Events : budget[e] < Budget[e]}
Spend(e) ==
  /\ budget[e] > 0
  /\ \E m \in Mixes : Happened \cup {e} \subseteq m
  /\ budget' = [budget EXCEPT ![e] = @ - 1]

(* The child was planned and is in memory; it is not persisted yet.  What  *)
(* it depends on has ended.                                                *)
Init ==
  /\ objs = <<NewJob>> /\ live = 1
  /\ file = NoRow /\ log = 0
  /\ inserts = {} /\ table = {} /\ clock = 0
  /\ pc = [a \in Actors |-> IF a = "request" THEN "file" ELSE IF a = "boot" THEN "up" ELSE "idle"]
  /\ at = [a \in Actors |-> IF a = "request" THEN 1 ELSE 0]
  /\ then = [a \in Actors |-> IF a = "request" THEN "kick" ELSE "idle"]
  /\ got = [a \in Actors |-> NoRow]
  /\ ask = "retry"
  /\ made = 0 /\ heard = 0
  /\ ended = NoEnd /\ twins = FALSE /\ missed = FALSE /\ gap = FALSE
  /\ budget = Budget

GoTo(a, place) == pc' = [pc EXCEPT ![a] = place]
Rest(a) == GoTo(a, "idle") /\ at' = [at EXCEPT ![a] = 0]
row(a) == objs[at[a]]

(* A goroutine changes its object and persists it. *)
Change(a, new, next) ==
  /\ objs' = [objs EXCEPT ![at[a]] = new]
  /\ GoTo(a, "file")
  /\ then' = [then EXCEPT ![a] = next]

-----------------------------------------------------------------------------
(* persistSCMJob. *)

(* persistSCMJobFile: the object as it is now, written beside the file and *)
(* renamed over it; a write that fails leaves the old one.                 *)
persistSCMJobFile(r) ==
  \/ /\ file' = r
     /\ ended' = EndOf(r)
     /\ UNCHANGED budget
  \/ /\ Spend("file")
     /\ UNCHANGED <<file, ended>>

WriteFile(a) ==
  /\ pc[a] = "file"
  /\ persistSCMJobFile(row(a))
  /\ GoTo(a, "copy")
  /\ UNCHANGED <<memory, log, copies, at, then, got, ask, made, heard, twins, missed, gap>>

(* Mutant: the row's own time, which an active row does not have. *)
finishedOfRow(r, now) == r.fin

(* An active row is stamped with the time of the write, so that the        *)
(* insert of a retry is newer than the end before it.                      *)
chFinished(r, now) == IF r.status \in Active THEN now ELSE r.fin

(* insertAsync: the caller waits for a place. *)
WriteCopy(a) ==
  /\ pc[a] = "copy"
  /\ Cardinality(inserts) < maxInFlightInserts
  /\ inserts' = inserts \cup {[ver |-> chFinished(row(a), clock + 1), row |-> row(a)]}
  /\ clock' = clock + 1
  /\ gap' = FALSE
  /\ then' = [then EXCEPT ![a] = "idle"]
  /\ IF then[a] = "idle" THEN Rest(a) ELSE GoTo(a, then[a]) /\ UNCHANGED at
  /\ UNCHANGED <<memory, file, log, table, got, ask, made, heard, ended, twins, missed,
                 budget>>

(* ReplacingMergeTree(finished_at): merges leave the newest row.  When they *)
(* happen is open; an older row is of interest only while it is active.    *)
newest(rows) == {x \in rows : \A y \in rows : y.ver <= x.ver}
active(rows) == {x \in rows : x.row.status \in Active}

(* insert: three attempts; a batch is dropped after them. *)
Insert(x) ==
  /\ inserts' = inserts \ {x}
  /\ \/ /\ LET rows == table \cup {x} IN table' = newest(rows) \cup active(rows)
        /\ UNCHANGED <<gap, budget>>
     \/ Spend("drop") /\ gap' = TRUE /\ UNCHANGED table
  /\ UNCHANGED <<memory, file, log, clock, places, made, heard, ended, twins, missed>>

-----------------------------------------------------------------------------
(* Rows that come into memory. *)

(* scmJobLive.Store of a row that was read: it replaces what is there.     *)
Store(r) ==
  /\ objs' = Append(objs, r)
  /\ live' = Len(objs) + 1
  /\ twins' = (twins \/ live # 0)
  /\ made' = r.posts /\ heard' = r.tail

(* getSCMJob for a request: from memory, else from the file. *)
Ask(e) ==
  /\ pc["request"] = "idle"
  /\ Spend(e)
  /\ ask' = e
  /\ IF live # 0
     THEN GoTo("request", "do") /\ at' = [at EXCEPT !["request"] = live] /\ UNCHANGED got
     ELSE /\ file # NoRow
          /\ GoTo("request", "store")
          /\ got' = [got EXCEPT !["request"] = file]
          /\ UNCHANGED at
  /\ UNCHANGED <<memory, file, log, copies, then, history>>

StoreAsked ==
  /\ pc["request"] = "store"
  /\ Store(got["request"])
  /\ got' = [got EXCEPT !["request"] = NoRow]
  /\ at' = [at EXCEPT !["request"] = Len(objs) + 1]
  /\ GoTo("request", "do")
  /\ UNCHANGED <<file, log, copies, then, ask, ended, missed, gap, budget>>

(* hydrateSCMJobsFromFiles: looks, reads, stores. *)
HydrateFile ==
  /\ pc["boot"] = "files"
  /\ IF live = 0 /\ file # NoRow
     THEN GoTo("boot", "storeFile") /\ got' = [got EXCEPT !["boot"] = file]
     ELSE GoTo("boot", "query") /\ UNCHANGED got
  /\ UNCHANGED <<memory, file, log, copies, at, then, ask, history, budget>>

StoreFile ==
  /\ pc["boot"] = "storeFile"
  /\ Store(got["boot"])
  /\ got' = [got EXCEPT !["boot"] = NoRow]
  /\ GoTo("boot", "query")
  /\ UNCHANGED <<file, log, copies, at, then, ask, ended, missed, gap, budget>>

(* The query does not wait for the merges: any active row of the job may   *)
(* come back, or none where a newer one has ended.                         *)
answers == active(table)
mergedAway == ~(newest(table) \subseteq answers)

(* scmJobFromCHRow *)
scmJobFromCHRow(x) == [x.row EXCEPT !.fin = x.ver]

(* hydrateSCMJobsFromCH: an active row, if there is one and memory has     *)
(* none; its file is written as well.                                      *)
HydrateCopy ==
  /\ pc["boot"] = "query"
  /\ \/ /\ live # 0 \/ mergedAway \/ table = {}
        /\ GoTo("boot", "recover")
        /\ UNCHANGED <<got, budget>>
     \/ /\ Spend("drop")
        /\ GoTo("boot", "recover")
        /\ UNCHANGED got
     \/ /\ live = 0
        /\ \E x \in answers : got' = [got EXCEPT !["boot"] = scmJobFromCHRow(x)]
        /\ GoTo("boot", "storeCopy")
        /\ UNCHANGED budget
  /\ UNCHANGED <<memory, file, log, copies, at, then, ask, history>>

StoreCopy ==
  /\ pc["boot"] = "storeCopy"
  /\ Store(got["boot"])
  /\ persistSCMJobFile(got["boot"])
  /\ got' = [got EXCEPT !["boot"] = NoRow]
  /\ GoTo("boot", "recover")
  /\ UNCHANGED <<log, copies, at, then, ask, missed, gap>>

(* Mutant: a running row is left to whoever is running it. *)
noneStuck(r) == FALSE

(* recoverStuckRunningSCMJobs: nothing runs yet. *)
stuck(r) == r.status = "running"

Recover ==
  /\ pc["boot"] = "recover"
  /\ IF live # 0 /\ stuck(objs[live])
     THEN /\ objs' = [objs EXCEPT ![live].status = "queued"]
          /\ at' = [at EXCEPT !["boot"] = live]
          /\ GoTo("boot", "file")
          /\ then' = [then EXCEPT !["boot"] = "dispatch"]
     ELSE GoTo("boot", "dispatch") /\ UNCHANGED <<objs, at, then>>
  /\ UNCHANGED <<live, file, log, copies, got, ask, history, budget>>

(* go processSCMJob: a second one returns at once (scmProcessing).  The    *)
(* pointer is taken here.                                                  *)
Kick(a, next) ==
  LET starts == pc["proc"] = "idle"
  IN  /\ pc' = [pc EXCEPT ![a] = next, !["proc"] = IF starts THEN "gate" ELSE @]
      /\ at' = [at EXCEPT ![a] = 0, !["proc"] = IF starts THEN live ELSE @]
      /\ missed' = (missed \/ "leave" \in {pc["proc"], then["proc"]})

(* dispatchQueuedNonStackSCMJobs *)
Dispatch ==
  /\ pc["boot"] = "dispatch"
  /\ IF live # 0 /\ objs[live].status = "queued"
     THEN Kick("boot", "up")
     ELSE /\ GoTo("boot", "up")
          /\ at' = [at EXCEPT !["boot"] = 0]
          /\ UNCHANGED missed
  /\ UNCHANGED <<memory, file, log, copies, then, got, ask, made, heard, ended, twins, gap,
                 budget>>

-----------------------------------------------------------------------------
(* The evidence. *)

(* finalizeJobEvidence: from the posts of all attempts. *)
finalizeJobEvidence(r) == [r EXCEPT !.evidence = [status |-> r.status, posts |-> r.posts]]

(* evidenceFromJob: what is there already is shown as it is. *)
evidenceFromJob(r) == IF r.evidence = NoEvidence THEN finalizeJobEvidence(r) ELSE r

(* appendEvidencePost *)
appendEvidencePost(r) == [r EXCEPT !.posts = @ + 1]

-----------------------------------------------------------------------------
(* Requests: each has its object. *)

(* cancelSCMJobWithReason: only a job that has not ended. *)
Cancel ==
  /\ pc["request"] = "do" /\ ask = "cancel"
  /\ IF row("request").status \in Active
     THEN /\ Change("request", [row("request") EXCEPT !.status = "cancelled", !.fin = clock + 1],
                    "idle")
          /\ clock' = clock + 1
          /\ UNCHANGED at
     ELSE Rest("request") /\ UNCHANGED <<objs, then, clock>>
  /\ UNCHANGED <<live, file, log, inserts, table, got, ask, history, budget>>

(* handleSCMJobSub, retry: whatever the row says. *)
Retry ==
  /\ pc["request"] = "do" /\ ask = "retry"
  /\ Change("request", [row("request") EXCEPT !.status = "queued", !.fin = 0], "kick")
  /\ ended' = NoEnd
  /\ UNCHANGED <<live, file, log, copies, at, got, ask, made, heard, twins, missed, gap, budget>>

RetryKick ==
  /\ pc["request"] = "kick"
  /\ Kick("request", "idle")
  /\ UNCHANGED <<memory, file, log, copies, then, got, ask, made, heard, ended, twins, gap,
                 budget>>

(* scmJobAPIViewWithOpts: the evidence is built when there is none, and    *)
(* stays in the row.                                                       *)
Look ==
  /\ pc["request"] = "do" /\ ask = "look"
  /\ objs' = [objs EXCEPT ![at["request"]] = evidenceFromJob(@)]
  /\ Rest("request")
  /\ UNCHANGED <<live, file, log, copies, then, got, ask, history, budget>>

-----------------------------------------------------------------------------
(* processAgentChild. *)

(* When the slot of its kind is there, the child runs unless it has ended. *)
Start ==
  /\ pc["proc"] = "gate"
  /\ IF row("proc").status \in Terminal
     THEN Rest("proc") /\ UNCHANGED <<objs, then>>
     ELSE Change("proc", [row("proc") EXCEPT !.status = "running"], "agent") /\ UNCHANGED at
  /\ UNCHANGED <<live, file, log, copies, got, ask, history, budget>>

(* Mutant: the sink is closed without a last snapshot. *)
closeOnly(r, tail) == r

(* The agent's box: its output goes to live.log, and when the sink is      *)
(* closed a snapshot goes to the row that memory has then.                 *)
applyLiveSummarySnap(r, tail) == [r EXCEPT !.tail = tail]

Box ==
  /\ pc["proc"] = "agent"
  /\ log' = log + 1
  /\ heard' = log'
  /\ objs' = [objs EXCEPT ![live] = applyLiveSummarySnap(@, log')]
  /\ GoTo("proc", "file")
  /\ then' = [then EXCEPT !["proc"] = "post"]
  /\ UNCHANGED <<live, file, copies, at, got, ask, made, ended, twins, missed, gap, budget>>

(* The agent posts to GitHub, through the object it was given. *)
Post ==
  /\ pc["proc"] = "post"
  /\ objs' = [objs EXCEPT ![at["proc"]] = appendEvidencePost(@)]
  /\ made' = made + 1
  /\ GoTo("proc", "end")
  /\ UNCHANGED <<live, file, log, copies, at, then, got, ask, heard, ended, twins, missed, gap,
                 budget>>

(* Mutant: whatever happened meanwhile, the agent has finished. *)
never(r) == FALSE

stopped(r) == r.status = "cancelled"

(* The row is looked up again; a cancelled one is left as it is. *)
Finish ==
  /\ pc["proc"] = "end"
  /\ at' = [at EXCEPT !["proc"] = live]
  /\ IF stopped(objs[live])
     THEN GoTo("proc", "leave") /\ UNCHANGED <<objs, clock, then>>
     ELSE /\ objs' = [objs EXCEPT ![live] =
                         finalizeJobEvidence([@ EXCEPT !.status = "completed", !.fin = clock + 1])]
          /\ GoTo("proc", "file")
          /\ then' = [then EXCEPT !["proc"] = "leave"]
          /\ clock' = clock + 1
  /\ UNCHANGED <<live, file, log, inserts, table, got, ask, history, budget>>

Leave ==
  /\ pc["proc"] = "leave"
  /\ Rest("proc")
  /\ UNCHANGED <<memory, file, log, copies, then, got, ask, history, budget>>

-----------------------------------------------------------------------------
(* Memory and the inserts on their way go with the process, and with the   *)
(* container the state directory where it is not mounted; the server       *)
(* answers again at once.                                                  *)
Crash ==
  /\ \/ Spend("crash") /\ UNCHANGED <<file, log>> /\ ended' = EndOf(file)
     \/ Spend("loss") /\ file' = NoRow /\ log' = 0 /\ ended' = NoEnd
  /\ objs' = <<>> /\ live' = 0
  /\ inserts' = {}
  /\ pc' = [a \in Actors |-> IF a = "boot" THEN "files" ELSE "idle"]
  /\ at' = [a \in Actors |-> 0]
  /\ then' = [a \in Actors |-> "idle"]
  /\ got' = [a \in Actors |-> NoRow]
  /\ ask' = "look"
  /\ made' = 0 /\ heard' = 0 /\ twins' = FALSE /\ missed' = FALSE /\ gap' = TRUE
  /\ UNCHANGED <<table, clock>>

Hydrate == HydrateFile \/ StoreFile \/ HydrateCopy \/ StoreCopy \/ Recover \/ Dispatch
Request == StoreAsked \/ Cancel \/ Retry \/ RetryKick \/ Look
Processor == Start \/ Box \/ Post \/ Finish \/ Leave
Persist(a) == WriteFile(a) \/ WriteCopy(a)

Next ==
  \/ Crash
  \/ \E e \in Asks : Ask(e)
  \/ Hydrate \/ Request \/ Processor
  \/ \E a \in Actors : Persist(a)
  \/ \E x \in inserts : Insert(x)

Spec == Init /\ [][Next]_vars

(* Goroutines go on, and an insert ends after three attempts of ten        *)
(* seconds.                                                                *)
Fairness ==
  /\ WF_vars(Hydrate) /\ WF_vars(Request) /\ WF_vars(Processor)
  /\ \A a \in Actors : SF_vars(Persist(a))
  /\ WF_vars(\E x \in inserts : Insert(x))
FairSpec == Spec /\ Fairness

-----------------------------------------------------------------------------
(* hydrateSCMJobsFromCH, "ReplacingMergeTree may lag — files are primary": *)
(* a job whose end is on file is in memory with that end, or not at all,   *)
(* until somebody retries it, although ClickHouse may still have it as     *)
(* running; through crashes and whoever asks for it while it is loaded.    *)
(* A process that has made two objects of the job is left out.             *)
EndIsFinal ==
  ended # NoEnd /\ ~twins /\ live # 0 => objs[live].status = ended

(* persistSCMJob, "so ReplacingMergeTree keeps latest": when nothing is    *)
(* being written and the last copy got through, the newest row of the      *)
(* table says what memory says, over retries and however the inserts       *)
(* overtook each other.                                                    *)
NewestIsCurrent ==
  /\ live # 0 /\ inserts = {} /\ ~gap /\ ~twins
  /\ \A a \in Actors : pc[a] \notin {"file", "copy"}
  => \A x \in newest(table) : x.row.status = objs[live].status

(* processAgentChild, docs/agent-taxonomy.md "Each child finalizes a       *)
(* versioned summary.evidence object": a child that ran to its end shows   *)
(* every post it has made, in this attempt and those before, with the      *)
(* status it has, and the output to its last line, whoever looked at it    *)
(* while it ran.                                                           *)
RowTellsAll ==
  LET r == objs[live]
  IN  live # 0 /\ ~twins /\ pc["proc"] = "idle" /\ r.status = "completed" =>
        r.evidence = [status |-> r.status, posts |-> made] /\ r.tail = heard

(* hydrateSCMJobsAndStacksOnBoot: a job that memory, its file or an active *)
(* row of ClickHouse still knows of ends, wherever the process dies and    *)
(* whatever it loses; a process that has made two objects of it, or a      *)
(* retry that met a processor about to leave, may leave it queued.         *)
StoredIsWorkedOff ==
  <>[](\/ live # 0 /\ objs[live].status \in Terminal
       \/ live = 0 /\ file = NoRow
       \/ twins \/ missed)

-----------------------------------------------------------------------------
(* What the safety properties rest on. *)

Statuses == {"absent"} \cup Active \cup Terminal
Evidences == [status : Statuses \cup {"none"}, posts : Nat]
Rows == [status : Statuses, fin : Nat, posts : Nat, tail : Nat, evidence : Evidences]
Copies == [ver : Nat, row : Rows]

Writing == {"file", "copy"}
PlacesOf ==
  [a \in Actors |->
     Writing \cup
     (IF a = "request" THEN {"idle", "store", "do", "kick"}
      ELSE IF a = "boot"
      THEN {"idle", "up", "files", "storeFile", "query", "storeCopy", "recover", "dispatch"}
      ELSE {"idle", "gate", "agent", "post", "end", "leave"})]
NextOf ==
  [a \in Actors |-> IF a = "request" THEN {"idle", "kick"}
                    ELSE IF a = "boot" THEN {"idle", "dispatch"}
                    ELSE {"idle", "agent", "post", "leave"}]

(* Rows, copies, places and times are of their kinds; a goroutine that     *)
(* works on the row has an object of this process.                         *)
TypeOK ==
  /\ objs \in Seq(Rows) /\ live \in 0..Len(objs)
  /\ file \in Rows /\ log \in Nat
  /\ inserts \subseteq Copies /\ table \subseteq Copies /\ clock \in Nat
  /\ DOMAIN pc = Actors /\ \A a \in Actors : pc[a] \in PlacesOf[a]
  /\ at \in [Actors -> 0..Len(objs)]
  /\ DOMAIN then = Actors /\ \A a \in Actors : then[a] \in NextOf[a]
  /\ got \in [Actors -> Rows]
  /\ ask \in Asks
  /\ made \in Nat /\ heard \in Nat /\ ended \in Terminal \cup {NoEnd}
  /\ twins \in BOOLEAN /\ missed \in BOOLEAN /\ gap \in BOOLEAN
  /\ budget \in [Events -> Nat]

(* Who works on the row has its object, and unless there are twins it is   *)
(* the one in memory.                                                      *)
ObjectInv ==
  /\ \A a \in Actors :
       pc[a] \in Writing \cup {"do", "kick", "gate", "agent", "post"} => at[a] # 0
  /\ pc["proc"] \in {"end", "leave"} => live # 0
  /\ live = 0 => \A a \in Actors : at[a] = 0
  /\ ~twins => \A a \in Actors : at[a] \in {0, live}

(* While memory has no row, what was read is what is on file.              *)
ReadInv ==
  live = 0 =>
    /\ ended = EndOf(file) /\ gap
    /\ pc["request"] = "store" => got["request"] = file
    /\ pc["boot"] = "storeFile" => got["boot"] = file
    /\ pc["boot"] \in {"query", "storeCopy"} => file = NoRow

AgentAtWork ==
  \/ pc["proc"] \in {"agent", "post"}
  \/ pc["proc"] \in Writing /\ then["proc"] \in {"agent", "post"}

(* A completed row has the evidence of all its posts, wherever it is kept; *)
(* no agent works on one.                                                  *)
Complete(r) ==
  r.status = "completed" => r.evidence = [status |-> "completed", posts |-> r.posts]

(* A row that was planned, and complete if it is completed. *)
Sound(r) == r.status # "absent" /\ Complete(r)

EvidenceInv ==
  /\ \A i \in 1..Len(objs) : Sound(objs[i])
  /\ file = NoRow \/ Sound(file)
  /\ pc["request"] = "store" => Sound(got["request"])
  /\ pc["boot"] \in {"storeFile", "storeCopy"} => Sound(got["boot"])
  /\ AgentAtWork => objs[at["proc"]].status # "completed"
  /\ live # 0 /\ ~twins => made = objs[live].posts /\ heard = objs[live].tail

Sent == inserts \cup table
Unsent == \E a \in Actors : pc[a] \in Writing

(* The end of r is newer than every copy sent, but for copies of that end. *)
Fresh(r) ==
  r.status \in Terminal =>
    \A x \in Sent : x.ver <= r.fin /\ (x.ver = r.fin => x.row.status = r.status)

(* Some copy of what memory says is not older than any other.              *)
Mirrored(r) ==
  \E z \in Sent : \A x \in Sent :
     /\ x.ver <= z.ver
     /\ x.ver = z.ver => x.row.status = r.status

(* Nothing is newer than the clock; a row that is still to be copied is    *)
(* fresh, and one that was is mirrored.                                    *)
CopyInv ==
  /\ \A x \in Sent : x.ver <= clock
  /\ \A i \in 1..Len(objs) : objs[i].fin <= clock
  /\ file.fin <= clock /\ \A a \in Actors : got[a].fin <= clock
  /\ live # 0 /\ ~twins =>
       /\ Unsent \/ pc["proc"] \in {"agent", "post", "end"} => Fresh(objs[live])
       /\ ~gap /\ ~Unsent => Mirrored(objs[live])

JobStoreInv ==
  ObjectInv /\ ReadInv /\ EndIsFinal /\ EvidenceInv /\ CopyInv

=============================================================================
