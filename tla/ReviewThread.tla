---------------------------- MODULE ReviewThread ----------------------------
(***************************************************************************)
(* The inline comments OPA Review keeps on one pull request.  A review     *)
(* notes the commit it checked out, asks the agent for findings, computes  *)
(* which earlier findings lie outside the commits that are new since, and  *)
(* then syncs the thread: it lists the comments, plans, closes, updates    *)
(* and creates, one call to GitHub at a time.  A push may supersede a      *)
(* review while it syncs; nothing stops the goroutine, so the syncs of two *)
(* reviews interleave, and any call may fail.                              *)
(*                                                                         *)
(* A comment is identified by its place in the thread (GitHub lists oldest *)
(* first).  Its key stands for the hash of path, rule and text, so it      *)
(* fixes the file; the line is not part of it, and a review is free to     *)
(* report one key at several lines, or one finding twice.                  *)
(***************************************************************************)
EXTENDS Naturals, Sequences, FiniteSets, SequencesExt

CONSTANTS
  Keys,         \* finding keys
  Files,        \* files of the pull request
  FileOf,       \* the file of a key
  Lines,        \* lines of the files
  Reports,      \* the lists of findings the agent may report
  NumReviews,   \* reviews that may be enqueued
  NumPushes,    \* commits pushed after the first
  Incremental,  \* prefs.IncrementalReview
  MaxComments,  \* bound: comments in the thread
  Budget,       \* bound: calls that fail, comments an automatic fix closes
  Mixes         \* the sets of those that may happen together

Reviews == 1..NumReviews
Findings == [key : Keys, line : Lines]
Events == {"fault", "fix"}

ASSUME ConstantsAssumption ==
  /\ FileOf \in [Keys -> Files]
  /\ Lines \subseteq Nat
  /\ Reports \subseteq Seq(Findings)
  /\ NumReviews \in Nat /\ NumPushes \in Nat /\ MaxComments \in Nat
  /\ Budget \in [Events -> Nat]
  /\ Mixes \subseteq SUBSET Events
  /\ Incremental \in BOOLEAN

NoReport == <<>>
NoPlan == [close |-> {}, update |-> {}, create |-> {}]

VARIABLES
  head,       \* commits pushed so far
  touched,    \* the files each commit changes
  thread,     \* the inline comments: key, line, not marked as superseded
  analyzed,   \* scmPRReviewState: the commit last checked out, 0 if none
  pc,         \* reviews: none, checkout, agent, window, list, sync, inline, done
  sha,        \* reviews: CommitSHA
  base,       \* reviews: previous_analyzed_sha, 0 if none
  report,     \* reviews: what the agent found
  carried,    \* reviews: carried_finding_keys
  plan,       \* reviews: opaReviewCommentPlan, what is left of it
  cancelled,  \* reviews whose run is cancelled
  budget,     \* faults and fixes still to come
  disturbed,  \* history: reviews during whose sync a call failed or somebody
              \* else wrote or pushed
  promised    \* history: the report of the last sync nothing disturbed, until
              \* anybody writes or pushes again

github == <<head, touched>>
reviewRows == <<sha, base>>
history == <<disturbed, promised>>
threadVars == <<github, thread, analyzed, pc, reviewRows, report, carried, plan, cancelled,
          budget, history>>

ThreadInit ==
  /\ head = 1
  /\ touched = <<Files>>
  /\ thread = <<>>
  /\ analyzed = 0
  /\ pc = [r \in Reviews |-> "none"]
  /\ sha = [r \in Reviews |-> 0]
  /\ base = [r \in Reviews |-> 0]
  /\ report = [r \in Reviews |-> NoReport]
  /\ carried = [r \in Reviews |-> {}]
  /\ plan = [r \in Reviews |-> NoPlan]
  /\ cancelled = {}
  /\ budget = Budget
  /\ disturbed = {}
  /\ promised = NoReport

GoTo(r, place) == pc' = [pc EXCEPT ![r] = place]
InFlight(r) == pc[r] \notin {"none", "done"}

Happened == {e \in Events : budget[e] < Budget[e]}
Spend(e) ==
  /\ budget[e] > 0
  /\ \E mix \in Mixes : Happened \cup {e} \subseteq mix
  /\ budget' = [budget EXCEPT ![e] = @ - 1]

(* A call of r fails. *)
Fails(r) ==
  /\ Spend("fault")
  /\ disturbed' = disturbed \cup {r}
  /\ UNCHANGED promised
Works == UNCHANGED <<budget, history>>

(* Somebody (a review, or 0 for a push or a fix) changes what the others   *)
(* look at.                                                                *)
Stirs(who) ==
  /\ disturbed' = disturbed \cup
       {r \in Reviews \ {who} : pc[r] \in {"window", "list", "sync", "inline"}}
  /\ promised' = NoReport
Writes(r) == Stirs(r) /\ UNCHANGED budget

-----------------------------------------------------------------------------
(* Pushes and reviews.                                                     *)

(* A commit that changes the files fs.  GitHub moves the comments in them: *)
(* all those at a line go to the same line.                                *)
Push(fs) ==
  /\ head < NumPushes + 1
  /\ head' = head + 1
  /\ touched' = Append(touched, fs)
  /\ \E move \in [Lines -> Lines] :
       thread' = [i \in 1..Len(thread) |->
                    IF FileOf[thread[i].key] \in fs
                    THEN [thread[i] EXCEPT !.line = move[@]]
                    ELSE thread[i]]
  /\ Stirs(0)
  /\ UNCHANGED <<analyzed, pc, reviewRows, report, carried, plan, cancelled, budget>>

(* enqueuePRRun for the head: in-flight runs of other commits are          *)
(* cancelled.                                                              *)
Enqueue(r) ==
  /\ pc[r] = "none"
  /\ \A q \in Reviews : q < r => pc[q] # "none"
  /\ \A q \in Reviews : InFlight(q) => sha[q] # head
  /\ sha' = [sha EXCEPT ![r] = head]
  /\ cancelled' = cancelled \cup {q \in Reviews : InFlight(q)}
  /\ GoTo(r, "checkout")
  /\ UNCHANGED <<github, thread, analyzed, base, report, carried, plan, budget,
                 history>>

(* A child that has not begun when its run is cancelled never does.        *)
Dropped(r) ==
  /\ pc[r] \in {"checkout", "agent"}
  /\ r \in cancelled
  /\ GoTo(r, "done")
  /\ UNCHANGED <<github, thread, analyzed, reviewRows, report, carried, plan, cancelled,
                 budget, history>>

(* The prepare child: recordAnalyzedSHA with lookupPreviousAnalyzedSHA.    *)
(* The commit counts as analyzed from here on, whatever becomes of the     *)
(* review.                                                                 *)
Checkout(r) ==
  /\ pc[r] = "checkout"
  /\ base' = [base EXCEPT ![r] = analyzed]
  /\ analyzed' = sha[r]
  /\ GoTo(r, "agent")
  /\ UNCHANGED <<github, thread, sha, report, carried, plan, cancelled, budget,
                 history>>

(* runCursorAIReview: the findings of the whole pull request, or none when *)
(* there is no key, no agent or no diff.                                   *)
Review(r) ==
  /\ pc[r] = "agent"
  /\ \E f \in Reports : report' = [report EXCEPT ![r] = f]
  /\ GoTo(r, "window")
  /\ UNCHANGED <<github, thread, analyzed, reviewRows, carried, plan, cancelled, budget,
                 history>>

-----------------------------------------------------------------------------
(* What a review carries forward and what it plans.                        *)

(* githubCompareDiff and diffPathsFromUnified: the files that changed.     *)
diffPaths(from, to) == UNION {touched[n] : n \in (from + 1)..to}

(* Mutant: the keys of the touched files are carried. *)
carriesTheTouched(prior, paths) ==
  {c.key : c \in {d \in ToSet(prior) : FileOf[d.key] \in paths}}

computeCarriedForwardKeys(prior, paths) ==
  {c.key : c \in {d \in ToSet(prior) : FileOf[d.key] \notin paths}}

Compares(r) == Incremental /\ base[r] # 0 /\ diffPaths(base[r], sha[r]) # {}

(* populateCarriedFindingKeys.  Nothing is carried when there is no base,  *)
(* no difference, or when GitHub does not answer.                          *)
Window(r) ==
  /\ pc[r] = "window"
  /\ \/ /\ Works
        /\ carried' = [carried EXCEPT ![r] =
             IF Compares(r)
             THEN computeCarriedForwardKeys(thread, diffPaths(base[r], sha[r]))
             ELSE {}]
     \/ Compares(r) /\ Fails(r) /\ UNCHANGED carried
  /\ GoTo(r, "list")
  /\ UNCHANGED <<github, thread, analyzed, reviewRows, report, plan, cancelled>>

(* planOPAReviewCommentActions: the first comment of a key stands for it,  *)
(* and the findings are taken one by one.  A finding at the comment's line *)
(* keeps the comment, and rewrites it if it is superseded; at another line *)
(* it gets a new comment and the old one is closed, whatever another       *)
(* finding of the same key says; a finding without a comment gets one.  A  *)
(* comment without a finding is closed, unless it is carried or closed     *)
(* already.                                                                *)
first(prior, k) ==
  CHOOSE i \in 1..Len(prior) :
    prior[i].key = k /\ \A j \in 1..(i - 1) : prior[j].key # k

known(prior) == {prior[i].key : i \in 1..Len(prior)}
met(f, prior) == {n \in 1..Len(f) : f[n].key \in known(prior)}
moved(f, prior) == {n \in met(f, prior) : prior[first(prior, f[n].key)].line # f[n].line}

(* Mutant: a comment is kept whatever its text says by now. *)
noneStale(f, prior) == {}

stale(f, prior) ==
  {n \in met(f, prior) \ moved(f, prior) : ~prior[first(prior, f[n].key)].open}

planOPAReviewCommentActions(f, prior, keep) ==
  LET reported == {f[n].key : n \in 1..Len(f)}
      gone == {k \in known(prior) \ (reported \cup keep) : prior[first(prior, k)].open}
  IN  [close |-> {first(prior, k) : k \in gone},
       update |-> {[finding |-> n, at |-> first(prior, f[n].key), open |-> n \notin moved(f, prior)] :
                     n \in stale(f, prior) \cup moved(f, prior)},
       create |-> ((1..Len(f)) \ met(f, prior)) \cup moved(f, prior)]

(* What GitHub answers to a list of the comments, all on one page: all of  *)
(* them, or an error.                                                      *)
githubListPRReviewComments == {thread, <<>>}

(* collectPriorOPAReviewComments and the plan; a list that fails is taken  *)
(* for an empty thread.                                                    *)
List(r) ==
  /\ pc[r] = "list"
  /\ \E prior \in githubListPRReviewComments :
       /\ IF prior = thread THEN Works ELSE Fails(r)
       /\ plan' = [plan EXCEPT ![r] =
            planOPAReviewCommentActions(report[r], prior, carried[r])]
  /\ GoTo(r, "sync")
  /\ UNCHANGED <<github, thread, analyzed, reviewRows, report, carried, cancelled>>

-----------------------------------------------------------------------------
(* postOPAReviewFindings: the plan is carried out.                         *)

(* The comment at place i is rewritten by r, or GitHub refuses; the sync   *)
(* goes on in both cases.                                                  *)
Rewrites(r, i, open) ==
  \/ Writes(r) /\ thread' = [thread EXCEPT ![i].open = open]
  \/ Fails(r) /\ UNCHANGED thread

(* closeOPAReviewComment for plan.Close, in the order of a Go map. *)
Close(r) ==
  /\ pc[r] = "sync"
  /\ \E i \in plan[r].close :
       Rewrites(r, i, FALSE) /\ plan' = [plan EXCEPT ![r].close = @ \ {i}]
  /\ UNCHANGED <<github, analyzed, pc, reviewRows, report, carried, cancelled>>

(* n comes before all others of S. *)
Earliest(n, S) == n \in S /\ \A m \in S : n <= m

(* plan.Update, in the order of the findings: rewrite in place, or close   *)
(* what has moved.                                                         *)
Update(r) ==
  /\ pc[r] = "sync"
  /\ plan[r].close = {}
  /\ \E u \in plan[r].update :
       /\ Earliest(u.finding, {v.finding : v \in plan[r].update})
       /\ Rewrites(r, u.at, u.open)
       /\ plan' = [plan EXCEPT ![r].update = @ \ {u}]
  /\ UNCHANGED <<github, analyzed, pc, reviewRows, report, carried, cancelled>>

Rewritten(r) == pc[r] = "sync" /\ plan[r].close = {} /\ plan[r].update = {}

(* The sync of r is over, and nobody looks at its report any more.         *)
Ended(r) ==
  /\ promised' = IF r \in disturbed THEN NoReport ELSE report[r]
  /\ report' = [report EXCEPT ![r] = NoReport]
  /\ carried' = [carried EXCEPT ![r] = {}]
  /\ plan' = [plan EXCEPT ![r] = NoPlan]
  /\ GoTo(r, "done")

DisturbsOthers(r) == disturbed' = disturbed \cup
  {q \in Reviews \ {r} : pc[q] \in {"window", "list", "sync", "inline"}}

(* The findings with the numbers S, in their order, and a comment on one.  *)
Ordered(S) ==
  {s \in [1..Cardinality(S) -> S] : \A i, j \in DOMAIN s : i < j => s[i] < s[j]}
Comment(c) == [key |-> c.key, line |-> c.line, open |-> TRUE]

(* One review with the comments new. *)
githubCreatePRReview(new) ==
  /\ Len(thread) + Len(new) <= MaxComments
  /\ thread' = thread \o new

(* publishPRReview with the new comments: one review for all of them.  It  *)
(* is refused when the run is cancelled, and may fail for one of them.     *)
Create(r) ==
  /\ Rewritten(r)
  /\ LET new == plan[r].create
     IN  \/ /\ new = {}
            /\ Ended(r) /\ UNCHANGED <<thread, disturbed, budget>>
         \/ /\ new # {} /\ r \notin cancelled
            /\ \E s \in Ordered(new) :
                 githubCreatePRReview([i \in 1..Len(s) |-> Comment(report[r][s[i]])])
            /\ Ended(r) /\ DisturbsOthers(r) /\ UNCHANGED budget
         \/ /\ new # {}
            /\ IF r \in cancelled THEN Works ELSE Fails(r)
            /\ GoTo(r, "inline")
            /\ UNCHANGED <<thread, report, carried, plan>>
  /\ UNCHANGED <<github, analyzed, reviewRows, cancelled>>

(* One comment on its own. *)
githubPRInlineComment(c) ==
  /\ Len(thread) < MaxComments
  /\ thread' = Append(thread, c)

(* What the review could not carry is posted comment by comment, and       *)
(* nothing asks for a cancel any more.                                     *)
Inline(r) ==
  /\ pc[r] = "inline"
  /\ \E n \in plan[r].create :
       /\ Earliest(n, plan[r].create)
       /\ \/ Writes(r) /\ githubPRInlineComment(Comment(report[r][n]))
          \/ Fails(r) /\ UNCHANGED thread
       /\ plan' = [plan EXCEPT ![r].create = @ \ {n}]
  /\ UNCHANGED <<github, analyzed, pc, reviewRows, report, carried, cancelled>>

Inlined(r) ==
  /\ pc[r] = "inline"
  /\ plan[r].create = {}
  /\ Ended(r)
  /\ UNCHANGED <<github, thread, analyzed, reviewRows, cancelled, budget, disturbed>>

(* closeOPAReviewFindingsByKeys after an automatic fix has landed, one     *)
(* comment at a time.                                                      *)
FixCloses(i) ==
  /\ Spend("fix")
  /\ thread[i].open
  /\ thread' = [thread EXCEPT ![i].open = FALSE]
  /\ Stirs(0)
  /\ UNCHANGED <<github, analyzed, pc, reviewRows, report, carried, plan, cancelled>>

-----------------------------------------------------------------------------
Sync(r) ==
  Window(r) \/ List(r) \/ Close(r) \/ Update(r) \/ Create(r) \/ Inline(r) \/ Inlined(r)

ThreadNext ==
  \/ \E fs \in (SUBSET Files) \ {{}} : Push(fs)
  \/ \E r \in Reviews : Enqueue(r) \/ Dropped(r) \/ Checkout(r) \/ Review(r) \/ Sync(r)
  \/ \E i \in 1..Len(thread) : FixCloses(i)

ThreadSpec == ThreadInit /\ [][ThreadNext]_threadVars

-----------------------------------------------------------------------------
(* postOPAReviewFindings: after a sync that nobody disturbed and in which  *)
(* no call failed, every finding the review reported has an open comment   *)
(* at its line, whatever failed, overlapped, was cancelled, moved, was     *)
(* closed or came back before.  A key reported at several lines may lose   *)
(* the comment of one of them; the others have theirs.                     *)
Twins(f, n) == {m \in 1..Len(f) : f[m].key = f[n].key /\ f[m].line # f[n].line}
HasOpen(c) == \E i \in 1..Len(thread) : thread[i] = Comment(c)
ReportedIsOpen ==
  \A n \in 1..Len(promised) :
    \/ HasOpen(promised[n])
    \/ /\ Twins(promised, n) # {}
       /\ \A m \in Twins(promised, n) : HasOpen(promised[m])

(* populateCarriedFindingKeys, "so planOPAReviewCommentActions will not    *)
(* mass-Close them", and the plan: an incremental sync closes a comment    *)
(* only when its file has changed since the commit that was analyzed       *)
(* before, or when the review reports the finding, at another line.        *)
ReportedLines(r, k) == {report[r][n].line : n \in {m \in 1..Len(report[r]) : report[r][m].key = k}}
ClosedForCause ==
  [][\A r \in Reviews, i \in 1..Len(thread) :
       /\ pc[r] = "sync" /\ plan'[r] # plan[r] /\ r \notin disturbed
       /\ thread[i].open /\ ~thread'[i].open
       => LET k == thread[i].key
          IN  IF ReportedLines(r, k) # {}
              THEN \E l \in ReportedLines(r, k) : l # thread[i].line
              ELSE Compares(r) => FileOf[k] \in diffPaths(base[r], sha[r])]_threadVars
=============================================================================
