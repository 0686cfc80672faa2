------------------------------- MODULE Checkup -------------------------------
(***************************************************************************)
(* The checkup child of one run: the repository's own tests in docker.     *)
(* The plan comes from the tree of the pull request and is cut down by a   *)
(* policy, which notes what it drops.  An attempt opens a check run,       *)
(* starts a network and services, prepares the modules next to the tree,   *)
(* runs every step in a box of its own, stops what it started and          *)
(* publishes a conclusion.  Meanwhile the child may be cancelled (which    *)
(* removes its containers and closes its check in goroutines of their own) *)
(* and retried, the tree checked out anew, and the process may die; the    *)
(* next one first takes up the queued jobs and then removes every          *)
(* container of the instance.  A docker command may fail or run out of     *)
(* time, those that remove something too, and of these nobody is told.     *)
(*                                                                         *)
(* Environments, secrets, timeouts and resources of a plan are left out,   *)
(* and so are annotations.  A docker command is one step.                  *)
(***************************************************************************)
EXTENDS Naturals, Sequences, FiniteSets, SequencesExt

CONSTANTS
  Plans,        \* plans the tree may hold: image, services, steps
  MaxSteps,     \* checkupPlanMaxSteps
  MaxServices,  \* checkupPlanMaxServices
  Modules,      \* directories go.mod replaces, below the job layout
  Budget,       \* bound: how often each external event happens
  Mixes         \* the sets of external events that may happen together

CheckupEvents == {"fault", "cancel", "retry", "checkout", "boot"}

ASSUME CheckupAssumption ==
  /\ \A raw \in Plans : raw.steps \in Seq(ToSet(raw.steps))
  /\ MaxSteps \in Nat \ {0} /\ MaxServices \in Nat \ {0}
  /\ Budget \in [CheckupEvents -> Nat]
  /\ Mixes \subseteq SUBSET CheckupEvents

VARIABLES
  setup,     \* the plan, the preference, the proxy, the modules the host has
  status,    \* status of the child
  pc,        \* idle, open, docker, services, service, health, workspace, step,
             \* box, stop, publish, finish
  live,      \* the context of the attempt is not cancelled
  next,      \* the service or step that comes next
  result,    \* checkupRunResult.Status
  exited,    \* history: steps of the attempt that exited 0 in a box of theirs
  checkID,   \* the attempt has a check run
  check,     \* the check run: state, conclusion, drops, steps that exited 0
  files,     \* artifacts in the tree: none, empty, full
  modules,   \* the replaced modules in the layout: none, partial, ready
  svc,       \* running services
  boxes,     \* boxes of steps: live or left behind
  net,       \* the network of the job exists
  cleaning,  \* goroutines a cancel has started: teardown, closer
  reaping,   \* bootSandboxMaintenance is still to come
  spared,    \* history: what a crash or a command that failed may have left,
             \* as long as no removal has come through since
  remaining  \* external events still to come

docker == <<svc, boxes, net>>
tree == <<files, modules>>
attempt == <<live, next, result, exited, checkID>>
aside == <<cleaning, reaping, spared>>
checkupVars == <<setup, status, pc, attempt, check, tree, docker, aside, remaining>>

NoCheck == [state |-> "none", conclusion |-> "", drops |-> {}, exited |-> {}]

Happened == {e \in CheckupEvents : remaining[e] < Budget[e]}
Occurs(e) ==
  /\ remaining[e] > 0
  /\ \E mix \in Mixes : Happened \cup {e} \subseteq mix
  /\ remaining' = [remaining EXCEPT ![e] = @ - 1]

-----------------------------------------------------------------------------
(* The policy: intersectSpecWithPolicy.  A raw step has an id (<<>> if it  *)
(* has none), an argv (none, shell, denied, tool or phpstan) and a post    *)
(* condition: kind, path (for stdout_contains, the text).  A raw service   *)
(* has a key ("" if it is invalid), an image (allowed or denied), and what *)
(* tells that it is up: the image, a command, a refused command, or none.  *)

drop(part, i, why) == [part |-> part, at |-> i, why |-> why]

NoCondition == [kind |-> "", path |-> ""]

normalizePostCondition(post) ==
  CASE post.kind = "exit0" -> [post EXCEPT !.path = ""]
    [] post.kind = "checkstyle" /\ post.path # "unsafe" -> post
    [] post.kind = "stdout_contains" /\ post.path # "" -> post
    [] /\ post.kind \in {"junit", "artifact_exists"}
       /\ post.path \notin {"", "unsafe"} -> post
    [] OTHER -> NoCondition

(* normalizePHPStanStep: what phpstan prints is read as checkstyle. *)
normalizePHPStanStep(step) ==
  IF step.argv = "phpstan" /\ step.post.kind = "exit0"
  THEN [step EXCEPT !.post = [kind |-> "checkstyle", path |-> ""]]
  ELSE step

stepID(raw, i) == IF raw[i].id = <<>> THEN <<"step", i>> ELSE raw[i].id

(* Why a step cannot be kept after those kept so far, or "". *)
stepRefusal(raw, i, kept) ==
  CASE \E k \in 1..Len(kept) : kept[k].id = stepID(raw, i) -> "duplicate id"
    [] raw[i].argv = "none" -> "empty argv"
    [] raw[i].argv = "shell" -> "shell string"
    [] raw[i].argv = "denied" -> "binary denied"
    [] normalizePostCondition(raw[i].post) = NoCondition -> "missing post condition"
    [] OTHER -> ""

keptStep(raw, i) ==
  normalizePHPStanStep(
    [id |-> stepID(raw, i), argv |-> raw[i].argv,
     post |-> normalizePostCondition(raw[i].post)])

nothingKept == [kept |-> <<>>, drops |-> {}]
keep(acc, x) == [acc EXCEPT !.kept = Append(@, x)]
note(acc, part, i, why) == [acc EXCEPT !.drops = @ \cup {drop(part, i, why)}]
capped(acc) == \E d \in acc.drops : d.why = "cap"
indices(raw) == [i \in 1..Len(raw) |-> i]

(* Mutant: a step that repeats an id goes without a note. *)
stepsWithoutNote(raw) ==
  FoldLeft(LAMBDA acc, i :
             LET why == stepRefusal(raw, i, acc.kept)
             IN  IF capped(acc) \/ why = "duplicate id" THEN acc
                 ELSE IF Len(acc.kept) >= MaxSteps THEN note(acc, "step", i, "cap")
                 ELSE IF why = "" THEN keep(acc, keptStep(raw, i))
                 ELSE note(acc, "step", i, why),
           nothingKept, indices(raw))

(* Steps in their order: at the cap, noted once, everything that follows   *)
(* is dropped; a refused step is dropped and noted, another is kept.       *)
policeSteps(raw) ==
  FoldLeft(LAMBDA acc, i :
             LET why == stepRefusal(raw, i, acc.kept)
             IN  IF capped(acc) THEN acc
                 ELSE IF Len(acc.kept) >= MaxSteps THEN note(acc, "step", i, "cap")
                 ELSE IF why = "" THEN keep(acc, keptStep(raw, i))
                 ELSE note(acc, "step", i, why),
           nothingKept, indices(raw))

(* filterServiceHealthCmd: a refused command is none. *)
filterServiceHealthCmd(probe) == IF probe = "refused" THEN "none" ELSE probe

refusesService(raw, i, kept) ==
  \/ raw[i].key = "" \/ raw[i].image = "denied"
  \/ \E k \in 1..Len(kept) : kept[k].key = raw[i].key

policeServices(raw) ==
  FoldLeft(LAMBDA acc, i :
             LET service == [key |-> raw[i].key, probe |-> filterServiceHealthCmd(raw[i].probe)]
             IN  IF capped(acc) THEN acc
                 ELSE IF Len(acc.kept) >= MaxServices THEN note(acc, "service", i, "cap")
                 ELSE IF refusesService(raw, i, acc.kept) THEN note(acc, "service", i, "refused")
                 ELSE IF raw[i].probe = "refused"
                 THEN note(keep(acc, service), "service", i, "probe")
                 ELSE keep(acc, service),
           nothingKept, indices(raw))

(* Without an image that is allowed no step is left. *)
intersectSpecWithPolicy(raw) ==
  LET steps == policeSteps(raw.steps)
      services == policeServices(raw.services)
      none == raw.image = "denied"
  IN  [steps |-> IF none THEN <<>> ELSE steps.kept,
       services |-> services.kept,
       drops |-> steps.drops \cup services.drops
                 \cup (IF none THEN {drop("image", 0, "denied")} ELSE {})]

plan == intersectSpecWithPolicy(setup.raw)

-----------------------------------------------------------------------------
declares(post) == post.kind # "stdout_contains" /\ post.path \notin {"", "unsafe"}
Paths == {s.post.path : s \in {x \in UNION {ToSet(raw.steps) : raw \in Plans} :
                                declares(x.post)}}

CheckupInit ==
  /\ setup \in [raw : Plans, pref : {"off", "host", "docker"}, proxy : BOOLEAN,
                sources : SUBSET Modules]
  /\ setup.pref # "docker" => setup.proxy /\ setup.sources = {}
  /\ status = "queued"
  /\ pc = "idle"
  /\ live = FALSE /\ next = 1 /\ result = "" /\ exited = {} /\ checkID = FALSE
  /\ check = NoCheck
  /\ files = [p \in Paths |-> "none"]
  /\ modules = [m \in Modules |-> "none"]
  /\ svc = {} /\ boxes = 0 /\ net = FALSE
  /\ cleaning = {} /\ reaping = FALSE /\ spared = {}
  /\ remaining = Budget

(* runGraphChild: the child gets to run.  With checkup off, or outside     *)
(* docker, it is skipped.                                                  *)
Start ==
  /\ pc = "idle" /\ status = "queued"
  /\ IF setup.pref = "docker"
     THEN /\ status' = "running" /\ pc' = "open"
          /\ live' = TRUE /\ next' = 1 /\ result' = "passed" /\ exited' = {}
          /\ checkID' = FALSE
     ELSE status' = "skipped" /\ UNCHANGED <<pc, attempt>>
  /\ UNCHANGED <<setup, check, tree, docker, aside, remaining>>

(* runCheckupAgent: an attempt opens a check run of its own; an error      *)
(* leaves id 0 and nothing will be published.                              *)
OpenCheck ==
  /\ pc = "open"
  /\ \/ /\ check' = [NoCheck EXCEPT !.state = "open"]
        /\ checkID' = TRUE
        /\ UNCHANGED remaining
     \/ Occurs("fault") /\ UNCHANGED <<check, checkID>>
  /\ pc' = "docker"
  /\ UNCHANGED <<setup, status, live, next, result, exited, tree, docker, aside>>

Ends(outcome, place) == result' = outcome /\ pc' = place

(* runCheckupPlan: no step, or no docker. *)
CheckDocker ==
  /\ pc = "docker"
  /\ \/ plan.steps = <<>> /\ Ends("skipped", "publish") /\ UNCHANGED remaining
     \/ plan.steps # <<>> /\ Occurs("fault") /\ Ends("refused", "publish")
     \/ plan.steps # <<>> /\ pc' = "services" /\ UNCHANGED <<result, remaining>>
  /\ UNCHANGED <<setup, status, live, next, exited, checkID, check, tree, docker,
                 aside>>

(* startCheckupServices up to the network; with no service, a network of   *)
(* its own unless the proxy's is used.  Where no runtime is returned       *)
(* nothing is stopped, and a network made all the same stays.              *)
StartNetwork ==
  /\ pc = "services"
  /\ \/ /\ plan.services = <<>> /\ setup.proxy
        /\ pc' = "workspace" /\ UNCHANGED <<result, net, spared, remaining>>
     \/ /\ plan.services # <<>> \/ ~setup.proxy
        /\ \/ /\ live /\ net' = TRUE
              /\ pc' = IF plan.services = <<>> THEN "workspace" ELSE "service"
              /\ UNCHANGED <<result, spared, remaining>>
           \/ /\ IF live THEN Occurs("fault") ELSE UNCHANGED remaining
              /\ net' \in IF live THEN {net, TRUE} ELSE {net}
              /\ spared' = IF live THEN spared \cup {"network"} ELSE spared
              /\ Ends("failed", IF plan.services = <<>> THEN "stop" ELSE "publish")
  /\ UNCHANGED <<setup, status, live, next, exited, checkID, check, tree, svc, boxes,
                 cleaning, reaping>>

(* One service: docker run. *)
StartService ==
  /\ pc = "service"
  /\ LET up == svc \cup {plan.services[next].key}
     IN  \/ live /\ net /\ svc' = up /\ pc' = "health" /\ UNCHANGED <<result, remaining>>
         \/ /\ IF live /\ net THEN Occurs("fault") ELSE UNCHANGED remaining
            /\ svc' \in IF live /\ net THEN {svc, up} ELSE {svc}
            /\ Ends("failed", "stop")
  /\ UNCHANGED <<setup, status, live, next, exited, checkID, check, tree, boxes, net, aside>>

(* waitCheckupServiceHealthy: a service that nothing can tell is up, that  *)
(* is gone or not healthy in time ends the attempt.                        *)
AwaitHealthy ==
  /\ pc = "health"
  /\ LET s == plan.services[next]
         fine == live /\ s.key \in svc /\ s.probe # "none"
         last == next = Len(plan.services)
     IN  \/ /\ fine
            /\ pc' = IF last THEN "workspace" ELSE "service"
            /\ next' = IF last THEN 1 ELSE next + 1
            /\ UNCHANGED <<result, remaining>>
         \/ /\ IF fine THEN Occurs("fault") ELSE UNCHANGED remaining
            /\ Ends("failed", "stop")
            /\ UNCHANGED next
  /\ UNCHANGED <<setup, status, live, exited, checkID, check, tree, docker, aside>>

(* prepareCheckupWorkspace: a module directory with a go.mod counts as     *)
(* there; another is copied from the host, and a copy that fails leaves    *)
(* what it had copied.  What stays unresolved blocks the attempt.          *)
Workspace ==
  /\ pc = "workspace"
  /\ \/ /\ modules' = [m \in Modules |->
             IF modules[m] = "none" /\ m \in setup.sources THEN "ready" ELSE modules[m]]
        /\ IF \E m \in Modules : modules'[m] = "none"
           THEN Ends("blocked", "stop") ELSE pc' = "step" /\ UNCHANGED result
        /\ UNCHANGED remaining
     \/ \E m \in Modules :
          /\ modules[m] = "none" /\ m \in setup.sources
          /\ Occurs("fault")
          /\ modules' = [modules EXCEPT ![m] = "partial"]
          /\ Ends("blocked", "stop")
  /\ UNCHANGED <<setup, status, live, next, exited, checkID, check, files, docker,
                 aside>>

(* Every step is run, whatever became of those before. *)
Advance(ok) ==
  /\ result' = IF ok THEN result ELSE "failed"
  /\ IF next = Len(plan.steps)
     THEN pc' = "stop" /\ UNCHANGED next
     ELSE pc' = "step" /\ next' = next + 1

(* RunOnce: the box of a step.  prepareAIJobNetwork makes the network if   *)
(* it is not there; another network must be there still.                   *)
RunBox ==
  /\ pc = "step"
  /\ LET proxied == plan.services = <<>> /\ setup.proxy
         fine == live /\ (net \/ proxied)
     IN  /\ net' = (net \/ (live /\ proxied))
         /\ \/ /\ fine
               /\ boxes' = boxes + 1
               /\ pc' = "box"
               /\ UNCHANGED <<next, result, remaining>>
            \/ /\ IF fine THEN Occurs("fault") ELSE UNCHANGED remaining
               /\ boxes' \in IF fine THEN {boxes, boxes + 1} ELSE {boxes}
               /\ Advance(FALSE)
  /\ UNCHANGED <<setup, status, live, exited, checkID, check, tree, svc, aside>>

(* Mutant: the artifact is enough. *)
artifactDecides(post, exit0, said, file) ==
  CASE post.kind = "junit" -> file = "full"
    [] post.kind = "artifact_exists" -> file # "none"
    [] OTHER -> exit0

(* A step that exits 0 must also have left or said what it declares; an    *)
(* empty report is a false green.  Checkstyle only asks for exit 0.        *)
evaluatePostCondition(post, exit0, said, file) ==
  /\ exit0
  /\ post.kind = "junit" => file = "full"
  /\ post.kind = "artifact_exists" => file # "none"
  /\ post.kind = "stdout_contains" => said

(* The step ends: it may leave an artifact at its path, whatever its exit  *)
(* code.  It cannot exit 0 when its box is gone or its context cancelled.  *)
EndStep ==
  /\ pc = "box"
  /\ LET post == plan.steps[next].post
     IN  \E exit0, said \in BOOLEAN, made \in {"none", "empty", "full"} :
           /\ exit0 => live /\ boxes > 0
           /\ ~declares(post) => made = "none"
           /\ files' = IF made = "none" THEN files ELSE [files EXCEPT ![post.path] = made]
           /\ exited' = IF exit0 THEN exited \cup {next} ELSE exited
           /\ Advance(evaluatePostCondition(post, exit0, said,
                        IF declares(post) THEN files'[post.path] ELSE "none"))
  /\ boxes' = IF boxes > 0 THEN boxes - 1 ELSE 0
  /\ UNCHANGED <<setup, status, live, checkID, check, modules, svc, net, aside, remaining>>

Sweep == svc' = {} /\ boxes' = 0

(* Docker cannot be reached, lists nothing, removes some only, or is not   *)
(* through in time.                                                        *)
SweepFails(left) ==
  /\ Occurs("fault")
  /\ svc' \in SUBSET svc /\ boxes' \in 0..boxes
  /\ spared' = spared \cup left

(* The containers of the job, then its network. *)
RemoveAll ==
  \/ Sweep /\ net' = FALSE /\ spared' = {} /\ UNCHANGED remaining
  \/ SweepFails({"containers", "network"}) /\ net' \in {net, FALSE}

(* Mutant: only the services are removed that are known by name. *)
stopTheNamed ==
  svc' = {} /\ net' = FALSE /\ spared' = {} /\ UNCHANGED <<boxes, remaining>>

(* stopCheckupServices: the services by name, then every container with    *)
(* the label of the job, then the network; the errors are dropped.         *)
stopCheckupServices == RemoveAll

Stop ==
  /\ pc = "stop"
  /\ stopCheckupServices
  /\ pc' = "publish"
  /\ UNCHANGED <<setup, status, attempt, check, tree, cleaning, reaping>>

conclusion(outcome) ==
  CASE outcome = "passed" -> "success"
    [] outcome = "failed" -> "failure"
    [] OTHER -> "neutral"

(* publishCheckupAnnotations with formatCheckupCheckSummary; an error is   *)
(* ignored.                                                                *)
Publish ==
  /\ pc = "publish"
  /\ \/ /\ checkID
        /\ check' = [state |-> "done", conclusion |-> conclusion(result),
                     drops |-> plan.drops, exited |-> exited]
        /\ UNCHANGED remaining
     \/ /\ IF checkID THEN Occurs("fault") ELSE UNCHANGED remaining
        /\ UNCHANGED check
  /\ pc' = "finish"
  /\ UNCHANGED <<setup, status, attempt, tree, docker, aside>>

(* The end of runGraphChild. *)
Finish ==
  /\ pc = "finish"
  /\ status' = CASE status = "cancelled" -> "cancelled"
                 [] status # "cancelled" /\ result = "failed" -> "failed"
                 [] OTHER -> "completed"
  /\ pc' = "idle" /\ live' = FALSE
  /\ UNCHANGED <<setup, next, result, exited, checkID, check, tree, docker, aside,
                 remaining>>

-----------------------------------------------------------------------------
(* What happens meanwhile.                                                 *)

(* cancelSCMJobWithReason: the context is cancelled, and two goroutines    *)
(* remove the containers and close the check.                              *)
Cancel ==
  /\ status \in {"queued", "running"}
  /\ Occurs("cancel")
  /\ status' = "cancelled"
  /\ live' = FALSE
  /\ cleaning' = {"teardown", "closer"}
  /\ UNCHANGED <<setup, pc, next, result, exited, checkID, check, tree, docker, reaping,
                 spared>>

(* teardownJobContainers and removeJobInternalNetwork, in fifteen seconds; *)
(* nobody asks whether the job runs again by now, nor whether it worked.   *)
Teardown ==
  /\ "teardown" \in cleaning
  /\ cleaning' = cleaning \ {"teardown"}
  /\ RemoveAll
  /\ UNCHANGED <<setup, status, pc, attempt, check, tree, reaping>>

CloseCheck ==
  /\ "closer" \in cleaning
  /\ cleaning' = cleaning \ {"closer"}
  /\ check' = IF check.state = "none" THEN check
              ELSE [NoCheck EXCEPT !.state = "done", !.conclusion = "cancelled"]
  /\ UNCHANGED <<setup, status, pc, attempt, tree, docker, reaping, spared, remaining>>

(* POST retry: the child is queued again; if its goroutine is still at     *)
(* work, that one goes on and has the last word.                           *)
Retry ==
  /\ Occurs("retry")
  /\ status' = "queued"
  /\ UNCHANGED <<setup, pc, attempt, check, tree, docker, aside>>

(* The prepare child is retried: removeSCMJobCheckout takes the layout     *)
(* away, prepareSCMWorktree makes a new one.                               *)
Recheckout ==
  /\ Occurs("checkout")
  /\ files' = [p \in Paths |-> "none"]
  /\ modules' = [m \in Modules |-> "none"]
  /\ UNCHANGED <<setup, status, pc, attempt, check, docker, aside>>

(* The process dies: containers and network stay.  hydrateSCMOnBoot queues *)
(* what was running, and main calls bootSandboxMaintenance after it.       *)
Crash ==
  /\ Occurs("boot")
  /\ status' = IF status = "running" THEN "queued" ELSE status
  /\ pc' = "idle" /\ live' = FALSE
  /\ cleaning' = {} /\ reaping' = TRUE
  /\ spared' = spared \cup {"network"}
  /\ UNCHANGED <<setup, next, result, exited, checkID, check, tree, docker>>

(* reapOrphanJobContainers: every container of the instance, new ones too, *)
(* as far as it comes in thirty seconds; it is not tried again.            *)
Reap ==
  /\ reaping
  /\ reaping' = FALSE
  /\ \/ Sweep /\ spared' = spared \ {"containers"} /\ UNCHANGED remaining
     \/ SweepFails({"containers"})
  /\ UNCHANGED <<setup, status, pc, attempt, check, tree, net, cleaning>>

-----------------------------------------------------------------------------
Attempt ==
  \/ OpenCheck \/ CheckDocker \/ StartNetwork \/ StartService \/ AwaitHealthy
  \/ Workspace \/ RunBox \/ EndStep \/ Stop \/ Publish \/ Finish

CheckupNext ==
  \/ Start \/ Attempt
  \/ Cancel \/ Teardown \/ CloseCheck \/ Retry \/ Recheckout \/ Crash \/ Reap

CheckupSpec == CheckupInit /\ [][CheckupNext]_checkupVars

-----------------------------------------------------------------------------
(* runCheckupAgent: a check that shows success was published by an attempt *)
(* in which every step the policy kept exited 0 in its own box, whatever   *)
(* was cancelled, torn down, reaped or started over around it.             *)
PassIsEarned ==
  check.conclusion = "success" =>
    plan.steps # <<>> /\ check.exited = 1..Len(plan.steps)

(* intersectSpecWithPolicy, "drops are always surfaced so a silently       *)
(* truncated plan cannot read as 'covered everything'": a published check  *)
(* names every step of the plan that is not run, or the cap before it.     *)
Acceptable(i) == stepRefusal(setup.raw.steps, i, <<>>) = ""
Runs(i) ==
  LET id(j) == stepID(setup.raw.steps, j)
  IN  /\ Acceptable(i) /\ \E k \in 1..Len(plan.steps) : plan.steps[k].id = id(i)
      /\ ~\E j \in 1..(i - 1) : Acceptable(j) /\ id(j) = id(i)
Covers(d, i) ==
  \/ d.part = "image"
  \/ d.part = "step" /\ d.at = i
  \/ d.part = "step" /\ d.why = "cap" /\ d.at < i

DropsAreShown ==
  check.state = "done" /\ check.conclusion # "cancelled" =>
    \A i \in 1..Len(setup.raw.steps) : Runs(i) \/ \E d \in check.drops : Covers(d, i)

(* stopCheckupServices, teardownJobContainers, reapOrphanJobContainers:    *)
(* when nobody works on the job any more, none of its containers is left,  *)
(* unless a removal has failed and none has come through since, and no     *)
(* network, unless besides that a crash has left it or the command that    *)
(* made it failed.                                                         *)
NothingLeftBehind ==
  pc = "idle" /\ cleaning = {} /\ ~reaping =>
    /\ (svc = {} /\ boxes = 0) \/ "containers" \in spared
    /\ net => "network" \in spared
=============================================================================
