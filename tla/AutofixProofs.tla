---------------------------- MODULE AutofixProofs ----------------------------
(* Proofs about Autofix for any cloud children, fixes, findings and        *)
(* budgets of external events: what is landed has passed the gate, a job   *)
(* opens one pull request, and a drained job pushes nothing more.          *)
EXTENDS Autofix, FiniteSetTheorems, TLAPS

(* Type correctness. *)

LEMMA ConstantFacts ==
  /\ Cloud \subseteq Jobs /\ Fixes \subseteq Jobs
  /\ \A j \in Cloud : j \notin Fixes
  /\ MaxIter \in 1..3 /\ 1 \in 1..MaxIter
  /\ \A j \in Jobs : Requested[j] \subseteq Keys
  BY ConstantsAssumption DEF Jobs, Keys

LEMMA LedgerKeys ==
  ASSUME NEW ledger \in Ledgers
  PROVE  ledger \subseteq AIKeys \cup OSAKeys /\ ledger \subseteq Keys
  BY DEF Ledgers, Keys

LEMMA CloudKeys ==
  ASSUME NEW j \in Jobs, NEW ledger \in Ledgers
  PROVE  cloudFindingKeys(j, ledger) \subseteq Keys
  BY ConstantFacts, LedgerKeys DEF cloudFindingKeys

LEMMA FixKeys ==
  ASSUME NEW j \in Jobs, NEW ledger \in Ledgers, authorized(Requested[j], ledger)
  PROVE  /\ fixFindings(j, ledger) \subseteq Keys
         /\ fixFindings(j, ledger) \subseteq Counting
         /\ fixFindings(j, ledger) # {}
<1>1. Requested[j] \subseteq Keys
  BY ConstantFacts
<1>2. fixFindings(j, ledger) \subseteq Requested[j]
  BY DEF fixFindings
<1>3. Requested[j] \subseteq Counting
  BY LedgerKeys DEF authorized, Counting
<1>4. fixFindings(j, ledger) # {}
  BY DEF authorized, fixFindings
<1> QED
  BY <1>1, <1>2, <1>3, <1>4

LEMMA EndsType ==
  ASSUME TypeOK, NEW j \in Jobs, NEW st \in Statuses, Ends(j, st)
  PROVE  pc' \in [Jobs -> Places] /\ status' \in [Jobs -> Statuses]
  BY DEF TypeOK, Ends, GoTo, Places

LEMMA GoToType ==
  ASSUME TypeOK, NEW j \in Jobs, NEW p \in Places, GoTo(j, p)
  PROVE  pc' \in [Jobs -> Places]
  BY DEF TypeOK, GoTo

LEMMA AttemptFailsType ==
  ASSUME TypeOK, NEW j \in Jobs, NEW st \in Statuses,
         CloudAttemptFails(j, st) \/ FixFails(j)
  PROVE  /\ pc' \in [Jobs -> Places] /\ status' \in [Jobs -> Statuses]
         /\ iter' \in [Jobs -> 1..MaxIter]
<1>1. CASE FixFails(j)
  BY <1>1, EndsType DEF FixFails, TypeOK, Statuses
<1>2. CASE CloudAttemptFails(j, st) /\ st # "gate_denied" /\ iter[j] < MaxIter
  <2>1. iter[j] + 1 \in 1..MaxIter
    BY <1>2, ConstantFacts DEF TypeOK
  <2>2. iter' = [iter EXCEPT ![j] = iter[j] + 1] /\ status' = status /\ GoTo(j, "loop")
    BY <1>2 DEF CloudAttemptFails
  <2> QED
    BY <2>1, <2>2, GoToType DEF TypeOK, Places
<1>3. CASE CloudAttemptFails(j, st) /\ ~(st # "gate_denied" /\ iter[j] < MaxIter)
  BY <1>3, EndsType DEF CloudAttemptFails, TypeOK
<1> QED
  BY <1>1, <1>2, <1>3

LEMMA SettledType ==
  ASSUME TypeOK, NEW j \in Jobs
  PROVE  Settled(j) \in Statuses /\ Done(j) \in Statuses
  BY DEF TypeOK, Settled, Done, Statuses

LEMMA TreeType ==
  ASSUME TypeOK, NEW j \in Jobs, AgentEdits(j) \/ AgentSkipped(j)
  PROVE  tree' \in [Jobs -> SUBSET Paths] /\ noai' \in [Jobs -> BOOLEAN]
<1>1. {Note} \in SUBSET Paths
  BY ConstantsAssumption
<1>2. PICK d \in SUBSET Paths, b \in BOOLEAN :
        tree' = [tree EXCEPT ![j] = d] /\ noai' = [noai EXCEPT ![j] = b]
  BY <1>1 DEF AgentEdits, AgentSkipped
<1> QED
  BY <1>2 DEF TypeOK

LEMMA RemoteType ==
  ASSUME TypeOK, NEW j \in Jobs, gitPushBranch(j)
  PROVE  /\ \A r \in remote' : r.by \in Jobs /\ r.changes \subseteq Paths
         /\ {r.branch : r \in remote} \subseteq {r.branch : r \in remote'}
         /\ opaFixBranchName(j) \in {r.branch : r \in remote'}
<1> DEFINE new == [branch |-> opaFixBranchName(j), by |-> j,
                   changes |-> patch[j], note |-> noai[j]]
<1>1. remote' = remote \cup {new}
  BY DEF gitPushBranch
<1>2. new.by = j /\ new.changes = patch[j] /\ new.branch = opaFixBranchName(j)
  OBVIOUS
<1>3. patch[j] \subseteq Paths
  BY DEF TypeOK
<1> HIDE DEF new
<1> QED
  BY <1>1, <1>2, <1>3 DEF TypeOK

LEMMA TypeNext == ASSUME TypeOK, BranchInv, [Next]_vars PROVE TypeOK'
<1> USE DEF TypeOK
<1>1. ASSUME NEW j \in Cloud, CloudStart(j) PROVE TypeOK'
  <2>1. PICK ledger \in Ledgers :
          LET ks == cloudFindingKeys(j, ledger)
          IN  IF Mode[j] = "off" \/ ks = {}
              THEN Ends(j, "skipped") /\ UNCHANGED keys
              ELSE GoTo(j, "loop") /\ keys' = [keys EXCEPT ![j] = ks] /\ UNCHANGED status
    BY <1>1 DEF CloudStart
  <2>2. j \in Jobs /\ cloudFindingKeys(j, ledger) \in SUBSET Keys
    BY ConstantFacts, CloudKeys
  <2>3. "skipped" \in Statuses /\ "loop" \in Places
    BY DEF Statuses, Places
  <2> HIDE DEF TypeOK
  <2>4. /\ pc' \in [Jobs -> Places] /\ status' \in [Jobs -> Statuses]
        /\ keys' \in [Jobs -> SUBSET Keys]
    <3>1. CASE Ends(j, "skipped") /\ UNCHANGED keys
      BY <2>2, <2>3, <3>1, EndsType DEF TypeOK
    <3>2. CASE /\ GoTo(j, "loop") /\ UNCHANGED status
               /\ keys' = [keys EXCEPT ![j] = cloudFindingKeys(j, ledger)]
      BY <2>2, <2>3, <3>2, GoToType DEF TypeOK
    <3> QED
      BY <2>1, <3>1, <3>2
  <2> QED
    BY <1>1, <2>4 DEF TypeOK, CloudStart, github, world
<1>2. ASSUME NEW j \in Cloud, CloudLoop(j) PROVE TypeOK'
  <2>1. j \in Jobs /\ {"cancelled", "refused"} \subseteq Statuses /\ "record" \in Places
    BY ConstantFacts DEF Statuses, Places
  <2>2. \/ Ends(j, "cancelled") \/ Ends(j, "refused")
        \/ GoTo(j, "record") /\ UNCHANGED status
    BY <1>2 DEF CloudLoop
  <2> HIDE DEF TypeOK
  <2>3. pc' \in [Jobs -> Places] /\ status' \in [Jobs -> Statuses]
    BY <2>1, <2>2, EndsType, GoToType DEF TypeOK
  <2> QED
    BY <1>2, <2>3 DEF TypeOK, CloudLoop, attempt, github, world
<1>3. ASSUME NEW j \in Cloud, CloudRecord(j) PROVE TypeOK'
  BY <1>3, ConstantFacts DEF CloudRecord, Charged, GoTo, Places, attempt, github
<1>4. ASSUME NEW j \in Cloud, CloudPatch(j) PROVE TypeOK'
  <2>1. j \in Jobs /\ "failed" \in Statuses /\ "gate" \in Places
    BY ConstantFacts DEF Statuses, Places
  <2> HIDE DEF TypeOK
  <2>2. CASE CloudAttemptFails(j, "failed") /\ UNCHANGED <<tree, noai>>
    BY <1>4, <2>1, <2>2, AttemptFailsType DEF TypeOK, CloudPatch, github, world
  <2>3. CASE /\ AgentEdits(j) \/ AgentSkipped(j)
             /\ GoTo(j, "gate") /\ UNCHANGED <<status, iter>>
    BY <1>4, <2>1, <2>3, GoToType, TreeType DEF TypeOK, CloudPatch, github, world
  <2> QED
    BY <1>4, <2>2, <2>3 DEF CloudPatch
<1>5. ASSUME NEW j \in Cloud, CloudGate(j) PROVE TypeOK'
  <2>1. /\ j \in Jobs /\ "gate_denied" \in Statuses
        /\ {"suggest", "verify", "land"} \subseteq Places
    BY ConstantFacts DEF Statuses, Places
  <2> HIDE DEF TypeOK
  <2>2. CASE PatchGate(j)
    <3>1. /\ Captured(j) /\ UNCHANGED <<status, iter>>
          /\ \E p \in {"suggest", "verify", "land"} : GoTo(j, p)
      BY <1>5, <2>2 DEF CloudGate
    <3>2. pc' \in [Jobs -> Places]
      BY <2>1, <3>1, GoToType
    <3> QED
      BY <1>5, <3>1, <3>2 DEF TypeOK, CloudGate, Captured, github, world
  <2>3. CASE ~PatchGate(j)
    BY <1>5, <2>1, <2>3, AttemptFailsType DEF TypeOK, CloudGate, github, world
  <2> QED
    BY <2>2, <2>3
<1>6. ASSUME NEW j \in Cloud, CloudSuggest(j) PROVE TypeOK'
  <2>1. j \in Jobs /\ {"failed", "suggest"} \subseteq Statuses
    BY ConstantFacts DEF Statuses
  <2> HIDE DEF TypeOK
  <2>2. /\ pc' \in [Jobs -> Places] /\ status' \in [Jobs -> Statuses]
        /\ iter' \in [Jobs -> 1..MaxIter]
    BY <1>6, <2>1, EndsType, AttemptFailsType DEF TypeOK, CloudSuggest
  <2> QED
    BY <1>6, <2>2 DEF TypeOK, CloudSuggest, attempt, github, world
<1>7. ASSUME NEW j \in Cloud, Verify(j) PROVE TypeOK'
  <2>1. /\ j \in Jobs /\ {"failed", "verify_failed"} \subseteq Statuses
        /\ "regate" \in Places
    BY ConstantFacts DEF Statuses, Places
  <2> HIDE DEF TypeOK
  <2>2. CASE /\ \E st \in {"verify_failed", "failed"} : CloudAttemptFails(j, st)
             /\ UNCHANGED tree
    <3>1. PICK st \in {"verify_failed", "failed"} : CloudAttemptFails(j, st)
      BY <2>2
    <3> QED
      BY <1>7, <2>1, <2>2, <3>1, AttemptFailsType
      DEF TypeOK, Verify, github, world
  <2>3. CASE /\ \E d \in SUBSET Paths : tree' = [tree EXCEPT ![j] = d]
             /\ GoTo(j, "regate") /\ UNCHANGED <<status, iter>>
    BY <1>7, <2>1, <2>3, GoToType DEF TypeOK, Verify, github, world
  <2> QED
    BY <1>7, <2>2, <2>3 DEF Verify
<1>8. ASSUME NEW j \in Cloud, Regate(j) PROVE TypeOK'
  <2>1. j \in Jobs /\ "gate_denied" \in Statuses /\ "land" \in Places
    BY ConstantFacts DEF Statuses, Places
  <2> HIDE DEF TypeOK
  <2>2. CASE Captured(j) /\ GoTo(j, "land") /\ UNCHANGED <<status, iter>>
    BY <1>8, <2>1, <2>2, GoToType DEF TypeOK, Captured, Regate, github, world
  <2>3. CASE CloudAttemptFails(j, "gate_denied") /\ UNCHANGED patch
    BY <1>8, <2>1, <2>3, AttemptFailsType DEF TypeOK, Regate, github, world
  <2> QED
    BY <1>8, <2>2, <2>3 DEF Regate
<1>9. ASSUME NEW j \in Cloud, CloudLand(j) \/ PushCheck(j) PROVE TypeOK'
  <2>1. /\ j \in Jobs /\ {"cancelled", "failed", "completed"} \subseteq Statuses
        /\ {"push", "pushcheck"} \subseteq Places
    BY ConstantFacts DEF Statuses, Places
  <2> HIDE DEF TypeOK
  <2>2. /\ pc' \in [Jobs -> Places] /\ status' \in [Jobs -> Statuses]
        /\ iter' \in [Jobs -> 1..MaxIter]
    <3>1. \/ CloudAttemptFails(j, "cancelled") \/ CloudAttemptFails(j, "failed")
          \/ Ends(j, "completed") /\ UNCHANGED iter
          \/ (GoTo(j, "push") \/ GoTo(j, "pushcheck")) /\ UNCHANGED <<status, iter>>
      BY <1>9 DEF CloudLand, PushCheck
    <3> QED
      BY <2>1, <3>1, EndsType, GoToType, AttemptFailsType DEF TypeOK
  <2> QED
    BY <1>9, <2>2 DEF TypeOK, CloudLand, PushCheck, attempt, github, world
<1>10. ASSUME NEW j \in Jobs, Push(j) PROVE TypeOK'
  <2>1. "failed" \in Statuses /\ "pr" \in Places
    BY DEF Statuses, Places
  <2> HIDE DEF TypeOK
  <2>2. CASE /\ CloudAttemptFails(j, "failed") \/ FixFails(j)
             /\ UNCHANGED remote
    BY <1>10, <2>1, <2>2, AttemptFailsType DEF TypeOK, Push, attempt, world
  <2>3. CASE gitPushBranch(j) /\ GoTo(j, "pr") /\ UNCHANGED <<status, iter>>
    BY <1>10, <2>1, <2>3, GoToType, RemoteType DEF TypeOK, Push, attempt, world
  <2> QED
    BY <1>10, <2>2, <2>3 DEF Push
<1>11. ASSUME NEW j \in Cloud, CloudClose(j) PROVE TypeOK'
  BY <1>11, ConstantFacts
  DEF CloudClose, Ends, GoTo, Places, Statuses, attempt, world
<1>12. ASSUME NEW j \in Fixes, FixRequest(j) PROVE TypeOK'
  <2>1. PICK ledger \in Ledgers :
          /\ authorized(Requested[j], ledger)
          /\ keys' = [keys EXCEPT ![j] = fixFindings(j, ledger)]
    BY <1>12 DEF FixRequest
  <2>2. j \in Jobs /\ fixFindings(j, ledger) \in SUBSET Keys /\ "record" \in Places
    BY <2>1, ConstantFacts, FixKeys DEF Places
  <2> HIDE DEF TypeOK
  <2>3. keys' \in [Jobs -> SUBSET Keys] /\ pc' \in [Jobs -> Places]
    BY <1>12, <2>1, <2>2, GoToType DEF TypeOK, FixRequest
  <2> QED
    BY <1>12, <2>3 DEF TypeOK, FixRequest, github, world
<1>13. ASSUME NEW j \in Fixes, FixRecord(j) PROVE TypeOK'
  BY <1>13, ConstantFacts
  DEF FixRecord, Charged, GoTo, Places, Statuses, attempt, github
<1>14. ASSUME NEW j \in Fixes, FixTakesSlot(j) PROVE TypeOK'
  BY <1>14, ConstantFacts
  DEF FixTakesSlot, GoTo, Places, Statuses, attempt, github, world
<1>15. ASSUME NEW j \in Fixes, FixPatch(j) PROVE TypeOK'
  <2>1. j \in Jobs /\ {"failed", "skipped"} \subseteq Statuses /\ "gate" \in Places
    BY ConstantFacts DEF Statuses, Places
  <2> HIDE DEF TypeOK
  <2>2. CASE FixFails(j) /\ UNCHANGED <<tree, noai>>
    BY <1>15, <2>1, <2>2, AttemptFailsType DEF TypeOK, FixPatch, github, world
  <2>3. CASE /\ AgentEdits(j) \/ AgentSkipped(j)
             /\ GoTo(j, "gate") /\ UNCHANGED iter
             /\ status' \in {status, [status EXCEPT ![j] = "skipped"]}
    BY <1>15, <2>1, <2>3, GoToType, TreeType DEF TypeOK, FixPatch, github, world
  <2> QED
    BY <1>15, <2>2, <2>3 DEF FixPatch
<1>16. ASSUME NEW j \in Fixes, FixGate(j) PROVE TypeOK'
  <2>1. j \in Jobs /\ "failed" \in Statuses /\ {"suggest", "land"} \subseteq Places
    BY ConstantFacts DEF Statuses, Places
  <2> HIDE DEF TypeOK
  <2>2. CASE /\ Captured(j) /\ UNCHANGED <<status, iter>>
             /\ \E p \in {"suggest", "land"} : GoTo(j, p)
    <3>1. pc' \in [Jobs -> Places]
      BY <2>1, <2>2, GoToType
    <3> QED
      BY <1>16, <2>2, <3>1 DEF TypeOK, FixGate, Captured, github, world
  <2>3. CASE FixFails(j) /\ UNCHANGED patch
    BY <1>16, <2>1, <2>3, AttemptFailsType DEF TypeOK, FixGate, github, world
  <2> QED
    BY <1>16, <2>2, <2>3 DEF FixGate
<1>17. ASSUME NEW j \in Fixes, FixSuggest(j) \/ FixLand(j) PROVE TypeOK'
  <2>1. /\ j \in Jobs /\ "failed" \in Statuses /\ "push" \in Places
    BY ConstantFacts DEF Statuses, Places
  <2> HIDE DEF TypeOK
  <2>2. /\ pc' \in [Jobs -> Places] /\ status' \in [Jobs -> Statuses]
        /\ iter' \in [Jobs -> 1..MaxIter]
    <3>1. \/ FixFails(j)
          \/ Ends(j, Settled(j)) /\ UNCHANGED iter
          \/ GoTo(j, "push") /\ UNCHANGED <<status, iter>>
      BY <1>17 DEF FixSuggest, FixLand
    <3>2. Settled(j) \in Statuses
      BY <2>1, SettledType
    <3> QED
      BY <2>1, <3>1, <3>2, EndsType, GoToType, AttemptFailsType DEF TypeOK
  <2> QED
    BY <1>17, <2>2 DEF TypeOK, FixSuggest, FixLand, attempt, github, world
<1>18. ASSUME NEW j \in Jobs, CloudPR(j) \/ FixPR(j) PROVE TypeOK'
  <2>1. "failed" \in Statuses /\ "close" \in Places /\ Done(j) \in Statuses
    BY SettledType DEF Statuses, Places
  <2>2. opaFixBranchName(j) \in {r.branch : r \in remote}
    BY <1>18 DEF CloudPR, FixPR, BranchInv, OnRemote
  <2> HIDE DEF TypeOK
  <2>3. prs' \subseteq Jobs \X {r.branch : r \in remote}
    BY <1>18, <2>2 DEF TypeOK, CloudPR, FixPR, Opened
  <2>4. /\ pc' \in [Jobs -> Places] /\ status' \in [Jobs -> Statuses]
        /\ iter' \in [Jobs -> 1..MaxIter]
    <3>1. \/ CloudAttemptFails(j, "failed") \/ FixFails(j)
          \/ Ends(j, Done(j)) /\ UNCHANGED iter
          \/ GoTo(j, "close") /\ UNCHANGED <<status, iter>>
      BY <1>18 DEF CloudPR, FixPR
    <3> QED
      BY <2>1, <3>1, EndsType, GoToType, AttemptFailsType DEF TypeOK
  <2> QED
    BY <1>18, <2>3, <2>4 DEF TypeOK, CloudPR, FixPR, attempt, world
<1>19. ASSUME NEW j \in Fixes, FixClose(j) PROVE TypeOK'
  <2>1. j \in Jobs /\ Done(j) \in Statuses
    BY ConstantFacts, SettledType
  <2> HIDE DEF TypeOK
  <2>2. pc' \in [Jobs -> Places] /\ status' \in [Jobs -> Statuses]
    BY <1>19, <2>1, EndsType DEF FixClose
  <2> QED
    BY <1>19, <2>1, <2>2 DEF TypeOK, FixClose, attempt, world
<1>20. ASSUME Supersede PROVE TypeOK'
  <2>1. \A e \in Events : Spend(e) => budget' \in [Events -> Nat]
    BY DEF Spend
  <2> QED
    BY <1>20, <2>1 DEF Supersede, Events, Statuses, attempt, github
<1>21. ASSUME HourPasses PROVE TypeOK'
  <2>1. \A e \in Events : Spend(e) => budget' \in [Events -> Nat]
    BY DEF Spend
  <2> QED
    BY <1>21, <2>1 DEF HourPasses, Events, attempt, github
<1>22. ASSUME Restart PROVE TypeOK'
  <2>1. \A e \in Events : Spend(e) => budget' \in [Events -> Nat]
    BY DEF Spend
  <2> QED
    BY <1>22, <2>1, ConstantFacts DEF Restart, Events, Places, github
<1>23. ASSUME UNCHANGED vars PROVE TypeOK'
  BY <1>23 DEF vars
<1> QED
  BY <1>1, <1>2, <1>3, <1>4, <1>5, <1>6, <1>7, <1>8, <1>9, <1>10, <1>11, <1>12,
     <1>13, <1>14, <1>15, <1>16, <1>17, <1>18, <1>19, <1>20, <1>21, <1>22, <1>23,
     ConstantFacts
  DEF Next, CloudStep, FixStep

(* An attempt that fails starts over or ends. *)
LEMMA AttemptFailsTo ==
  ASSUME TypeOK, NEW j \in Jobs, NEW st, CloudAttemptFails(j, st) \/ FixFails(j)
  PROVE  \E p \in {"loop", "done"} : pc' = [pc EXCEPT ![j] = p]
  BY DEF CloudAttemptFails, FixFails, Ends, GoTo

JobStep(j) ==
  \/ j \in Cloud /\ CloudStep(j)
  \/ j \in Fixes /\ (FixRequest(j) \/ FixStep(j))

(* A job touches nothing of another one. *)
LEMMA OthersAreLeftAlone ==
  ASSUME TypeOK, NEW j \in Jobs, JobStep(j), NEW i \in Jobs, i # j
  PROVE  /\ pc'[i] = pc[i] /\ iter'[i] = iter[i] /\ keys'[i] = keys[i]
         /\ tree'[i] = tree[i] /\ patch'[i] = patch[i] /\ noai'[i] = noai[i]
<1> USE DEF TypeOK, GoTo, Ends, CloudAttemptFails, FixFails, Captured, AgentEdits,
            AgentSkipped, attempt
<1>1. CASE CloudStart(j) \/ CloudLoop(j) \/ CloudRecord(j)
  BY <1>1 DEF CloudStart, CloudLoop, CloudRecord
<1>2. CASE CloudPatch(j) \/ CloudGate(j)
  BY <1>2 DEF CloudPatch, CloudGate
<1>3. CASE CloudSuggest(j) \/ Verify(j) \/ Regate(j)
  BY <1>3 DEF CloudSuggest, Verify, Regate
<1>4. CASE CloudLand(j) \/ PushCheck(j) \/ Push(j)
  BY <1>4 DEF CloudLand, PushCheck, Push
<1>5. CASE CloudPR(j) \/ CloudClose(j)
  BY <1>5 DEF CloudPR, CloudClose
<1>6. CASE FixRequest(j) \/ FixRecord(j) \/ FixTakesSlot(j) \/ FixPatch(j)
  BY <1>6 DEF FixRequest, FixRecord, FixTakesSlot, FixPatch
<1>7. CASE FixGate(j) \/ FixSuggest(j) \/ FixLand(j) \/ FixPR(j) \/ FixClose(j)
  BY <1>7 DEF FixGate, FixSuggest, FixLand, FixPR, FixClose
<1> QED
  BY <1>1, <1>2, <1>3, <1>4, <1>5, <1>6, <1>7 DEF JobStep, CloudStep, FixStep

LEMMA StepKinds ==
  ASSUME [Next]_vars
  PROVE  \/ \E j \in Jobs : JobStep(j)
         \/ Supersede \/ HourPasses \/ Restart \/ UNCHANGED vars
  BY ConstantFacts DEF Next, JobStep

LEMMA OnlyPushPushes ==
  ASSUME NEW j \in Jobs, JobStep(j)
  PROVE  \/ remote' = remote
         \/ Push(j) /\ gitPushBranch(j)
<1> USE DEF github
<1>1. CASE CloudStart(j) \/ CloudLoop(j) \/ CloudRecord(j)
  BY <1>1 DEF CloudStart, CloudLoop, CloudRecord
<1>2. CASE CloudPatch(j) \/ CloudGate(j)
  BY <1>2 DEF CloudPatch, CloudGate
<1>3. CASE CloudSuggest(j) \/ Verify(j) \/ Regate(j)
  BY <1>3 DEF CloudSuggest, Verify, Regate
<1>4. CASE CloudLand(j) \/ PushCheck(j)
  BY <1>4 DEF CloudLand, PushCheck
<1>5. CASE Push(j)
  BY <1>5 DEF Push
<1>6. CASE CloudPR(j) \/ CloudClose(j)
  BY <1>6 DEF CloudPR, CloudClose
<1>7. CASE FixRequest(j) \/ FixRecord(j) \/ FixTakesSlot(j) \/ FixPatch(j)
  BY <1>7 DEF FixRequest, FixRecord, FixTakesSlot, FixPatch
<1>8. CASE FixGate(j) \/ FixSuggest(j) \/ FixLand(j) \/ FixPR(j) \/ FixClose(j)
  BY <1>8 DEF FixGate, FixSuggest, FixLand, FixPR, FixClose
<1> QED
  BY <1>1, <1>2, <1>3, <1>4, <1>5, <1>6, <1>7, <1>8 DEF JobStep, CloudStep, FixStep

(* Where a step takes a job. *)
LEMMA StepLeadsTo ==
  ASSUME TypeOK, NEW j \in Jobs, JobStep(j)
  PROVE  /\ pc[j] \notin {"done", "dead"} /\ pc'[j] # "dead"
         /\ pc'[j] = "pr" => Push(j) /\ gitPushBranch(j)
         /\ pc'[j] = "close" => (CloudPR(j) \/ FixPR(j)) /\ Opened(j) /\ iter' = iter
         /\ pc'[j] = "push" => (PushCheck(j) /\ ~cloudJobMustAbort(j)) \/ FixLand(j)
<1> USE DEF TypeOK, GoTo, Ends, CloudAttemptFails, FixFails
<1>1. CASE CloudStart(j) \/ CloudLoop(j) \/ CloudRecord(j)
  BY <1>1 DEF CloudStart, CloudLoop, CloudRecord
<1>2. CASE CloudPatch(j) \/ CloudGate(j)
  BY <1>2 DEF CloudPatch, CloudGate
<1>3. CASE CloudSuggest(j) \/ Verify(j) \/ Regate(j)
  BY <1>3 DEF CloudSuggest, Verify, Regate
<1>4. CASE CloudLand(j) \/ PushCheck(j) \/ Push(j)
  BY <1>4 DEF CloudLand, PushCheck, Push
<1>5. CASE CloudPR(j) \/ CloudClose(j)
  BY <1>5 DEF CloudPR, CloudClose
<1>6. CASE FixRequest(j) \/ FixRecord(j) \/ FixTakesSlot(j) \/ FixPatch(j)
  BY <1>6 DEF FixRequest, FixRecord, FixTakesSlot, FixPatch
<1>7. CASE FixGate(j) \/ FixSuggest(j) \/ FixLand(j) \/ FixPR(j) \/ FixClose(j)
  BY <1>7 DEF FixGate, FixSuggest, FixLand, FixPR, FixClose
<1> QED
  BY <1>1, <1>2, <1>3, <1>4, <1>5, <1>6, <1>7 DEF JobStep, CloudStep, FixStep

LEMMA BranchNext == ASSUME TypeOK, BranchInv, [Next]_vars PROVE BranchInv'
<1>1. ASSUME NEW j \in Jobs, JobStep(j) PROVE BranchInv'
  <2>1. remote \subseteq remote'
    BY <1>1, OnlyPushPushes DEF gitPushBranch
  <2>2. ASSUME NEW i \in Jobs, i # j, pc'[i] = "pr" PROVE OnRemote(opaFixBranchName(i))'
    <3>1. pc[i] = "pr" /\ iter'[i] = iter[i]
      BY <1>1, <2>2, OthersAreLeftAlone
    <3> QED
      BY <2>1, <3>1 DEF BranchInv, OnRemote, opaFixBranchName
  <2>3. ASSUME pc'[j] = "pr" PROVE OnRemote(opaFixBranchName(j))'
    <3>1. Push(j) /\ gitPushBranch(j)
      BY <1>1, <2>3, StepLeadsTo
    <3>2. iter' = iter
      BY <2>3, <3>1 DEF Push, TypeOK, CloudAttemptFails, FixFails, Ends, GoTo, gitPushBranch
    <3>3. opaFixBranchName(j)' = opaFixBranchName(j)
      BY <3>2 DEF opaFixBranchName
    <3>4. opaFixBranchName(j) \in {r.branch : r \in remote'}
      BY <3>1, RemoteType
    <3> QED
      BY <3>3, <3>4 DEF OnRemote
  <2> QED
    BY <2>2, <2>3 DEF BranchInv
<1>2. CASE Supersede \/ HourPasses \/ UNCHANGED vars
  BY <1>2 DEF Supersede, HourPasses, vars, github, BranchInv, OnRemote, opaFixBranchName
<1>3. CASE Restart
  BY <1>3 DEF Restart, TypeOK, BranchInv
<1> QED
  BY <1>1, <1>2, <1>3, StepKinds

(* Places, statuses, trees and what GitHub holds are what the code names,  *)
(* whatever fails and whenever the process dies; a pull request is of a    *)
(* branch that was pushed.                                                 *)
THEOREM TypeCorrect == Spec => []TypeOK
<1>1. Init => TypeOK /\ BranchInv
  BY ConstantFacts, ConstantsAssumption DEF Init, TypeOK, BranchInv, Places, Statuses
<1>2. TypeOK /\ BranchInv /\ [Next]_vars => TypeOK' /\ BranchInv'
  BY TypeNext, BranchNext
<1> QED
  BY <1>1, <1>2, PTL DEF Spec
-----------------------------------------------------------------------------
(* What is landed has passed the gate. *)

LEMMA NoteIsLandable == Landable({Note}, TRUE)
<1>1. Cardinality({Note}) = 1
  BY FS_Singleton
<1>2. {Note} # {} /\ {Note} \cap Denied = {} /\ 1 <= MaxFiles
  BY ConstantsAssumption
<1> QED
  BY <1>1, <1>2 DEF Landable

(* The paths of findings that count are paths the allowlist lets through. *)
LEMMA PathsOfCounting ==
  ASSUME NEW ks \in SUBSET Counting
  PROVE  /\ findingPaths(ks) \subseteq findingPaths(Counting)
         /\ ks # {} /\ findingPaths(ks) = {} => \E k \in Counting : File[k] = NoFile
  BY DEF findingPaths

LEMMA CountingFacts ==
  ASSUME NEW ks, NEW ledger \in Ledgers, authorized(ks, ledger)
  PROVE  ks # {} /\ ks \subseteq Counting
  BY LedgerKeys DEF authorized, Counting

(* What either gate lets through may be landed. *)
LEMMA PatchGateLands ==
  ASSUME NEW j \in Jobs, JobInv(j), pc[j] = "gate", noai[j] \in BOOLEAN, PatchGate(j)
  PROVE  /\ Landable(tree[j], noai[j])
         /\ noai[j] \/ findingPaths(keys[j]) # {}
<1>1. keys[j] \subseteq Counting
  BY DEF JobInv, Authorized
<1>2. CASE noai[j]
  <2>1. tree[j] = {Note} /\ noai[j] = TRUE
    BY <1>2 DEF JobInv
  <2> QED
    BY <2>1, NoteIsLandable
<1>3. CASE ~noai[j]
  BY <1>1, <1>3, PathsOfCounting DEF PatchGate, gateCloudDiff, Landable
<1> QED
  BY <1>2, <1>3

LEMMA RegateLands ==
  ASSUME NEW j \in Jobs, JobInv(j), pc[j] = "regate", noai[j] \in BOOLEAN,
         gateCloudDiff(tree[j], findingPaths(keys[j]))
  PROVE  Landable(tree[j], noai[j])
<1>1. /\ keys[j] # {} /\ keys[j] \subseteq Counting
      /\ RunTests /\ (noai[j] \/ findingPaths(keys[j]) # {})
  BY DEF JobInv, Authorized
<1> QED
  BY <1>1, PathsOfCounting DEF gateCloudDiff, Landable

(* A job that starts over or ends has nothing to keep. *)
LEMMA AtRest ==
  ASSUME NEW j \in Jobs, pc'[j] \in {"start", "done", "dead"}
  PROVE  JobInv(j)'
  BY DEF JobInv, Authorized, Captures, Landing

LEMMA StartsOver ==
  ASSUME TypeOK, NEW j \in Jobs, NEW st, CloudAttemptFails(j, st) \/ FixFails(j),
         Mode[j] # "off"
  PROVE  JobInv(j)'
<1>1. PICK p \in {"loop", "done"} : pc' = [pc EXCEPT ![j] = p]
  BY AttemptFailsTo
<1>2. pc'[j] \in {"loop", "done"}
  BY <1>1 DEF TypeOK
<1> QED
  BY <1>2 DEF JobInv, Authorized, Captures, Landing

LEMMA JobNext ==
  ASSUME TypeOK, NEW j \in Jobs, JobInv(j), JobStep(j)
  PROVE  JobInv(j)'
<1> USE DEF TypeOK
<1>0. Mode[j] \in {"off", "suggest", "branch"} /\ noai[j] \in BOOLEAN
  BY ConstantsAssumption
<1>a. pc[j] \notin {"start", "done", "dead"} => Mode[j] # "off"
  BY DEF JobInv
<1>1. CASE CloudStart(j)
  BY <1>1, AtRest DEF CloudStart, Ends, GoTo, JobInv, Authorized, Captures, Landing
<1>2. CASE CloudLoop(j)
  <2>1. CASE GoTo(j, "record") /\ \E ledger \in Ledgers : authorized(keys[j], ledger)
    <3>1. keys[j] # {} /\ keys[j] \subseteq Counting
      BY <2>1, CountingFacts
    <3>2. pc'[j] = "record" /\ keys' = keys
      BY <1>2, <2>1 DEF CloudLoop, GoTo, attempt
    <3> QED
      BY <1>a, <1>2, <3>1, <3>2 DEF CloudLoop, JobInv, Captures, Landing
  <2>2. CASE Ends(j, "cancelled") \/ Ends(j, "refused")
    BY <2>2, AtRest DEF Ends, GoTo
  <2> QED
    BY <1>2, <2>1, <2>2 DEF CloudLoop
<1>3. CASE CloudRecord(j) \/ FixRecord(j) \/ FixTakesSlot(j)
  <2>1. pc'[j] \in {"patch", "slot"} /\ keys' = keys /\ pc[j] \in {"record", "slot"}
    BY <1>3 DEF CloudRecord, FixRecord, FixTakesSlot, GoTo, attempt
  <2> QED
    BY <1>a, <2>1 DEF JobInv, Authorized, Captures, Landing
<1>4. CASE CloudPatch(j) \/ FixPatch(j)
  <2>1. pc[j] = "patch" /\ keys' = keys
    BY <1>4 DEF CloudPatch, FixPatch
  <2>2. CASE CloudAttemptFails(j, "failed") \/ FixFails(j)
    BY <1>a, <2>1, <2>2, StartsOver
  <2>3. CASE GoTo(j, "gate") /\ (AgentEdits(j) \/ AgentSkipped(j))
    <3>1. pc'[j] = "gate" /\ (noai'[j] => tree'[j] = {Note})
      BY <2>3 DEF GoTo, AgentEdits, AgentSkipped
    <3> QED
      BY <1>a, <2>1, <3>1 DEF JobInv, Authorized, Captures, Landing
  <2> QED
    BY <1>4, <2>2, <2>3 DEF CloudPatch, FixPatch
<1>5. CASE CloudGate(j) \/ FixGate(j)
  <2>1. pc[j] = "gate" /\ keys' = keys /\ noai' = noai
    BY <1>5 DEF CloudGate, FixGate
  <2>2. CASE CloudAttemptFails(j, "gate_denied") \/ FixFails(j)
    BY <1>a, <2>1, <2>2, StartsOver
  <2>3. CASE /\ PatchGate(j) /\ Captured(j)
             /\ \/ GoTo(j, "suggest")
                \/ GoTo(j, "verify") /\ RunTests /\ Mode[j] # "suggest"
                \/ GoTo(j, "land") /\ Mode[j] \in {"off", "branch"}
    <3>1. Landable(tree[j], noai[j]) /\ (noai[j] \/ findingPaths(keys[j]) # {})
      BY <1>0, <2>1, <2>3, PatchGateLands
    <3>2. patch'[j] = tree[j] /\ pc'[j] \in {"suggest", "verify", "land"}
      BY <2>3 DEF Captured, GoTo
    <3>3. /\ pc'[j] \in {"verify", "land"} => Mode[j] = "branch"
          /\ pc'[j] = "verify" => RunTests
      BY <1>0, <1>a, <2>1, <2>3 DEF GoTo
    <3> QED
      BY <1>a, <2>1, <3>1, <3>2, <3>3 DEF JobInv, Authorized, Captures, Landing
  <2> QED
    BY <1>0, <1>5, <2>2, <2>3 DEF CloudGate, FixGate
<1>6. CASE CloudSuggest(j) \/ FixSuggest(j) \/ CloudClose(j) \/ FixClose(j)
  <2>1. CASE CloudAttemptFails(j, "failed") /\ pc[j] = "suggest"
    BY <1>a, <2>1, StartsOver
  <2>2. CASE pc'[j] = "done"
    BY <2>2, AtRest
  <2> QED
    BY <1>6, <2>1, <2>2 DEF CloudSuggest, FixSuggest, CloudClose, FixClose, Ends, GoTo
<1>7. CASE Verify(j)
  <2>1. pc[j] = "verify" /\ keys' = keys /\ noai' = noai /\ patch' = patch
    BY <1>7 DEF Verify
  <2>2. CASE \E st : CloudAttemptFails(j, st)
    BY <1>a, <2>1, <2>2, StartsOver
  <2>3. CASE GoTo(j, "regate")
    BY <1>a, <2>1, <2>3 DEF GoTo, JobInv, Authorized, Captures, Landing
  <2> QED
    BY <1>7, <2>2, <2>3 DEF Verify
<1>8. CASE Regate(j)
  <2>1. pc[j] = "regate" /\ keys' = keys /\ noai' = noai
    BY <1>8 DEF Regate
  <2>2. CASE CloudAttemptFails(j, "gate_denied")
    BY <1>a, <2>1, <2>2, StartsOver
  <2>3. CASE /\ gateCloudDiff(tree[j], findingPaths(keys[j]))
             /\ Captured(j) /\ GoTo(j, "land")
    <3>1. Landable(tree[j], noai[j])
      BY <1>0, <2>1, <2>3, RegateLands
    <3>2. patch'[j] = tree[j] /\ pc'[j] = "land"
      BY <2>3 DEF Captured, GoTo
    <3> QED
      BY <1>a, <2>1, <3>1, <3>2 DEF JobInv, Authorized, Captures, Landing
  <2> QED
    BY <1>8, <2>2, <2>3 DEF Regate
<1>9. CASE CloudLand(j) \/ FixLand(j) \/ PushCheck(j)
  <2>1. pc[j] \in {"land", "pushcheck"} /\ keys' = keys /\ noai' = noai /\ patch' = patch
    BY <1>9 DEF CloudLand, FixLand, PushCheck, attempt
  <2>2. CASE FixFails(j) \/ \E st : CloudAttemptFails(j, st)
    BY <1>a, <2>1, <2>2, StartsOver
  <2>3. CASE \E st : Ends(j, st)
    BY <2>3, AtRest DEF Ends, GoTo
  <2>4. CASE GoTo(j, "pushcheck") \/ GoTo(j, "push")
    BY <1>a, <2>1, <2>4 DEF GoTo, JobInv, Authorized, Captures, Landing
  <2> QED
    BY <1>9, <2>2, <2>3, <2>4 DEF CloudLand, FixLand, PushCheck
<1>10. CASE Push(j) \/ CloudPR(j) \/ FixPR(j)
  <2>1. pc[j] \in {"push", "pr"} /\ keys' = keys
    BY <1>10 DEF Push, CloudPR, FixPR, attempt
  <2>2. CASE CloudAttemptFails(j, "failed") \/ FixFails(j)
    BY <1>a, <2>1, <2>2, StartsOver
  <2>3. CASE \E st : Ends(j, st)
    BY <2>3, AtRest DEF Ends, GoTo
  <2>4. CASE GoTo(j, "pr") \/ GoTo(j, "close")
    BY <1>a, <2>1, <2>4 DEF GoTo, JobInv, Authorized, Captures, Landing
  <2> QED
    BY <1>10, <2>2, <2>3, <2>4 DEF Push, CloudPR, FixPR
<1>11. CASE j \in Fixes /\ FixRequest(j)
  <2>1. PICK ledger \in Ledgers :
          /\ authorized(Requested[j], ledger)
          /\ keys' = [keys EXCEPT ![j] = fixFindings(j, ledger)]
    BY <1>11 DEF FixRequest
  <2>2. keys'[j] # {} /\ keys'[j] \subseteq Counting
    BY <2>1, FixKeys
  <2>3. pc'[j] = "record" /\ Mode[j] # "off"
    BY <1>11 DEF FixRequest, GoTo
  <2> QED
    BY <2>2, <2>3 DEF JobInv, Captures, Landing
<1> QED
  BY <1>1, <1>2, <1>3, <1>4, <1>5, <1>6, <1>7, <1>8, <1>9, <1>10, <1>11
  DEF JobStep, CloudStep, FixStep

LEMMA GatedNext == ASSUME TypeOK, GatedInv, [Next]_vars PROVE GatedInv'
<1>1. ASSUME NEW j \in Jobs, JobStep(j) PROVE GatedInv'
  <2>1. ASSUME NEW i \in Jobs PROVE JobInv(i)'
    <3>1. CASE i = j
      BY <1>1, <3>1, JobNext DEF GatedInv
    <3>2. CASE i # j
      <4>1. /\ pc'[i] = pc[i] /\ keys'[i] = keys[i] /\ tree'[i] = tree[i]
            /\ patch'[i] = patch[i] /\ noai'[i] = noai[i]
        BY <1>1, <3>2, OthersAreLeftAlone
      <4> QED
        BY <4>1 DEF GatedInv, JobInv
    <3> QED
      BY <3>1, <3>2
  <2>2. LandedIsGated'
    <3>1. CASE remote' = remote
      BY <3>1 DEF GatedInv, LandedIsGated
    <3>2. CASE Push(j) /\ gitPushBranch(j)
      <4> DEFINE new == [branch |-> opaFixBranchName(j), by |-> j,
                         changes |-> patch[j], note |-> noai[j]]
      <4>1. remote' = remote \cup {new}
        BY <3>2 DEF gitPushBranch
      <4>2. new.by = j /\ new.changes = patch[j] /\ new.note = noai[j]
        OBVIOUS
      <4>3. Mode[j] = "branch" /\ Landable(patch[j], noai[j])
        BY <3>2 DEF Push, GatedInv, JobInv, Captures, Landing
      <4> HIDE DEF new
      <4> QED
        BY <4>1, <4>2, <4>3 DEF GatedInv, LandedIsGated
    <3> QED
      BY <1>1, <3>1, <3>2, OnlyPushPushes
  <2> QED
    BY <2>1, <2>2 DEF GatedInv
<1>2. CASE Supersede \/ HourPasses \/ UNCHANGED vars
  BY <1>2 DEF Supersede, HourPasses, vars, attempt, github, GatedInv, LandedIsGated, JobInv
<1>3. CASE Restart
  <2>1. \A i \in Jobs : pc'[i] \in {"start", "done", "dead"}
    BY <1>3 DEF Restart, TypeOK
  <2>2. LandedIsGated'
    BY <1>3 DEF Restart, github, GatedInv, LandedIsGated
  <2> QED
    BY <2>1, <2>2, AtRest DEF GatedInv
<1> QED
  BY <1>1, <1>2, <1>3, StepKinds

(* landValidatedPatch: whatever the agents and the tests write, whatever   *)
(* fails and is tried again, and wherever the process dies, what is on a   *)
(* fix branch may be landed.                                               *)
THEOREM GatedHolds == Spec => []LandedIsGated
<1>1. Init => GatedInv
  <2>1. Init => LandedIsGated
    BY DEF Init, LandedIsGated
  <2>2. ASSUME Init, NEW j \in Jobs PROVE JobInv(j)
    <3>1. pc[j] \in {"start", "done"}
      BY <2>2 DEF Init
    <3> QED
      BY <3>1 DEF JobInv, Authorized, Captures, Landing
  <2> QED
    BY <2>1, <2>2 DEF GatedInv
<1>2. TypeOK /\ GatedInv /\ [Next]_vars => GatedInv'
  BY GatedNext
<1>3. GatedInv => LandedIsGated
  BY DEF GatedInv
<1> QED
  BY <1>1, <1>2, <1>3, TypeCorrect, PTL DEF Spec
-----------------------------------------------------------------------------
(* One pull request. *)

LEMMA JobsKeepTheWorld ==
  ASSUME NEW j \in Jobs, JobStep(j)
  PROVE  budget' = budget /\ drained' = drained
<1> USE DEF world
<1>1. CASE CloudStart(j) \/ CloudLoop(j) \/ CloudRecord(j)
  BY <1>1 DEF CloudStart, CloudLoop, CloudRecord
<1>2. CASE CloudPatch(j) \/ CloudGate(j)
  BY <1>2 DEF CloudPatch, CloudGate
<1>3. CASE CloudSuggest(j) \/ Verify(j) \/ Regate(j)
  BY <1>3 DEF CloudSuggest, Verify, Regate
<1>4. CASE CloudLand(j) \/ PushCheck(j) \/ Push(j)
  BY <1>4 DEF CloudLand, PushCheck, Push
<1>5. CASE CloudPR(j) \/ CloudClose(j)
  BY <1>5 DEF CloudPR, CloudClose
<1>6. CASE FixRequest(j) \/ FixRecord(j) \/ FixTakesSlot(j) \/ FixPatch(j)
  BY <1>6 DEF FixRequest, FixRecord, FixTakesSlot, FixPatch
<1>7. CASE FixGate(j) \/ FixSuggest(j) \/ FixLand(j) \/ FixPR(j) \/ FixClose(j)
  BY <1>7 DEF FixGate, FixSuggest, FixLand, FixPR, FixClose
<1> QED
  BY <1>1, <1>2, <1>3, <1>4, <1>5, <1>6, <1>7 DEF JobStep, CloudStep, FixStep

(* A pull request is opened on the way from "pr" to "close", and what      *)
(* follows is the end.                                                     *)
LEMMA OpensOnce ==
  ASSUME TypeOK, NEW j \in Jobs, JobStep(j)
  PROVE  /\ \/ prs' = prs
            \/ pc[j] = "pr" /\ pc'[j] = "close" /\ Opened(j)
         /\ pc[j] = "close" => pc'[j] = "done"
<1> USE DEF TypeOK, GoTo, Ends
<1>1. CASE CloudStart(j) \/ CloudLoop(j) \/ CloudRecord(j)
  BY <1>1 DEF CloudStart, CloudLoop, CloudRecord, github
<1>2. CASE CloudPatch(j) \/ CloudGate(j)
  BY <1>2 DEF CloudPatch, CloudGate, github
<1>3. CASE CloudSuggest(j) \/ Verify(j) \/ Regate(j)
  BY <1>3 DEF CloudSuggest, Verify, Regate, github
<1>4. CASE CloudLand(j) \/ PushCheck(j) \/ Push(j)
  BY <1>4 DEF CloudLand, PushCheck, Push, github
<1>5. CASE CloudPR(j) \/ FixPR(j)
  BY <1>5 DEF CloudPR, FixPR
<1>6. CASE CloudClose(j) \/ FixClose(j)
  BY <1>6 DEF CloudClose, FixClose
<1>7. CASE FixRequest(j) \/ FixRecord(j) \/ FixTakesSlot(j) \/ FixPatch(j)
  BY <1>7 DEF FixRequest, FixRecord, FixTakesSlot, FixPatch, github
<1>8. CASE FixGate(j) \/ FixSuggest(j) \/ FixLand(j)
  BY <1>8 DEF FixGate, FixSuggest, FixLand, github
<1> QED
  BY <1>1, <1>2, <1>3, <1>4, <1>5, <1>6, <1>7, <1>8 DEF JobStep, CloudStep, FixStep

LEMMA SpendFacts ==
  ASSUME TypeOK, Budget \in [Events -> Nat], NEW e \in Events, Spend(e)
  PROVE  /\ e # "boot" => budget'["boot"] = budget["boot"]
         /\ budget["boot"] <= Budget["boot"] =>
              /\ budget'["boot"] <= Budget["boot"]
              /\ e = "boot" => budget'["boot"] # Budget["boot"]
  BY DEF TypeOK, Spend, Events

LEMMA OpenedNext == ASSUME TypeOK, OpenedInv, [Next]_vars PROVE OpenedInv'
<1> DEFINE Once(b, rs, at) ==
      b["boot"] = Budget["boot"] =>
        \A p \in rs : /\ at[p[1]] \in {"close", "done"}
                      /\ \A q \in rs : p[1] = q[1] => p = q
<1>1. OpenedInv <=> budget["boot"] <= Budget["boot"] /\ Once(budget, prs, pc)
  BY DEF OpenedInv, Happened, Events
<1>2. OpenedInv' <=> budget'["boot"] <= Budget["boot"] /\ Once(budget', prs', pc')
  BY DEF OpenedInv, Happened, Events
<1>3. Budget \in [Events -> Nat]
  BY ConstantsAssumption
<1>4. ASSUME NEW j \in Jobs, JobStep(j) PROVE OpenedInv'
  <2>1. budget' = budget
    BY <1>4, JobsKeepTheWorld
  <2>2. \A p \in prs : p[1] \in Jobs
    BY DEF TypeOK
  <2>3. ASSUME budget["boot"] = Budget["boot"], NEW p \in prs
        PROVE  pc'[p[1]] \in {"close", "done"}
    <3>1. pc[p[1]] \in {"close", "done"}
      BY <1>1, <2>3
    <3>2. CASE p[1] = j
      BY <1>4, <3>1, <3>2, OpensOnce, StepLeadsTo
    <3>3. CASE p[1] # j
      BY <1>4, <2>2, <3>1, <3>3, OthersAreLeftAlone
    <3> QED
      BY <3>2, <3>3
  <2>4. CASE prs' = prs
    BY <1>1, <1>2, <2>1, <2>3, <2>4
  <2>5. CASE pc[j] = "pr" /\ pc'[j] = "close" /\ Opened(j)
    <3> DEFINE new == <<j, opaFixBranchName(j)>>
    <3>1. prs' = prs \cup {new} /\ new[1] = j
      BY <2>5 DEF Opened
    <3>2. budget["boot"] = Budget["boot"] => \A p \in prs : p[1] # j
      BY <1>1, <2>5
    <3> HIDE DEF new
    <3> QED
      BY <1>1, <1>2, <2>1, <2>3, <2>5, <3>1, <3>2
  <2> QED
    BY <1>4, <2>4, <2>5, OpensOnce
<1>5. CASE Supersede \/ HourPasses
  <2>1. \E e \in Events \ {"boot"} : Spend(e)
    BY <1>5 DEF Supersede, HourPasses, Events
  <2>2. budget'["boot"] = budget["boot"] /\ UNCHANGED <<pc, prs>>
    BY <1>3, <1>5, <2>1, SpendFacts DEF Supersede, HourPasses, github
  <2> QED
    BY <1>1, <1>2, <2>2
<1>6. CASE Restart
  <2>1. Spend("boot") /\ "boot" \in Events
    BY <1>6 DEF Restart, Events
  <2> QED
    BY <1>1, <1>2, <1>3, <2>1, SpendFacts
<1>7. CASE UNCHANGED vars
  BY <1>1, <1>2, <1>7 DEF vars
<1> QED
  BY <1>4, <1>5, <1>6, <1>7, StepKinds

(* runCloudStages: until the process dies no job opens two pull requests,  *)
(* however often its attempts fail.                                        *)
THEOREM OpensOnePullRequest == Spec => []OnePullRequest
<1>1. Init => OpenedInv
  BY ConstantsAssumption DEF Init, OpenedInv, Events
<1>2. TypeOK /\ OpenedInv /\ [Next]_vars => OpenedInv'
  BY OpenedNext
<1>3. ASSUME OpenedInv PROVE OnePullRequest
  <2> SUFFICES ASSUME "boot" \notin Happened, NEW j \in Jobs
               PROVE  Cardinality({p \in prs : p[1] = j}) <= 1
    BY DEF OnePullRequest
  <2> DEFINE mine == {p \in prs : p[1] = j}
  <2>1. \A p, q \in mine : p = q
    BY <1>3 DEF OpenedInv
  <2> HIDE DEF mine
  <2>2. mine = {} \/ \E p : mine = {p}
    BY <2>1
  <2>3. Cardinality(mine) \in {0, 1}
    BY <2>2, FS_EmptySet, FS_Singleton
  <2> QED
    BY <2>3 DEF mine
<1> QED
  BY <1>1, <1>2, <1>3, TypeCorrect, PTL DEF Spec

-----------------------------------------------------------------------------
(* A drained job pushes nothing more. *)

LEMMA DrainedStays ==
  ASSUME TypeOK, NEW j \in Cloud, JobStep(j), j \in drained,
         pc[j] \in BeforePushCheck \cup {"done"}
  PROVE  pc'[j] \in BeforePushCheck \cup {"done"} /\ remote' = remote
<1> USE DEF TypeOK, GoTo, Ends, CloudAttemptFails, BeforePushCheck
<1>1. j \in Jobs /\ j \notin Fixes /\ CloudStep(j)
  BY ConstantFacts DEF JobStep
<1>2. CASE CloudStart(j) \/ CloudLoop(j) \/ CloudRecord(j)
  BY <1>1, <1>2 DEF CloudStart, CloudLoop, CloudRecord, github
<1>3. CASE CloudPatch(j) \/ CloudGate(j)
  BY <1>1, <1>3 DEF CloudPatch, CloudGate, github
<1>4. CASE CloudSuggest(j) \/ Verify(j) \/ Regate(j)
  BY <1>1, <1>4 DEF CloudSuggest, Verify, Regate, github
<1>5. CASE CloudLand(j) \/ PushCheck(j)
  BY <1>1, <1>5 DEF CloudLand, PushCheck, cloudJobMustAbort, github
<1>6. CASE Push(j) \/ CloudPR(j) \/ CloudClose(j)
  BY <1>6 DEF Push, CloudPR, CloudClose
<1> QED
  BY <1>1, <1>2, <1>3, <1>4, <1>5, <1>6 DEF CloudStep

LEMMA StoppedNext ==
  ASSUME TypeOK, NEW j \in Cloud, NEW n, StoppedAt(j, n), [Next]_vars
  PROVE  StoppedAt(j, n)'
<1>0. j \in Jobs
  BY ConstantFacts
<1>1. ASSUME NEW i \in Jobs, JobStep(i) PROVE StoppedAt(j, n)'
  <2>1. drained' = drained
    BY <1>1, JobsKeepTheWorld
  <2>2. CASE i = j
    <3>1. pc'[j] \in BeforePushCheck \cup {"done"} /\ remote' = remote
      BY <1>1, <2>2, DrainedStays DEF StoppedAt
    <3> QED
      BY <2>1, <3>1 DEF StoppedAt, Pushed
  <2>3. CASE i # j
    <3>1. pc'[j] = pc[j]
      BY <1>0, <1>1, <2>3, OthersAreLeftAlone
    <3>2. Pushed(j)' = Pushed(j)
      <4>1. CASE remote' = remote
        BY <4>1 DEF Pushed
      <4>2. CASE gitPushBranch(i)
        <5> DEFINE new == [branch |-> opaFixBranchName(i), by |-> i,
                           changes |-> patch[i], note |-> noai[i]]
        <5>1. remote' = remote \cup {new} /\ new.by # j
          BY <2>3, <4>2 DEF gitPushBranch
        <5> HIDE DEF new
        <5> QED
          BY <5>1 DEF Pushed
      <4> QED
        BY <1>1, <4>1, <4>2, OnlyPushPushes
    <3> QED
      BY <2>1, <3>1, <3>2 DEF StoppedAt
  <2> QED
    BY <2>2, <2>3
<1>2. CASE Supersede \/ HourPasses \/ UNCHANGED vars
  BY <1>2 DEF Supersede, HourPasses, vars, github, StoppedAt, Pushed
<1>3. CASE Restart
  <2>1. pc'[j] \in {"start", "done"} /\ drained' = drained /\ remote' = remote
    BY <1>0, <1>3 DEF Restart, TypeOK, github
  <2> QED
    BY <2>1 DEF StoppedAt, Pushed, BeforePushCheck
<1> QED
  BY <1>1, <1>2, <1>3, StepKinds

(* cloudJobMustAbort: a job drained before it has looked for the last time *)
(* never pushes again, in this attempt, a later one or after a boot.       *)
THEOREM DrainedPushesNothing == Spec => DrainStopsPushes
<1>1. ASSUME NEW j \in Cloud, NEW n \in 0..MaxIter
      PROVE  Spec => []((j \in drained /\ pc[j] \in BeforePushCheck
                           /\ Cardinality(Pushed(j)) = n)
                          => [](Cardinality(Pushed(j)) = n))
  <2>1. j \in drained /\ pc[j] \in BeforePushCheck /\ Cardinality(Pushed(j)) = n
          => StoppedAt(j, n)
    BY DEF StoppedAt
  <2>2. TypeOK /\ StoppedAt(j, n) /\ [Next]_vars => StoppedAt(j, n)'
    BY StoppedNext
  <2>3. StoppedAt(j, n) => Cardinality(Pushed(j)) = n
    BY DEF StoppedAt
  <2> QED
    BY <2>1, <2>2, <2>3, TypeCorrect, PTL DEF Spec
<1> QED
  BY <1>1 DEF DrainStopsPushes

=============================================================================
