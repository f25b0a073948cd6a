------------------------- MODULE AgentHostingProofs -------------------------
(* What the launch of a run keeps for any number of participants, wherever   *)
(* the scenario declares the one that opens the session.                     *)
EXTENDS AgentHosting, SequenceTheorems, TLAPS

(* The loop has dealt with the initiator before anyone else, and with nobody *)
(* beyond the current place.                                                 *)
LoopInv ==
  /\ step \in {"minting", "confirming"} => at <= Len(SpawnOrder)
  /\ at > 1 => report[Initiator] # "none"
  /\ \A i \in at .. Len(SpawnOrder) : report[SpawnOrder[i]] = "none"
  /\ step = "confirming" => child[Current] # "none"

(* What attach reported, and what the request was answered, stays true.      *)
ReportInv ==
  /\ \A p \in Participants : report[p] = "bootstrapped" => child[p] \in {"running", "exited"}
  /\ outcome # "pending" => step \in {"finished", "rejected"}
  /\ outcome = "launched" => \A p \in Participants : report[p] = "bootstrapped"

IInv ==
  /\ TypeOK /\ LoopInv /\ ReportInv
  /\ InitiatorComesFirst /\ TokenFilesFollowProcesses /\ RunningChildrenAreSupervised

-----------------------------------------------------------------------------
(* The spawn order is the declared participants, each once, initiator first. *)
LEMMA SpawnOrderFacts ==
  /\ Len(SpawnOrder) \in Nat /\ Len(SpawnOrder) = Len(Bindings) /\ Len(SpawnOrder) >= 1
  /\ DOMAIN SpawnOrder = 1 .. Len(SpawnOrder)
  /\ SpawnOrder[1] = Initiator
  /\ \A i \in 1 .. Len(SpawnOrder) : SpawnOrder[i] \in Participants
  /\ \A i, j \in 1 .. Len(SpawnOrder) : SpawnOrder[i] = SpawnOrder[j] => i = j
<1> DEFINE n == Len(Bindings)
           k == CHOOSE i \in DOMAIN Bindings : Bindings[i] = Initiator
           before == SubSeq(Bindings, 1, k - 1)
           after == SubSeq(Bindings, k + 1, n)
<1>1. n \in Nat /\ DOMAIN Bindings = 1 .. n /\ Bindings \in Seq(Participants)
  BY BindingsAssumption DEF Participants
<1>2. k \in 1 .. n /\ Bindings[k] = Initiator
  BY <1>1, BindingsAssumption
<1>3. SpawnOrder = IF k = 1 THEN Bindings ELSE <<Bindings[k]>> \o before \o after
  BY DEF SpawnOrder, orderForSpawn
<1>4. \A i \in 1 .. n : Bindings[i] \in Participants
  BY <1>1
<1> HIDE DEF k
<1>5. CASE k = 1
  BY <1>1, <1>2, <1>3, <1>4, <1>5, BindingsAssumption
<1>6. CASE k # 1
  <2> DEFINE first == <<Bindings[k]>> \o before
             from(i) == IF i = 1 THEN k ELSE IF i <= k THEN i - 1 ELSE i
  <2>1. /\ before \in Seq(Participants) /\ Len(before) = k - 1
        /\ \A i \in 1 .. k - 1 : before[i] = Bindings[i]
    BY <1>1, <1>2, <1>4, SubSeqProperties
  <2>2. after \in Seq(Participants) /\ Len(after) = n - k
    <3>1. \A i \in k + 1 .. n : Bindings[i] \in Participants
      BY <1>2, <1>4
    <3>2. after \in Seq(Participants) /\ Len(after) = IF k + 1 <= n THEN n - (k + 1) + 1 ELSE 0
      BY <1>1, <1>2, <3>1, SubSeqProperties
    <3> HIDE DEF after, n
    <3>3. CASE k = n
      BY <1>1, <1>2, <3>2, <3>3
    <3>4. CASE k + 1 <= n
      BY <1>1, <1>2, <3>2, <3>4
    <3> QED  BY <1>1, <1>2, <3>3, <3>4
  <2>3. ASSUME NEW i \in k + 1 .. n
        PROVE  after[i - k] = Bindings[i]
    <3>1. i - k \in 1 .. n - k /\ (k + 1) + (i - k) - 1 = i
      BY <1>1, <1>2
    <3> QED  BY <1>1, <1>2, <3>1
  <2>4. /\ first \in Seq(Participants) /\ Len(first) = k
        /\ \A i \in 1 .. k : first[i] = Bindings[from(i)]
    <3>1. <<Bindings[k]>> \in Seq(Participants) /\ Len(<<Bindings[k]>>) = 1
      BY <1>2, <1>4
    <3> HIDE DEF before
    <3>2. /\ first \in Seq(Participants) /\ Len(first) = 1 + (k - 1)
          /\ \A i \in 1 .. 1 + (k - 1) :
               first[i] = IF i <= 1 THEN <<Bindings[k]>>[i] ELSE before[i - 1]
      BY <2>1, <3>1, ConcatProperties
    <3> QED  BY <1>1, <1>2, <2>1, <3>2
  <2> HIDE DEF first, after
  <2>5. SpawnOrder = first \o after
    BY <1>3, <1>6 DEF first
  <2>6. /\ SpawnOrder \in Seq(Participants) /\ Len(SpawnOrder) = k + (n - k)
        /\ \A i \in 1 .. k + (n - k) :
             SpawnOrder[i] = IF i <= k THEN first[i] ELSE after[i - k]
    BY <2>2, <2>4, <2>5, ConcatProperties
  <2>7. Len(SpawnOrder) = n /\ DOMAIN SpawnOrder = 1 .. n
    BY <1>1, <1>2, <2>6
  <2>8. ASSUME NEW i \in 1 .. n
        PROVE  SpawnOrder[i] = Bindings[from(i)]
    BY SMTT(30), <1>1, <1>2, <2>3, <2>4, <2>6
  <2>9. \A i \in 1 .. n : from(i) \in 1 .. n
    BY <1>1, <1>2
  <2>10. \A i, j \in 1 .. n : from(i) = from(j) => i = j
    BY <1>1, <1>2
  <2>11. from(1) = k /\ n >= 1
    BY <1>1, <1>2
  <2> HIDE DEF from
  <2>12. \A i, j \in 1 .. n : Bindings[i] = Bindings[j] => i = j
    BY <1>1, BindingsAssumption
  <2> QED  BY <1>1, <1>2, <1>4, <2>7, <2>8, <2>9, <2>10, <2>11, <2>12
<1> QED  BY <1>5, <1>6

-----------------------------------------------------------------------------
(* A launch starts with nothing spawned and nothing reported. *)
LEMMA InitIInv == Init => IInv
<1> SUFFICES ASSUME Init PROVE IInv
  OBVIOUS
<1>1. Initiator \in Participants /\ \A i \in 1 .. Len(SpawnOrder) : SpawnOrder[i] \in Participants
  BY BindingsAssumption, SpawnOrderFacts DEF Participants
<1>2. TypeOK
  <2>1. Len(Bindings) \in Nat
    BY BindingsAssumption
  <2>2. at \in 1 .. Len(Bindings) + 1
    BY <2>1 DEF Init
  <2> QED  BY <2>2 DEF Init, TypeOK
<1>3. LoopInv
  BY <1>1, SpawnOrderFacts DEF Init, LoopInv
<1>4. ReportInv /\ InitiatorComesFirst /\ TokenFilesFollowProcesses /\ RunningChildrenAreSupervised
  BY DEF Init, ReportInv, InitiatorComesFirst, TokenFilesFollowProcesses,
         RunningChildrenAreSupervised
<1> QED  BY <1>2, <1>3, <1>4 DEF IInv

-----------------------------------------------------------------------------
(* Settling one participant: its report and the place of the loop move, and  *)
(* everything the loop has not come to is as it was.                         *)
LEMMA AttachedStep ==
  ASSUME TypeOK, LoopInv, step \in {"minting", "confirming"},
         NEW status \in {"bootstrapped", "resolved"}, Attached(status)
  PROVE  /\ at' \in 1 .. Len(Bindings) + 1
         /\ step' \in {"minting", "finished"}
         /\ report' \in [Participants -> {"none", "bootstrapped", "resolved"}]
         /\ Current \in Participants
         /\ report'[Current] = status
         /\ \A p \in Participants : p # Current => report'[p] = report[p]
         /\ \A p \in Participants : report[p] # "none" => report'[p] # "none"
         /\ LoopInv'
<1>1. /\ at \in 1 .. Len(SpawnOrder) /\ Len(SpawnOrder) \in Nat /\ at \in Nat
      /\ Len(SpawnOrder) = Len(Bindings)
      /\ Current \in Participants /\ Initiator \in Participants
  BY SpawnOrderFacts, BindingsAssumption DEF TypeOK, LoopInv, Current, Participants
<1>2. /\ at' = at + 1 /\ report' = [report EXCEPT ![Current] = status]
      /\ step' = IF at = Len(SpawnOrder) THEN "finished" ELSE "minting"
  BY DEF Attached
<1>3. /\ report'[Current] = status
      /\ \A p \in Participants : p # Current => report'[p] = report[p]
      /\ report' \in [Participants -> {"none", "bootstrapped", "resolved"}]
  BY <1>1, <1>2 DEF TypeOK
<1>4. \A p \in Participants : report[p] # "none" => report'[p] # "none"
  BY <1>3
<1>5. step' \in {"minting", "confirming"} => at' <= Len(SpawnOrder)
  BY <1>1, <1>2
<1>6. report'[Initiator] # "none"
  <2>1. CASE at = 1
    BY <1>3, <2>1, SpawnOrderFacts DEF Current
  <2>2. CASE at > 1
    BY <1>1, <1>4, <2>2 DEF LoopInv
  <2> QED  BY <1>1, <2>1, <2>2
<1>7. \A i \in at + 1 .. Len(SpawnOrder) : report'[SpawnOrder[i]] = "none"
  <2> TAKE i \in at + 1 .. Len(SpawnOrder)
  <2>1. i \in 1 .. Len(SpawnOrder) /\ i # at /\ i \in at .. Len(SpawnOrder)
    BY <1>1
  <2>2. SpawnOrder[i] # Current /\ SpawnOrder[i] \in Participants
    BY <1>1, <2>1, SpawnOrderFacts DEF Current
  <2> QED  BY <1>3, <2>1, <2>2 DEF LoopInv
<1>8. UNCHANGED SpawnOrder
  BY DEF SpawnOrder
<1>9. LoopInv'
  BY <1>2, <1>5, <1>6, <1>7, <1>8 DEF LoopInv
<1>10. at' \in 1 .. Len(Bindings) + 1
  BY <1>1, <1>2
<1> QED  BY <1>1, <1>2, <1>3, <1>4, <1>9, <1>10

(* A child's event settles at most the participant being confirmed.          *)
LEMMA ConfirmFailsStep ==
  ASSUME TypeOK, LoopInv, ReportInv, InitiatorComesFirst, NEW p \in Participants, ConfirmFails(p),
         UNCHANGED <<child, outcome>>
  PROVE  /\ at' \in 1 .. Len(Bindings) + 1
         /\ step' \in {"minting", "confirming", "finished", "rejected"}
         /\ report' \in [Participants -> {"none", "bootstrapped", "resolved"}]
         /\ LoopInv' /\ ReportInv' /\ InitiatorComesFirst'
<1>1. CASE step = "confirming" /\ p = Current
  <2>1. Attached("resolved")
    BY <1>1 DEF ConfirmFails
  <2>2. /\ at' \in 1 .. Len(Bindings) + 1 /\ step' \in {"minting", "finished"}
        /\ report' \in [Participants -> {"none", "bootstrapped", "resolved"}] /\ LoopInv'
        /\ \A q \in Participants : report'[q] = "bootstrapped" => report[q] = "bootstrapped"
        /\ \A q \in Participants : report[q] # "none" => report'[q] # "none"
    BY <1>1, <2>1, AttachedStep
  <2>3. outcome = "pending"
    BY <1>1 DEF ReportInv
  <2>4. ReportInv'
    BY <2>2, <2>3 DEF ReportInv, Participants
  <2>5. InitiatorComesFirst'
    BY <2>2, BindingsAssumption DEF InitiatorComesFirst, Participants
  <2> QED  BY <2>2, <2>4, <2>5
<1>2. CASE ~(step = "confirming" /\ p = Current)
  <2>1. UNCHANGED <<at, step, report>>
    BY <1>2 DEF ConfirmFails
  <2> QED  BY <2>1 DEF TypeOK, LoopInv, ReportInv, InitiatorComesFirst, Participants, Current,
                       SpawnOrder
<1> QED  BY <1>1, <1>2

-----------------------------------------------------------------------------
(* Every step of a launch keeps the invariant. *)
LEMMA IInvStep ==
  ASSUME IInv, [Next]_vars
  PROVE  IInv'
<1>0. /\ TypeOK /\ LoopInv /\ ReportInv
      /\ InitiatorComesFirst /\ TokenFilesFollowProcesses /\ RunningChildrenAreSupervised
      /\ Initiator \in Participants /\ UNCHANGED SpawnOrder
  BY BindingsAssumption DEF IInv, Participants, SpawnOrder
<1>1. ASSUME UNCHANGED <<child, signalled, processes, files>>
      PROVE  TokenFilesFollowProcesses' /\ RunningChildrenAreSupervised'
  BY <1>0, <1>1 DEF TokenFilesFollowProcesses, RunningChildrenAreSupervised
<1>2. ASSUME UNCHANGED <<at, step, child, report>>
      PROVE  LoopInv' /\ InitiatorComesFirst'
  BY <1>0, <1>2 DEF LoopInv, InitiatorComesFirst, Current
<1>3. CASE ManifestInvalid
  <2>1. /\ step = "minting" /\ Attached("resolved")
        /\ UNCHANGED <<child, signalled, health, processes, files, submission, outcome, destroyed>>
    BY <1>3 DEF ManifestInvalid, processVars
  <2>2. /\ at' \in 1 .. Len(Bindings) + 1 /\ step' \in {"minting", "finished"}
        /\ report' \in [Participants -> {"none", "bootstrapped", "resolved"}] /\ LoopInv'
        /\ \A q \in Participants : report'[q] = "bootstrapped" => report[q] = "bootstrapped"
        /\ \A q \in Participants : report[q] # "none" => report'[q] # "none"
    BY <1>0, <2>1, AttachedStep
  <2>3. TypeOK'
    BY <1>0, <2>1, <2>2 DEF TypeOK
  <2>4. ReportInv' /\ InitiatorComesFirst'
    BY <1>0, <2>1, <2>2 DEF ReportInv, InitiatorComesFirst
  <2> QED  BY <1>1, <2>1, <2>2, <2>3, <2>4 DEF IInv
<1>4. CASE MintFails
  <2>1. /\ step = "minting" /\ step' = "rejected"
        /\ UNCHANGED <<at, child, signalled, health, processes, files, report, submission, outcome,
                       destroyed>>
    BY <1>4 DEF MintFails, processVars
  <2>2. TypeOK' /\ LoopInv'
    BY <1>0, <2>1 DEF TypeOK, LoopInv
  <2>3. ReportInv' /\ InitiatorComesFirst'
    BY <1>0, <2>1 DEF ReportInv, InitiatorComesFirst
  <2> QED  BY <1>1, <2>1, <2>2, <2>3 DEF IInv
<1>5. CASE Launch
  <2>1. /\ step = "minting" /\ step' = "confirming" /\ at <= Len(SpawnOrder)
        /\ files' = files \cup {Current} /\ processes' = processes \cup {Current}
        /\ health' = [health EXCEPT ![Current] = "starting"]
        /\ UNCHANGED <<at, signalled, report, submission, outcome, destroyed>>
    BY <1>5 DEF Launch, Attaching
  <2>2. PICK c \in {"running", "broken"} : child' = [child EXCEPT ![Current] = c]
    BY <1>5 DEF Launch
  <2>3. at \in 1 .. Len(SpawnOrder) /\ Current \in Participants /\ UNCHANGED Current
    BY <1>0, <2>1, SpawnOrderFacts DEF TypeOK, Current
  <2>4. /\ child'[Current] = c
        /\ \A p \in Participants : p # Current => child'[p] = child[p]
    BY <1>0, <2>2, <2>3 DEF TypeOK
  <2>5. TypeOK'
    BY <1>0, <2>1, <2>2, <2>3 DEF TypeOK
  <2>6. LoopInv'
    BY <1>0, <2>1, <2>3, <2>4 DEF LoopInv
  <2>7. report[Current] = "none"
    <3>1. at \in at .. Len(SpawnOrder)
      BY <2>3, SpawnOrderFacts
    <3> QED  BY <1>0, <3>1 DEF LoopInv, Current
  <2>8. ReportInv'
    <3>1. outcome = "pending"
      BY <1>0, <2>1 DEF ReportInv
    <3>2. \A p \in Participants : report'[p] = "bootstrapped" => p # Current
      BY <2>1, <2>7
    <3> QED  BY <1>0, <2>1, <2>4, <3>1, <3>2 DEF ReportInv
  <2>9. InitiatorComesFirst'
    <3>1. Current = Initiator \/ report[Initiator] # "none"
      BY <1>0, <2>3, SpawnOrderFacts DEF LoopInv, Current
    <3> QED  BY <1>0, <2>1, <2>4, <3>1 DEF InitiatorComesFirst
  <2>10. TokenFilesFollowProcesses' /\ RunningChildrenAreSupervised'
    <3>1. files \subseteq Participants
      BY <1>0 DEF TypeOK
    <3> QED  BY <1>0, <2>1, <2>4, <3>1
             DEF TokenFilesFollowProcesses, RunningChildrenAreSupervised
  <2> QED  BY <2>5, <2>6, <2>8, <2>9, <2>10 DEF IInv
<1>6. CASE ConfirmWindow
  <2>1. /\ step = "confirming" /\ child[Current] # "broken" /\ Attached("bootstrapped")
        /\ UNCHANGED <<child, signalled, health, processes, files, submission, outcome, destroyed>>
    BY <1>6 DEF ConfirmWindow, processVars
  <2>2. /\ at' \in 1 .. Len(Bindings) + 1 /\ step' \in {"minting", "finished"}
        /\ report' \in [Participants -> {"none", "bootstrapped", "resolved"}] /\ LoopInv'
        /\ Current \in Participants
        /\ \A q \in Participants : q # Current => report'[q] = report[q]
        /\ \A q \in Participants : report[q] # "none" => report'[q] # "none"
    BY <1>0, <2>1, AttachedStep
  <2>3. TypeOK'
    BY <1>0, <2>1, <2>2 DEF TypeOK
  <2>4. child[Current] \in {"running", "exited"}
    BY <1>0, <2>1, <2>2 DEF TypeOK, LoopInv
  <2>5. outcome = "pending"
    BY <1>0, <2>1 DEF ReportInv
  <2>6. ReportInv'
    BY <1>0, <2>1, <2>2, <2>4, <2>5 DEF ReportInv
  <2>7. InitiatorComesFirst'
    BY <1>0, <2>1, <2>2 DEF InitiatorComesFirst
  <2> QED  BY <1>1, <2>1, <2>2, <2>3, <2>6, <2>7 DEF IInv
<1>7. ASSUME NEW p \in Participants, Exit(p)
      PROVE  IInv'
  <2>1. /\ child[p] = "running" /\ child' = [child EXCEPT ![p] = "exited"]
        /\ UNCHANGED <<at, step, signalled, health, processes, files, report, submission, outcome,
                       destroyed>>
    BY <1>7 DEF Exit
  <2>2. child'[p] = "exited" /\ \A q \in Participants : q # p => child'[q] = child[q]
    BY <1>0, <2>1 DEF TypeOK
  <2>3. TypeOK'
    BY <1>0, <2>1 DEF TypeOK
  <2>4. LoopInv'
    <3>1. at \in 1 .. Len(Bindings) + 1
      BY <1>0 DEF TypeOK
    <3>2. step = "confirming" => Current \in Participants
      BY <1>0, <3>1, SpawnOrderFacts DEF LoopInv, Current
    <3>3. UNCHANGED Current
      BY <1>0, <2>1 DEF Current
    <3>4. step' = "confirming" => child'[Current'] # "none"
      BY <1>0, <2>1, <2>2, <3>2, <3>3 DEF LoopInv
    <3> QED  BY <1>0, <2>1, <3>4 DEF LoopInv
  <2>5. ReportInv' /\ InitiatorComesFirst'
    BY <1>0, <2>1, <2>2 DEF ReportInv, InitiatorComesFirst
  <2>6. TokenFilesFollowProcesses' /\ RunningChildrenAreSupervised'
    <3>1. files \subseteq Participants
      BY <1>0 DEF TypeOK
    <3> QED  BY <1>0, <2>1, <2>2, <3>1
             DEF TokenFilesFollowProcesses, RunningChildrenAreSupervised
  <2> QED  BY <2>3, <2>4, <2>5, <2>6 DEF IInv
<1>8. ASSUME NEW p \in Participants, ExitEvent(p)
      PROVE  IInv'
  <2>1. /\ child[p] = "exited" /\ health' = [health EXCEPT ![p] = "stopped"]
        /\ files' = files \ {p} /\ processes' = processes \ {p} /\ ConfirmFails(p)
        /\ UNCHANGED <<child, signalled, submission, outcome, destroyed>>
    BY <1>8 DEF ExitEvent
  <2>2. /\ at' \in 1 .. Len(Bindings) + 1
        /\ step' \in {"minting", "confirming", "finished", "rejected"}
        /\ report' \in [Participants -> {"none", "bootstrapped", "resolved"}]
        /\ LoopInv' /\ ReportInv' /\ InitiatorComesFirst'
    BY <1>0, <2>1, ConfirmFailsStep
  <2>3. TypeOK'
    BY <1>0, <2>1, <2>2 DEF TypeOK
  <2>4. TokenFilesFollowProcesses' /\ RunningChildrenAreSupervised'
    BY <1>0, <2>1 DEF TokenFilesFollowProcesses, RunningChildrenAreSupervised
  <2> QED  BY <2>2, <2>3, <2>4 DEF IInv
<1>9. ASSUME NEW p \in Participants, ErrorEvent(p)
      PROVE  IInv'
  <2>1. /\ child[p] = "broken" /\ health' = [health EXCEPT ![p] = "unhealthy"]
        /\ processes' = processes \ {p} /\ ConfirmFails(p)
        /\ UNCHANGED <<child, signalled, files, submission, outcome, destroyed>>
    BY <1>9 DEF ErrorEvent
  <2>2. /\ at' \in 1 .. Len(Bindings) + 1
        /\ step' \in {"minting", "confirming", "finished", "rejected"}
        /\ report' \in [Participants -> {"none", "bootstrapped", "resolved"}]
        /\ LoopInv' /\ ReportInv' /\ InitiatorComesFirst'
    BY <1>0, <2>1, ConfirmFailsStep
  <2>3. TypeOK'
    BY <1>0, <2>1, <2>2 DEF TypeOK
  <2>4. TokenFilesFollowProcesses' /\ RunningChildrenAreSupervised'
    BY <1>0, <2>1 DEF TokenFilesFollowProcesses, RunningChildrenAreSupervised
  <2> QED  BY <2>2, <2>3, <2>4 DEF IInv
<1>10. ASSUME NEW p \in Participants, StartupTimeout(p)
       PROVE  IInv'
  <2>1. /\ health' = [health EXCEPT ![p] = "healthy"]
        /\ UNCHANGED <<at, step, child, signalled, processes, files, report, submission, outcome,
                       destroyed>>
    BY <1>10 DEF StartupTimeout
  <2>2. TypeOK' /\ ReportInv'
    BY <1>0, <2>1 DEF TypeOK, ReportInv
  <2> QED  BY <1>1, <1>2, <2>1, <2>2 DEF IInv
<1>11. CASE onModuleDestroy
  <2>1. /\ destroyed' = TRUE /\ signalled' = signalled \cup processes
        /\ files' = files \ processes /\ processes' = {}
        /\ UNCHANGED <<at, step, child, health, report, submission, outcome>>
    BY <1>11 DEF onModuleDestroy
  <2>2. TypeOK' /\ ReportInv'
    BY <1>0, <2>1 DEF TypeOK, ReportInv
  <2>3. TokenFilesFollowProcesses' /\ RunningChildrenAreSupervised'
    BY <1>0, <2>1 DEF TokenFilesFollowProcesses, RunningChildrenAreSupervised
  <2> QED  BY <1>2, <2>1, <2>2, <2>3 DEF IInv
<1>12. CASE SubmissionAnswered \/ SubmissionTimesOut
  <2>1. /\ submission' \in {"registered", "null"}
        /\ UNCHANGED <<at, step, child, signalled, health, processes, files, report, outcome,
                       destroyed>>
    BY <1>12 DEF SubmissionAnswered, SubmissionTimesOut, processVars
  <2>2. TypeOK' /\ ReportInv'
    BY <1>0, <2>1 DEF TypeOK, ReportInv
  <2> QED  BY <1>1, <1>2, <2>1, <2>2 DEF IInv
<1>13. CASE Answer
  <2>1. /\ step \in {"finished", "rejected"} /\ outcome' \in {"launched", "failed"}
        /\ outcome' = "launched" => \A p \in Participants : report[p] = "bootstrapped"
        /\ UNCHANGED <<at, step, child, signalled, health, processes, files, report, submission,
                       destroyed>>
    BY <1>13 DEF Answer, processVars
  <2>2. TypeOK' /\ ReportInv'
    BY <1>0, <2>1 DEF TypeOK, ReportInv
  <2> QED  BY <1>1, <1>2, <2>1, <2>2 DEF IInv
<1>14. CASE UNCHANGED vars
  <2>1. UNCHANGED <<at, step, child, signalled, health, processes, files, report, submission,
                    outcome, destroyed>>
    BY <1>14 DEF vars
  <2>2. TypeOK' /\ ReportInv'
    BY <1>0, <2>1 DEF TypeOK, ReportInv
  <2> QED  BY <1>1, <1>2, <2>1, <2>2 DEF IInv
<1> QED  BY <1>3, <1>4, <1>5, <1>6, <1>7, <1>8, <1>9, <1>10, <1>11, <1>12, <1>13, <1>14 DEF Next

-----------------------------------------------------------------------------
(* The inductive invariant holds in every state of every launch. *)
THEOREM Invariance == Spec => []IInv
<1>1. IInv /\ [Next]_vars => IInv'
  BY IInvStep
<1> QED  BY InitIInv, <1>1, PTL DEF Spec

(* Every variable of the launch keeps its type: the attach loop never runs    *)
(* past the last binding.                                                    *)
THEOREM Typing == Spec => []TypeOK
<1>1. IInv => TypeOK
  BY DEF IInv
<1> QED  BY Invariance, <1>1, PTL

(* No agent is spawned before the one that opens the session was settled.    *)
THEOREM InitiatorFirst == Spec => []InitiatorComesFirst
<1>1. IInv => InitiatorComesFirst
  BY DEF IInv
<1> QED  BY Invariance, <1>1, PTL

(* A run that is answered with success started every one of its agents.      *)
THEOREM SuccessIsReal == Spec => []SuccessMeansEveryAgentStarted
<1>1. IInv => SuccessMeansEveryAgentStarted
  BY DEF IInv, ReportInv, SuccessMeansEveryAgentStarted
<1> QED  BY Invariance, <1>1, PTL

(* No token stays on disk for an agent whose exit was noticed.               *)
THEOREM TokenFilesGo == Spec => []TokenFilesFollowProcesses
<1>1. IInv => TokenFilesFollowProcesses
  BY DEF IInv
<1> QED  BY Invariance, <1>1, PTL

(* The supervisor keeps or has signalled every child that is still running.  *)
THEOREM Supervision == Spec => []RunningChildrenAreSupervised
<1>1. IInv => RunningChildrenAreSupervised
  BY DEF IInv
<1> QED  BY Invariance, <1>1, PTL
=============================================================================
