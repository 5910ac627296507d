------------------------------ MODULE LibraryProofs -----------------------------
(*****************************************************************************)
(* What holds of runs that are given to others and of what a run is given:   *)
(* the members of a team, for any number of them and any protocol; the tasks *)
(* of an agent-to-agent server, for any number of them; the history of a     *)
(* session, trimmed by any strategy to any limits.                           *)
(*                                                                           *)
(* TeamInv says whose turn it is in a sequential team and what the results   *)
(* are so far, and that what is under way belongs to a team that is;         *)
(* TasksInv says what each task's handler may still do, and every step of it *)
(* is a step of TaskLifecycle or none.  Trimming computes over histories of  *)
(* any length: Upwards is induction stated with a set, Recursion says that   *)
(* what is defined from the number before it exists, and the lemmas about    *)
(* Total, In and Fit rest on the two.                                        *)
(*****************************************************************************)
EXTENDS TeamRun, A2ATasks, HistoryTrim, SequenceTheorems, WellFoundedInduction,
        TLAPS

-----------------------------------------------------------------------------
(* Teams                                                                     *)

Runs == Members \cup {Lead}

\* Member i of a sequential team has its turn: those before it have returned,
\* those behind it have not begun, and the results are there so far.
HasTurn(i) ==
    /\ run[i] = "running"
    /\ \A m \in Members : m < i => run[m] = "ok"
    /\ \A m \in Members : i < m => run[m] = "none"
    /\ results = [m \in 1 .. i - 1 |-> m]

InTurn ==
    /\ protocol = "sequential" /\ team = "idle" => results = <<>>
    /\ protocol = "sequential" /\ team = "running" => \E i \in Members : HasTurn(i)
    /\ protocol = "sequential" =>
          \A m \in Members \ {1} : run[m] # "none" => run[m - 1] = "ok"

\* The coordinator's run is there as long as its team, no other team has one.
Led ==
    /\ protocol # "coordinator" => run[Lead] = "none"
    /\ protocol = "coordinator" /\ team = "running" => run[Lead] = "running"

\* A team begins with no run and ends with none that goes on.
Nothing ==
    /\ team = "idle" => \A m \in Runs : run[m] = "none"
    /\ team \in {"returned", "raised"} => \A m \in Runs : ~Unfinished(m)

WholeResults ==
    team = "returned" /\ protocol # "coordinator" =>
        /\ results = [m \in Members |-> m]
        /\ \A m \in Members : run[m] = "ok"

\* A token that is set has set all that were made from it, before and after.
TokensCascade == cancelled => set = children

TeamInv ==
    /\ TeamTypeOK
    /\ InTurn /\ Led /\ Nothing /\ WholeResults
    /\ TokensCascade

\* The results of members 1 to n, and one more.
LEMMA NextResult ==
    ASSUME NEW n \in Nat
    PROVE  Append([m \in 1 .. n |-> m], n + 1) = [m \in 1 .. n + 1 |-> m]
<1> DEFINE s == [m \in 1 .. n |-> m]
           t == Append(s, n + 1)
<1>1. s \in Seq(Nat) /\ Len(s) = n
    OBVIOUS
<1>2. t \in Seq(Nat) /\ Len(t) = n + 1
    BY <1>1
<1>3. \A m \in 1 .. n + 1 : t[m] = m
    BY <1>1
<1>4. DOMAIN t = 1 .. n + 1 /\ t = [m \in 1 .. n + 1 |-> t[m]]
  <2> HIDE DEF t
  <2> QED
      BY <1>2
<1> HIDE DEF t
<1> QED
    BY <1>3, <1>4 DEF t

\* Before it begins a team has nothing.
LEMMA TeamInitial == TeamInit => TeamInv
<1> SUFFICES ASSUME TeamInit
             PROVE  TeamInv
    OBVIOUS
<1>1. <<>> \in Seq(Members \cup {Lead}) /\ 0 \in 0 .. MaxReplies
    BY TeamAssumption
<1>2. TeamTypeOK
    BY <1>1 DEF TeamInit, TeamTypeOK
<1>3. InTurn /\ Led
    BY TeamAssumption DEF TeamInit, InTurn, Led, Members, Lead
<1>4. Nothing /\ WholeResults /\ TokensCascade
    BY DEF TeamInit, Nothing, WholeResults, TokensCascade, Runs, Unfinished
<1> QED
    BY <1>2, <1>3, <1>4 DEF TeamInv

\* A run that is under way belongs to a team that is.
LEMMA UnderWay ==
    ASSUME TeamInv, NEW m \in Runs, Unfinished(m)
    PROVE  team = "running"
    BY DEF TeamInv, TeamTypeOK, Nothing, Unfinished

\* In a sequential team it is the run of the member whose turn it is.
LEMMA OneTurn ==
    ASSUME TeamInv, NEW m \in Runs, Unfinished(m), protocol = "sequential"
    PROVE  m \in Members /\ HasTurn(m)
<1>1. PICK i \in Members : HasTurn(i)
    BY UnderWay DEF TeamInv, InTurn
<1>2. m \in Members
    BY DEF TeamInv, Led, Runs, Unfinished
<1>3. m = i
    BY <1>1, <1>2, TeamAssumption DEF HasTurn, Members, Unfinished
<1> QED
    BY <1>1, <1>2, <1>3

\* A run ends without a result: in turn, it is the last; led, the members'
\* runs leave the team alone and the coordinator's ends it.
LEMMA RunStops ==
    ASSUME TeamInv, NEW m \in Runs, Unfinished(m), NEW s \in {"raised", "cancelled", "aborted"},
           AllDone \/ m # Lead,
           Ends(m, s), Leaves(m), aborting' \in BOOLEAN,
           UNCHANGED <<protocol, results, children, cancelled, set, replies>>
    PROVE  TeamInv'
<1>1. /\ team = "running"
      /\ run' = [run EXCEPT ![m] = s]
      /\ team' = IF m = Lead \/ protocol = "sequential" THEN "raised" ELSE team
      /\ TeamTypeOK /\ DOMAIN run = Runs
    BY UnderWay DEF Ends, Leaves, TeamInv, TeamTypeOK, Runs
<1>2. TeamTypeOK'
    BY <1>1 DEF TeamTypeOK, Runs
<1>3. CASE protocol = "sequential"
  <2>1. m \in Members /\ HasTurn(m)
      BY <1>3, OneTurn
  <2>2. \A k \in Runs : k # m => ~Unfinished(k)
      BY <1>3, <2>1, OneTurn, TeamAssumption DEF HasTurn, Members, Unfinished
  <2>3. Nothing'
      BY <1>1, <1>3, <2>2 DEF Nothing, Unfinished
  <2>4. InTurn'
      BY <1>1, <1>3, <2>1, TeamAssumption DEF TeamInv, InTurn, HasTurn, Members, Runs
  <2>5. Led'
      BY <1>1, <1>3, <2>1, TeamAssumption DEF TeamInv, Led, Members, Lead, Runs
  <2> QED
      BY <1>1, <1>2, <1>3, <2>3, <2>4, <2>5 DEF TeamInv, WholeResults, TokensCascade
<1>4. CASE protocol # "sequential" /\ m # Lead
    BY <1>1, <1>2, <1>4 DEF TeamInv, InTurn, Led, Nothing, WholeResults, TokensCascade, Runs
<1>5. CASE protocol # "sequential" /\ m = Lead
  <2>1. AllDone /\ team' = "raised" /\ \A k \in Runs : k # m => k \in Members
      BY <1>1, <1>5 DEF Runs
  <2>2. \A k \in Runs : ~Unfinished(k)'
      BY <1>1, <1>5, <2>1 DEF AllDone, Unfinished
  <2>3. protocol = "coordinator"
      BY <1>5 DEF TeamInv, Led, Unfinished
  <2> QED
      BY <1>1, <1>2, <2>1, <2>2, <2>3 DEF TeamInv, InTurn, Led, Nothing, WholeResults, TokensCascade
<1> QED
    BY <1>3, <1>4, <1>5

\* A member of a sequential team returns: the next has its turn, or the team
\* is over.
LEMMA TurnReturns ==
    ASSUME TeamInv, NEW m \in Members, RunReturnsInTurn(m)
    PROVE  TeamInv'
<1>1. /\ protocol = "sequential" /\ run[m] = "running"
      /\ m \in Runs /\ Unfinished(m)
      /\ results' = Append(results, m)
      /\ UNCHANGED <<protocol, aborting, replies>>
      /\ TeamTypeOK /\ N \in Nat \ {0} /\ m \in 1 .. N
    BY TeamAssumption DEF RunReturnsInTurn, Runs, Unfinished, TeamInv, Members
<1>2. HasTurn(m) /\ team = "running"
    BY <1>1, OneTurn, UnderWay
<1>3. results' = [k \in 1 .. m |-> k]
  <2>1. m - 1 \in Nat /\ (m - 1) + 1 = m
      BY <1>1
  <2>2. results = [k \in 1 .. m - 1 |-> k]
      BY <1>2 DEF HasTurn
  <2> QED
      BY <1>1, <2>1, <2>2, NextResult
<1>4. results' \in Seq(Members \cup {Lead})
    BY <1>1, <1>3 DEF Members
<1>5. \A k \in Members : k # m => ~Unfinished(k)
    BY <1>1, <1>2 DEF HasTurn, Unfinished, Members
<1>6. run[Lead] = "none" /\ Lead # m
    BY <1>1 DEF TeamInv, Led, Lead
<1>7. CASE m = N \/ cancelled
  <2>1. /\ run' = [run EXCEPT ![m] = "ok"]
        /\ team' = IF m = N THEN "returned" ELSE "raised"
        /\ UNCHANGED <<children, cancelled, set>>
      BY <1>7 DEF RunReturnsInTurn, Ends
  <2>2. TeamTypeOK'
      BY <1>1, <1>4, <2>1 DEF TeamTypeOK
  <2>3. Nothing' /\ Led'
      BY <1>1, <1>5, <1>6, <2>1 DEF Nothing, Led, Unfinished, Runs, TeamTypeOK
  <2>4. InTurn'
      BY <1>1, <1>2, <2>1 DEF TeamInv, InTurn, HasTurn, TeamTypeOK, Members
  <2>5. WholeResults'
      BY <1>1, <1>2, <1>3, <2>1 DEF WholeResults, HasTurn, TeamTypeOK, Members
  <2> QED
      BY <2>1, <2>2, <2>3, <2>4, <2>5 DEF TeamInv, TokensCascade
<1>8. CASE m # N /\ ~cancelled
  <2>1. /\ run' = [run EXCEPT ![m] = "ok", ![m + 1] = "running"]
        /\ children' = children \cup {m + 1} /\ UNCHANGED <<team, cancelled, set>>
      BY <1>8 DEF RunReturnsInTurn, NewChildren
  <2>2. m + 1 \in Members /\ m + 1 # m /\ m + 1 # Lead
      BY <1>1, <1>8 DEF Members, Lead
  <2>3. /\ run'[m] = "ok" /\ run'[m + 1] = "running"
        /\ \A k \in Runs : k # m /\ k # m + 1 => run'[k] = run[k]
        /\ run' \in [Members \cup {Lead} ->
                        {"none", "queued", "running", "ok", "raised", "cancelled", "aborted"}]
      BY <1>1, <2>1, <2>2 DEF TeamTypeOK, Runs
  <2>4. TeamTypeOK'
      BY <1>1, <1>4, <2>1, <2>2, <2>3 DEF TeamTypeOK
  <2>5. Nothing' /\ Led' /\ WholeResults' /\ TokensCascade'
      BY <1>1, <1>2, <1>6, <1>8, <2>1, <2>2, <2>3
      DEF TeamInv, Nothing, Led, WholeResults, TokensCascade, Runs
  <2>6. HasTurn(m + 1)'
    <3>1. \A k \in Members : k < m + 1 => run'[k] = "ok"
        BY <1>1, <1>2, <2>3 DEF HasTurn, Members, Runs
    <3>2. \A k \in Members : m + 1 < k => run'[k] = "none"
        BY <1>1, <1>2, <2>3 DEF HasTurn, Members, Runs
    <3>3. results' = [k \in 1 .. (m + 1) - 1 |-> k]
        BY <1>1, <1>3
    <3> QED
        BY <2>3, <3>1, <3>2, <3>3 DEF HasTurn
  <2>7. InTurn'
    <3>1. ASSUME NEW k \in Members \ {1}, run'[k] # "none"
          PROVE  run'[k - 1] = "ok"
      <4>1. k \in 2 .. m + 1
          BY <1>1, <2>6, <3>1 DEF HasTurn, Members
      <4> QED
          BY <1>1, <2>6, <4>1 DEF HasTurn, Members
    <3> QED
        BY <1>1, <1>2, <2>1, <2>2, <2>6, <3>1 DEF InTurn
  <2> QED
      BY <2>4, <2>5, <2>7 DEF TeamInv
<1> QED
    BY <1>7, <1>8

\* The beginning of a team: what it launches is under way with it.
LEMMA TeamBegins ==
    ASSUME TeamInv, Begin
    PROVE  TeamInv'
<1>1. /\ team = "idle" /\ ~cancelled /\ team' = "running"
      /\ UNCHANGED <<protocol, results, aborting, replies>>
      /\ TeamTypeOK /\ N \in Nat \ {0} /\ \A m \in Runs : run[m] = "none"
      /\ protocol \in {"sequential", "parallel", "coordinator"}
    BY TeamAssumption DEF Begin, TeamInv, Nothing, TeamTypeOK
<1>2. PICK ms \in SUBSET Runs, s \in {"queued", "running"} :
        /\ run' = [m \in DOMAIN run |-> IF m \in ms THEN s ELSE run[m]]
        /\ children' = children \cup ms /\ UNCHANGED <<cancelled, set>>
        /\ protocol = "sequential" => ms = {1} /\ s = "running"
        /\ protocol = "parallel" => ms = Members
        /\ protocol = "coordinator" => ms = {Lead} /\ s = "running"
  <2>1. CASE protocol = "sequential"
    <3>1. Launch({1}, "running") /\ {1} \in SUBSET Runs
        BY <1>1, <2>1 DEF Begin, Runs, Members
    <3> QED
        BY <1>1, <2>1, <3>1 DEF Launch, NewChildren
  <2>2. CASE protocol = "parallel"
    <3>1. Launch(Members, "queued") /\ Members \in SUBSET Runs
        BY <1>1, <2>2 DEF Begin, Runs
    <3> QED
        BY <1>1, <2>2, <3>1 DEF Launch, NewChildren
  <2>3. CASE protocol = "coordinator"
    <3>1. Launch({Lead}, "running") /\ {Lead} \in SUBSET Runs
        BY <1>1, <2>3 DEF Begin, Runs
    <3> QED
        BY <1>1, <2>3, <3>1 DEF Launch, NewChildren
  <2> QED
      BY <1>1, <2>1, <2>2, <2>3
<1>3. run' = [m \in Runs |-> IF m \in ms THEN s ELSE "none"]
    BY <1>1, <1>2 DEF TeamTypeOK, Runs
<1>4. TeamTypeOK'
    BY <1>1, <1>2, <1>3 DEF TeamTypeOK, Runs
<1>5. Led' /\ Nothing' /\ WholeResults' /\ TokensCascade'
    BY <1>1, <1>2, <1>3 DEF Led, Nothing, WholeResults, TokensCascade, Runs, Members, Lead
<1>6. InTurn'
  <2> SUFFICES ASSUME protocol = "sequential"
               PROVE  InTurn'
      BY <1>1 DEF InTurn
  <2>1. 1 \in Members /\ \A m \in Members : run'[m] = IF m = 1 THEN "running" ELSE "none"
      BY <1>1, <1>2, <1>3 DEF Members, Runs
  <2>2. results' = [m \in 1 .. 1 - 1 |-> m]
      BY <1>1 DEF TeamInv, InTurn
  <2>3. HasTurn(1)'
      BY <1>1, <2>1, <2>2 DEF HasTurn, Members
  <2> QED
      BY <1>1, <2>1, <2>3 DEF InTurn
<1> QED
    BY <1>4, <1>5, <1>6 DEF TeamInv

\* Every step of a team, its members, its caller and its token keeps that.
LEMMA TeamStep == TeamInv /\ [TeamNext]_teamVars => TeamInv'
<1> SUFFICES ASSUME TeamInv, [TeamNext]_teamVars
             PROVE  TeamInv'
    OBVIOUS
<1> USE DEF Runs
<1>0. TeamTypeOK /\ N \in Nat \ {0}
    BY TeamAssumption DEF TeamInv
<1>1. CASE Begin
    BY <1>1, TeamBegins
<1>2. CASE BeginCancelled
    BY <1>0, <1>2
    DEF BeginCancelled, TeamInv, TeamTypeOK, InTurn, Led, Nothing, WholeResults, TokensCascade, Unfinished
<1>3. CASE GroupFails
    BY <1>0, <1>3
    DEF GroupFails, AllDone, TeamInv, TeamTypeOK, InTurn, Led, Nothing, WholeResults, TokensCascade, Unfinished
<1>4. CASE GroupReturns
  <2>1. results' \in Seq(Members \cup {Lead})
      BY <1>0, <1>4 DEF GroupReturns, Members
  <2> QED
      BY <1>0, <1>4, <2>1
      DEF GroupReturns, TeamInv, TeamTypeOK, InTurn, Led, Nothing, WholeResults, TokensCascade, Unfinished
<1>5. ASSUME NEW m \in Members, RunReturnsInTurn(m)
      PROVE  TeamInv'
    BY <1>5, TurnReturns
<1>6. ASSUME NEW m \in Members, RunReturns(m)
      PROVE  TeamInv'
  <2>1. /\ run' = [run EXCEPT ![m] = "ok"] /\ protocol # "sequential" /\ m \in Runs
        /\ UNCHANGED <<protocol, team, results, aborting, children, cancelled, set, replies>>
      BY <1>6 DEF RunReturns, Ends
  <2>2. team = "running"
      BY <1>6, UnderWay DEF RunReturns, Unfinished
  <2>3. m # Lead
      BY <1>0 DEF Members, Lead
  <2> QED
      BY <1>0, <2>1, <2>2, <2>3
      DEF TeamInv, TeamTypeOK, InTurn, Led, Nothing, WholeResults, TokensCascade
<1>7. ASSUME NEW m \in Members, RunRaises(m)
      PROVE  TeamInv'
  <2>1. m # Lead /\ m \in Runs
      BY <1>0 DEF Members, Lead
  <2> QED
      BY <1>0, <1>7, <2>1, RunStops DEF RunRaises, Unfinished, TeamTypeOK
<1>8. ASSUME NEW m \in Runs, TaskStarts(m)
      PROVE  TeamInv'
  <2>1. /\ run[m] = "queued" /\ run' = [run EXCEPT ![m] = "running"]
        /\ UNCHANGED <<protocol, team, results, aborting, children, cancelled, set, replies>>
      BY <1>8 DEF TaskStarts
  <2>2. team = "running"
      BY <2>1, UnderWay DEF Unfinished
  <2>3. protocol # "sequential"
      BY <2>1, OneTurn DEF Unfinished, HasTurn
  <2>4. m # Lead \/ protocol = "coordinator"
      BY <2>1 DEF TeamInv, Led
  <2> QED
      BY <1>0, <2>1, <2>2, <2>3, <2>4
      DEF TeamInv, TeamTypeOK, InTurn, Led, Nothing, WholeResults, TokensCascade
<1>9. ASSUME NEW m \in Runs, RunSeesToken(m)
      PROVE  TeamInv'
    BY <1>0, <1>9, RunStops DEF RunSeesToken, Unfinished, TeamTypeOK
<1>10. ASSUME NEW m \in Runs, RunAborted(m)
       PROVE  TeamInv'
    BY <1>0, <1>10, RunStops DEF RunAborted, TeamTypeOK
<1>11. ASSUME NEW ms \in SUBSET Members, LeadCalls(ms)
       PROVE  TeamInv'
  <2>1. /\ run[Lead] = "running" /\ replies < MaxReplies /\ replies' = replies + 1
        /\ run' = [m \in Runs |-> IF m \in ms THEN "queued" ELSE run[m]]
        /\ UNCHANGED <<protocol, team, results, aborting, children, cancelled, set>>
      BY <1>0, <1>11 DEF LeadCalls, TeamTypeOK
  <2>2. team = "running" /\ protocol = "coordinator" /\ Lead \notin ms
      BY <1>0, <2>1, UnderWay DEF Unfinished, TeamInv, Led, Members, Lead
  <2>3. replies' \in 0 .. MaxReplies
      BY <1>0, <2>1, TeamAssumption DEF TeamTypeOK
  <2> QED
      BY <1>0, <2>1, <2>2, <2>3
      DEF TeamInv, TeamTypeOK, InTurn, Led, Nothing, WholeResults, TokensCascade
<1>12. CASE LeadEnds
  <2>1. PICK s \in {"ok", "raised"} :
          /\ run[Lead] = "running" /\ AllDone
          /\ run' = [run EXCEPT ![Lead] = s]
          /\ team' \in {"returned", "raised"}
          /\ results' \in {results, <<Lead>>}
          /\ UNCHANGED <<protocol, aborting, children, cancelled, set, replies>>
      BY <1>12 DEF LeadEnds, Ends
  <2>2. team = "running" /\ protocol = "coordinator" /\ Lead \notin Members
      BY <1>0, <2>1, UnderWay DEF Unfinished, TeamInv, Led, Members, Lead
  <2>3. \A m \in Runs : ~Unfinished(m)'
      BY <1>0, <2>1 DEF AllDone, Unfinished, TeamTypeOK
  <2>4. TeamTypeOK'
    <3>1. <<Lead>> \in Seq(Members \cup {Lead})
        OBVIOUS
    <3>2. results' \in Seq(Members \cup {Lead})
        BY <1>0, <2>1, <3>1 DEF TeamTypeOK
    <3>3. run' \in [Members \cup {Lead} ->
                  {"none", "queued", "running", "ok", "raised", "cancelled", "aborted"}]
        BY <1>0, <2>1 DEF TeamTypeOK
    <3> QED
        BY <1>0, <2>1, <3>2, <3>3 DEF TeamTypeOK
  <2> QED
      BY <2>1, <2>2, <2>3, <2>4 DEF TeamInv, InTurn, Led, Nothing, WholeResults, TokensCascade
<1>13. CASE CancelTeam
    BY <1>0, <1>13
    DEF CancelTeam, TeamInv, TeamTypeOK, InTurn, HasTurn, Led, Nothing, WholeResults, TokensCascade, Unfinished
<1>14. CASE AbortTeam
    BY <1>0, <1>14
    DEF AbortTeam, TeamInv, TeamTypeOK, InTurn, HasTurn, Led, Nothing, WholeResults, TokensCascade, Unfinished
<1>15. CASE UNCHANGED teamVars
    BY <1>0, <1>15
    DEF teamVars, TeamInv, TeamTypeOK, InTurn, HasTurn, Led, Nothing, WholeResults, TokensCascade, Unfinished
<1> QED
    BY <1>1, <1>2, <1>3, <1>4, <1>5, <1>6, <1>7, <1>8, <1>9, <1>10, <1>11, <1>12, <1>13, <1>14, <1>15
    DEF TeamNext, TeamEnds, RunEnds, RunStopped

\* A team of any size that is over has left no run behind, and one that
\* returned has every member's result in its place.
THEOREM TeamsEndWhole == TeamSpec => []TeamWhole
<1>1. TeamInv => TeamWhole
    BY DEF TeamInv, TeamTypeOK, TeamWhole, Nothing, WholeResults, InTurn, Runs
<1> QED
    BY <1>1, TeamInitial, TeamStep, PTL DEF TeamSpec

\* A team's token reaches every run that was given a child of it, also those
\* that begin after it was set.
THEOREM TokensReachRuns == TeamSpec => []TokensCascade
<1>1. TeamInv => TokensCascade
    BY DEF TeamInv
<1> QED
    BY <1>1, TeamInitial, TeamStep, PTL DEF TeamSpec

-----------------------------------------------------------------------------
(* The tasks implement their life cycle.                                     *)

TasksInv ==
    /\ TasksTypeOK
    /\ \A s \in Sends :
          /\ send[s] = "idle" => status[s] = "none"
          /\ send[s] = "handling" => status[s] \in {"working", "canceled"}
          /\ status[s] # "submitted"

\* A task can be completed, failed or, once it is handled, canceled only while
\* it is working.
LEMMA AllowedSays ==
    ASSUME NEW st \in DOMAIN Allowed
    PROVE  /\ "completed" \in Allowed[st] <=> st = "working"
           /\ "failed" \in Allowed[st] <=> st = "working"
           /\ "canceled" \in Allowed[st] => st \in {"submitted", "working"}
<1> USE DEF Allowed
<1>1. CASE st = "working"
    BY <1>1
<1>2. CASE st = "submitted"
    BY <1>2
<1>3. CASE st \in {"none", "completed", "failed", "canceled"}
    BY <1>3
<1> QED
    BY <1>1, <1>2, <1>3

\* No request has been made.
LEMMA TasksInitial == TasksInit => TasksInv /\ Lifecycle!LifecycleInit
<1> SUFFICES ASSUME TasksInit
             PROVE  TasksInv /\ Lifecycle!LifecycleInit
    OBVIOUS
<1>1. TasksInv
    <2>1. "none" \in DOMAIN Allowed
        BY DEF Allowed
    <2>2. artifacts \in [Sends -> Nat]
        BY DEF TasksInit
    <2> QED
        BY <2>1, <2>2 DEF TasksInit, TasksInv, TasksTypeOK
<1>2. Lifecycle!LifecycleInit
    BY DEF TasksInit, Lifecycle!LifecycleInit
<1> QED
    BY <1>1, <1>2

\* Each step of the server is a step of the life cycle or leaves it alone.
LEMMA TasksStep ==
    TasksInv /\ [TasksNext]_taskVars
        => TasksInv' /\ [Lifecycle!LifecycleNext]_Lifecycle!lifecycleVars
<1> DEFINE delivered == {s \in Sends : artifacts[s] > 0}
           answered == {s \in Sends : send[s] = "answered"}
           Step == [Lifecycle!LifecycleNext]_Lifecycle!lifecycleVars
<1> SUFFICES ASSUME TasksInv, [TasksNext]_taskVars
             PROVE  TasksInv' /\ Step
    OBVIOUS
<1>1. {"none", "working", "completed", "failed", "canceled"} \subseteq DOMAIN Allowed
    BY DEF Allowed
<1>2. \A s \in Sends : status[s] \in DOMAIN Allowed /\ artifacts[s] \in Nat
    BY DEF TasksInv, TasksTypeOK
<1> HIDE DEF delivered, answered, Step
<1>3. UNCHANGED <<status, delivered, answered>> => Step
    BY DEF Step, delivered, answered, Lifecycle!lifecycleVars
<1>4. ASSUME NEW s \in Sends, NEW i \in Ids, Send(s, i)
      PROVE  TasksInv' /\ Step
    <2>1. TasksInv'
        BY <1>1, <1>4 DEF Send, TasksInv, TasksTypeOK
    <2>2. delivered' = delivered /\ answered' = answered
        BY <1>4 DEF Send, TasksInv, TasksTypeOK, delivered, answered
    <2>3. Lifecycle!Begin(s)
        BY <1>4, <2>2 DEF Send, TasksInv, Lifecycle!Begin, delivered, answered
    <2> QED
        BY <2>1, <2>3 DEF Step, Lifecycle!LifecycleNext
<1>5. ASSUME NEW s \in Sends, HandlerReturns(s)
      PROVE  TasksInv' /\ Step
    <2>1. status[s] = "working"
        BY <1>2, <1>5, AllowedSays DEF HandlerReturns
    <2>2. TasksInv'
        <3>1. artifacts' \in [Sends -> Nat]
            BY <1>5 DEF HandlerReturns, TasksInv, TasksTypeOK
        <3> QED
            BY <1>1, <1>5, <3>1 DEF HandlerReturns, TasksInv, TasksTypeOK
    <2>3. delivered' = delivered \cup {s}
        BY <1>2, <1>5 DEF HandlerReturns, TasksInv, TasksTypeOK, delivered
    <2>4. answered' = answered \cup {s}
        BY <1>5 DEF HandlerReturns, TasksInv, TasksTypeOK, answered
    <2>5. Lifecycle!Complete(s)
        BY <1>5, <2>1, <2>3, <2>4 DEF HandlerReturns, Lifecycle!Complete, delivered,
            answered
    <2> QED
        BY <2>2, <2>5 DEF Step, Lifecycle!LifecycleNext
<1>6. ASSUME NEW s \in Sends, ResultComesLate(s)
      PROVE  TasksInv' /\ Step
    <2>1. status[s] = "canceled"
        BY <1>2, <1>6, AllowedSays DEF ResultComesLate, TasksInv
    <2>2. TasksInv'
        <3>1. artifacts' \in [Sends -> Nat]
            BY <1>6 DEF ResultComesLate, TasksInv, TasksTypeOK
        <3> QED
            BY <1>6, <3>1 DEF ResultComesLate, TasksInv, TasksTypeOK
    <2>3. delivered' = delivered \cup {s}
        BY <1>2, <1>6 DEF ResultComesLate, TasksInv, TasksTypeOK, delivered
    <2>4. answered' = answered
        BY <1>6 DEF ResultComesLate, TasksInv, TasksTypeOK, answered
    <2>5. Lifecycle!DeliverLate(s)
        BY <1>6, <2>1, <2>3, <2>4 DEF ResultComesLate, Lifecycle!DeliverLate,
            delivered, answered
    <2> QED
        BY <2>2, <2>5 DEF Step, Lifecycle!LifecycleNext
<1>7. ASSUME NEW s \in Sends, HandlerRaises(s)
      PROVE  TasksInv' /\ Step
    <2>1. status[s] = "working"
        BY <1>2, <1>7, AllowedSays DEF HandlerRaises
    <2>2. TasksInv'
        BY <1>1, <1>7 DEF HandlerRaises, TasksInv, TasksTypeOK
    <2>3. delivered' = delivered
        BY <1>7 DEF HandlerRaises, delivered
    <2>4. answered' = answered \cup {s}
        BY <1>7 DEF HandlerRaises, TasksInv, TasksTypeOK, answered
    <2>5. Lifecycle!Fail(s)
        BY <1>7, <2>1, <2>3, <2>4 DEF HandlerRaises, Lifecycle!Fail, delivered, answered
    <2> QED
        BY <2>2, <2>5 DEF Step, Lifecycle!LifecycleNext
<1>8. ASSUME NEW s \in Sends, FailureComesLate(s) \/ SendAborted(s)
      PROVE  TasksInv' /\ Step
    <2>1. TasksInv'
        BY <1>8 DEF FailureComesLate, SendAborted, TasksInv, TasksTypeOK
    <2>2. UNCHANGED <<status, delivered, answered>>
        BY <1>8 DEF FailureComesLate, SendAborted, TasksInv, TasksTypeOK, delivered,
            answered
    <2> QED
        BY <1>3, <2>1, <2>2
<1>9. ASSUME NEW i \in Ids, CancelTask(i)
      PROVE  TasksInv' /\ Step
    <2> DEFINE s == tasks[i]
    <2>1. s \in Sends
        BY <1>9 DEF CancelTask, TasksInv, TasksTypeOK
    <2>2. "canceled" \in Allowed[status[s]]
        BY <1>9 DEF CancelTask
    <2>3. status' = [status EXCEPT ![s] = "canceled"]
          /\ UNCHANGED <<artifacts, tasks, send>>
        BY <1>9 DEF CancelTask
    <2> HIDE DEF s
    <2>4. status[s] = "working"
        BY <1>2, <2>1, <2>2, AllowedSays DEF TasksInv
    <2>5. TasksInv'
        BY <1>1, <2>1, <2>3, <2>4 DEF TasksInv, TasksTypeOK
    <2>6. delivered' = delivered /\ answered' = answered
        BY <2>3 DEF delivered, answered
    <2>7. Lifecycle!Cancel(s)
        BY <2>3, <2>4, <2>6 DEF Lifecycle!Cancel, delivered, answered
    <2> QED
        BY <2>1, <2>5, <2>7 DEF Step, Lifecycle!LifecycleNext
<1>10. CASE UNCHANGED taskVars
    <2>1. TasksInv'
        BY <1>10 DEF taskVars, TasksInv, TasksTypeOK
    <2>2. UNCHANGED <<status, delivered, answered>>
        BY <1>10 DEF taskVars, delivered, answered
    <2> QED
        BY <1>3, <2>1, <2>2
<1> QED
    BY <1>4, <1>5, <1>6, <1>7, <1>8, <1>9, <1>10 DEF TasksNext

\* However requests, results, failures and cancellations race, the server's
\* tasks follow the life cycle of TaskLifecycle.
THEOREM TasksFollowLifecycle == TasksSpec => LifecycleSpec
<1> QED
    BY TasksInitial, TasksStep, PTL
       DEF TasksSpec, LifecycleSpec, Lifecycle!LifecycleSpec

-----------------------------------------------------------------------------
(* Counting up                                                               *)

\* A set of numbers that has 0, and with a number the next one, has them all.
LEMMA Upwards ==
    ASSUME NEW S, 0 \in S, \A n \in Nat : n \in S => n + 1 \in S
    PROVE  Nat \subseteq S
<1> DEFINE T == {n \in Nat : n \notin S}
           R == OpToRel(<, Nat)
<1>1. SUFFICES ASSUME T # {} PROVE FALSE
    OBVIOUS
<1>2. IsWellFoundedOn(R, Nat)
    BY NatLessThanWellFounded
<1>3. T \subseteq Nat
    OBVIOUS
<1> HIDE DEF R, T
<1>4. PICK x \in T : \A y \in T : ~ (<<y, x>> \in R)
    BY <1>1, <1>2, <1>3, WFMin
<1>5. \A y \in T : ~ (y < x)
    BY <1>3, <1>4 DEF OpToRel, R
<1>6. x \in Nat /\ x \notin S
    BY <1>4 DEF T
<1>7. x # 0
    BY <1>6
<1>8. x - 1 \in Nat /\ x - 1 < x /\ x = (x - 1) + 1
    BY <1>6, <1>7
<1>9. x - 1 \in S
    BY <1>5, <1>8 DEF T
<1> QED
    BY <1>6, <1>8, <1>9

\* f begins with v, and each further value comes from the one before it.
Follows(f, L, V, v, Step) ==
    /\ f \in [0 .. L -> V]
    /\ f[0] = v
    /\ \A i \in 1 .. L : f[i] = Step[<<i, f[i - 1]>>]

IsStep(Step, L, V) == Step \in [(1 .. L) \X V -> V]

\* A function that is given for 0, and for each number from the one before it,
\* exists.
LEMMA Recursion ==
    ASSUME NEW L \in Nat, NEW V, NEW v \in V, NEW Step, IsStep(Step, L, V)
    PROVE  \E f : Follows(f, L, V, v, Step)
<1> DEFINE Good(f, k) ==
               f[0] = v /\ \A i \in 1 .. k : f[i] = Step[<<i, f[i - 1]>>]
           S == {k \in Nat : k <= L => \E f \in [0 .. k -> V] : Good(f, k)}
<1> USE DEF IsStep
<1>1. 0 \in S
  <2> DEFINE f == [i \in 0 .. 0 |-> v]
  <2>1. f \in [0 .. 0 -> V] /\ Good(f, 0)
      OBVIOUS
  <2> HIDE DEF Good, f
  <2> QED
      BY <2>1
<1>2. ASSUME NEW k \in Nat, k \in S
      PROVE  k + 1 \in S
  <2>1. SUFFICES ASSUME k + 1 <= L
                 PROVE  \E g \in [0 .. k + 1 -> V] : Good(g, k + 1)
      OBVIOUS
  <2>2. PICK f \in [0 .. k -> V] : Good(f, k)
      BY <1>2, <2>1
  <2> DEFINE g == [i \in 0 .. k + 1 |-> IF i = k + 1 THEN Step[<<k + 1, f[k]>>]
                                         ELSE f[i]]
  <2>3. Step[<<k + 1, f[k]>>] \in V
    <3>1. f[k] \in V /\ k + 1 \in 1 .. L
        BY <2>1
    <3> QED
        BY <3>1
  <2>4. g \in [0 .. k + 1 -> V]
      BY <2>3
  <2>5. Good(g, k + 1)
    <3>1. g[0] = v
        BY <2>2
    <3>2. ASSUME NEW i \in 1 .. k + 1
          PROVE  g[i] = Step[<<i, g[i - 1]>>]
      <4>1. i - 1 \in 0 .. k /\ g[i - 1] = f[i - 1]
          OBVIOUS
      <4>2. CASE i = k + 1
        <5>1. i - 1 = k /\ g[i] = Step[<<k + 1, f[k]>>]
            BY <4>2
        <5> HIDE DEF g
        <5> QED
            BY <4>1, <4>2, <5>1
      <4>3. CASE i # k + 1
        <5>1. i \in 1 .. k /\ g[i] = f[i]
            BY <4>3
        <5> QED
            BY <2>2, <4>1, <5>1
      <4> QED
          BY <4>2, <4>3
    <3> QED
        BY <3>1, <3>2
  <2> HIDE DEF g, Good
  <2> QED
      BY <2>4, <2>5
<1> HIDE DEF S
<1>3. L \in S
    BY <1>1, <1>2, Upwards
<1> QED
    BY <1>3 DEF S, Follows

\* What holds of the empty sequence, and with a sequence of each that is longer
\* by one, holds of all.
LEMMA SequencesUp ==
    ASSUME NEW M, NEW S, <<>> \in S,
           \A s \in Seq(M), m \in M : s \in S => Append(s, m) \in S
    PROVE  Seq(M) \subseteq S
<1> DEFINE T == {n \in Nat : \A s \in Seq(M) : Len(s) = n => s \in S}
<1>1. 0 \in T
    BY EmptySeq
<1>2. ASSUME NEW n \in Nat, n \in T
      PROVE  n + 1 \in T
  <2>1. SUFFICES ASSUME NEW s \in Seq(M), Len(s) = n + 1
                 PROVE  s \in S
      OBVIOUS
  <2>2. s # <<>>
      BY <2>1, EmptySeq
  <2>3. PICK t \in Seq(M), m \in M : s = Append(t, m)
      BY <2>2, SequenceEmptyOrAppend
  <2>4. Len(t) \in Nat /\ Len(s) = Len(t) + 1
      BY <2>3, AppendProperties, LenProperties
  <2>5. Len(t) = n
      BY <2>1, <2>4
  <2> QED
      BY <1>2, <2>3, <2>5
<1> HIDE DEF T
<1>3. Nat \subseteq T
    BY <1>1, <1>2, Upwards
<1>4. ASSUME NEW s \in Seq(M) PROVE s \in S
  <2>1. Len(s) \in T
      BY <1>3, LenProperties
  <2> QED
      BY <2>1 DEF T
<1> QED
    BY <1>4

\* Appending to the second part appends to the whole.
LEMMA AppendOfConcat ==
    ASSUME NEW M, NEW s \in Seq(M), NEW t \in Seq(M), NEW m \in M
    PROVE  s \o Append(t, m) = Append(s \o t, m)
<1>1. <<m>> \in Seq(M) /\ s \o t \in Seq(M)
    BY ConcatProperties
<1>2. Append(t, m) = t \o <<m>> /\ Append(s \o t, m) = (s \o t) \o <<m>>
    BY <1>1, AppendIsConcat
<1> QED
    BY <1>1, <1>2, ConcatAssociative

-----------------------------------------------------------------------------
(* What the operators of HistoryTrim return                                  *)

\* _estimate_tokens is never 0.
LEMMA TokensPositive == ASSUME NEW m \in Message PROVE Tokens(m) \in Nat \ {0}
<1>1. m.usage \in Nat /\ m.chars \in Nat
    BY DEF Message
<1>2. m.chars \div 3 \in Nat
    BY <1>1
<1> HIDE DEF Message
<1> QED
    BY <1>1, <1>2 DEF Tokens

\* A message counts for at least one token.
LEMMA TotalFacts ==
    ASSUME NEW ms \in Seq(Message)
    PROVE  Total(ms) \in Nat /\ (ms # <<>> => Total(ms) > 0)
<1> DEFINE L == Len(ms)
           Sum(s) == [i \in 0 .. L |-> IF i = 0 THEN 0 ELSE s[i - 1] + Tokens(ms[i])]
           sum == CHOOSE s : s = Sum(s)
           Step == [x \in (1 .. L) \X Nat |-> x[2] + Tokens(ms[x[1]])]
<1>1. L \in Nat /\ \A i \in 1 .. L : Tokens(ms[i]) \in Nat \ {0}
    BY LenProperties, ElementOfSeq, TokensPositive
<1>2. Total(ms) = sum[L]
    BY Zenon DEF Total
<1>3. Step \in [(1 .. L) \X Nat -> Nat]
    BY <1>1
<1>4. \E s : s = Sum(s)
  <2> HIDE DEF L
  <2>1. PICK f \in [0 .. L -> Nat] :
            f[0] = 0 /\ \A i \in 1 .. L : f[i] = Step[<<i, f[i - 1]>>]
    <3> DEFINE V == Nat
               v == 0
    <3>1. L \in Nat /\ v \in V /\ IsStep(Step, L, V)
        BY <1>1, <1>3 DEF IsStep
    <3> HIDE DEF Step, V, v
    <3>2. PICK f : Follows(f, L, V, v, Step)
        BY <3>1, Recursion, Zenon
    <3> QED
        BY <3>2 DEF V, v, Follows
  <2>2. ASSUME NEW i \in 1 .. L
        PROVE  f[i] = f[i - 1] + Tokens(ms[i])
    <3>1. i - 1 \in 0 .. L
        BY <1>1
    <3>2. f[i - 1] \in Nat
        BY <3>1
    <3> QED
        BY <2>1, <3>2
  <2>3. f = Sum(f)
      BY <1>1, <2>1, <2>2
  <2> QED
      BY <2>3
<1>5. sum = Sum(sum)
  <2> HIDE DEF Sum
  <2> QED
      BY <1>4
<1> HIDE DEF sum, L, Step
<1>6. sum[0] = 0 /\ \A i \in 1 .. L : sum[i] = sum[i - 1] + Tokens(ms[i])
    BY <1>1, <1>5
<1> HIDE DEF Sum
<1> DEFINE S == {n \in Nat : n <= L => sum[n] \in Nat}
<1>7. ASSUME NEW n \in Nat, n \in S PROVE n + 1 \in S
    BY <1>1, <1>6, <1>7
<1>8. Nat \subseteq S
  <2>1. 0 \in S
      BY <1>6
  <2> HIDE DEF S
  <2> QED
      BY <1>7, <2>1, Upwards
<1>9. \A n \in 0 .. L : sum[n] \in Nat
    BY <1>1, <1>8
<1>10. ms # <<>> => L > 0
    BY EmptySeq DEF L
<1>11. L > 0 => sum[L] = sum[L - 1] + Tokens(ms[L]) /\ L - 1 \in 0 .. L /\ L \in 1 .. L
    BY <1>1, <1>6
<1> QED
    BY <1>1, <1>2, <1>9, <1>10, <1>11

\* f[i] is what is selected of the first i messages.
Selects(R, ms, f) ==
    /\ f \in [0 .. Len(ms) -> Seq(Message)]
    /\ In(R, ms) = f[Len(ms)]
    /\ f[0] = <<>>
    /\ \A i \in 1 .. Len(ms) :
          f[i] = IF ms[i].role \in R THEN Append(f[i - 1], ms[i]) ELSE f[i - 1]

\* The walk by which In selects.
LEMMA InWalk ==
    ASSUME NEW R, NEW ms \in Seq(Message)
    PROVE  \E f : Selects(R, ms, f)
<1> DEFINE L == Len(ms)
           V == Seq(Message)
           v == <<>>
           Walk(s) == [i \in 0 .. L |-> IF i = 0 THEN <<>>
                                        ELSE IF ms[i].role \in R
                                             THEN Append(s[i - 1], ms[i])
                                        ELSE s[i - 1]]
           walk == CHOOSE s : s = Walk(s)
           Step == [x \in (1 .. L) \X V |-> IF ms[x[1]].role \in R
                                            THEN Append(x[2], ms[x[1]]) ELSE x[2]]
<1>1. L \in Nat /\ \A i \in 1 .. L : ms[i] \in Message
    BY LenProperties, ElementOfSeq
<1>2. In(R, ms) = walk[L]
    BY Zenon DEF In
<1>3. Step \in [(1 .. L) \X V -> V] /\ v \in V
  <2>1. \A s \in V, i \in 1 .. L : Append(s, ms[i]) \in V
      BY <1>1, AppendProperties
  <2>2. v \in V
      BY EmptySeq
  <2> HIDE DEF V
  <2> QED
      BY <2>1, <2>2
<1>4. \E s : s = Walk(s)
  <2> HIDE DEF L, V, v, Step
  <2>1. PICK f : Follows(f, L, V, v, Step)
    <3>1. L \in Nat /\ v \in V /\ IsStep(Step, L, V)
        BY <1>1, <1>3 DEF IsStep
    <3> QED
        BY <3>1, Recursion, Zenon
  <2>2. ASSUME NEW i \in 1 .. L
        PROVE  f[i] = IF ms[i].role \in R THEN Append(f[i - 1], ms[i]) ELSE f[i - 1]
    <3>1. i - 1 \in 0 .. L
        BY <1>1
    <3>2. f[i - 1] \in V
        BY <2>1, <3>1 DEF Follows
    <3> QED
        BY <2>1, <3>2 DEF Step, Follows
  <2>3. ASSUME NEW i \in 0 .. L
        PROVE  f[i] = IF i = 0 THEN <<>>
                      ELSE IF ms[i].role \in R THEN Append(f[i - 1], ms[i])
                      ELSE f[i - 1]
    <3>1. CASE i = 0
        BY <2>1, <3>1 DEF v, Follows
    <3>2. CASE i # 0
      <4>1. i \in 1 .. L
          BY <1>1, <3>2
      <4> QED
          BY <2>2, <3>2, <4>1, Zenon
    <3> QED
        BY <3>1, <3>2
  <2>4. f = [i \in 0 .. L |-> f[i]]
      BY <2>1 DEF Follows
  <2>5. f = Walk(f)
      BY <2>3, <2>4, Zenon
  <2> QED
      BY <2>5
<1>5. walk = Walk(walk)
  <2> HIDE DEF Walk
  <2> QED
      BY <1>4
<1> HIDE DEF walk, L, Step
<1>6. /\ walk[0] = <<>>
      /\ \A i \in 1 .. L :
            walk[i] = IF ms[i].role \in R THEN Append(walk[i - 1], ms[i]) ELSE walk[i - 1]
  <2>1. 0 \in 0 .. L /\ \A i \in 1 .. L : i \in 0 .. L /\ i # 0
      BY <1>1
  <2>2. \A i \in 0 .. L : walk[i] = Walk(walk)[i]
      BY <1>5, Zenon
  <2> QED
      BY <2>1, <2>2, Zenon
<1>7. DOMAIN walk = 0 .. L /\ walk = [i \in 0 .. L |-> walk[i]]
    BY <1>5
<1> HIDE DEF Walk
<1> DEFINE S == {n \in Nat : n <= L => walk[n] \in Seq(Message)}
<1>8. ASSUME NEW n \in Nat, n \in S PROVE n + 1 \in S
  <2>1. SUFFICES ASSUME n + 1 <= L PROVE walk[n + 1] \in Seq(Message)
      OBVIOUS
  <2>2. n + 1 \in 1 .. L /\ (n + 1) - 1 = n /\ n <= L
      BY <1>1, <2>1
  <2>3. walk[n] \in Seq(Message) /\ ms[n + 1] \in Message
      BY <1>1, <1>8, <2>2
  <2>4. Append(walk[n], ms[n + 1]) \in Seq(Message)
      BY <2>3, AppendProperties
  <2>5. walk[n + 1] = IF ms[n + 1].role \in R THEN Append(walk[n], ms[n + 1]) ELSE walk[n]
      BY <1>6, <2>2
  <2> QED
      BY <2>3, <2>4, <2>5
<1>9. Nat \subseteq S
  <2>1. 0 \in S
      BY <1>6, EmptySeq
  <2> HIDE DEF S
  <2> QED
      BY <1>8, <2>1, Upwards
<1>10. walk \in [0 .. L -> Seq(Message)]
  <2>1. \A n \in 0 .. L : walk[n] \in Seq(Message)
      BY <1>1, <1>9
  <2> QED
      BY <1>7, <2>1
<1> QED
    BY <1>2, <1>6, <1>10, Zenon DEF L, Selects

\* In, message by message.
LEMMA InFacts ==
    ASSUME NEW R
    PROVE  /\ In(R, <<>>) = <<>>
           /\ \A ms \in Seq(Message) : In(R, ms) \in Seq(Message)
           /\ \A ms \in Seq(Message), m \in Message :
                 In(R, Append(ms, m)) =
                     IF m.role \in R THEN Append(In(R, ms), m) ELSE In(R, ms)
<1>1. In(R, <<>>) = <<>>
  <2>1. <<>> \in Seq(Message) /\ Len(<<>>) = 0
      BY EmptySeq
  <2>2. PICK f : Selects(R, <<>>, f)
      BY <2>1, InWalk
  <2> QED
      BY <2>1, <2>2 DEF Selects
<1>2. ASSUME NEW ms \in Seq(Message)
      PROVE  In(R, ms) \in Seq(Message)
  <2>1. PICK f : Selects(R, ms, f)
      BY InWalk
  <2>2. Len(ms) \in 0 .. Len(ms)
      BY LenProperties
  <2> QED
      BY <2>1, <2>2 DEF Selects
<1>3. ASSUME NEW ms \in Seq(Message), NEW m \in Message
      PROVE  In(R, Append(ms, m)) =
                 IF m.role \in R THEN Append(In(R, ms), m) ELSE In(R, ms)
  <2> DEFINE L == Len(ms)
             more == Append(ms, m)
  <2>1. /\ L \in Nat /\ more \in Seq(Message) /\ Len(more) = L + 1
        /\ \A i \in 1 .. L : more[i] = ms[i]
        /\ more[L + 1] = m
      BY LenProperties, AppendProperties
  <2> HIDE DEF more
  <2>2. PICK f : Selects(R, ms, f)
      BY InWalk
  <2>3. PICK g : Selects(R, more, g)
      BY <2>1, InWalk
  <2>4. /\ In(R, ms) = f[L] /\ f[0] = <<>>
        /\ \A i \in 1 .. L :
              f[i] = IF ms[i].role \in R THEN Append(f[i - 1], ms[i]) ELSE f[i - 1]
      BY <2>2 DEF Selects
  <2>5. /\ In(R, more) = g[Len(more)] /\ g[0] = <<>>
        /\ \A i \in 1 .. Len(more) :
              g[i] = IF more[i].role \in R THEN Append(g[i - 1], more[i]) ELSE g[i - 1]
      BY <2>3 DEF Selects
  <2> HIDE DEF L
  <2> DEFINE S == {n \in Nat : n <= L => g[n] = f[n]}
  <2>6. ASSUME NEW n \in Nat, n \in S PROVE n + 1 \in S
    <3>1. SUFFICES ASSUME n + 1 <= L PROVE g[n + 1] = f[n + 1]
        OBVIOUS
    <3>2. /\ n + 1 \in 1 .. L /\ n + 1 \in 1 .. Len(more)
          /\ (n + 1) - 1 = n /\ n <= L
        BY <2>1, <3>1
    <3>3. g[n] = f[n] /\ more[n + 1] = ms[n + 1]
        BY <2>1, <2>6, <3>2
    <3>4. g[n + 1] = IF more[n + 1].role \in R THEN Append(g[n], more[n + 1]) ELSE g[n]
        BY <2>5, <3>2
    <3>5. f[n + 1] = IF ms[n + 1].role \in R THEN Append(f[n], ms[n + 1]) ELSE f[n]
        BY <2>4, <3>2
    <3> QED
        BY <3>3, <3>4, <3>5
  <2>7. g[L] = f[L]
    <3>1. 0 \in S
        BY <2>4, <2>5
    <3> HIDE DEF S
    <3>2. L \in S
        BY <2>1, <2>6, <3>1, Upwards
    <3> QED
        BY <2>1, <3>2 DEF S
  <2>8. g[L + 1] = IF m.role \in R THEN Append(g[L], m) ELSE g[L]
    <3>1. L + 1 \in 1 .. Len(more) /\ (L + 1) - 1 = L
        BY <2>1
    <3> QED
        BY <2>1, <2>5, <3>1
  <2> QED
      BY <2>1, <2>4, <2>5, <2>7, <2>8 DEF more
<1> QED
    BY <1>1, <1>2, <1>3

\* In takes a joined sequence apart.
LEMMA InJoins ==
    ASSUME NEW R, NEW s \in Seq(Message), NEW t \in Seq(Message)
    PROVE  In(R, s \o t) = In(R, s) \o In(R, t)
<1> DEFINE S == {u \in Seq(Message) : In(R, s \o u) = In(R, s) \o In(R, u)}
<1>0. In(R, s) \in Seq(Message) /\ \A u \in Seq(Message) : In(R, u) \in Seq(Message)
    BY InFacts
<1>1. <<>> \in S
    BY <1>0, InFacts, EmptySeq, ConcatEmptySeq
<1>2. ASSUME NEW u \in Seq(Message), NEW m \in Message, u \in S
      PROVE  Append(u, m) \in S
  <2>1. Append(u, m) \in Seq(Message) /\ s \o u \in Seq(Message)
      BY AppendProperties, ConcatProperties
  <2>2. s \o Append(u, m) = Append(s \o u, m)
      BY AppendOfConcat
  <2>3. In(R, Append(s \o u, m)) =
            IF m.role \in R THEN Append(In(R, s \o u), m) ELSE In(R, s \o u)
      BY <2>1, InFacts
  <2>4. In(R, Append(u, m)) = IF m.role \in R THEN Append(In(R, u), m) ELSE In(R, u)
      BY InFacts
  <2>5. In(R, s) \o Append(In(R, u), m) = Append(In(R, s) \o In(R, u), m)
      BY <1>0, AppendOfConcat
  <2> QED
      BY <1>2, <2>1, <2>2, <2>3, <2>4, <2>5
<1> HIDE DEF S
<1>3. t \in S
    BY <1>1, <1>2, SequencesUp
<1> QED
    BY <1>3 DEF S

\* Selecting leaves what has a role that is wanted, and nothing else.
LEMMA InOnly ==
    ASSUME NEW R, NEW s \in Seq(Message)
    PROVE  /\ \A i \in 1 .. Len(In(R, s)) : In(R, s)[i].role \in R
           /\ (\A i \in 1 .. Len(s) : s[i].role \in R) => In(R, s) = s
           /\ (\A i \in 1 .. Len(s) : s[i].role \notin R) => In(R, s) = <<>>
<1> DEFINE All(u, Q) == \A i \in 1 .. Len(u) : u[i].role \in Q
           None(u) == \A i \in 1 .. Len(u) : u[i].role \notin R
           S == {u \in Seq(Message) : /\ All(In(R, u), R)
                                      /\ All(u, R) => In(R, u) = u
                                      /\ None(u) => In(R, u) = <<>>}
<1>1. <<>> \in S
    BY InFacts, EmptySeq
<1>2. ASSUME NEW u \in Seq(Message), NEW m \in Message, u \in S
      PROVE  Append(u, m) \in S
  <2> DEFINE in == In(R, u)
             more == Append(u, m)
  <2>1. /\ in \in Seq(Message)
        /\ In(R, more) = IF m.role \in R THEN Append(in, m) ELSE in
      BY InFacts
  <2>2. All(in, R) /\ (All(u, R) => in = u) /\ (None(u) => in = <<>>)
      BY <1>2
  <2>3. /\ Len(u) \in Nat /\ more \in Seq(Message) /\ Len(more) = Len(u) + 1
        /\ \A i \in 1 .. Len(u) : more[i] = u[i]
        /\ more[Len(u) + 1] = m
      BY LenProperties, AppendProperties
  <2>4. /\ Len(in) \in Nat /\ Len(Append(in, m)) = Len(in) + 1
        /\ \A i \in 1 .. Len(in) : Append(in, m)[i] = in[i]
        /\ Append(in, m)[Len(in) + 1] = m
      BY <2>1, LenProperties, AppendProperties
  <2> HIDE DEF in, more
  <2>5. m.role \in R => All(Append(in, m), R)
      BY <2>2, <2>4
  <2>6. All(more, R) => All(u, R) /\ m.role \in R
    <3>1. (\A i \in 1 .. Len(u) : i \in 1 .. Len(more)) /\ Len(u) + 1 \in 1 .. Len(more)
        BY <2>3
    <3> QED
        BY <2>3, <3>1
  <2>7. None(more) => None(u) /\ m.role \notin R
    <3>1. (\A i \in 1 .. Len(u) : i \in 1 .. Len(more)) /\ Len(u) + 1 \in 1 .. Len(more)
        BY <2>3
    <3> QED
        BY <2>3, <3>1
  <2> HIDE DEF All, None
  <2>8. more \in S
      BY <2>1, <2>2, <2>3, <2>5, <2>6, <2>7 DEF more
  <2> QED
      BY <2>8 DEF more
<1>3. s \in S
  <2> HIDE DEF S
  <2> QED
      BY <1>1, <1>2, SequencesUp
<1> QED
    BY <1>3

\* The system messages and the others, which are all there are.
LEMMA PartFacts ==
    ASSUME NEW ms \in Seq(Message)
    PROVE  /\ System(ms) \in Seq(Message) /\ Talk(ms) \in Seq(Message)
           /\ Len(System(ms)) + Len(Talk(ms)) = Len(ms)
           /\ \A i \in 1 .. Len(System(ms)) : System(ms)[i].role = "system"
           /\ \A i \in 1 .. Len(Talk(ms)) : Talk(ms)[i].role # "system"
<1> DEFINE S == {u \in Seq(Message) : Len(System(u)) + Len(Talk(u)) = Len(u)}
<1>1. \A u \in Seq(Message) : System(u) \in Seq(Message) /\ Talk(u) \in Seq(Message)
    BY InFacts DEF System, Talk
<1>2. <<>> \in S
  <2>1. System(<<>>) = <<>> /\ Talk(<<>>) = <<>>
      BY InFacts DEF System, Talk
  <2> QED
      BY <2>1, EmptySeq
<1>3. ASSUME NEW u \in Seq(Message), NEW m \in Message, u \in S
      PROVE  Append(u, m) \in S
  <2>1. m.role \in {"system"} <=> m.role \notin Roles \ {"system"}
      BY DEF Message
  <2>2. /\ System(Append(u, m)) = IF m.role \in {"system"} THEN Append(System(u), m)
                                  ELSE System(u)
        /\ Talk(Append(u, m)) = IF m.role \in Roles \ {"system"}
                                THEN Append(Talk(u), m) ELSE Talk(u)
    <3>1. \A R : In(R, Append(u, m)) = IF m.role \in R THEN Append(In(R, u), m)
                                       ELSE In(R, u)
        BY InFacts
    <3> QED
        BY <3>1 DEF System, Talk
  <2>3. /\ Len(System(u)) \in Nat /\ Len(Talk(u)) \in Nat /\ Len(u) \in Nat
        /\ Len(Append(System(u), m)) = Len(System(u)) + 1
        /\ Len(Append(Talk(u), m)) = Len(Talk(u)) + 1
        /\ Len(Append(u, m)) = Len(u) + 1
        /\ Append(u, m) \in Seq(Message)
      BY <1>1, LenProperties, AppendProperties
  <2>4. Len(System(u)) + Len(Talk(u)) = Len(u)
      BY <1>3
  <2>5. Len(System(Append(u, m))) + Len(Talk(Append(u, m))) = Len(Append(u, m))
    <3>1. CASE m.role \in {"system"}
      <4>1. Len(System(Append(u, m))) = Len(System(u)) + 1
          BY <2>2, <2>3, <3>1
      <4>2. Len(Talk(Append(u, m))) = Len(Talk(u))
          BY <2>1, <2>2, <3>1
      <4> QED
          BY <2>3, <2>4, <4>1, <4>2
    <3>2. CASE m.role \notin {"system"}
      <4>1. Len(System(Append(u, m))) = Len(System(u))
          BY <2>2, <3>2
      <4>2. Len(Talk(Append(u, m))) = Len(Talk(u)) + 1
          BY <2>1, <2>2, <2>3, <3>2
      <4> QED
          BY <2>3, <2>4, <4>1, <4>2
    <3> QED
        BY <3>1, <3>2
  <2> QED
      BY <2>3, <2>5
<1>4. ms \in S
  <2> HIDE DEF S
  <2> QED
      BY <1>2, <1>3, SequencesUp
<1>5. /\ \A i \in 1 .. Len(System(ms)) : System(ms)[i].role \in {"system"}
      /\ \A i \in 1 .. Len(Talk(ms)) : Talk(ms)[i].role \in Roles \ {"system"}
    BY InOnly DEF System, Talk
<1> QED
    BY <1>1, <1>4, <1>5

\* Put together from system messages and others, a sequence has just these.
LEMMA PutTogether ==
    ASSUME NEW s \in Seq(Message), NEW t \in Seq(Message),
           \A i \in 1 .. Len(s) : s[i].role = "system",
           \A i \in 1 .. Len(t) : t[i].role # "system"
    PROVE  s \o t \in Seq(Message) /\ System(s \o t) = s /\ Talk(s \o t) = t
<1>1. ASSUME NEW i \in 1 .. Len(t)
      PROVE  t[i].role \in Roles \ {"system"}
  <2>1. t[i] \in Message
      BY ElementOfSeq
  <2> QED
      BY <2>1 DEF Message
<1>2. In({"system"}, s) = s
    BY InOnly
<1>3. In({"system"}, t) = <<>>
    BY InOnly
<1>4. In(Roles \ {"system"}, s) = <<>>
    BY InOnly
<1>5. In(Roles \ {"system"}, t) = t
    BY <1>1, InOnly
<1>6. s \o <<>> = s /\ <<>> \o t = t /\ s \o t \in Seq(Message)
    BY ConcatEmptySeq, ConcatProperties
<1>7. \A R : In(R, s \o t) = In(R, s) \o In(R, t)
    BY InJoins
<1>8. In({"system"}, s \o t) = s
    BY <1>2, <1>3, <1>6, <1>7
<1>9. In(Roles \ {"system"}, s \o t) = t
    BY <1>4, <1>5, <1>6, <1>7
<1> QED
    BY <1>6, <1>8, <1>9 DEF System, Talk

\* The n newest messages: how many they are, and where each of them was.
LEMMA NewestFacts ==
    ASSUME NEW M, NEW s \in Seq(M), NEW n \in Nat
    PROVE  /\ Newest(s, n) \in Seq(M)
           /\ Len(Newest(s, n)) = IF n <= Len(s) THEN n ELSE Len(s)
           /\ \A i \in 1 .. Len(Newest(s, n)) :
                 /\ Newest(s, n)[i] = s[Len(s) - Len(Newest(s, n)) + i]
                 /\ Len(s) - Len(Newest(s, n)) + i \in 1 .. Len(s)
<1>1. Len(s) \in Nat /\ \A i \in 1 .. Len(s) : s[i] \in M
    BY LenProperties, ElementOfSeq
<1>2. CASE Len(s) <= n
  <2>1. Newest(s, n) = s
      BY <1>2 DEF Newest
  <2> QED
      BY <1>1, <1>2, <2>1
<1>3. CASE ~ (Len(s) <= n)
  <2> DEFINE from == Len(s) - n + 1
             new == SubSeq(s, from, Len(s))
  <2>1. Newest(s, n) = new
      BY <1>3 DEF Newest
  <2>2. from \in Int /\ Len(s) \in Int /\ \A i \in from .. Len(s) : s[i] \in M
      BY <1>1, <1>3
  <2>3. /\ new \in Seq(M)
        /\ Len(new) = IF from <= Len(s) THEN Len(s) - from + 1 ELSE 0
        /\ \A i \in 1 .. Len(s) - from + 1 : new[i] = s[from + i - 1]
    <3> HIDE DEF from
    <3> QED
        BY <2>2, SubSeqProperties
  <2> HIDE DEF new
  <2>4. Len(new) = n
      BY <1>1, <1>3, <2>3
  <2>5. ASSUME NEW i \in 1 .. n
        PROVE  new[i] = s[Len(s) - n + i] /\ Len(s) - n + i \in 1 .. Len(s)
    <3>1. i \in 1 .. Len(s) - from + 1 /\ from + i - 1 = Len(s) - n + i
        BY <1>1
    <3> QED
        BY <1>1, <1>3, <2>3, <3>1
  <2>6. new \in Seq(M) /\ n <= Len(s)
      BY <1>1, <1>3, <2>3
  <2> HIDE DEF from
  <2> QED
      BY <2>1, <2>4, <2>5, <2>6
<1> QED
    BY <1>1, <1>2, <1>3

\* The newest of the newest are the newest of all.
LEMMA NewestOfNewest ==
    ASSUME NEW M, NEW s \in Seq(M), NEW a \in Nat, NEW b \in 0 .. a
    PROVE  Newest(Newest(s, a), b) = Newest(s, b)
<1> DEFINE t == Newest(s, a)
           u == Newest(t, b)
           v == Newest(s, b)
<1>1. b \in Nat /\ Len(s) \in Nat
    BY LenProperties
<1>2. /\ t \in Seq(M) /\ Len(t) = IF a <= Len(s) THEN a ELSE Len(s)
      /\ \A i \in 1 .. Len(t) : t[i] = s[Len(s) - Len(t) + i]
    BY NewestFacts
<1>3. /\ v \in Seq(M) /\ Len(v) = IF b <= Len(s) THEN b ELSE Len(s)
      /\ \A i \in 1 .. Len(v) : v[i] = s[Len(s) - Len(v) + i]
    BY <1>1, NewestFacts
<1> HIDE DEF t
<1>4. /\ u \in Seq(M) /\ Len(u) = IF b <= Len(t) THEN b ELSE Len(t)
      /\ \A i \in 1 .. Len(u) : u[i] = t[Len(t) - Len(u) + i]
    BY <1>1, <1>2, NewestFacts
<1> HIDE DEF u, v
<1>5. Len(u) = Len(v) /\ Len(u) \in Nat /\ Len(t) \in Nat /\ Len(u) <= Len(t)
    BY <1>1, <1>2, <1>3, <1>4
<1>6. ASSUME NEW i \in 1 .. Len(u) PROVE u[i] = v[i]
  <2>1. /\ Len(t) - Len(u) + i \in 1 .. Len(t)
        /\ Len(s) - Len(t) + (Len(t) - Len(u) + i) = Len(s) - Len(v) + i
      BY <1>1, <1>5
  <2>2. t[Len(t) - Len(u) + i] = s[Len(s) - Len(t) + (Len(t) - Len(u) + i)]
      BY <1>2, <2>1
  <2> QED
      BY <1>3, <1>4, <1>5, <2>1, <2>2
<1>7. u = v
    BY <1>3, <1>4, <1>5, <1>6, SeqEqual
<1> QED
    BY <1>7 DEF t, u, v

\* The newest messages have no gap.
LEMMA NewestIsSuffix ==
    ASSUME NEW M, NEW s \in Seq(M), NEW n \in Nat
    PROVE  IsSuffix(Newest(s, n), s)
<1> DEFINE t == Newest(s, n)
<1>1. Len(s) \in Nat /\ \A i \in 1 .. Len(s) : s[i] \in M
    BY LenProperties, ElementOfSeq
<1>2. /\ t \in Seq(M) /\ Len(t) \in 0 .. Len(s)
      /\ \A i \in 1 .. Len(t) : t[i] = s[Len(s) - Len(t) + i]
    BY <1>1, NewestFacts
<1> HIDE DEF t
<1>3. \A i \in 1 .. Len(t) : t[i] \in M
    BY <1>2, ElementOfSeq
<1> DEFINE rs == Reverse(s)
           rt == Reverse(t)
<1>4. /\ Len(rs) = Len(s)
      /\ \A i \in 1 .. Len(s) : rs[i] = s[Len(s) - i + 1] /\ rs[i] \in M
    BY <1>1 DEF Reverse
<1>5. /\ Len(rt) = Len(t)
      /\ \A i \in 1 .. Len(t) : rt[i] = t[Len(t) - i + 1] /\ rt[i] \in M
    BY <1>2, <1>3 DEF Reverse
<1> HIDE DEF rs, rt
<1>6. ASSUME NEW i \in 1 .. Len(t) PROVE rt[i] = rs[i]
  <2>1. /\ Len(t) - i + 1 \in 1 .. Len(t) /\ i \in 1 .. Len(s)
        /\ Len(s) - Len(t) + (Len(t) - i + 1) = Len(s) - i + 1
      BY <1>1, <1>2
  <2>2. t[Len(t) - i + 1] = s[Len(s) - Len(t) + (Len(t) - i + 1)]
      BY <1>2, <2>1
  <2> QED
      BY <1>4, <1>5, <2>1, <2>2
<1>7. SubSeq(rt, 1, Len(rt)) = SubSeq(rs, 1, Len(rt))
  <2> DEFINE n1 == Len(t)
             p == SubSeq(rt, 1, n1)
             q == SubSeq(rs, 1, n1)
  <2>1. n1 \in Nat /\ n1 \in Int /\ 1 \in Int /\ \A i \in 1 .. n1 : rt[i] \in M /\ rs[i] \in M
      BY <1>1, <1>2, <1>4, <1>5
  <2> HIDE DEF n1
  <2>2. /\ p \in Seq(M) /\ Len(p) = IF 1 <= n1 THEN n1 - 1 + 1 ELSE 0
        /\ \A i \in 1 .. n1 - 1 + 1 : p[i] = rt[1 + i - 1]
      BY <2>1, SubSeqProperties
  <2>3. /\ q \in Seq(M) /\ Len(q) = IF 1 <= n1 THEN n1 - 1 + 1 ELSE 0
        /\ \A i \in 1 .. n1 - 1 + 1 : q[i] = rs[1 + i - 1]
      BY <2>1, SubSeqProperties
  <2> HIDE DEF p, q
  <2>4. Len(p) = n1 /\ Len(q) = n1
      BY <2>1, <2>2, <2>3
  <2>5. \A i \in 1 .. n1 : p[i] = rt[i] /\ q[i] = rs[i]
      BY <2>1, <2>2, <2>3
  <2>6. p = q
    <3>1. \A i \in 1 .. Len(p) : p[i] = q[i]
        BY <1>6, <2>4, <2>5 DEF n1
    <3> QED
        BY <2>2, <2>3, <2>4, <3>1, SeqEqual
  <2> QED
      BY <1>5, <2>6 DEF n1, p, q
<1>8. Len(rt) <= Len(rs)
    BY <1>1, <1>2, <1>4, <1>5
<1> QED
    BY <1>7, <1>8 DEF IsSuffix, IsPrefix, t, rs, rt

\* The walk of Fit keeps the newest messages that fit, and the next one would
\* not.
LEMMA FitFacts ==
    ASSUME NEW ms \in Seq(Message), NEW room \in Int
    PROVE  \E k \in 0 .. Len(ms) :
               /\ Fit(ms, room) = Newest(ms, k)
               /\ k > 0 => Total(Newest(ms, k)) <= room
               /\ k < Len(ms) => Total(Newest(ms, k + 1)) > room
<1> DEFINE L == Len(ms)
           V == Nat
           v == 0
           Small(i) == Total(Newest(ms, i)) <= room
           Next(i, n) == IF n = i - 1 /\ Small(i) THEN i ELSE n
           Walk(s) == [i \in 0 .. L |->
                         IF i = 0 THEN 0
                         ELSE LET n == s[i - 1]
                              IN  IF n = i - 1 /\ Total(Newest(ms, i)) <= room
                                  THEN i ELSE n]
           fit == CHOOSE s : s = Walk(s)
           Step == [x \in (1 .. L) \X V |-> Next(x[1], x[2])]
<1>1. L \in Nat
    BY LenProperties
<1>2. Fit(ms, room) = Newest(ms, fit[L])
    BY Zenon DEF Fit
<1>3. \A s, i : i \in 0 .. L /\ i # 0 => Walk(s)[i] = Next(i, s[i - 1])
    OBVIOUS
<1>4. \A s : Walk(s)[0] = 0 /\ Walk(s) = [i \in 0 .. L |-> Walk(s)[i]]
    BY <1>1
<1>5. Step \in [(1 .. L) \X V -> V] /\ v \in V
  <2>1. \A i \in 1 .. L, n \in V : Next(i, n) \in V
      BY <1>1
  <2> HIDE DEF Next, V
  <2>2. v \in V
      BY DEF V
  <2> QED
      BY <2>1, <2>2
<1>6. \E s : s = Walk(s)
  <2> HIDE DEF L, V, v, Step, Next, Walk
  <2>1. PICK f : Follows(f, L, V, v, Step)
    <3>1. L \in Nat /\ v \in V /\ IsStep(Step, L, V)
        BY <1>1, <1>5 DEF IsStep
    <3> QED
        BY <3>1, Recursion, Zenon
  <2>2. ASSUME NEW i \in 0 .. L
        PROVE  f[i] = Walk(f)[i]
    <3>1. CASE i = 0
        BY <1>4, <2>1, <3>1 DEF v, Follows
    <3>2. CASE i # 0
      <4>1. i \in 1 .. L /\ i - 1 \in 0 .. L
          BY <1>1, <3>2
      <4>2. f[i - 1] \in V
          BY <2>1, <4>1 DEF Follows
      <4>3. Step[<<i, f[i - 1]>>] = Next(i, f[i - 1])
          BY <4>1, <4>2 DEF Step
      <4> QED
          BY <1>3, <2>1, <3>2, <4>1, <4>3 DEF Follows
    <3> QED
        BY <3>1, <3>2
  <2>3. f = [i \in 0 .. L |-> f[i]] /\ Walk(f) = [i \in 0 .. L |-> Walk(f)[i]]
      BY <1>4, <2>1 DEF Follows
  <2>4. f = Walk(f)
      BY <2>2, <2>3
  <2> QED
      BY <2>4
<1>7. fit = Walk(fit)
  <2> HIDE DEF Walk
  <2> QED
      BY <1>6
<1> HIDE DEF fit, Walk, Next, Step
<1>8. fit[0] = 0 /\ \A i \in 1 .. L : fit[i] = Next(i, fit[i - 1])
  <2>1. \A i \in 1 .. L : i \in 0 .. L /\ i # 0
      BY <1>1
  <2> QED
      BY <1>3, <1>4, <1>7, <2>1
<1> DEFINE Right(n, k) == /\ k \in 0 .. n
                          /\ k > 0 => Small(k)
                          /\ k < n => ~Small(k + 1)
           S == {n \in Nat : n <= L => Right(n, fit[n])}
<1>9. 0 \in S
    BY <1>8
<1>10. ASSUME NEW n \in Nat, n \in S PROVE n + 1 \in S
  <2>1. SUFFICES ASSUME n + 1 <= L PROVE Right(n + 1, fit[n + 1])
      OBVIOUS
  <2>2. n <= L /\ n + 1 \in 1 .. L /\ (n + 1) - 1 = n
      BY <1>1, <2>1
  <2>3. Right(n, fit[n])
      BY <1>10, <2>2
  <2>4. fit[n + 1] = Next(n + 1, fit[n])
      BY <1>8, <2>2
  <2> HIDE DEF Small
  <2>5. fit[n + 1] = IF fit[n] = n /\ Small(n + 1) THEN n + 1 ELSE fit[n]
      BY <2>2, <2>4 DEF Next
  <2>6. CASE fit[n] = n /\ Small(n + 1)
      BY <2>5, <2>6
  <2>7. CASE fit[n] = n /\ ~Small(n + 1)
      BY <2>3, <2>5, <2>7
  <2>8. CASE fit[n] # n
      BY <2>3, <2>5, <2>8
  <2> QED
      BY <2>6, <2>7, <2>8
<1>11. Right(L, fit[L])
  <2> HIDE DEF S
  <2>1. L \in S
      BY <1>1, <1>9, <1>10, Upwards
  <2> QED
      BY <1>1, <2>1 DEF S
<1>12. fit[L] < L => Total(Newest(ms, fit[L] + 1)) > room
  <2>1. SUFFICES ASSUME fit[L] < L PROVE Total(Newest(ms, fit[L] + 1)) > room
      OBVIOUS
  <2>2. ~Small(fit[L] + 1) /\ fit[L] + 1 \in Nat
      BY <1>1, <1>11, <2>1
  <2>3. Newest(ms, fit[L] + 1) \in Seq(Message)
      BY <2>2, NewestFacts
  <2>4. Total(Newest(ms, fit[L] + 1)) \in Nat
      BY <2>3, TotalFacts
  <2> QED
      BY <2>2, <2>4
<1> QED
    BY <1>2, <1>11, <1>12

\* Compressing changes neither how many messages there are nor their roles, and
\* no system message.
LEMMA CompressFacts ==
    ASSUME NEW m \in Message
    PROVE  /\ Compress(m) \in Message /\ Compress(m).role = m.role
           /\ m.role = "system" => Compress(m) = m
<1>1. ToolLimit + Suffix \in Nat
    BY TrimAssumption
<1>2. m.role \in Roles
    BY DEF Message
<1>3. CASE m.role = "tool" /\ m.chars > ToolLimit
  <2>1. Compress(m) = [role |-> "tool", chars |-> ToolLimit + Suffix, usage |-> 0]
      BY <1>3 DEF Compress
  <2> QED
      BY <1>1, <1>2, <1>3, <2>1 DEF Message
<1>4. CASE ~ (m.role = "tool" /\ m.chars > ToolLimit)
    BY <1>4 DEF Compress
<1> QED
    BY <1>3, <1>4

\* The same of a whole history.
LEMMA CompressedFacts ==
    ASSUME NEW s \in Seq(Message)
    PROVE  /\ Compressed(s) \in Seq(Message) /\ Len(Compressed(s)) = Len(s)
           /\ \A i \in 1 .. Len(s) : Compressed(s)[i] = Compress(s[i])
<1>1. /\ Len(s) \in Nat /\ DOMAIN s = 1 .. Len(s)
      /\ \A i \in 1 .. Len(s) : s[i] \in Message
    BY LenProperties, ElementOfSeq
<1>2. \A i \in 1 .. Len(s) : Compress(s[i]) \in Message
    BY <1>1, CompressFacts
<1>3. Compressed(s) = [i \in 1 .. Len(s) |-> Compress(s[i])]
    BY <1>1 DEF Compressed
<1> QED
    BY <1>1, <1>2, <1>3

\* What is compressed has the messages in each role where they were.
LEMMA InCompressed ==
    ASSUME NEW R, NEW s \in Seq(Message)
    PROVE  In(R, Compressed(s)) = Compressed(In(R, s))
<1> DEFINE S == {u \in Seq(Message) : In(R, Compressed(u)) = Compressed(In(R, u))}
<1>1. Compressed(<<>>) = <<>>
  <2>1. <<>> \in Seq(Message)
      BY EmptySeq
  <2> QED
      BY <2>1, CompressedFacts, EmptySeq
<1>2. \A u \in Seq(Message), m \in Message :
          Compressed(Append(u, m)) = Append(Compressed(u), Compress(m))
  <2> SUFFICES ASSUME NEW u \in Seq(Message), NEW m \in Message
               PROVE  Compressed(Append(u, m)) = Append(Compressed(u), Compress(m))
      OBVIOUS
  <2> DEFINE more == Append(u, m)
             left == Compressed(more)
             right == Append(Compressed(u), Compress(m))
  <2>1. /\ Len(u) \in Nat /\ more \in Seq(Message) /\ Len(more) = Len(u) + 1
        /\ \A i \in 1 .. Len(u) : more[i] = u[i]
        /\ more[Len(u) + 1] = m
      BY LenProperties, AppendProperties
  <2> HIDE DEF more
  <2>2. /\ left \in Seq(Message) /\ Len(left) = Len(u) + 1
        /\ \A i \in 1 .. Len(u) + 1 : left[i] = Compress(more[i])
      BY <2>1, CompressedFacts
  <2>3. /\ Compressed(u) \in Seq(Message) /\ Len(Compressed(u)) = Len(u)
        /\ \A i \in 1 .. Len(u) : Compressed(u)[i] = Compress(u[i])
      BY CompressedFacts
  <2>4. Compress(m) \in Message
      BY CompressFacts
  <2>5. /\ right \in Seq(Message) /\ Len(right) = Len(u) + 1
        /\ \A i \in 1 .. Len(u) : right[i] = Compressed(u)[i]
        /\ right[Len(u) + 1] = Compress(m)
      BY <2>3, <2>4, AppendProperties
  <2> HIDE DEF left, right
  <2>6. ASSUME NEW i \in 1 .. Len(left) PROVE left[i] = right[i]
    <3>1. i \in 1 .. Len(u) + 1
        BY <2>2
    <3>2. CASE i = Len(u) + 1
        BY <2>1, <2>2, <2>5, <3>1, <3>2
    <3>3. CASE i # Len(u) + 1
      <4>1. i \in 1 .. Len(u)
          BY <2>1, <3>1, <3>3
      <4> QED
          BY <2>1, <2>2, <2>3, <2>5, <3>1, <4>1
    <3> QED
        BY <3>2, <3>3
  <2>7. left = right
      BY <2>2, <2>5, <2>6, SeqEqual
  <2> QED
      BY <2>7 DEF left, right, more
<1>3. <<>> \in S
    BY <1>1, InFacts, EmptySeq
<1>4. ASSUME NEW u \in Seq(Message), NEW m \in Message, u \in S
      PROVE  Append(u, m) \in S
  <2>1. /\ In(R, u) \in Seq(Message)
        /\ In(R, Append(u, m)) = IF m.role \in R THEN Append(In(R, u), m) ELSE In(R, u)
      BY InFacts
  <2>2. Compress(m) \in Message /\ Compress(m).role = m.role
      BY CompressFacts
  <2>3. Compressed(u) \in Seq(Message) /\ Append(u, m) \in Seq(Message)
      BY CompressedFacts, AppendProperties
  <2>4. In(R, Compressed(Append(u, m))) =
            IF m.role \in R THEN Append(In(R, Compressed(u)), Compress(m))
                            ELSE In(R, Compressed(u))
    <3>1. In(R, Append(Compressed(u), Compress(m))) =
              IF Compress(m).role \in R THEN Append(In(R, Compressed(u)), Compress(m))
                                        ELSE In(R, Compressed(u))
        BY <2>2, <2>3, InFacts
    <3>2. Compressed(Append(u, m)) = Append(Compressed(u), Compress(m))
        BY <1>2
    <3> QED
        BY <2>2, <3>1, <3>2
  <2>5. In(R, Compressed(u)) = Compressed(In(R, u))
      BY <1>4
  <2>6. Compressed(Append(In(R, u), m)) = Append(Compressed(In(R, u)), Compress(m))
      BY <1>2, <2>1
  <2> QED
      BY <2>1, <2>3, <2>4, <2>5, <2>6
<1>5. s \in S
  <2> HIDE DEF S
  <2> QED
      BY <1>3, <1>4, SequencesUp
<1> QED
    BY <1>5

\* Compressing leaves the system messages alone.
LEMMA CompressedParts ==
    ASSUME NEW s \in Seq(Message)
    PROVE  System(Compressed(s)) = System(s) /\ Talk(Compressed(s)) = Compressed(Talk(s))
<1> DEFINE sys == System(s)
<1>1. sys \in Seq(Message) /\ \A i \in 1 .. Len(sys) : sys[i].role = "system"
    BY PartFacts
<1>2. System(Compressed(s)) = Compressed(sys) /\ Talk(Compressed(s)) = Compressed(Talk(s))
    BY InCompressed DEF System, Talk
<1> HIDE DEF sys
<1>3. /\ Compressed(sys) \in Seq(Message) /\ Len(Compressed(sys)) = Len(sys)
      /\ \A i \in 1 .. Len(sys) : Compressed(sys)[i] = Compress(sys[i])
    BY <1>1, CompressedFacts
<1>4. \A i \in 1 .. Len(sys) : Compress(sys[i]) = sys[i]
    BY <1>1, ElementOfSeq, CompressFacts
<1>5. Compressed(sys) = sys
    BY <1>1, <1>3, <1>4, SeqEqual
<1> QED
    BY <1>2, <1>5 DEF sys

-----------------------------------------------------------------------------
(* What the strategies keep                                                  *)

\* The n newest of what was said fit beside all system messages.
FitsBeside(n, ms) ==
    /\ n + Len(System(ms)) <= cap
    /\ Total(Newest(Talk(ms), n)) + Total(System(ms)) <= budget

\* kept is the newest of what was said in ms, as much as fits.
MostOf(kept, ms) ==
    \E k \in 0 .. Len(Talk(ms)) :
        /\ kept = Newest(Talk(ms), k)
        /\ k > 0 => FitsBeside(k, ms)
        /\ k < Len(Talk(ms)) => ~FitsBeside(k + 1, ms)

\* The hard limit: what it leaves of the two parts.
LEMMA WindowFacts ==
    ASSUME NEW ms \in Seq(Message), cap \in Nat \ {0}
    PROVE  /\ Window(ms) \in Seq(Message)
           /\ \/ /\ Len(ms) <= cap
                 /\ Window(ms) = ms
              \/ /\ Len(System(ms)) >= cap /\ Len(ms) > cap
                 /\ Talk(Window(ms)) = <<>>
              \/ /\ Len(System(ms)) < cap /\ Len(ms) > cap
                 /\ System(Window(ms)) = System(ms)
                 /\ Talk(Window(ms)) = Newest(Talk(ms), cap - Len(System(ms)))
<1> DEFINE sys == System(ms)
           talk == Talk(ms)
<1>1. /\ sys \in Seq(Message) /\ talk \in Seq(Message)
      /\ \A i \in 1 .. Len(sys) : sys[i].role = "system"
      /\ \A i \in 1 .. Len(talk) : talk[i].role # "system"
    BY PartFacts
<1>2. Len(sys) \in Nat /\ Len(talk) \in Nat /\ Len(ms) \in Nat
    BY <1>1, LenProperties
<1>3. CASE Len(ms) <= cap
    BY <1>3 DEF Window
<1>4. CASE Len(ms) > cap /\ Len(sys) >= cap
  <2> DEFINE new == Newest(sys, cap)
  <2>1. Window(ms) = new
      BY <1>2, <1>4 DEF Window
  <2>2. /\ new \in Seq(Message)
        /\ \A i \in 1 .. Len(new) : new[i] = sys[Len(sys) - Len(new) + i]
                                    /\ Len(sys) - Len(new) + i \in 1 .. Len(sys)
      BY <1>1, NewestFacts
  <2>3. \A i \in 1 .. Len(new) : new[i].role = "system"
      BY <1>1, <2>2
  <2> HIDE DEF new
  <2>4. <<>> \in Seq(Message) /\ Len(<<>>) = 0 /\ new \o <<>> = new
      BY <2>2, EmptySeq, ConcatEmptySeq
  <2>5. \A i \in 1 .. Len(<<>>) : <<>>[i].role # "system"
      BY <2>4
  <2>6. Talk(new \o <<>>) = <<>>
      BY <2>2, <2>3, <2>4, <2>5, PutTogether
  <2> QED
      BY <1>4, <2>1, <2>2, <2>4, <2>6
<1>5. CASE Len(ms) > cap /\ Len(sys) < cap
  <2> DEFINE n == cap - Len(sys)
             new == Newest(talk, n)
  <2>1. Window(ms) = sys \o new
      BY <1>2, <1>5 DEF Window
  <2>2. n \in Nat
      BY <1>2, <1>5
  <2> HIDE DEF n
  <2>3. /\ new \in Seq(Message)
        /\ \A i \in 1 .. Len(new) : new[i] = talk[Len(talk) - Len(new) + i]
                                    /\ Len(talk) - Len(new) + i \in 1 .. Len(talk)
      BY <1>1, <2>2, NewestFacts
  <2>4. \A i \in 1 .. Len(new) : new[i].role # "system"
      BY <1>1, <2>3
  <2> HIDE DEF new, sys, talk
  <2>5. sys \o new \in Seq(Message) /\ System(sys \o new) = sys /\ Talk(sys \o new) = new
      BY <1>1, <2>3, <2>4, PutTogether
  <2> QED
      BY <1>5, <2>1, <2>5 DEF sys, talk, new, n
<1> QED
    BY <1>2, <1>3, <1>4, <1>5

\* Within the budget: the most that fits of what was said, after every system
\* message if anything else is left.
LEMMA BudgetFacts ==
    ASSUME NEW ms \in Seq(Message), cap \in Nat \ {0}, budget \in Nat
    PROVE  /\ TokenBudget(ms) \in Seq(Message)
           /\ MostOf(Talk(TokenBudget(ms)), ms)
           /\ Talk(TokenBudget(ms)) # <<>> => System(TokenBudget(ms)) = System(ms)
<1> DEFINE sys == System(ms)
           talk == Talk(ms)
           capped == Window(ms)
           csys == System(capped)
           ctalk == Talk(capped)
           room == budget - Total(csys)
           kept == Talk(TokenBudget(ms))
<1>1. /\ sys \in Seq(Message) /\ talk \in Seq(Message) /\ Len(sys) + Len(talk) = Len(ms)
      /\ Len(sys) \in Nat /\ Len(talk) \in Nat /\ Len(ms) \in Nat
    BY PartFacts, LenProperties
<1>2. capped \in Seq(Message)
    BY WindowFacts
<1>3. /\ csys \in Seq(Message) /\ ctalk \in Seq(Message)
      /\ \A i \in 1 .. Len(csys) : csys[i].role = "system"
      /\ \A i \in 1 .. Len(ctalk) : ctalk[i].role # "system"
      /\ Len(csys) \in Nat /\ Len(ctalk) \in Nat
    BY <1>2, PartFacts, LenProperties
<1>4. Total(csys) \in Nat /\ Total(sys) \in Nat /\ room \in Int
    BY <1>1, <1>3, TotalFacts
<1>5. \/ /\ Len(sys) + Len(talk) <= cap
         /\ csys = sys /\ ctalk = talk
      \/ /\ Len(sys) >= cap
         /\ ctalk = <<>>
      \/ /\ Len(sys) < cap /\ Len(sys) + Len(talk) > cap
         /\ csys = sys
         /\ ctalk = Newest(talk, cap - Len(sys))
    BY <1>1, WindowFacts
<1>6. \A n \in Nat : Newest(talk, n) \in Seq(Message) /\ Total(Newest(talk, n)) \in Nat
    BY <1>1, NewestFacts, TotalFacts
<1>7. Newest(talk, 0) = <<>> /\ Newest(ctalk, 0) = <<>>
    BY <1>1, <1>3, NewestFacts, EmptySeq
<1>8. Len(sys) >= cap => ~FitsBeside(1, ms)
    BY <1>1 DEF FitsBeside
<1> DEFINE T(n) == Total(Newest(talk, n))
<1>9. \A n \in Nat : FitsBeside(n, ms) <=> n + Len(sys) <= cap /\ T(n) + Total(sys) <= budget
    BY DEF FitsBeside
<1>10. \A n \in Nat : T(n) \in Nat
    BY <1>6
<1>11. CASE room <= 0
  <2>1. TokenBudget(ms) = csys
      BY <1>11 DEF TokenBudget
  <2>2. /\ <<>> \in Seq(Message) /\ csys \o <<>> = csys
        /\ \A i \in 1 .. Len(<<>>) : <<>>[i].role # "system"
      BY <1>3, EmptySeq, ConcatEmptySeq
  <2>3. Talk(csys) = <<>>
    <3> HIDE DEF csys
    <3>1. Talk(csys \o <<>>) = <<>>
        BY <1>3, <2>2, PutTogether
    <3> QED
        BY <2>2, <3>1
  <2>4. 0 < Len(talk) => ~FitsBeside(0 + 1, ms)
    <3>1. CASE Len(sys) >= cap
        BY <1>8, <3>1
    <3>2. CASE Len(sys) < cap
      <4>1. Total(sys) >= budget
          BY <1>4, <1>5, <1>11, <3>2
      <4>2. 0 < Len(talk) => Newest(talk, 1) # <<>>
          BY <1>1, NewestFacts, EmptySeq
      <4>3. 0 < Len(talk) => Total(Newest(talk, 1)) > 0
          BY <1>6, <4>2, TotalFacts
      <4>4. 0 < Len(talk) => T(1) > 0
          BY <4>3
      <4> HIDE DEF T
      <4>5. T(1) \in Nat /\ 1 \in Nat /\ 0 + 1 = 1
          BY <1>10
      <4> QED
          BY <1>4, <1>9, <4>1, <4>4, <4>5
    <3> QED
        BY <1>1, <3>1, <3>2
  <2>5. 0 \in 0 .. Len(talk)
      BY <1>1
  <2>6. MostOf(<<>>, ms)
      BY <1>7, <2>4, <2>5 DEF MostOf
  <2> QED
      BY <1>3, <2>1, <2>3, <2>6
<1>12. CASE ~ (room <= 0)
  <2> DEFINE fit == Fit(ctalk, room)
  <2>1. TokenBudget(ms) = csys \o fit
      BY <1>12 DEF TokenBudget
  <2>2. PICK k \in 0 .. Len(ctalk) :
            /\ fit = Newest(ctalk, k)
            /\ k > 0 => Total(Newest(ctalk, k)) <= room
            /\ k < Len(ctalk) => Total(Newest(ctalk, k + 1)) > room
      BY <1>3, <1>4, FitFacts
  <2>3. k \in Nat
      BY <1>3
  <2>4. /\ fit \in Seq(Message)
        /\ \A i \in 1 .. Len(fit) : fit[i] = ctalk[Len(ctalk) - Len(fit) + i]
                                    /\ Len(ctalk) - Len(fit) + i \in 1 .. Len(ctalk)
    <3>1. fit = Newest(ctalk, k) /\ ctalk \in Seq(Message)
        BY <1>3, <2>2
    <3> HIDE DEF fit, ctalk
    <3> DEFINE new == Newest(ctalk, k)
    <3>2. /\ new \in Seq(Message)
          /\ \A i \in 1 .. Len(new) : /\ new[i] = ctalk[Len(ctalk) - Len(new) + i]
                                      /\ Len(ctalk) - Len(new) + i \in 1 .. Len(ctalk)
        BY <2>3, <3>1, NewestFacts
    <3> HIDE DEF new
    <3>3. fit = new
        BY <3>1 DEF new
    <3> QED
        BY <3>2, <3>3
  <2> HIDE DEF fit, csys, ctalk
  <2>5. \A i \in 1 .. Len(fit) : fit[i].role # "system"
      BY <1>3, <2>4
  <2>6. /\ csys \o fit \in Seq(Message) /\ System(csys \o fit) = csys
        /\ Talk(csys \o fit) = fit
      BY <1>3, <2>4, <2>5, PutTogether
  <2>7. MostOf(fit, ms) /\ (fit # <<>> => csys = sys)
    <3>1. CASE Len(sys) + Len(talk) <= cap /\ csys = sys /\ ctalk = talk
      <4>1. /\ k > 0 => T(k) <= room
            /\ k < Len(talk) => T(k + 1) > room
            /\ Total(csys) = Total(sys)
          BY <2>2, <3>1
      <4> HIDE DEF T
      <4>2. k + 1 \in Nat
          BY <2>3
      <4>3. T(k) \in Nat /\ T(k + 1) \in Nat
          BY <1>10, <2>3, <4>2
      <4>4. k > 0 => FitsBeside(k, ms)
          BY <1>1, <1>4, <1>9, <2>2, <2>3, <3>1, <4>1, <4>3
      <4>5. k < Len(talk) => ~FitsBeside(k + 1, ms)
          BY <1>4, <1>9, <4>1, <4>3
      <4> QED
          BY <2>2, <3>1, <4>4, <4>5 DEF MostOf
    <3>2. CASE Len(sys) >= cap /\ ctalk = <<>>
      <4>1. k = 0 /\ fit = <<>>
        <5>1. Len(ctalk) = 0
            BY <3>2, EmptySeq
        <5> QED
            BY <1>7, <2>2, <5>1
      <4>2. 0 \in 0 .. Len(talk) /\ 0 + 1 = 1
          BY <1>1
      <4> QED
          BY <1>7, <1>8, <3>2, <4>1, <4>2 DEF MostOf
    <3>3. CASE /\ Len(sys) < cap /\ Len(sys) + Len(talk) > cap
               /\ csys = sys
               /\ ctalk = Newest(talk, cap - Len(sys))
      <4> DEFINE n == cap - Len(sys)
      <4>1. n \in Nat /\ n < Len(talk) /\ n + Len(sys) = cap
          BY <1>1, <3>3
      <4> HIDE DEF n
      <4>2. ctalk = Newest(talk, n) /\ Len(ctalk) = n
        <5>1. ctalk = Newest(talk, n)
            BY <3>3 DEF n
        <5> QED
            BY <1>1, <4>1, <5>1, NewestFacts
      <4>3. \A j \in 0 .. n : Newest(ctalk, j) = Newest(talk, j)
          BY <1>1, <4>1, <4>2, NewestOfNewest
      <4>4. k \in 0 .. n /\ k \in 0 .. Len(talk) /\ fit = Newest(talk, k)
          BY <1>1, <2>2, <4>1, <4>2, <4>3
      <4>5. k > 0 => FitsBeside(k, ms)
        <5>1. (k > 0 => T(k) <= room) /\ Total(csys) = Total(sys)
            BY <2>2, <3>3, <4>3, <4>4
        <5> HIDE DEF T
        <5>2. T(k) \in Nat
            BY <1>10, <2>3
        <5>3. k + Len(sys) <= cap
            BY <1>1, <4>1, <4>4
        <5> QED
            BY <1>4, <1>9, <2>3, <5>1, <5>2, <5>3
      <4>6. k < Len(talk) => ~FitsBeside(k + 1, ms)
        <5>1. CASE k = n
            BY <1>1, <4>1, <5>1 DEF FitsBeside
        <5>2. CASE k # n
          <6>1. k < n /\ k + 1 \in 0 .. n /\ k + 1 \in Nat
              BY <4>1, <4>4, <5>2
          <6>2. T(k + 1) > room /\ Total(csys) = Total(sys)
              BY <2>2, <3>3, <4>2, <4>3, <6>1
          <6> HIDE DEF T
          <6>3. T(k + 1) \in Nat
              BY <1>10, <6>1
          <6> QED
              BY <1>4, <1>9, <6>1, <6>2, <6>3
        <5> QED
            BY <5>1, <5>2
      <4> QED
          BY <3>3, <4>4, <4>5, <4>6 DEF MostOf
    <3> QED
        BY <1>5, <3>1, <3>2, <3>3
  <2> QED
      BY <2>1, <2>6, <2>7
<1> QED
    BY <1>4, <1>11, <1>12

\* The most that fits is what TrimSound asks for.
LEMMA MostIsSound ==
    ASSUME NEW ms \in Seq(Message), NEW kept, MostOf(kept, ms),
           strategy # "sliding_window"
    PROVE  /\ IsSuffix(kept, Talk(ms))
           /\ Len(kept) < Len(Talk(ms)) => ~Fits(Newest(Talk(ms), Len(kept) + 1), System(ms))
           /\ kept # <<>> => Fits(kept, System(ms))
<1> DEFINE talk == Talk(ms)
           sys == System(ms)
<1>1. talk \in Seq(Message) /\ Len(talk) \in Nat
    BY PartFacts, LenProperties
<1>2. PICK k \in 0 .. Len(talk) :
          /\ kept = Newest(talk, k)
          /\ k > 0 => FitsBeside(k, ms)
          /\ k < Len(talk) => ~FitsBeside(k + 1, ms)
    BY DEF MostOf
<1>3. k \in Nat /\ k + 1 \in Nat
    BY <1>1
<1>4. /\ Len(Newest(talk, k)) = k
      /\ k < Len(talk) => Len(Newest(talk, k + 1)) = k + 1
      /\ Newest(talk, k) \in Seq(Message)
    BY <1>1, <1>3, NewestFacts
<1>5. kept # <<>> => k > 0
    BY <1>2, <1>3, <1>4, EmptySeq
<1>6. k > 0 => Fits(kept, sys)
    BY <1>2, <1>4 DEF Fits, FitsBeside
<1>7. k < Len(talk) => ~Fits(Newest(talk, k + 1), sys)
    BY <1>2, <1>4 DEF Fits, FitsBeside
<1> QED
    BY <1>1, <1>2, <1>3, <1>4, <1>5, <1>6, <1>7, NewestIsSuffix

\* A sequence is a prefix of itself and of what is longer.
LEMMA PrefixFacts ==
    ASSUME NEW M, NEW s \in Seq(M), NEW t \in Seq(M)
    PROVE  IsPrefix(s, s) /\ IsPrefix(s, s \o t)
<1>1. Len(s) \in Nat /\ Len(t) \in Nat /\ Len(s \o t) = Len(s) + Len(t)
    BY LenProperties, ConcatProperties
<1>2. SubSeq(s \o t, 1, Len(s)) = SubSeq(s, 1, Len(s))
  <2>1. CASE Len(s) = 0
    <3>1. SubSeq(s \o t, 1, 0) = <<>> /\ SubSeq(s, 1, 0) = <<>>
        BY SubSeqEmpty
    <3> QED
        BY <2>1, <3>1
  <2>2. CASE Len(s) # 0
    <3>1. 1 \in 1 .. Len(s) /\ Len(s) \in 1 .. Len(s)
        BY <1>1, <2>2
    <3> QED
        BY <3>1, SubSeqOfConcat1
  <2> QED
      BY <2>1, <2>2
<1> QED
    BY <1>1, <1>2 DEF IsPrefix

\* History and limits have their types; all else is a function of them.
TrimInv ==
    /\ TrimTypeOK
    /\ strategy \in Strategies
    /\ budget \in Budgets
    /\ cap \in Caps

\* What Trim returns, strategy by strategy.
LEMMA TrimIsSound == TrimInv => TrimSound
<1> SUFFICES ASSUME TrimInv PROVE TrimSound
    OBVIOUS
<1> DEFINE sys == System(history)
           said == Talk(history)
           kept == Talk(Trim(history))
           Whole(all) == /\ IsSuffix(kept, all)
                         /\ Len(kept) < Len(all) => ~Fits(Newest(all, Len(kept) + 1), sys)
           Beside == kept # <<>> => Fits(kept, sys) /\ IsPrefix(sys, System(Trim(history)))
<1>1. /\ history \in Seq(Message) /\ cap \in Nat \ {0} /\ budget \in Nat
      /\ strategy \in Strategies
    BY TrimAssumption DEF TrimInv, TrimTypeOK
<1>2. /\ sys \in Seq(Message) /\ said \in Seq(Message) /\ Len(sys) + Len(said) = Len(history)
      /\ Len(sys) \in Nat /\ Len(said) \in Nat /\ Len(history) \in Nat
    BY <1>1, PartFacts, LenProperties
<1>3. Whole(said) /\ Beside => TrimSound
    BY DEF TrimSound
<1>4. strategy = "progressive" /\ Whole(Compressed(said)) /\ Beside => TrimSound
    BY DEF TrimSound
<1>5. IsPrefix(sys, sys)
    BY <1>2, PrefixFacts
<1>6. CASE strategy = "sliding_window"
  <2>1. kept = Talk(Window(history)) /\ System(Trim(history)) = System(Window(history))
      BY <1>6 DEF Trim
  <2>2. \A s : Fits(s, sys) <=> Len(s) + Len(sys) <= cap
      BY <1>6 DEF Fits
  <2>3. CASE Len(history) <= cap /\ Window(history) = history
    <3>1. kept = said /\ System(Trim(history)) = sys
        BY <2>1, <2>3
    <3>2. said = Newest(said, Len(said))
        BY <1>2 DEF Newest
    <3>3. IsSuffix(said, said)
        BY <1>2, <3>2, NewestIsSuffix
    <3> QED
        BY <1>2, <1>3, <1>5, <2>2, <2>3, <3>1, <3>3
  <2>4. CASE Len(sys) >= cap /\ Len(history) > cap /\ Talk(Window(history)) = <<>>
    <3>1. kept = <<>> /\ Len(kept) = 0
        BY <2>1, <2>4, EmptySeq
    <3>2. Newest(said, 0) = <<>>
        BY <1>2, NewestFacts, EmptySeq
    <3>3. IsSuffix(kept, said)
        BY <1>2, <3>1, <3>2, NewestIsSuffix
    <3>4. Len(Newest(said, 1)) = IF 1 <= Len(said) THEN 1 ELSE Len(said)
        BY <1>2, NewestFacts
    <3>5. ASSUME 0 < Len(said)
          PROVE  ~ (Len(Newest(said, 1)) + Len(sys) <= cap)
      <4>1. Len(Newest(said, 1)) = 1
        <5>1. 1 <= Len(said)
            BY <1>2, <3>5
        <5> QED
            BY <3>4, <5>1
      <4>2. ~ (1 + Len(sys) <= cap)
          BY <1>1, <1>2, <2>4
      <4> QED
          BY <4>1, <4>2
    <3>6. 0 < Len(said) => ~Fits(Newest(said, 1), sys)
        BY <2>2, <3>5
    <3>7. Len(kept) + 1 = 1
        BY <3>1
    <3> QED
        BY <1>3, <3>1, <3>3, <3>6, <3>7
  <2>5. CASE /\ Len(sys) < cap /\ Len(history) > cap
             /\ System(Window(history)) = sys
             /\ Talk(Window(history)) = Newest(said, cap - Len(sys))
    <3> DEFINE n == cap - Len(sys)
    <3>1. n \in Nat /\ n < Len(said) /\ n + Len(sys) = cap /\ n + 1 \in Nat
        BY <1>1, <1>2, <2>5
    <3>2. kept = Newest(said, n) /\ System(Trim(history)) = sys
        BY <2>1, <2>5
    <3> HIDE DEF n
    <3>3. Len(kept) = n /\ Len(Newest(said, n + 1)) = n + 1
        BY <1>2, <3>1, <3>2, NewestFacts
    <3>4. IsSuffix(kept, said)
        BY <1>2, <3>1, <3>2, NewestIsSuffix
    <3>5. ~Fits(Newest(said, n + 1), sys) /\ Fits(kept, sys)
        BY <1>1, <1>2, <2>2, <3>1, <3>3
    <3> QED
        BY <1>3, <1>5, <3>2, <3>3, <3>4, <3>5
  <2> QED
      BY <1>1, <2>3, <2>4, <2>5, WindowFacts
<1>7. CASE strategy # "sliding_window"
  <2> DEFINE first == TokenBudget(history)
             second == TokenBudget(Compressed(history))
  <2>1. first \in Seq(Message) /\ MostOf(Talk(first), history)
        /\ (Talk(first) # <<>> => System(first) = sys)
      BY <1>1, BudgetFacts
  <2>2. Compressed(history) \in Seq(Message)
      BY <1>1, CompressedFacts
  <2>3. MostOf(Talk(second), Compressed(history))
        /\ (Talk(second) # <<>> => System(second) = System(Compressed(history)))
      BY <1>1, <2>2, BudgetFacts
  <2>4. System(Compressed(history)) = sys /\ Talk(Compressed(history)) = Compressed(said)
      BY <1>1, CompressedParts
  <2>5. CASE Trim(history) = first
    <3>1. Whole(said) /\ (kept # <<>> => Fits(kept, sys))
        BY <1>1, <1>7, <2>1, <2>5, MostIsSound
    <3> QED
        BY <1>3, <1>5, <2>1, <2>5, <3>1
  <2>6. CASE Trim(history) = second /\ strategy = "progressive"
    <3>1. Whole(Compressed(said)) /\ (kept # <<>> => Fits(kept, sys))
        BY <1>7, <2>2, <2>3, <2>4, <2>6, MostIsSound
    <3> QED
        BY <1>4, <1>5, <2>3, <2>4, <2>6, <3>1
  <2>7. CASE Trim(history) = System(first) \o <<Summary>> \o Talk(first)
    <3> DEFINE fsys == System(first)
               ftalk == Talk(first)
               more == fsys \o <<Summary>>
    <3>1. /\ fsys \in Seq(Message) /\ ftalk \in Seq(Message)
          /\ \A i \in 1 .. Len(fsys) : fsys[i].role = "system"
          /\ \A i \in 1 .. Len(ftalk) : ftalk[i].role # "system"
          /\ Len(fsys) \in Nat
        BY <2>1, PartFacts, LenProperties
    <3> HIDE DEF fsys, ftalk, first
    <3>2. Summary \in Message /\ Summary.role = "system"
        BY TrimAssumption DEF Summary, Message, Roles
    <3>3. /\ <<Summary>> \in Seq(Message) /\ Len(<<Summary>>) = 1 /\ <<Summary>>[1] = Summary
        BY <3>2
    <3>4. /\ more \in Seq(Message) /\ Len(more) = Len(fsys) + 1
          /\ \A i \in 1 .. Len(fsys) + 1 : more[i] = IF i <= Len(fsys) THEN fsys[i]
                                                     ELSE <<Summary>>[i - Len(fsys)]
        BY <3>1, <3>3, ConcatProperties
    <3> HIDE DEF more
    <3>5. ASSUME NEW i \in 1 .. Len(more) PROVE more[i].role = "system"
      <4>1. CASE i <= Len(fsys)
          BY <3>1, <3>4, <4>1
      <4>2. CASE ~ (i <= Len(fsys))
        <5>1. i - Len(fsys) = 1 /\ i \in 1 .. Len(fsys) + 1
            BY <3>1, <3>4, <4>2
        <5>2. more[i] = <<Summary>>[i - Len(fsys)]
            BY <3>4, <4>2, <5>1
        <5>3. more[i] = Summary
            BY <3>3, <5>1, <5>2
        <5> QED
            BY <3>2, <5>3
      <4> QED
          BY <4>1, <4>2
    <3>6. System(more \o ftalk) = more /\ Talk(more \o ftalk) = ftalk
        BY <3>1, <3>4, <3>5, PutTogether
    <3>7. kept = ftalk /\ System(Trim(history)) = more
        BY <2>7, <3>6 DEF more, fsys, ftalk
    <3>8. IsPrefix(fsys, more)
        BY <3>1, <3>3, PrefixFacts DEF more
    <3>9. Whole(said) /\ (kept # <<>> => Fits(kept, sys))
        BY <1>1, <1>7, <2>1, <3>7, MostIsSound DEF ftalk
    <3>10. kept # <<>> => fsys = sys
        BY <2>1, <3>7 DEF fsys, ftalk
    <3> QED
        BY <1>3, <3>7, <3>8, <3>9, <3>10
  <2>8. \/ Trim(history) = first
        \/ Trim(history) = second /\ strategy = "progressive"
        \/ Trim(history) = System(first) \o <<Summary>> \o Talk(first)
      BY <1>1, <1>7 DEF Trim, Strategies, Progressive, SummaryPrefix
  <2> QED
      BY <2>5, <2>6, <2>7, <2>8
<1> QED
    BY <1>6, <1>7

\* TrimSound: under every strategy, budget and cap a run sees the newest
\* messages of its session without a gap, as many as the limits allow and no
\* more, whatever runs have been saved there.
THEOREM TrimsAreSound == TrimSpec => []TrimSound
<1>1. TrimInit => TrimInv
    BY TrimAssumption, EmptySeq DEF TrimInit, TrimInv, TrimTypeOK
<1>2. TrimInv /\ [TrimNext]_trimVars => TrimInv'
  <2> SUFFICES ASSUME TrimInv, [TrimNext]_trimVars PROVE TrimInv'
      OBVIOUS
  <2>1. ASSUME NEW s \in SavedRuns, SaveRun(s)
        PROVE  TrimInv'
    <3>1. s \in Seq(Message)
        BY TrimAssumption
    <3>2. history \o s \in Seq(Message)
        BY <3>1, ConcatProperties DEF TrimInv, TrimTypeOK
    <3> QED
        BY <2>1, <3>2, TrimAssumption DEF TrimInv, TrimTypeOK, SaveRun
  <2>2. CASE UNCHANGED trimVars
      BY <2>2 DEF TrimInv, TrimTypeOK, trimVars
  <2> QED
      BY <2>1, <2>2 DEF TrimNext
<1> QED
    BY <1>1, <1>2, TrimIsSound, PTL DEF TrimSpec
=============================================================================
