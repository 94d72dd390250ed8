---------------------------- MODULE ScriptsProofs ----------------------------
(***************************************************************************)
(* Proofs about the programs of scripts/: send_goal and send_multipoint    *)
(* (GoalClient), for every number of waypoints, and, at the end,           *)
(* urdf_publisher (LatchedTopic), for any readers.                         *)
(***************************************************************************)
EXTENDS GoalClient, TLAPS

(***************************************************************************)
(* The invariant.  Clients: a goal of the script is in one server only,    *)
(* the one the script talks to, and only while the script waits for it.    *)
(* Followers: a goal of waypoint_follower is the one for the waypoint it   *)
(* is at, and it waits for it.  Accounts: what became of the waypoints     *)
(* before that one.  Held: the goal of a script that waits, and that of    *)
(* the waypoint under way, are in a server.                                *)
(***************************************************************************)
Clients ==
  /\ Script \in {cur, pend, list, next_list} =>
       pc = "polling" /\ result = "executing"
  /\ script = "send_goal" => Script \notin {list, next_list}
  /\ script = "send_multipoint" => Script \notin {cur, pend}
  /\ ~(cur = Script /\ pend = Script)
  /\ ~(list = Script /\ next_list = Script)

Followers ==
  /\ \A h \in {cur, pend} : h[1] = "follower" =>
       list # None /\ h = Follower(idx) /\ status = "processing"
  /\ ~(cur[1] = "follower" /\ pend[1] = "follower")
  /\ list = None => status = "new" /\ idx = 1 /\ next_list = None
  /\ cur = None => pend = None

Accounts ==
  /\ \A i \in Waypoint : i < idx => i \in reached \cup failed
  /\ status = "succeeded" => idx \in reached

Held ==
  /\ pc = "polling" /\ result = "executing" =>
       Script \in {cur, pend, list, next_list}
  /\ status = "processing" => Follower(idx) \in {cur, pend}

IInv == TypeOK /\ Clients /\ Followers /\ Accounts /\ Held

\* Who waits for a goal can be told from the goal.
LEMMA Handles ==
  /\ None # Script /\ None # Other /\ Script # Other
  /\ None[1] # "follower" /\ Script[1] # "follower" /\ Other[1] # "follower"
  /\ \A i \in Waypoint : /\ Follower(i)[1] = "follower"
                         /\ Follower(i)[2] = i
                         /\ Follower(i) \notin {None, Script, Other}
                         /\ Follower(i) \in Handle
  /\ Script \in Handle /\ Other \in Handle
  /\ \A h \in Handle \cup {None} :
       h \in {None, Script, Other} \/ \E i \in Waypoint : h = Follower(i)
BY DEF None, Script, Other, Follower, Handle

-----------------------------------------------------------------------------
LEMMA InitIInv == Init => IInv
<1> SUFFICES ASSUME Init PROVE IInv
  OBVIOUS
<1>1. TypeOK
  <2>1. 1 \in Waypoint
    BY NumAssumption DEF Waypoint
  <2>2. {cur, pend} \subseteq Handle \cup {None}
    BY DEF Init
  <2>3. {list, next_list} \subseteq {Script, Other, None}
    BY DEF Init
  <2>4. {missed, failed, reached} \subseteq SUBSET Waypoint
    BY DEF Init
  <2>5. arrived \in BOOLEAN
    BY DEF Init
  <2> QED
    BY <2>1, <2>2, <2>3, <2>4, <2>5 DEF Init, TypeOK
<1>2. Clients
  BY Handles DEF Init, Clients
<1>3. Followers /\ Accounts /\ Held
  BY Handles DEF Init, Followers, Accounts, Held, Waypoint
<1> QED BY <1>1, <1>2, <1>3 DEF IInv

LEMMA TypesNext ==
  ASSUME IInv, [Next]_vars
  PROVE  TypeOK'
<1> USE NumAssumption, Handles
    DEF IInv, TypeOK, Waypoint, client, navigator, follower
<1>1. CASE Activate
  BY <1>1 DEF Activate
<1>2. CASE TakePending
  BY <1>2 DEF TakePending, Tell
<1>3. CASE SendWaypoint
  BY <1>3 DEF SendWaypoint, Request, Dropped
<1>4. CASE WaypointEnds
  BY <1>4 DEF WaypointEnds
<1>5. CASE ListEnds
  BY <1>5 DEF ListEnds
<1>6. CASE TakeNextList
  BY <1>6 DEF TakeNextList, ForgetWaypoint
<1>7. CASE OtherGoal
  BY <1>7 DEF OtherGoal, Request, Tell, Dropped
<1>8. CASE OtherList
  BY <1>8 DEF OtherList, RequestList
<1>9. ASSUME NEW r \in {"succeeded", "aborted"}, NavEnds(r) PROVE TypeOK'
  BY <1>9 DEF NavEnds, Tell
<1>10. ASSUME NEW s \in {"send_goal", "send_multipoint"}, Start(s)
      PROVE  TypeOK'
  BY <1>10 DEF Start
<1>11. CASE Nav2IsActive
  BY <1>11 DEF Nav2IsActive
<1>12. CASE GoToPose
  BY <1>12 DEF GoToPose, Request, Dropped
<1>13. CASE FollowWaypoints
  BY <1>13 DEF FollowWaypoints, RequestList
<1>14. CASE Completed
  BY <1>14 DEF Completed
<1>15. CASE Kill
  BY <1>15 DEF Kill, Anonymous
<1>16. CASE UNCHANGED vars
  BY <1>16 DEF vars
<1> QED
  BY <1>1, <1>2, <1>3, <1>4, <1>5, <1>6, <1>7, <1>8,
    <1>9, <1>10, <1>11, <1>12, <1>13, <1>14, <1>15, <1>16
  DEF Next, Servers, Scripts

LEMMA ClientsNext ==
  ASSUME IInv, [Next]_vars
  PROVE  Clients'
<1> USE NumAssumption, Handles
    DEF IInv, Clients, TypeOK, Followers, client, navigator, follower
<1>1. CASE Activate
  BY <1>1 DEF Activate
<1>2. CASE TakePending
  BY <1>2 DEF TakePending, Tell
<1>3. CASE SendWaypoint
  BY <1>3 DEF SendWaypoint, Request, Dropped
<1>4. CASE WaypointEnds
  BY <1>4 DEF WaypointEnds
<1>5. CASE ListEnds
  BY <1>5 DEF ListEnds
<1>6. CASE TakeNextList
  BY <1>6 DEF TakeNextList, ForgetWaypoint
<1>7. CASE OtherGoal
  BY <1>7 DEF OtherGoal, Request, Tell, Dropped
<1>8. CASE OtherList
  BY <1>8 DEF OtherList, RequestList
<1>9. ASSUME NEW r \in {"succeeded", "aborted"}, NavEnds(r) PROVE Clients'
  BY <1>9 DEF NavEnds, Tell
<1>10. ASSUME NEW s \in {"send_goal", "send_multipoint"}, Start(s)
      PROVE  Clients'
  BY <1>10 DEF Start
<1>11. CASE Nav2IsActive
  BY <1>11 DEF Nav2IsActive
<1>12. CASE GoToPose
  BY <1>12 DEF GoToPose, Request, Dropped
<1>13. CASE FollowWaypoints
  BY <1>13 DEF FollowWaypoints, RequestList
<1>14. CASE Completed
  BY <1>14 DEF Completed
<1>15. CASE Kill
  BY <1>15 DEF Kill, Anonymous
<1>16. CASE UNCHANGED vars
  BY <1>16 DEF vars
<1> QED
  BY <1>1, <1>2, <1>3, <1>4, <1>5, <1>6, <1>7, <1>8,
    <1>9, <1>10, <1>11, <1>12, <1>13, <1>14, <1>15, <1>16
  DEF Next, Servers, Scripts

LEMMA FollowersNext ==
  ASSUME IInv, [Next]_vars
  PROVE  Followers'
<1> USE NumAssumption, Handles
    DEF IInv, Followers, TypeOK, client, navigator, follower
<1>1. CASE Activate
  BY <1>1 DEF Activate
<1>2. CASE TakePending
  BY <1>2 DEF TakePending, Tell
<1>3. CASE SendWaypoint
  BY <1>3 DEF SendWaypoint, Request, Dropped
<1>4. CASE WaypointEnds
  BY <1>4 DEF WaypointEnds
<1>5. CASE ListEnds
  BY <1>5 DEF ListEnds
<1>6. CASE TakeNextList
  BY <1>6 DEF TakeNextList, ForgetWaypoint
<1>7. CASE OtherGoal
  BY <1>7 DEF OtherGoal, Request, Tell, Dropped
<1>8. CASE OtherList
  BY <1>8 DEF OtherList, RequestList
<1>9. ASSUME NEW r \in {"succeeded", "aborted"}, NavEnds(r) PROVE Followers'
  BY <1>9 DEF NavEnds, Tell
<1>10. ASSUME NEW s \in {"send_goal", "send_multipoint"}, Start(s)
      PROVE  Followers'
  BY <1>10 DEF Start
<1>11. CASE Nav2IsActive
  BY <1>11 DEF Nav2IsActive
<1>12. CASE GoToPose
  BY <1>12 DEF GoToPose, Request, Dropped
<1>13. CASE FollowWaypoints
  BY <1>13 DEF FollowWaypoints, RequestList
<1>14. CASE Completed
  BY <1>14 DEF Completed
<1>15. CASE Kill
  BY <1>15 DEF Kill, Anonymous
<1>16. CASE UNCHANGED vars
  BY <1>16 DEF vars
<1> QED
  BY <1>1, <1>2, <1>3, <1>4, <1>5, <1>6, <1>7, <1>8,
    <1>9, <1>10, <1>11, <1>12, <1>13, <1>14, <1>15, <1>16
  DEF Next, Servers, Scripts

LEMMA AccountsNext ==
  ASSUME IInv, [Next]_vars
  PROVE  Accounts'
<1> USE NumAssumption, Handles
    DEF IInv, Accounts, TypeOK, Followers, Waypoint, client, navigator,
      follower
<1>1. CASE Activate
  BY <1>1 DEF Activate
<1>2. CASE TakePending
  BY <1>2 DEF TakePending, Tell
<1>3. CASE SendWaypoint
  BY <1>3 DEF SendWaypoint, Request, Dropped
<1>4. CASE WaypointEnds
  BY <1>4 DEF WaypointEnds
<1>5. CASE ListEnds
  BY <1>5 DEF ListEnds
<1>6. CASE TakeNextList
  BY <1>6 DEF TakeNextList, ForgetWaypoint
<1>7. CASE OtherGoal
  BY <1>7 DEF OtherGoal, Request, Tell, Dropped
<1>8. CASE OtherList
  BY <1>8 DEF OtherList, RequestList
<1>9. ASSUME NEW r \in {"succeeded", "aborted"}, NavEnds(r) PROVE Accounts'
  BY <1>9 DEF NavEnds, Tell
<1>10. ASSUME NEW s \in {"send_goal", "send_multipoint"}, Start(s)
      PROVE  Accounts'
  BY <1>10 DEF Start
<1>11. CASE Nav2IsActive
  BY <1>11 DEF Nav2IsActive
<1>12. CASE GoToPose
  BY <1>12 DEF GoToPose, Request, Dropped
<1>13. CASE FollowWaypoints
  BY <1>13 DEF FollowWaypoints, RequestList
<1>14. CASE Completed
  BY <1>14 DEF Completed
<1>15. CASE Kill
  BY <1>15 DEF Kill, Anonymous
<1>16. CASE UNCHANGED vars
  BY <1>16 DEF vars
<1> QED
  BY <1>1, <1>2, <1>3, <1>4, <1>5, <1>6, <1>7, <1>8,
    <1>9, <1>10, <1>11, <1>12, <1>13, <1>14, <1>15, <1>16
  DEF Next, Servers, Scripts

LEMMA HeldNext ==
  ASSUME IInv, [Next]_vars
  PROVE  Held'
<1> USE NumAssumption, Handles
    DEF IInv, Held, Clients, TypeOK, Followers, client, navigator, follower
<1>1. CASE Activate
  BY <1>1 DEF Activate
<1>2. CASE TakePending
  BY <1>2 DEF TakePending, Tell
<1>3. CASE SendWaypoint
  BY <1>3 DEF SendWaypoint, Request, Dropped
<1>4. CASE WaypointEnds
  BY <1>4 DEF WaypointEnds
<1>5. CASE ListEnds
  BY <1>5 DEF ListEnds
<1>6. CASE TakeNextList
  BY <1>6 DEF TakeNextList, ForgetWaypoint
<1>7. CASE OtherGoal
  BY <1>7 DEF OtherGoal, Request, Tell, Dropped
<1>8. CASE OtherList
  BY <1>8 DEF OtherList, RequestList
<1>9. ASSUME NEW r \in {"succeeded", "aborted"}, NavEnds(r) PROVE Held'
  BY <1>9 DEF NavEnds, Tell
<1>10. ASSUME NEW s \in {"send_goal", "send_multipoint"}, Start(s)
      PROVE  Held'
  BY <1>10 DEF Start
<1>11. CASE Nav2IsActive
  BY <1>11 DEF Nav2IsActive
<1>12. CASE GoToPose
  BY <1>12 DEF GoToPose, Request, Dropped
<1>13. CASE FollowWaypoints
  BY <1>13 DEF FollowWaypoints, RequestList
<1>14. CASE Completed
  BY <1>14 DEF Completed
<1>15. CASE Kill
  BY <1>15 DEF Kill, Anonymous
<1>16. CASE UNCHANGED vars
  BY <1>16 DEF vars
<1> QED
  BY <1>1, <1>2, <1>3, <1>4, <1>5, <1>6, <1>7, <1>8,
    <1>9, <1>10, <1>11, <1>12, <1>13, <1>14, <1>15, <1>16
  DEF Next, Servers, Scripts

THEOREM SpecIInv == Spec => []IInv
<1>1. Init => IInv
  BY InitIInv
<1>2. IInv /\ [Next]_vars => IInv'
  BY TypesNext, ClientsNext, FollowersNext, AccountsNext, HeldNext DEF IInv
<1> QED BY <1>1, <1>2, PTL DEF Spec

-----------------------------------------------------------------------------
(***************************************************************************)
(* The properties.                                                         *)
(***************************************************************************)

\* Every variable keeps its type: goal_index stays on the list.
THEOREM TypeCorrect == Spec => []TypeOK
BY SpecIInv, PTL DEF IInv

\* A script that is over has no goal left in a server, and a follower
\* listens to one goal at most.
THEOREM NothingLeftBehindHolds == Spec => []NothingLeftBehind
<1>1. IInv => NothingLeftBehind
  BY DEF IInv, Clients, Followers, NothingLeftBehind
<1> QED BY <1>1, SpecIInv, PTL

\* A list of any length that is reported as succeeded has every waypoint
\* accounted for.
THEOREM MissedAreReportedHolds == Spec => MissedAreReported
<1> DEFINE Reported ==
      script = "send_multipoint" /\ result = "executing"
        /\ result' = "succeeded" => missed' \cup reached = Waypoint
<1>1. IInv /\ [Next]_vars => [Reported]_vars
  <2> SUFFICES ASSUME IInv, Next PROVE Reported
    OBVIOUS
  <2> USE Handles DEF IInv, client
  <2>1. CASE ListEnds
    <3> SUFFICES ASSUME list = Script
                 PROVE  missed' \cup reached = Waypoint
      BY <2>1 DEF ListEnds
    <3>1. missed' = IF status = "aborted" THEN failed \cup {NUM} ELSE failed
      BY <2>1 DEF ListEnds
    <3>2. \A i \in Waypoint : i < NUM => i \in reached \cup failed
      BY <2>1 DEF ListEnds, Accounts
    <3>3. NUM \in reached \/ status = "aborted"
      BY <2>1 DEF ListEnds, Accounts
    <3>4. reached \subseteq Waypoint /\ failed \subseteq Waypoint
      BY DEF TypeOK
    <3>5. NUM \in Waypoint /\ \A i \in Waypoint : i < NUM \/ i = NUM
      BY NumAssumption DEF Waypoint
    <3> QED
      BY <3>1, <3>2, <3>3, <3>4, <3>5
  <2>2. ASSUME NEW r \in {"succeeded", "aborted"}, NavEnds(r)
        PROVE  Reported
    BY <2>2 DEF NavEnds, Tell, Clients
  <2>3. CASE Activate \/ TakePending \/ SendWaypoint \/ WaypointEnds
             \/ TakeNextList \/ OtherGoal \/ OtherList
    BY <2>3 DEF Activate, TakePending, SendWaypoint, WaypointEnds,
      TakeNextList, OtherGoal, OtherList, Tell
  <2>4. CASE Scripts
    BY <2>4 DEF Scripts, Start, Nav2IsActive, GoToPose, FollowWaypoints,
      Completed, Kill
  <2> QED
    BY <2>1, <2>2, <2>3, <2>4 DEF Next, Servers
<1> QED BY <1>1, SpecIInv, PTL DEF Spec, MissedAreReported

-----------------------------------------------------------------------------
(***************************************************************************)
(* Liveness of the scripts.  StepsEnabled is what the proofs below take as *)
(* a hypothesis: a server or a script whose step has its guards true can   *)
(* take it.  It is a fact about ENABLED, which the provers treat as a new  *)
(* symbol; TLC finds no reachable state in which it is false.              *)
(***************************************************************************)
NavEnd == \E r \in {"succeeded", "aborted"} : NavEnds(r)

StepsEnabled ==
  /\ pend # None => ENABLED <<TakePending>>_vars
  /\ cur # None => ENABLED <<NavEnd>>_vars
  /\ list # None /\ next_list # None => ENABLED <<TakeNextList>>_vars
  /\ list # None /\ next_list = None /\ status = "new"
       => ENABLED <<SendWaypoint>>_vars
  /\ list # None /\ status \in {"succeeded", "aborted"} =>
       IF idx < NUM THEN ENABLED <<WaypointEnds>>_vars
       ELSE ENABLED <<ListEnds>>_vars
  /\ pc = "polling" /\ result # "executing" => ENABLED <<Completed>>_vars

\* A goal of send_goal.py: it is pending, it runs, or it has its result.
GoalSent == pc = "polling" /\ script = "send_goal"
Over == pc \in {"completed", "off"}
Queued == GoalSent /\ pend = Script
Underway == GoalSent /\ cur = Script
Answered == pc = "polling" /\ result # "executing"

LEMMA WhereTheGoalIs ==
  IInv /\ GoalSent => Queued \/ Underway \/ Answered
BY Handles DEF IInv, Clients, Held, GoalSent, Queued, Underway, Answered

\* The steps of a goal, in order.
LEMMA GoalMovesOn ==
  ASSUME IInv, [Next]_vars
  PROVE  /\ Queued => Queued' \/ Underway' \/ Answered' \/ Over'
         /\ Underway => Underway' \/ Answered' \/ Over'
         /\ Answered => Answered' \/ Over'
         /\ Queued /\ TakePending => Underway' \/ Answered'
         /\ Underway /\ NavEnd => Answered'
         /\ Answered /\ Completed => Over'
<1> USE Handles DEF IInv, TypeOK, Clients, Followers, Held, GoalSent, Over,
    Queued,
      Underway, Answered, client, navigator, follower
<1>2. Queued => Queued' \/ Underway' \/ Answered' \/ Over'
  <2> SUFFICES ASSUME Queued PROVE Queued' \/ Underway' \/ Answered' \/ Over'
    OBVIOUS
  <2>1. CASE Activate \/ TakePending \/ SendWaypoint \/ WaypointEnds
    BY <2>1 DEF Activate, TakePending, SendWaypoint, WaypointEnds, Tell,
      Request, Dropped
  <2>2. CASE ListEnds \/ TakeNextList \/ OtherGoal \/ OtherList
    BY <2>2 DEF ListEnds, TakeNextList, OtherGoal, OtherList, Tell, Request,
      Dropped, ForgetWaypoint, RequestList
  <2>3. CASE NavEnd
    BY <2>3 DEF NavEnd, NavEnds, Tell
  <2>4. CASE Scripts
    BY <2>4 DEF Scripts, Start, Nav2IsActive, GoToPose, FollowWaypoints,
      Completed, Kill
  <2>5. CASE UNCHANGED vars
    BY <2>5 DEF vars
  <2> QED BY <2>1, <2>2, <2>3, <2>4, <2>5 DEF Next, Servers, NavEnd
<1>3. Underway => Underway' \/ Answered' \/ Over'
  <2> SUFFICES ASSUME Underway PROVE Underway' \/ Answered' \/ Over'
    OBVIOUS
  <2>1. CASE Activate \/ TakePending \/ SendWaypoint \/ WaypointEnds
    BY <2>1 DEF Activate, TakePending, SendWaypoint, WaypointEnds, Tell,
      Request, Dropped
  <2>2. CASE ListEnds \/ TakeNextList \/ OtherGoal \/ OtherList
    BY <2>2 DEF ListEnds, TakeNextList, OtherGoal, OtherList, Tell, Request,
      Dropped, ForgetWaypoint, RequestList
  <2>3. CASE NavEnd
    BY <2>3 DEF NavEnd, NavEnds, Tell
  <2>4. CASE Scripts
    BY <2>4 DEF Scripts, Start, Nav2IsActive, GoToPose, FollowWaypoints,
      Completed, Kill
  <2>5. CASE UNCHANGED vars
    BY <2>5 DEF vars
  <2> QED BY <2>1, <2>2, <2>3, <2>4, <2>5 DEF Next, Servers, NavEnd
<1>4. Answered => Answered' \/ Over'
  <2> SUFFICES ASSUME Answered PROVE Answered' \/ Over'
    OBVIOUS
  <2>1. CASE Activate \/ TakePending \/ SendWaypoint \/ WaypointEnds
    BY <2>1 DEF Activate, TakePending, SendWaypoint, WaypointEnds, Tell,
      Request, Dropped
  <2>2. CASE ListEnds \/ TakeNextList \/ OtherGoal \/ OtherList
    BY <2>2 DEF ListEnds, TakeNextList, OtherGoal, OtherList, Tell, Request,
      Dropped, ForgetWaypoint, RequestList
  <2>3. CASE NavEnd
    BY <2>3 DEF NavEnd, NavEnds, Tell
  <2>4. CASE Scripts
    BY <2>4 DEF Scripts, Start, Nav2IsActive, GoToPose, FollowWaypoints,
      Completed, Kill
  <2>5. CASE UNCHANGED vars
    BY <2>5 DEF vars
  <2> QED BY <2>1, <2>2, <2>3, <2>4, <2>5 DEF Next, Servers, NavEnd
<1>5. Queued /\ TakePending => Underway' \/ Answered'
  BY DEF TakePending, Tell
<1>6. Underway /\ NavEnd => Answered'
  BY DEF NavEnd, NavEnds, Tell
<1>7. Answered /\ Completed => Over'
  BY DEF Completed
<1> QED BY <1>2, <1>3, <1>4, <1>5, <1>6, <1>7

\* A list of a script at its waypoint i, and what is next for it.
At(i) == list = Script /\ idx = i
MovedOn(i) == list # Script \/ idx = i + 1
Preempted(i) == At(i) /\ next_list # None
Unsent(i) == At(i) /\ next_list = None /\ status = "new"
Pending(i) == At(i) /\ pend = Follower(i)
Driven(i) == At(i) /\ cur = Follower(i)
Ended(i) == At(i) /\ status \in {"succeeded", "aborted"}

LEMMA WhereTheWaypointIs ==
  ASSUME IInv, NEW i \in Waypoint
  PROVE  At(i) => Preempted(i) \/ Unsent(i) \/ Pending(i) \/ Driven(i)
                    \/ Ended(i)
BY Handles DEF IInv, TypeOK, Followers, Held, At, Preempted, Unsent, Pending,
  Driven, Ended

\* The steps of a waypoint, in order.
LEMMA WaypointMovesOn ==
  ASSUME NEW i \in Waypoint, IInv, [Next]_vars
  PROVE  /\ At(i) => At(i)' \/ MovedOn(i)'
         /\ Preempted(i) => Preempted(i)' \/ MovedOn(i)'
         /\ Pending(i) => Pending(i)' \/ Driven(i)' \/ Ended(i)' \/ MovedOn(i)'
         /\ Driven(i) => Driven(i)' \/ Ended(i)' \/ MovedOn(i)'
         /\ Ended(i) => Ended(i)' \/ MovedOn(i)'
         /\ Preempted(i) /\ TakeNextList => MovedOn(i)'
         /\ Unsent(i) /\ SendWaypoint => ~Unsent(i)'
         /\ Pending(i) /\ TakePending => Driven(i)'
         /\ Driven(i) /\ NavEnd => Ended(i)'
         /\ Ended(i) /\ (WaypointEnds \/ ListEnds) => MovedOn(i)'
<1> USE Handles, NumAssumption DEF IInv, TypeOK, Clients, Followers, Held,
    Waypoint,
      At, MovedOn, Preempted, Unsent, Pending, Driven, Ended,
      client, navigator, follower
<1> DEFINE Stays == 
         /\ At(i) => At(i)' \/ MovedOn(i)'
         /\ Preempted(i) => Preempted(i)' \/ MovedOn(i)'
         /\ Pending(i) => Pending(i)' \/ Driven(i)' \/ Ended(i)' \/ MovedOn(i)'
         /\ Driven(i) => Driven(i)' \/ Ended(i)' \/ MovedOn(i)'
         /\ Ended(i) => Ended(i)' \/ MovedOn(i)'
<1>2. Stays
  <2>1. CASE Activate
    BY <2>1 DEF Activate
  <2>2. CASE TakePending
    BY <2>2 DEF TakePending, Tell
  <2>3. CASE SendWaypoint
    BY <2>3 DEF SendWaypoint, Request, Dropped
  <2>4. CASE WaypointEnds
    BY <2>4 DEF WaypointEnds
  <2>5. CASE ListEnds
    BY <2>5 DEF ListEnds
  <2>6. CASE TakeNextList
    BY <2>6 DEF TakeNextList, ForgetWaypoint
  <2>7. CASE OtherGoal
    BY <2>7 DEF OtherGoal, Request, Tell, Dropped
  <2>8. CASE OtherList
    BY <2>8 DEF OtherList, RequestList
  <2>9. ASSUME NEW r \in {"succeeded", "aborted"}, NavEnds(r) PROVE Stays
    BY <2>9 DEF NavEnds, Tell
  <2>10. ASSUME NEW s \in {"send_goal", "send_multipoint"}, Start(s)
        PROVE  Stays
    BY <2>10 DEF Start
  <2>11. CASE Nav2IsActive
    BY <2>11 DEF Nav2IsActive
  <2>12. CASE GoToPose
    BY <2>12 DEF GoToPose, Request, Dropped
  <2>13. CASE FollowWaypoints
    BY <2>13 DEF FollowWaypoints, RequestList
  <2>14. CASE Completed
    BY <2>14 DEF Completed
  <2>15. CASE Kill
    BY <2>15 DEF Kill, Anonymous
  <2>16. CASE UNCHANGED vars
    BY <2>16 DEF vars
  <2> QED
    BY <2>1, <2>2, <2>3, <2>4, <2>5, <2>6, <2>7, <2>8,
      <2>9, <2>10, <2>11, <2>12, <2>13, <2>14, <2>15, <2>16
    DEF Next, Servers, Scripts
<1>3. Preempted(i) /\ TakeNextList => MovedOn(i)'
  BY DEF TakeNextList
<1>4. Unsent(i) /\ SendWaypoint => ~Unsent(i)'
  BY DEF SendWaypoint
<1>5. Pending(i) /\ TakePending => Driven(i)'
  BY DEF TakePending
<1>6. Driven(i) /\ NavEnd => Ended(i)'
  BY DEF NavEnd, NavEnds, Tell
<1>7. Ended(i) /\ (WaypointEnds \/ ListEnds) => MovedOn(i)'
  BY DEF WaypointEnds, ListEnds
<1> QED BY <1>2, <1>3, <1>4, <1>5, <1>6, <1>7

\* A goal that has its result ends the script's loop.
LEMMA AnsweredEnds ==
  FairSpec /\ []StepsEnabled => (Answered ~> Over)
<1>1. IInv /\ Answered /\ [Next]_vars => Answered' \/ Over'
  BY GoalMovesOn
<1>2. IInv /\ Answered /\ [Next]_vars /\ Completed => Over'
  BY GoalMovesOn
<1>3. StepsEnabled => (Answered => ENABLED <<Completed>>_vars)
  BY DEF StepsEnabled, Answered
<1> QED BY <1>1, <1>2, <1>3, SpecIInv, PTL DEF FairSpec, Spec

(***************************************************************************)
(* send_goal.py comes to its end once its goal is sent: the goal runs or   *)
(* is pending until it has a result, an abort by a later goal included,    *)
(* and isTaskComplete then leaves the loop (send_goal.py:50-60).           *)
(***************************************************************************)
THEOREM GoalScriptEnds ==
  FairSpec /\ []StepsEnabled => (GoalSent ~> Over)
<1>1. IInv /\ GoalSent => Queued \/ Underway \/ Answered
  BY WhereTheGoalIs
<1>2. IInv /\ [Next]_vars =>
        /\ Queued => Queued' \/ Underway' \/ Answered' \/ Over'
        /\ Underway => Underway' \/ Answered' \/ Over'
        /\ Queued /\ TakePending => Underway' \/ Answered'
        /\ Underway /\ NavEnd => Answered'
  BY GoalMovesOn
<1>3. StepsEnabled => /\ Queued => ENABLED <<TakePending>>_vars
                      /\ Underway => ENABLED <<NavEnd>>_vars
  BY Handles DEF StepsEnabled, Queued, Underway
<1>4. FairSpec /\ []StepsEnabled => (Underway ~> Answered \/ Over)
  BY <1>2, <1>3, SpecIInv, PTL DEF FairSpec, Spec, NavEnd
<1>5. FairSpec /\ []StepsEnabled => (Queued ~> Underway \/ Answered \/ Over)
  BY <1>2, <1>3, SpecIInv, PTL DEF FairSpec, Spec
<1> QED BY <1>1, <1>4, <1>5, AnsweredEnds, SpecIInv, PTL DEF FairSpec

(***************************************************************************)
(* A list of any length does not stay at a waypoint: its goal is reached,  *)
(* fails or is dropped, and the next one is sent, or a newer list takes    *)
(* over, whatever goals others send (send_multipoint.py:47-53).            *)
(***************************************************************************)
THEOREM WaypointsMoveOn ==
  FairSpec /\ []StepsEnabled => \A i \in Waypoint : At(i) ~> MovedOn(i)
<1> SUFFICES ASSUME NEW i \in Waypoint
             PROVE  FairSpec /\ []StepsEnabled => (At(i) ~> MovedOn(i))
  OBVIOUS
<1>1. IInv /\ At(i) => Preempted(i) \/ Unsent(i) \/ Pending(i) \/ Driven(i)
                       \/ Ended(i)
  BY WhereTheWaypointIs
<1>2. IInv /\ [Next]_vars =>
         /\ At(i) => At(i)' \/ MovedOn(i)'
         /\ Preempted(i) => Preempted(i)' \/ MovedOn(i)'
         /\ Pending(i) => Pending(i)' \/ Driven(i)' \/ Ended(i)' \/ MovedOn(i)'
         /\ Driven(i) => Driven(i)' \/ Ended(i)' \/ MovedOn(i)'
         /\ Ended(i) => Ended(i)' \/ MovedOn(i)'
  BY WaypointMovesOn
<1>3. IInv /\ [Next]_vars =>
         /\ Preempted(i) /\ TakeNextList => MovedOn(i)'
         /\ Unsent(i) /\ SendWaypoint => ~Unsent(i)'
         /\ Pending(i) /\ TakePending => Driven(i)'
         /\ Driven(i) /\ NavEnd => Ended(i)'
         /\ Ended(i) /\ (WaypointEnds \/ ListEnds) => MovedOn(i)'
  BY WaypointMovesOn
<1>4. StepsEnabled =>
        /\ Preempted(i) => ENABLED <<TakeNextList>>_vars
        /\ Unsent(i) => ENABLED <<SendWaypoint>>_vars
        /\ Pending(i) => ENABLED <<TakePending>>_vars
        /\ Driven(i) => ENABLED <<NavEnd>>_vars
  BY Handles DEF StepsEnabled, At, Preempted, Unsent, Pending, Driven
<1>6. FairSpec /\ []StepsEnabled => (Preempted(i) ~> MovedOn(i))
  BY <1>2, <1>3, <1>4, SpecIInv, PTL DEF FairSpec, Spec
<1>7. FairSpec /\ []StepsEnabled => (Ended(i) ~> MovedOn(i))
  <2>1. CASE i < NUM
    <3>1. StepsEnabled => (Ended(i) => ENABLED <<WaypointEnds>>_vars)
      BY <2>1, Handles DEF StepsEnabled, At, Ended
    <3> QED BY <1>2, <1>3, <3>1, SpecIInv, PTL DEF FairSpec, Spec
  <2>2. CASE ~(i < NUM)
    <3>1. StepsEnabled => (Ended(i) => ENABLED <<ListEnds>>_vars)
      BY <2>2, Handles DEF StepsEnabled, At, Ended
    <3> QED BY <1>2, <1>3, <3>1, SpecIInv, PTL DEF FairSpec, Spec
  <2> QED BY <2>1, <2>2
<1>8. FairSpec /\ []StepsEnabled => (Driven(i) ~> Ended(i) \/ MovedOn(i))
  BY <1>2, <1>3, <1>4, SpecIInv, PTL DEF FairSpec, Spec, NavEnd
<1>9. FairSpec /\ []StepsEnabled
         => (Pending(i) ~> Driven(i) \/ Ended(i) \/ MovedOn(i))
  BY <1>2, <1>3, <1>4, SpecIInv, PTL DEF FairSpec, Spec
<1>10. FairSpec /\ []StepsEnabled => (Unsent(i) ~> ~Unsent(i))
  BY <1>2, <1>3, <1>4, SpecIInv, PTL DEF FairSpec, Spec
<1>11. FairSpec => []IInv /\ [][Next]_vars
  BY SpecIInv, PTL DEF FairSpec, Spec
<1> QED
  BY <1>1, <1>2, <1>6, <1>7, <1>8, <1>9, <1>10, <1>11, PTL

\* A list whose goal waits, and one that runs.
ListSent == pc = "polling" /\ script = "send_multipoint"
ListQueued == ListSent /\ next_list = Script
ListRuns == ListSent /\ list = Script

LEMMA WhereTheListIs ==
  IInv /\ ListSent => ListQueued \/ ListRuns \/ Answered
BY Handles DEF IInv, Clients, Held, ListSent, ListQueued, ListRuns, Answered

\* A list of a script that is not over waits, runs, or has its result.
LEMMA ListMovesOn ==
  ASSUME IInv, [Next]_vars
  PROVE  /\ ListQueued => ListQueued' \/ ListRuns' \/ Answered' \/ Over'
         /\ ListRuns => ListRuns' \/ Answered' \/ Over'
         /\ ListQueued /\ TakeNextList => ListRuns'
<1> USE Handles DEF IInv, TypeOK, Clients, Followers, ListSent, ListQueued,
      ListRuns, Answered, Over, client, navigator, follower
<1> DEFINE Stays ==
             /\ ListQueued => ListQueued' \/ ListRuns' \/ Answered' \/ Over'
             /\ ListRuns => ListRuns' \/ Answered' \/ Over'
<1>1. Stays
  <2>1. CASE Activate \/ TakePending \/ SendWaypoint \/ WaypointEnds
    BY <2>1 DEF Activate, TakePending, SendWaypoint, WaypointEnds, Tell,
      Request, Dropped
  <2>2. CASE ListEnds \/ TakeNextList \/ OtherGoal \/ OtherList
    BY <2>2 DEF ListEnds, TakeNextList, OtherGoal, OtherList, Tell, Request,
      Dropped, ForgetWaypoint, RequestList
  <2>3. CASE NavEnd
    BY <2>3 DEF NavEnd, NavEnds, Tell
  <2>4. CASE Scripts
    BY <2>4 DEF Scripts, Start, Nav2IsActive, GoToPose, FollowWaypoints,
      Completed, Kill
  <2>5. CASE UNCHANGED vars
    BY <2>5 DEF vars
  <2> QED BY <2>1, <2>2, <2>3, <2>4, <2>5 DEF Next, Servers, NavEnd
<1>2. ListQueued /\ TakeNextList => ListRuns'
  BY DEF TakeNextList
<1> QED BY <1>1, <1>2

\* WaypointsMoveOn under a name that the provers can instantiate.
WaypointStep(i) == At(i) ~> MovedOn(i)

LEMMA WaypointSteps ==
  ASSUME NEW i \in Nat
  PROVE  FairSpec /\ []StepsEnabled => WaypointStep(i)
<1>1. CASE i \in Waypoint
  BY <1>1, WaypointsMoveOn DEF WaypointStep
<1>2. CASE i \notin Waypoint
  <2>1. IInv => ~At(i)
    BY <1>2 DEF IInv, TypeOK, At
  <2>2. FairSpec /\ []StepsEnabled => (At(i) ~> MovedOn(i))
    BY <2>1, SpecIInv, PTL DEF FairSpec
  <2> QED BY <2>2 DEF WaypointStep
<1> QED BY <1>1, <1>2

(***************************************************************************)
(* Both scripts come to their end once their goal is sent, for lists of up *)
(* to ten waypoints: from one waypoint to the next by WaypointsMoveOn, ten *)
(* times (send_goal.py:50-60, send_multipoint.py:47-53).  Ten is a bound   *)
(* of this proof only: a user may type any number, and for that the chain  *)
(* needs an induction that the provers cannot instantiate.                 *)
(***************************************************************************)
THEOREM ScriptEndsFairly ==
  NUM <= 10 => (FairSpec /\ []StepsEnabled => ScriptEnds)
<1> SUFFICES ASSUME NUM <= 10
             PROVE  FairSpec /\ []StepsEnabled => (pc = "polling" ~> Over)
  BY DEF ScriptEnds, Over
<1> DEFINE A(i) == At(i)
           M(i) == MovedOn(i)
           Step(i) == WaypointStep(i)
           F == FairSpec /\ []StepsEnabled
<1>1. IInv /\ pc = "polling" => GoalSent \/ ListQueued \/ ListRuns \/ Answered
  BY WhereTheListIs DEF IInv, TypeOK, GoalSent, ListSent
<1>2. IInv /\ [Next]_vars =>
        /\ ListQueued => ListQueued' \/ ListRuns' \/ Answered' \/ Over'
        /\ ListRuns => ListRuns' \/ Answered' \/ Over'
        /\ ListQueued /\ TakeNextList => ListRuns'
  BY ListMovesOn
<1>3. IInv /\ StepsEnabled => (ListQueued => ENABLED <<TakeNextList>>_vars)
  BY Handles DEF IInv, Followers, StepsEnabled, ListQueued
<1>4. IInv /\ ListRuns =>
        \/ A(1) \/ A(2) \/ A(3) \/ A(4) \/ A(5)
        \/ A(6) \/ A(7) \/ A(8) \/ A(9) \/ A(10)
  BY NumAssumption DEF IInv, TypeOK, Waypoint, ListRuns, At
<1>5. IInv /\ ListRuns =>
        /\ M(1) => A(2)
        /\ M(2) => A(3)
        /\ M(3) => A(4)
        /\ M(4) => A(5)
        /\ M(5) => A(6)
        /\ M(6) => A(7)
        /\ M(7) => A(8)
        /\ M(8) => A(9)
        /\ M(9) => A(10)
        /\ ~M(10)
  BY NumAssumption DEF IInv, TypeOK, Waypoint, ListRuns, At, MovedOn
<1>6. F => /\ Step(1) /\ Step(2) /\ Step(3) /\ Step(4) /\ Step(5)
           /\ Step(6) /\ Step(7) /\ Step(8) /\ Step(9) /\ Step(10)
  BY WaypointSteps
<1>7. F => /\ (A(1) ~> M(1)) /\ (A(2) ~> M(2)) /\ (A(3) ~> M(3))
           /\ (A(4) ~> M(4)) /\ (A(5) ~> M(5)) /\ (A(6) ~> M(6))
           /\ (A(7) ~> M(7)) /\ (A(8) ~> M(8)) /\ (A(9) ~> M(9))
           /\ (A(10) ~> M(10))
  BY <1>6 DEF WaypointStep
<1>8. F => []IInv /\ [][Next]_vars /\ []StepsEnabled
  BY SpecIInv, PTL DEF FairSpec, Spec
<1>9. F => (Answered ~> Over) /\ (GoalSent ~> Over)
  BY AnsweredEnds, GoalScriptEnds, PTL
<1>10. F => (ListQueued ~> ListRuns \/ Answered \/ Over)
  BY <1>2, <1>3, <1>8, PTL DEF FairSpec
<1> HIDE DEF A, M, F
<1>11. F => (ListRuns ~> Answered \/ Over)
  BY <1>2, <1>4, <1>5, <1>7, <1>8, PTL
<1>12. F => (pc = "polling" ~> Over)
  BY <1>1, <1>8, <1>9, <1>10, <1>11, PTL
<1> QED BY <1>12 DEF F

-----------------------------------------------------------------------------
(***************************************************************************)
(* urdf_publisher.py: the last message that was published, for readers     *)
(* that come later (module LatchedTopic).                                  *)
(***************************************************************************)
CONSTANTS Reader, Durable, MAX_VERSION
VARIABLES installed, node, kept, joined, matched, coming, got
Topic == INSTANCE LatchedTopic

\* The assumption of LatchedTopic about its constants.
TopicAssumption == Durable \subseteq Reader /\ MAX_VERSION \in Nat

Message == Topic!Version \cup {Topic!None}

TopicTypes ==
  /\ installed \in Topic!Version
  /\ node \in {"down", "opened", "spinning"}
  /\ kept \in Message
  /\ joined \subseteq Reader /\ matched \subseteq joined
  /\ coming \in [Reader -> Message]
  /\ got \in [Reader -> Message]

\* A durable reader that was discovered has the message, or it is coming.
OnItsWay(s) == s \in matched /\ coming[s] = kept
Got(s) == s \in matched /\ coming[s] = Topic!None /\ got[s] = kept

Served ==
  /\ node = "down" => matched = {}
  /\ node = "spinning" <=> kept # Topic!None
  /\ node = "spinning" => \A s \in Durable \cap matched : OnItsWay(s) \/ Got(s)

TopicInv == TopicTypes /\ Served

LEMMA NoneIsNoVersion ==
  ASSUME TopicAssumption
  PROVE  Topic!None \notin Topic!Version /\ 0 \in Topic!Version
BY DEF TopicAssumption, Topic!None, Topic!Version

LEMMA TopicInitInv ==
  ASSUME TopicAssumption PROVE Topic!Init => TopicInv
BY NoneIsNoVersion DEF Topic!Init, TopicInv, TopicTypes, Served, Message

LEMMA TopicNextInv ==
  ASSUME TopicAssumption, TopicInv, [Topic!Next]_(Topic!vars)
  PROVE  TopicInv'
<1> USE NoneIsNoVersion DEF TopicAssumption, TopicInv, TopicTypes, Served,
    OnItsWay, Got, Message
<1>1. CASE Topic!Install
  <2>1. installed' \in Topic!Version
    BY <1>1 DEF Topic!Install, Topic!Version
  <2> QED BY <1>1, <2>1 DEF Topic!Install
<1>2. CASE Topic!Open
  BY <1>2 DEF Topic!Open
<1>3. CASE Topic!Publish
  BY <1>3 DEF Topic!Publish
<1>4. CASE Topic!Stop
  BY <1>4 DEF Topic!Stop
<1>5. ASSUME NEW s \in Reader, Topic!Join(s) PROVE TopicInv'
  BY <1>5 DEF Topic!Join
<1>6. ASSUME NEW s \in Reader, Topic!Leave(s) PROVE TopicInv'
  BY <1>6 DEF Topic!Leave
<1>7. ASSUME NEW s \in Reader, Topic!Discover(s) PROVE TopicInv'
  BY <1>7 DEF Topic!Discover
<1>8. ASSUME NEW s \in Reader, Topic!Receive(s) PROVE TopicInv'
  BY <1>8 DEF Topic!Receive
<1>9. CASE UNCHANGED Topic!vars
  BY <1>9 DEF Topic!vars
<1> QED
  BY <1>1, <1>2, <1>3, <1>4, <1>5, <1>6, <1>7, <1>8, <1>9 DEF Topic!Next

(***************************************************************************)
(* While the publisher spins its history has the robot description, and a  *)
(* transient-local reader that it discovered has taken that message or     *)
(* will: another URDF installed meanwhile, readers that leave and come     *)
(* back and a publisher that was started again do not mix two messages     *)
(* (urdf_publisher.py:17-29).                                              *)
(***************************************************************************)
THEOREM TopicSpecInv == TopicAssumption => (Topic!Spec => []TopicInv)
<1> SUFFICES ASSUME TopicAssumption PROVE Topic!Spec => []TopicInv
  OBVIOUS
<1>1. Topic!Init => TopicInv
  BY TopicInitInv
<1>2. TopicInv /\ [Topic!Next]_(Topic!vars) => TopicInv'
  BY TopicNextInv
<1> QED BY <1>1, <1>2, PTL DEF Topic!Spec

\* How far the message has come to a reader.
Undiscovered(s) == s \in joined \ matched /\ node = "spinning"
Coming(s) == s \in joined /\ node = "spinning" /\ OnItsWay(s)
Present(s) == s \in joined /\ node = "spinning"
ServedOrGone(s) ==
  (kept # Topic!None /\ got[s] = kept) \/ s \notin joined \/ node # "spinning"

\* As StepsEnabled, for the middleware.
DeliveryEnabled ==
  \A s \in Reader :
    /\ Undiscovered(s) => ENABLED <<Topic!Discover(s)>>_(Topic!vars)
    /\ Coming(s) => ENABLED <<Topic!Receive(s)>>_(Topic!vars)

LEMMA ReaderMovesOn ==
  ASSUME TopicAssumption, TopicInv, TopicInv', NEW s \in Durable
  PROVE  /\ Present(s) => Undiscovered(s) \/ Coming(s) \/ ServedOrGone(s)
         /\ Undiscovered(s) /\ [Topic!Next]_(Topic!vars) =>
              Undiscovered(s)' \/ Coming(s)' \/ ServedOrGone(s)'
         /\ Undiscovered(s) /\ Topic!Discover(s) =>
              Coming(s)' \/ ServedOrGone(s)'
         /\ Coming(s) /\ [Topic!Next]_(Topic!vars) =>
              Coming(s)' \/ ServedOrGone(s)'
         /\ Coming(s) /\ Topic!Receive(s) => ServedOrGone(s)'
<1> USE DEF TopicAssumption, Undiscovered, Coming, Present, ServedOrGone,
    OnItsWay, Got, TopicInv, TopicTypes, Served
<1>1. Present(s) => Undiscovered(s) \/ Coming(s) \/ ServedOrGone(s)
  OBVIOUS
<1>2. Present(s)' => Undiscovered(s)' \/ Coming(s)' \/ ServedOrGone(s)'
  OBVIOUS
<1>3. Present(s)' \/ ServedOrGone(s)'
  OBVIOUS
<1>4. Undiscovered(s) /\ Topic!Discover(s) => Coming(s)' \/ ServedOrGone(s)'
  BY <1>2, <1>3 DEF Topic!Discover
<1>5. Coming(s) /\ Topic!Receive(s) => ServedOrGone(s)'
  BY DEF Topic!Receive
<1>6. Coming(s) /\ [Topic!Next]_(Topic!vars) => Coming(s)' \/ ServedOrGone(s)'
  <2> SUFFICES ASSUME Coming(s), [Topic!Next]_(Topic!vars), Present(s)'
               PROVE  Coming(s)' \/ ServedOrGone(s)'
    BY <1>3
  <2>1. node' = node /\ kept' = kept /\ s \in matched'
    BY DEF Topic!Next, Topic!Install, Topic!Open, Topic!Publish, Topic!Stop,
      Topic!Join, Topic!Leave, Topic!Discover, Topic!Receive, Topic!vars
  <2> QED BY <2>1
<1> QED BY <1>1, <1>2, <1>3, <1>4, <1>5, <1>6

(***************************************************************************)
(* A transient-local reader that stays gets the robot description from a   *)
(* publisher that stays, though it is published once, however late the     *)
(* reader comes and however late the publisher discovers it                *)
(* (urdf_publisher.py:17-29).                                              *)
(***************************************************************************)
THEOREM LateReadersServedFairly ==
  TopicAssumption =>
    (Topic!FairSpec /\ []DeliveryEnabled => Topic!LateReadersServed)
<1> SUFFICES ASSUME TopicAssumption
             PROVE  Topic!FairSpec /\ []DeliveryEnabled
                      => Topic!LateReadersServed
  OBVIOUS
<1>1. ASSUME NEW s \in Durable
      PROVE  Topic!FairSpec /\ []DeliveryEnabled
               => (Present(s) ~> ServedOrGone(s))
  <2> DEFINE U == Undiscovered(s)
             C == Coming(s)
             D == ServedOrGone(s)
             I == TopicInv
  <2>1. s \in Reader
    BY DEF TopicAssumption
  <2>2. I /\ I' => (Present(s) => U \/ C \/ D)
    BY ReaderMovesOn
  <2>3. I /\ I' /\ [Topic!Next]_(Topic!vars) =>
          /\ U => U' \/ C' \/ D'
          /\ C => C' \/ D'
    BY ReaderMovesOn
  <2>4. I /\ I' /\ U /\ <<Topic!Discover(s)>>_(Topic!vars) => C' \/ D'
    BY ReaderMovesOn
  <2>5. I /\ I' /\ C /\ <<Topic!Receive(s)>>_(Topic!vars) => D'
    BY ReaderMovesOn
  <2>6. Topic!Spec => []TopicInv
    BY TopicSpecInv
  <2>7. Topic!FairSpec => /\ Topic!Spec
                          /\ WF_(Topic!vars)(Topic!Discover(s))
                          /\ WF_(Topic!vars)(Topic!Receive(s))
    <3>1. Topic!FairSpec => Topic!Spec /\ Topic!Delivery(s)
      BY <2>1 DEF Topic!FairSpec
    <3> QED BY <3>1, PTL DEF Topic!Delivery
  <2>8. DeliveryEnabled =>
          /\ U => ENABLED <<Topic!Discover(s)>>_(Topic!vars)
          /\ C => ENABLED <<Topic!Receive(s)>>_(Topic!vars)
    BY <2>1 DEF DeliveryEnabled
  <2> QED
    BY <2>2, <2>3, <2>4, <2>5, <2>6, <2>7, <2>8, PTL DEF Topic!Spec
<1> QED BY <1>1 DEF Topic!LateReadersServed, Present, ServedOrGone
=============================================================================
