------------------------- MODULE RequestQueue_proofs -------------------------
(***************************************************************************)
(* Theorems about RequestQueue, for every set of requests, machines,       *)
(* process slots and workloads, and any number of crashes.                 *)
(*                                                                         *)
(*   TypeCorrect           every variable stays in its type                *)
(*   NoDoubleRun           SingleRun, from the invariant RunInv            *)
(*   LimitsHold            LimitRespected, from the invariant PoolInv      *)
(*   QueueImplementsPools  the queue implements WorkerPool                 *)
(*   DoneStaysDone         DoneIsFinal                                     *)
(*   MachinesExclude       MachineExclusion, from the invariant            *)
(*                         ExclusionInv                                    *)
(*   OrderKept             RunsAfter, from the invariant OrderInv          *)
(***************************************************************************)
EXTENDS RequestQueue, FiniteSetTheorems, WellFoundedInduction, TLAPS

-----------------------------------------------------------------------------
(* Lemmas about the operators the actions are built from.                  *)

\* A set of numbers that is not empty has a least element: the intervals
\* below its elements are finite sets, and the strict inclusion of finite sets
\* is well-founded.
LEMMA LeastElement ==
  ASSUME NEW S \in SUBSET Nat, S # {}
  PROVE  \E x \in S : \A y \in S : x <= y
<1> DEFINE below == {0 .. x : x \in S}
           R == StrictSubsetOrdering(Nat)
           F == FiniteSubsetsOf(Nat)
<1>1. below \subseteq F
  <2>1. ASSUME NEW x \in S PROVE 0 .. x \in F
    <3>1. IsFiniteSet(0 .. x)
      BY FS_Interval
    <3> QED BY <3>1 DEF FiniteSubsetsOf
  <2> QED BY <2>1
<1>2. below # {}
  OBVIOUS
<1>3. IsWellFoundedOn(R, F)
  BY FS_StrictSubsetOrderingWellFounded
<1>4. PICK U \in below : \A V \in below : <<V, U>> \notin R
  <2> HIDE DEF R, F, below
  <2> QED BY <1>1, <1>2, <1>3, WFMin
<1>5. PICK x \in S : U = 0 .. x
  OBVIOUS
<1>6. ASSUME NEW y \in S, y < x PROVE FALSE
  <2>1. (0 .. y) \subseteq (0 .. x) /\ (0 .. y) # (0 .. x)
    BY <1>6
  <2>2. <<0 .. y, 0 .. x>> \in R
    BY <2>1 DEF StrictSubsetOrdering
  <2> QED BY <2>2, <1>4, <1>5
<1> QED BY <1>6

\* Earliest returns an element of the set it is given.
LEMMA EarliestIn ==
  ASSUME NEW S \in SUBSET Nat, S # {}
  PROVE  Earliest(S) \in S
BY LeastElement DEF Earliest

\* Every command has a priority.
LEMMA PriorityType ==
  ASSUME NEW c
  PROVE  Priority(c) \in Nat
<1>1. CASE \E t \in Types : c \in CommandsOf(t)
  <2>1. TypeOf(c) \in Types
    BY <1>1 DEF TypeOf
  <2>2. TypePriority(TypeOf(c)) \in Nat
    BY <2>1 DEF TypePriority, Types
  <2> QED BY <1>1, <2>2 DEF Priority
<1>2. CASE ~\E t \in Types : c \in CommandsOf(t)
  BY <1>2 DEF Priority
<1> QED BY <1>1, <1>2

\* The daemon executes a row that it picked.
LEMMA ForemostIn ==
  ASSUME NEW S \in SUBSET Ids, S # {}
  PROVE  Foremost(S) \in S
<1> DEFINE P(i) == Priority(Command(i))
           priorities == {P(i) : i \in S}
           first == {i \in S : \A j \in S : P(i) <= P(j)}
<1>1. priorities \in SUBSET Nat /\ priorities # {}
  BY PriorityType
<1>2. PICK x \in priorities : \A y \in priorities : x <= y
  <2> HIDE DEF priorities
  <2> QED BY <1>1, LeastElement
<1>3. first # {}
  <2> HIDE DEF P
  <2> QED BY <1>2
<1>4. first \in SUBSET Nat
  BY IdsAssumption
<1>5. Earliest(first) \in first
  <2> HIDE DEF first
  <2> QED BY <1>3, <1>4, EarliestIn
<1> QED BY <1>5 DEF Foremost

\* No request has the id 0, the null of the model.
LEMMA NullIsNoId == Null \notin Ids
BY IdsAssumption DEF Null

\* What the creators of the requests have fixed.
LEMMA ArgsType ==
  ASSUME args \in Workloads, NEW id \in Ids
  PROVE  /\ args[id] \in Args
         /\ Machine(id) \in Domains \union {NoDomain}
         /\ IdDomain(id) \in Domains \union {NoDomain}
<1>1. args[id] \in Args
  BY WorkloadsAssumption
<1> QED BY <1>1 DEF Args, Machine, IdDomain

\* Writing one field of a row, or its status and error, keeps its type.
LEMMA RowFields ==
  ASSUME NEW r \in Row
  PROVE  /\ \A s \in Statuses : [r EXCEPT !.status = s] \in Row
         /\ \A a \in {"", "later", "due"} : [r EXCEPT !.at = a] \in Row
         /\ \A k \in Slots \union {Null} : [r EXCEPT !.pid = k] \in Row
         /\ \A s \in Statuses : \A e \in {"", "failed", "limit"} :
              [r EXCEPT !.status = s, !.error = e] \in Row
<1>1. ASSUME NEW s \in Statuses PROVE [r EXCEPT !.status = s] \in Row
  BY DEF Row
<1>2. ASSUME NEW a \in {"", "later", "due"} PROVE [r EXCEPT !.at = a] \in Row
  BY DEF Row
<1>3. ASSUME NEW k \in Slots \union {Null} PROVE [r EXCEPT !.pid = k] \in Row
  BY DEF Row
<1>4. ASSUME NEW s \in Statuses, NEW e \in {"", "failed", "limit"}
      PROVE  [r EXCEPT !.status = s, !.error = e] \in Row
  BY DEF Row
<1> QED BY <1>1, <1>2, <1>3, <1>4

\* The status a row then has.
LEMMA RowStatus ==
  ASSUME NEW r \in Row, NEW x, NEW y
  PROVE  /\ [r EXCEPT !.at = x].status = r.status
         /\ [r EXCEPT !.pid = x].status = r.status
         /\ [r EXCEPT !.status = x].status = x
         /\ [r EXCEPT !.status = x, !.error = y].status = x
BY DEF Row

\* A validator writes which request a row waits for, and nothing else.
LEMMA AfterRow ==
  ASSUME NEW r \in Row, NEW after \in Ids \union {Null}
  PROVE  /\ [r EXCEPT !.after = after] \in Row
         /\ [r EXCEPT !.after = after].status = r.status
         /\ [r EXCEPT !.after = after].after = after
         /\ [r EXCEPT !.after = after].afterOk = r.afterOk
BY DEF Row

\* What _execute writes when it takes a row and when it sends it back, and the
\* status the row then has.
LEMMA ClaimedRow ==
  ASSUME NEW r \in Row
  PROVE  /\ Claimed(r) \in Row
         /\ Claimed(r).status = IF r.status = "waiting" THEN "waiting" ELSE "working"
BY DEF Claimed, Row, Statuses

LEMMA LimitedRow ==
  ASSUME NEW r \in Row
  PROVE  Limited(r) \in Row /\ Limited(r).status = "waiting"
BY DEF Limited, Row, Statuses

\* What a process writes in its row, and the status the row then has.
LEMMA StartedRow ==
  ASSUME NEW r \in Row, NEW k \in Slots
  PROVE  Started(r, k) \in Row /\ Started(r, k).status = "working"
BY DEF Started, Row, Statuses

LEMMA EndedRow ==
  ASSUME NEW r \in Row, NEW e \in {"", "failed"}
  PROVE  /\ Ended(r, e) \in Row
         /\ Ended(r, e).status = IF r.status = "retry" THEN "retry" ELSE "done"
<1> DEFINE x == IF e = "" THEN r.error ELSE e
           s == IF r.status = "retry" THEN r.status ELSE "done"
<1>1. x \in {"", "failed", "limit"}
  BY DEF Row
<1>2. s \in Statuses
  BY DEF Statuses
<1>3. s = IF r.status = "retry" THEN "retry" ELSE "done"
  OBVIOUS
<1> DEFINE new == [r EXCEPT !.error = x, !.status = s]
<1>4. Ended(r, e) = new
  BY DEF Ended
<1> HIDE DEF x, s
<1>5. new \in Row /\ new.status = s
  BY <1>1, <1>2 DEF Row
<1> HIDE DEF new
<1> QED BY <1>3, <1>4, <1>5

LEMMA DeferredRow ==
  ASSUME NEW r \in Row, NEW n \in Ids, NEW left \in Nat
  PROVE  Deferred(r, n, left) \in Row /\ Deferred(r, n, left).status = "retry"
<1> DEFINE q == [r EXCEPT !.status = "retry", !.retry = left, !.at = "later"]
<1>1. Deferred(r, n, left) = [q EXCEPT !.after = n, !.error = "failed"]
  BY DEF Deferred, Row
<1>2. q \in Row /\ q.status = "retry"
  BY DEF Row, Statuses
<1>3. ASSUME NEW t \in Row
      PROVE  /\ [t EXCEPT !.after = n, !.error = "failed"] \in Row
             /\ [t EXCEPT !.after = n, !.error = "failed"].status = t.status
  BY DEF Row
<1> HIDE DEF q
<1> QED BY <1>1, <1>2, <1>3

LEMMA RetriedRow ==
  ASSUME NEW r \in Row, NEW left \in Nat
  PROVE  /\ Retried(r, left) \in Row
         /\ Retried(r, left).status = IF left > 0 THEN "requested" ELSE "done"
<1> DEFINE s == IF left > 0 THEN "requested" ELSE "done"
<1>1. s \in Statuses
  BY DEF Statuses
<1>2. Retried(r, left) = [r EXCEPT !.error = "failed", !.status = s]
  BY DEF Retried
<1>3. Retried(r, left).status = s
        => Retried(r, left).status = IF left > 0 THEN "requested" ELSE "done"
  OBVIOUS
<1> HIDE DEF s
<1>4. /\ [r EXCEPT !.error = "failed", !.status = s] \in Row
      /\ [r EXCEPT !.error = "failed", !.status = s].status = s
  BY <1>1 DEF Row
<1> QED BY <1>2, <1>3, <1>4

LEMMA RetriedLaterRow ==
  ASSUME NEW r \in Row, NEW left \in Nat
  PROVE  RetriedLater(r, left) \in Row /\ RetriedLater(r, left).status = r.status
BY DEF RetriedLater, Row

\* The helpers that write the table and the processes keep their types.
LEMMA HelperTypes ==
  ASSUME row \in [Ids -> Row], child \in [Pids -> Phases],
         locked \in [Domains -> Ids \union {Null}]
  PROVE  /\ \A S : Closed(S) \in [Ids -> Row] /\ Killed(S) \in [Pids -> Phases]
         /\ \A id \in Ids : \A new \in Row : Updated(id, new) \in [Ids -> Row]
         /\ \A id \in Ids : \A v \in Ids \union {Null} :
              Locked(id, v) \in [Domains -> Ids \union {Null}]
         /\ \A D, C : Cleaned(D, C) \in [Ids -> Row]
<1>1. ASSUME NEW S PROVE Closed(S) \in [Ids -> Row]
  BY DEF Closed, Row, Statuses
<1>2. ASSUME NEW S PROVE Killed(S) \in [Pids -> Phases]
  BY DEF Killed, Phases
<1>3. ASSUME NEW id \in Ids, NEW new \in Row PROVE Updated(id, new) \in [Ids -> Row]
  BY DEF Updated
<1>4. ASSUME NEW id \in Ids, NEW v \in Ids \union {Null}
      PROVE  Locked(id, v) \in [Domains -> Ids \union {Null}]
  BY DEF Locked
<1>5. ASSUME NEW D, NEW C PROVE Cleaned(D, C) \in [Ids -> Row]
  BY RowFields DEF Cleaned, Statuses
<1> QED BY <1>1, <1>2, <1>3, <1>4, <1>5

\* A new row has the type of a row.
LEMMA NewRowType ==
  ASSUME args \in Workloads, NEW id \in Ids
  PROVE  NewRow(id) \in Row /\ NewRow(id).status = "requested"
<1>1. args[id].retry \in Nat
  BY ArgsType DEF Args
<1> QED BY <1>1 DEF NewRow, Row, Statuses, Null

\* A process is named by its request and its slot.
LEMMA PidParts ==
  ASSUME NEW p \in Pids
  PROVE  Owner(p) \in Ids /\ p[2] \in Slots /\ p = <<Owner(p), p[2]>>
BY DEF Pids, Owner

\* A validator names a request found on the machine, or none.
LEMMA SearchType ==
  ASSUME NEW id, NEW commands, NEW found \in Search(id, commands)
  PROVE  found \in Ids \union {Null}
BY DEF Search

\* A validator writes which request its own row waits for, always one that was
\* created, or ends its request; in other rows it only lifts a schedule.
Named(k) == k = Null \/ row[k].status # "absent"
WritesOrder(id) ==
  \E after \in Ids \union {Null} :
    /\ after = row[id].after \/ Named(after)
    /\ row'[id] = [row[id] EXCEPT !.after = after]

LEMMA SearchNamed ==
  ASSUME NEW id, NEW commands, NEW found \in Search(id, commands)
  PROVE  Named(found)
BY DEF Search, Pending, Exists, Named

LEMMA OrderWrites ==
  ASSUME row \in [Ids -> Row], NEW i \in Ids, NEW A, NEW B, NEW h,
         ValidateOrder(i, A, B, h), NEW id \in Ids
  PROVE  /\ row' = [k \in Ids |-> row'[k]]
         /\ \/ row'[id] = row[id] \/ row'[id] = [row[id] EXCEPT !.at = ""]
            \/ id = i /\ WritesOrder(id)
<1>1. PICK f \in Search(i, A), g \in Search(i, B) :
        row' = [k \in Ids |->
          IF k = i
          THEN [row[k] EXCEPT !.after = IF row[i].after # Null THEN row[k].after
                                                               ELSE Larger(f, g)]
          ELSE IF k \in {f, g} /\ h /\ ~(row[i].after # Null)
               THEN [row[k] EXCEPT !.at = ""] ELSE row[k]]
  BY DEF ValidateOrder
<1>2. CASE id = i
  <2>1. Larger(f, g) \in Ids \union {Null} /\ Named(Larger(f, g))
    BY SearchType, SearchNamed DEF Larger
  <2>2. row[i].after \in Ids \union {Null}
    BY DEF Row
  <2>3. PICK after \in Ids \union {Null} :
          /\ after = row[i].after \/ Named(after)
          /\ row'[id] = [row[id] EXCEPT !.after = after]
    BY <1>1, <1>2, <2>1, <2>2
  <2> QED BY <1>1, <1>2, <2>3 DEF WritesOrder
<1>3. CASE id # i
  BY <1>1, <1>3
<1> QED BY <1>2, <1>3

LEMMA ValidateWrites ==
  ASSUME row \in [Ids -> Row], NEW i \in Ids, ValidateRequest(i), NEW id \in Ids
  PROVE  /\ row' = [k \in Ids |-> row'[k]]
         /\ \/ row'[id] = row[id] \/ row'[id] = [row[id] EXCEPT !.at = ""]
            \/ id = i /\ WritesOrder(id)
            \/ /\ id = i /\ Exists(i)
               /\ row'[id] = [row[id] EXCEPT !.status = "done", !.error = "failed"]
<1>1. CASE ~Exists(i)
  BY <1>1 DEF ValidateRequest
<1>2. CASE Exists(i) /\ Command(i) \in HardwareCommands \union {"move_volume"}
  <2>1. ValidateOrder(i, HardwareCommands, {"move_volume"}, FALSE)
    BY <1>2 DEF ValidateRequest, HardwareCommands, RefusedCommands
  <2> QED BY <2>1, OrderWrites
<1>3. CASE Exists(i) /\ Command(i) \in {"compact", "spinoff", "prepare_base"}
  <2>1. ValidateOrder(i, {"compact"}, {"spinoff"}, TRUE)
    BY <1>3 DEF ValidateRequest, HardwareCommands, RefusedCommands
  <2> QED BY <2>1, OrderWrites
<1>4. CASE Exists(i) /\ Command(i) = "start"
  <2>1. ValidateStart(i)
    BY <1>4 DEF ValidateRequest, HardwareCommands, RefusedCommands
  <2>2. row[i].after \in Ids \union {Null}
    BY DEF Row
  <2>3. PICK after \in Ids \union {Null} :
          /\ after = row[i].after \/ Named(after)
          /\ row' = [row EXCEPT ![i].after = after]
    BY <2>1, <2>2, SearchType, SearchNamed DEF ValidateStart
  <2>4. CASE id = i
    BY <2>3, <2>4 DEF WritesOrder
  <2> QED BY <2>3, <2>4
<1>5. CASE Exists(i) /\ Command(i) \in RefusedCommands
  <2>1. ValidateLeave(i)
    BY <1>5 DEF ValidateRequest, HardwareCommands, RefusedCommands
  <2>2. \/ row' = row
        \/ row' = [row EXCEPT ![i] = [row[i] EXCEPT !.status = "done", !.error = "failed"]]
    BY <2>1 DEF ValidateLeave, Row
  <2> QED BY <1>5, <2>2
<1>6. CASE Exists(i) /\ Command(i) \notin RefusedCommands \union HardwareCommands \union
               {"move_volume", "compact", "spinoff", "prepare_base", "start"}
  BY <1>6 DEF ValidateRequest
<1> QED BY <1>1, <1>2, <1>3, <1>4, <1>5, <1>6

\* So it leaves every status as it was, but that of a request it ends.
LEMMA ValidateStatus ==
  ASSUME row \in [Ids -> Row], NEW i \in Ids, ValidateRequest(i), NEW id \in Ids
  PROVE  /\ row'[id] \in Row
         /\ \/ row'[id].status = row[id].status
            \/ id = i /\ Exists(i) /\ row'[id].status = "done"
<1>1. row[id] \in Row
  OBVIOUS
<1>2. CASE row'[id] = row[id]
  BY <1>1, <1>2
<1>3. CASE row'[id] = [row[id] EXCEPT !.at = ""]
  <2>1. /\ [row[id] EXCEPT !.at = ""] \in Row
        /\ [row[id] EXCEPT !.at = ""].status = row[id].status
    BY <1>1, RowFields, RowStatus
  <2> QED BY <1>3, <2>1
<1>4. CASE WritesOrder(id)
  BY <1>1, <1>4, AfterRow DEF WritesOrder
<1>5. CASE /\ id = i /\ Exists(i)
           /\ row'[id] = [row[id] EXCEPT !.status = "done", !.error = "failed"]
  <2>0. "done" \in Statuses
    BY DEF Statuses
  <2>1. [row[id] EXCEPT !.status = "done", !.error = "failed"] \in Row
    BY <1>1, <2>0, RowFields
  <2>2. [row[id] EXCEPT !.status = "done", !.error = "failed"].status = "done"
    BY <1>1, RowStatus
  <2> QED BY <1>5, <2>1, <2>2
<1> QED BY <1>2, <1>3, <1>4, <1>5, ValidateWrites
-----------------------------------------------------------------------------
(* Type correctness.                                                       *)

LEMMA TypeInit == Init => TypeOK
<1> SUFFICES ASSUME Init PROVE TypeOK
  OBVIOUS
<1>1. NoRow \in Row
  BY DEF NoRow, Row, Statuses, Null
<1> QED BY <1>1, CrashAssumption DEF Init, TypeOK, Phases, Stages

\* The history variables stay sets of requests.
LEMMA TypeHistory ==
  ASSUME TypeOK, History, row' \in [Ids -> Row]
  PROVE  /\ finished' \subseteq Ids /\ postponed' \subseteq Ids
         /\ early' \subseteq Ids /\ succeeded' \subseteq Ids
BY DEF TypeOK, History

\* The type of what the steps of the table, the daemon and its processes
\* change: TypeOK without the history.
StateType ==
  /\ args \in Workloads
  /\ row \in [Ids -> Row]
  /\ creating \subseteq Ids /\ validated \subseteq Ids /\ confirming \subseteq Ids
  /\ locked \in [Domains -> Ids \union {Null}]
  /\ child \in [Pids -> Phases]
  /\ tracked \subseteq Pids /\ tries \in [Pids -> Nat]
  /\ pc \in Stages
  /\ pending \subseteq Ids /\ picked \subseteq Ids
  /\ seen \subseteq (Domains \union {NoDomain}) \X STRING
  /\ current \in Ids \union {Null} /\ read \in Nat
  /\ crashes \in 0 .. MaxCrash

\* Where the daemon is: between two rows of a pass it executes none, and while
\* it executes one it has nothing left to scan and will not pick that one again.
Control ==
  /\ pc \in {"refresh", "reap", "fork"} =>
       current \in Ids /\ current \notin picked /\ pending = {}
  /\ pc \notin {"refresh", "reap", "fork"} => current = Null
  /\ pc \in {"sweep", "select"} => pending = {} /\ picked = {}

LEMMA TypeFront ==
  ASSUME StateType, NEW id \in Ids, Front(id)
  PROVE  StateType'
<1> USE DEF StateType, table, creators, daemon, processes
<1>1. CASE CreateRequest(id)
  BY <1>1, HelperTypes, NewRowType DEF CreateRequest
<1>2. CASE ValidateRequest(id)
  <2>1. row' \in [Ids -> Row]
    <3>1. row' = [k \in Ids |-> row'[k]] /\ \A k \in Ids : row'[k] \in Row
      BY <1>2, ValidateWrites, ValidateStatus
    <3> QED BY <3>1
  <2>2. /\ UNCHANGED <<args, locked, confirming, processes, daemon, crashes>>
        /\ creating' \subseteq Ids /\ validated' \subseteq Ids
    BY <1>2 DEF ValidateRequest
  <2> QED BY <2>1, <2>2
<1>3. CASE ReadStatus(id)
  <2>1. Locked(id, id) \in [Domains -> Ids \union {Null}]
    BY HelperTypes
  <2>2. locked' = Locked(id, id) \/ locked' = locked
    BY <1>3 DEF ReadStatus
  <2>3. /\ UNCHANGED <<args, row, processes, daemon, crashes>>
        /\ creating' \subseteq Ids /\ validated' \subseteq Ids /\ confirming' \subseteq Ids
    BY <1>3 DEF ReadStatus
  <2> QED BY <2>1, <2>2, <2>3
<1>4. CASE ConfirmRequest(id)
  <2>1. [row[id] EXCEPT !.status = "requested"] \in Row
    BY RowFields DEF Statuses
  <2> QED BY <1>4, <2>1, HelperTypes DEF ConfirmRequest
<1>5. CASE ComesDue(id)
  BY <1>5, RowFields DEF ComesDue
<1> QED BY <1>1, <1>2, <1>3, <1>4, <1>5 DEF Front, Creator

LEMMA TypeDaemon ==
  ASSUME StateType, Control, Daemon
  PROVE  StateType'
<1> USE DEF StateType, table, creators, daemon, processes
<1>0. ASSUME Reap PROVE row' \in [Ids -> Row] /\ tracked' \subseteq Pids
                        /\ child' \in [Pids -> Phases]
  BY <1>0, HelperTypes DEF Reap, Phases
<1>00. ASSUME NEW S, Stop(S) PROVE row' \in [Ids -> Row] /\ child' \in [Pids -> Phases]
  BY <1>00, HelperTypes DEF Stop
<1>1. CASE WaitPids
  BY <1>1, <1>0 DEF WaitPids, Stages
<1>2. CASE KillProcesses
  BY <1>2, <1>00 DEF KillProcesses, Stages
<1>3. CASE SelectRequests
  BY <1>3 DEF SelectRequests, Eligible, MaySelect, Stages
<1>4. CASE ClaimRequest
  <2>1. PICK id \in picked :
          /\ picked' = picked \ {id}
          /\ \/ UNCHANGED <<pc, current, row, read>>
             \/ /\ pc' \in Stages /\ current' = id /\ row' = Updated(id, Claimed(row[id]))
                /\ read' = row[id].retry
    <3> DEFINE id == Foremost(picked)
    <3>1. id \in picked
      BY <1>4, ForemostIn DEF ClaimRequest
    <3>2. /\ picked' = picked \ {id}
          /\ \/ UNCHANGED <<pc, current, row, read>>
             \/ /\ pc' = IF Command(id) \in {"clone", "start"} THEN "refresh" ELSE "reap"
                /\ current' = id
                /\ row' = Updated(id, Claimed(row[id]))
                /\ read' = row[id].retry
      BY <1>4 DEF ClaimRequest
    <3> HIDE DEF id
    <3> QED BY <3>1, <3>2 DEF Stages
  <2>2. Updated(id, Claimed(row[id])) \in [Ids -> Row] /\ row[id].retry \in Nat
    BY ClaimedRow, HelperTypes DEF Row
  <2> QED BY <1>4, <2>1, <2>2 DEF ClaimRequest
<1>5. CASE StopRefresh
  BY <1>5, <1>00 DEF StopRefresh, Stages
<1>6. CASE ReapBeforeFork
  BY <1>6, <1>0 DEF ReapBeforeFork, Stages
<1>7. CASE WaitForLimit
  <2>1. current \in Ids /\ row' = Updated(current, Limited(row[current]))
    BY <1>7 DEF WaitForLimit, Control
  <2>2. Updated(current, Limited(row[current])) \in [Ids -> Row]
    BY <2>1, LimitedRow, HelperTypes
  <2> QED BY <1>7, <2>1, <2>2 DEF WaitForLimit, Stages
<1>8. CASE Fork
  <2>1. PICK k \in FreeSlots(current) :
          /\ child' = [child EXCEPT ![<<current, k>>] = "forked"]
          /\ tracked' = tracked \union {<<current, k>>}
          /\ tries' = [tries EXCEPT ![<<current, k>>] = read]
          /\ row' = Updated(current, [row[current] EXCEPT !.pid = k])
    BY <1>8, SlotsAssumption, EarliestIn DEF Fork, FreeSlots
  <2>2. current \in Ids /\ k \in Slots
    BY <1>8, <2>1 DEF Fork, Control, FreeSlots
  <2>3. row' \in [Ids -> Row]
    <3>1. [row[current] EXCEPT !.pid = k] \in Row
      BY <2>2, RowFields
    <3> QED BY <2>1, <2>2, <3>1, HelperTypes
  <2> QED BY <1>8, <2>1, <2>2, <2>3 DEF Fork, Stages, Phases, Pids
<1>9. CASE Restart
  <2>1. ASSUME NEW i \in Ids PROVE row'[i] \in Row
    <3>1. row[i] \in Row
      OBVIOUS
    <3>2. row'[i] \in {row[i], [row[i] EXCEPT !.status = "done"],
                       [row[i] EXCEPT !.status = "deleted"]}
      BY <1>9 DEF Restart
    <3> QED BY <3>1, <3>2, RowFields DEF Statuses
  <2> QED BY <1>9, <2>1 DEF Restart, Stages
<1>10. ASSUME NEW id \in Ids, ScanSkip(id) \/ ScanClose(id) \/ ScanPick(id) \/ ScanDie(id)
       PROVE  StateType'
  <2>1. CASE ScanSkip(id)
    BY <2>1 DEF ScanSkip
  <2>2. CASE ScanClose(id)
    <3>1. row[id] \in Row /\ row[id].error \in {"", "failed", "limit"}
      BY DEF Row
    <3> QED BY <2>2, <3>1, RowFields DEF ScanClose, Statuses
  <2>3. CASE ScanPick(id)
    BY <2>3, ArgsType DEF ScanPick, Twin, Command, Args
  <2>4. CASE ScanDie(id)
    BY <2>4 DEF ScanDie, Down, Stages, Phases
  <2> QED BY <1>10, <2>1, <2>2, <2>3, <2>4
<1> QED BY <1>1, <1>2, <1>3, <1>4, <1>5, <1>6, <1>7, <1>8, <1>9, <1>10 DEF Daemon

LEMMA TypeProcess ==
  ASSUME StateType, NEW p \in Pids, Process(p)
  PROVE  StateType'
<1> DEFINE id == Owner(p)
<1>0. id \in Ids /\ p[2] \in Slots
  BY PidParts
<1>00. row[id] \in Row /\ tries[p] \in Nat
  BY <1>0 DEF StateType
<1>01. row[id].status \in Statuses /\ row[id].error \in {"", "failed", "limit"}
       /\ row[id].retry \in Nat
  BY <1>00 DEF Row
<1> HIDE DEF id
<1>02. ASSUME NEW new \in Row PROVE Updated(id, new) \in [Ids -> Row]
  BY <1>0, HelperTypes DEF StateType
<1>03. ASSUME NEW v \in Ids \union {Null} PROVE Locked(id, v) \in [Domains -> Ids \union {Null}]
  BY <1>0, HelperTypes DEF StateType
<1>04. ASSUME NEW phase \in Phases, Becomes(p, phase) PROVE child' \in [Pids -> Phases]
  BY <1>04 DEF Becomes, StateType
<1>05. ASSUME NEW left \in Nat, Reads(p, left) PROVE tries' \in [Pids -> Nat]
  BY <1>05 DEF Reads, StateType
\* No process writes anything but the table, its phase and its tries.
<1>06. ASSUME row' \in [Ids -> Row], locked' \in [Domains -> Ids \union {Null}],
              child' \in [Pids -> Phases], tries' \in [Pids -> Nat],
              UNCHANGED <<args, creators, tracked, daemon, crashes>>
       PROVE  StateType'
  BY <1>06 DEF StateType, creators, daemon
<1>07. tries \in [Pids -> Nat] /\ child \in [Pids -> Phases]
       /\ row \in [Ids -> Row] /\ locked \in [Domains -> Ids \union {Null}]
  BY DEF StateType
<1>1. CASE ChildStart(p)
  <2>1. /\ row' = Updated(id, Started(row[id], p[2])) /\ locked' = Locked(id, id)
        /\ Reads(p, IF row[id].status = "working" THEN tries[p] ELSE row[id].retry)
        /\ Becomes(p, "body")
        /\ UNCHANGED <<args, creators, tracked, daemon, crashes>>
    BY <1>1 DEF ChildStart, id
  <2>2. Started(row[id], p[2]) \in Row
    BY <1>0, <1>00, StartedRow
  <2>3. (IF row[id].status = "working" THEN tries[p] ELSE row[id].retry) \in Nat
    BY <1>00, <1>01
  <2>4. row' \in [Ids -> Row]
    BY <1>02, <2>1, <2>2
  <2>5. locked' \in [Domains -> Ids \union {Null}]
    BY <1>0, <1>03, <2>1
  <2>6. child' \in [Pids -> Phases]
    BY <1>04, <2>1 DEF Phases
  <2>7. tries' \in [Pids -> Nat]
    BY <1>05, <2>1, <2>3
  <2> QED BY <1>06, <2>1, <2>4, <2>5, <2>6, <2>7
<1>2. CASE BodyCleans(p) \/ BodyCleansRequested(p)
  <2>1. PICK D, C : row' = Cleaned(D, C)
    BY <1>2 DEF BodyCleans, BodyCleansRequested
  <2>2. row' \in [Ids -> Row]
    BY <2>1, HelperTypes DEF StateType
  <2>3. UNCHANGED <<args, creators, locked, processes, daemon, crashes>>
    BY <1>2 DEF BodyCleans, BodyCleansRequested
  <2> QED BY <1>06, <1>07, <2>2, <2>3 DEF processes
<1>3. CASE ChildFinish(p)
  <2>1. PICK e \in {"", "failed"} : row' = Updated(id, Ended(row[id], e))
    BY <1>3 DEF ChildFinish, id
  <2>2. locked' = Locked(id, Null) /\ Becomes(p, "closing")
        /\ UNCHANGED <<args, creators, tracked, tries, daemon, crashes>>
    BY <1>3 DEF ChildFinish, id
  <2>3. Ended(row[id], e) \in Row
    BY <1>00, EndedRow
  <2>4. child' \in [Pids -> Phases]
    BY <1>04, <2>2 DEF Phases
  <2> QED BY <1>02, <1>03, <1>06, <1>07, <2>1, <2>2, <2>3, <2>4
<1>4. CASE ChildDefer(p)
  <2> DEFINE left == tries[p] - 1
  <2>0. left \in Nat
    BY <1>4, <1>00 DEF ChildDefer
  <2>1. PICK n \in Ids :
          row' = [Updated(id, Deferred(row[id], n, left)) EXCEPT ![n] = NewRow(n)]
    BY <1>4 DEF ChildDefer, id
  <2> HIDE DEF left
  <2>2. Updated(id, Deferred(row[id], n, left)) \in [Ids -> Row]
    BY <2>0, <1>00, <1>02, DeferredRow
  <2>3. row' \in [Ids -> Row]
    BY <2>1, <2>2, NewRowType DEF StateType
  <2>4. locked' = Locked(id, Null) /\ Becomes(p, "closing")
        /\ UNCHANGED <<args, creators, tracked, tries, daemon, crashes>>
    BY <1>4 DEF ChildDefer, id
  <2>5. child' \in [Pids -> Phases]
    BY <1>04, <2>4 DEF Phases
  <2> QED BY <1>03, <1>06, <1>07, <2>3, <2>4, <2>5
<1>5. CASE ChildRetry(p)
  <2>1. /\ row' = Updated(id, Retried(row[id], tries[p])) /\ locked' = Locked(id, Null)
        /\ IF tries[p] > 0 THEN Becomes(p, "again") /\ Reads(p, tries[p] - 1)
                           ELSE Becomes(p, "closing") /\ UNCHANGED tries
        /\ UNCHANGED <<args, creators, tracked, daemon, crashes>>
    BY <1>5 DEF ChildRetry, id
  <2>2. row' \in [Ids -> Row]
    BY <1>00, <1>02, <2>1, RetriedRow
  <2>3. child' \in [Pids -> Phases]
    BY <1>04, <2>1 DEF Phases
  <2>4. tries' \in [Pids -> Nat]
    <3>1. CASE tries[p] > 0
      <4>1. tries[p] - 1 \in Nat
        BY <1>00, <3>1
      <4> QED BY <1>05, <2>1, <3>1, <4>1
    <3>2. CASE ~(tries[p] > 0)
      BY <1>07, <2>1, <3>2
    <3> QED BY <3>1, <3>2
  <2> QED BY <1>03, <1>06, <2>1, <2>2, <2>3, <2>4
<1>6. CASE ChildRetryLater(p)
  <2>1. /\ row' = Updated(id, RetriedLater(row[id], tries[p])) /\ Becomes(p, "closing")
        /\ UNCHANGED <<args, creators, locked, tracked, tries, daemon, crashes>>
    BY <1>6 DEF ChildRetryLater, id
  <2>2. row' \in [Ids -> Row]
    BY <1>00, <1>02, <2>1, RetriedLaterRow
  <2>3. child' \in [Pids -> Phases]
    BY <1>04, <2>1 DEF Phases
  <2> QED BY <1>06, <1>07, <2>1, <2>2, <2>3
<1>7. CASE ChildExit(p)
  <2>1. /\ locked' = Locked(id, Null) /\ Becomes(p, "zombie")
        /\ UNCHANGED <<args, row, creators, tracked, tries, daemon, crashes>>
    BY <1>7 DEF ChildExit, id
  <2>2. child' \in [Pids -> Phases]
    BY <1>04, <2>1 DEF Phases
  <2> QED BY <1>03, <1>06, <1>07, <2>1, <2>2
<1>8. CASE BodyTells(p)
  <2>1. PICK s \in {"busy", "working"} : row' = Updated(id, [row[id] EXCEPT !.status = s])
    BY <1>8 DEF BodyTells, id
  <2>2. [row[id] EXCEPT !.status = s] \in Row
    BY <1>00, RowFields DEF Statuses
  <2>3. /\ Reads(p, row[id].retry)
        /\ UNCHANGED <<args, creators, locked, child, tracked, daemon, crashes>>
    BY <1>8 DEF BodyTells, id
  <2>4. row' \in [Ids -> Row]
    BY <1>02, <2>1, <2>2
  <2>5. tries' \in [Pids -> Nat]
    BY <1>01, <1>05, <2>3
  <2> QED BY <1>06, <1>07, <2>3, <2>4, <2>5
<1> QED BY <1>1, <1>2, <1>3, <1>4, <1>5, <1>6, <1>7, <1>8 DEF Process

\* The four sources of steps, without the history that follows them.
Step == \/ Daemon
        \/ \E p \in Pids : Process(p)
        \/ \E id \in Ids : Front(id)
        \/ Failure

LEMMA TypeStep ==
  ASSUME TypeOK, Control, [Next]_vars
  PROVE  TypeOK'
<1>0. StateType
  BY DEF TypeOK, StateType
<1>1. CASE UNCHANGED vars
  BY <1>1 DEF TypeOK, vars, table, creators, daemon, processes, history
<1>2. CASE Next
  <2>1. StateType'
    <3>1. CASE Failure
      <4>0. crashes < MaxCrash => crashes + 1 \in 0 .. MaxCrash
        BY <1>0, CrashAssumption DEF StateType
      <4>1. CASE Crash
        BY <4>0, <4>1, <1>0 DEF Crash, Down, StateType, table, creators, Stages, Phases
      <4>2. ASSUME NEW p \in Pids, ChildDies(p) PROVE StateType'
        BY <4>0, <4>2, <1>0 DEF ChildDies, Becomes, StateType, table, creators, daemon, Phases
      <4> QED BY <3>1, <4>1, <4>2 DEF Failure
    <3> QED BY <1>2, <1>0, <3>1, TypeDaemon, TypeProcess, TypeFront DEF Next
  <2>2. History
    BY <1>2 DEF Next
  <2> QED BY <2>1, <2>2, TypeHistory DEF TypeOK, StateType
<1> QED BY <1>1, <1>2

LEMMA ControlStep ==
  ASSUME TypeOK, Control, [Next]_vars
  PROVE  Control'
<1> USE DEF Control, daemon
<1>1. CASE UNCHANGED daemon
  BY <1>1
<1>2. ASSUME NEW id \in Ids, Front(id) PROVE UNCHANGED daemon
  BY <1>2 DEF Front, Creator, CreateRequest, ValidateRequest, ReadStatus, ConfirmRequest,
    ComesDue
<1>3. ASSUME NEW p \in Pids, Process(p) PROVE UNCHANGED daemon
  BY <1>3 DEF Process, ChildStart, BodyTells, BodyCleans, BodyCleansRequested, ChildFinish,
              ChildDefer, ChildRetry, ChildRetryLater, ChildExit
<1>4. ASSUME Down PROVE Control'
  BY <1>4 DEF Down
<1>5. ASSUME Daemon PROVE Control'
  <2>1. CASE WaitPids
    BY <2>1 DEF WaitPids, Idle
  <2>2. CASE KillProcesses
    BY <2>2 DEF KillProcesses
  <2>3. CASE SelectRequests
    BY <2>3 DEF SelectRequests, Idle
  <2>4. CASE ClaimRequest
    <3>1. picked \subseteq Ids
      BY DEF TypeOK
    <3> QED BY <2>4, <3>1, ForemostIn DEF ClaimRequest
  <2>5. CASE StopRefresh
    BY <2>5 DEF StopRefresh
  <2>6. CASE ReapBeforeFork
    BY <2>6 DEF ReapBeforeFork
  <2>7. CASE WaitForLimit
    BY <2>7 DEF WaitForLimit
  <2>8. CASE Fork
    BY <2>8 DEF Fork
  <2>9. CASE Restart
    BY <2>9 DEF Restart
  <2>10. CASE \E id \in Ids : ScanSkip(id) \/ ScanClose(id) \/ ScanPick(id) \/ ScanDie(id)
    BY <2>10, <1>4 DEF ScanSkip, ScanClose, ScanPick, ScanDie, Scanning
  <2> QED BY <1>5, <2>1, <2>2, <2>3, <2>4, <2>5, <2>6, <2>7, <2>8, <2>9, <2>10 DEF Daemon
<1>6. ASSUME Failure PROVE Control'
  BY <1>1, <1>4, <1>6 DEF Failure, Crash, ChildDies
<1>7. CASE UNCHANGED vars
  BY <1>7 DEF vars
<1> QED BY <1>1, <1>2, <1>3, <1>5, <1>6, <1>7 DEF Next

LEMMA ControlInit == Init => Control
BY DEF Init, Control

\* Every variable stays in its type, whatever the workload.
THEOREM TypeCorrect == Spec => []TypeOK
<1>1. Init => TypeOK /\ Control
  BY TypeInit, ControlInit
<1>2. TypeOK /\ Control /\ [Next]_vars => (TypeOK /\ Control)'
  BY TypeStep, ControlStep
<1> QED BY <1>1, <1>2, PTL DEF Spec
-----------------------------------------------------------------------------
(* What each step may do to the processes, the rows and the daemon's lists. *)

\* Only Fork gives a request a process.
LEMMA NoNewProcess ==
  ASSUME TypeOK, Step, ~Fork, NEW p \in Pids, Alive(p)'
  PROVE  Alive(p)
<1> USE DEF Alive, processes
<1>1. ASSUME NEW S, Stop(S) PROVE Alive(p)
  BY <1>1 DEF Stop, Killed
<1>2. ASSUME Reap PROVE Alive(p)
  BY <1>2 DEF Reap
<1>3. ASSUME Down PROVE Alive(p)
  BY <1>3 DEF Down
<1>4. CASE Daemon
  BY <1>4, <1>1, <1>2, <1>3
     DEF Daemon, WaitPids, KillProcesses, SelectRequests, ClaimRequest, StopRefresh,
         ReapBeforeFork, WaitForLimit, Restart, ScanSkip, ScanClose, ScanPick, ScanDie
<1>5. ASSUME NEW q \in Pids, Process(q) PROVE Alive(p)
  <2>1. child \in [Pids -> Phases]
    BY DEF TypeOK
  <2> QED BY <1>5, <2>1
     DEF Process, ChildStart, BodyTells, BodyCleans, BodyCleansRequested, ChildFinish,
         ChildDefer, ChildRetry, ChildRetryLater, ChildExit, ChildAt, Becomes
<1>6. ASSUME NEW id \in Ids, Front(id) PROVE Alive(p)
  BY <1>6 DEF Front, Creator, CreateRequest, ValidateRequest, ReadStatus, ConfirmRequest,
    ComesDue, Killed
<1>7. CASE Failure
  <2>1. child \in [Pids -> Phases]
    BY DEF TypeOK
  <2> QED BY <1>3, <1>7, <2>1 DEF Failure, Crash, ChildDies, Becomes
<1> QED BY <1>4, <1>5, <1>6, <1>7 DEF Step

\* A request that its creator confirms is "requested" again.
LEMMA ConfirmWrites ==
  ASSUME TypeOK, NEW i \in Ids, ConfirmRequest(i), NEW id \in Ids
  PROVE  /\ i \in confirming
         /\ \/ row'[id] = row[id]
            \/ /\ id = i /\ Exists(i)
               /\ row'[id] = [row[id] EXCEPT !.status = "requested"]
               /\ row'[id].status = "requested"
BY RowStatus DEF ConfirmRequest, Updated, TypeOK

\* A row that exists does not vanish, a deleted row does not come back, and
\* only the limit of its type, or a process of its own, postpones a request.
Postpones(id) == (WaitForLimit /\ id = current) \/ Running(id)
RowMoves(id) ==
  /\ row'[id].status = "absent" => row[id].status = "absent"
  /\ row[id].status = "deleted" => row'[id].status = "deleted"
  /\ row'[id].status \in {"waiting", "retry"} =>
       (row'[id].status = row[id].status \/ Postpones(id))

LEMMA RowsMove ==
  ASSUME TypeOK, Control, Step, NEW id \in Ids
  PROVE  RowMoves(id)
<1> USE DEF RowMoves, table
<1>0. row \in [Ids -> Row] /\ row[id] \in Row /\ Null \notin Ids
  BY NullIsNoId DEF TypeOK
<1>1. CASE UNCHANGED row
  BY <1>1
<1>2. ASSUME NEW S, row' = Closed(S), id \in S => row[id].status # "deleted"
      PROVE  RowMoves(id)
  BY <1>2, <1>0 DEF Closed, Row
<1>3. ASSUME NEW i \in Ids, NEW new \in Row, row' = Updated(i, new),
             \/ new.status \in {"requested", "working", "busy", "done", row[i].status}
             \/ new.status \in {"waiting", "retry"} /\ Postpones(i)
      PROVE  RowMoves(id)
  BY <1>3, <1>0 DEF Updated, Exists
<1>4. ASSUME NEW i \in Ids, Front(i) PROVE RowMoves(id)
  <2>1. CASE CreateRequest(i)
    BY <2>1, <1>0, NewRowType DEF CreateRequest, NextId, LowPriorityOf, Closed, Pending,
       Exists, TypeOK, Row
  <2>2. CASE ValidateRequest(i)
    BY <2>2, <1>0, ValidateStatus DEF Exists
  <2>3. CASE ReadStatus(i)
    BY <2>3, <1>1 DEF ReadStatus
  <2>4. CASE ConfirmRequest(i)
    BY <2>4, ConfirmWrites DEF Exists
  <2>5. CASE ComesDue(i)
    BY <2>5, <1>0 DEF ComesDue
  <2> QED BY <1>4, <2>1, <2>2, <2>3, <2>4, <2>5 DEF Front, Creator
<1>5. ASSUME NEW p \in Pids, Process(p) PROVE RowMoves(id)
  <2> DEFINE o == Owner(p)
  <2>0. /\ o \in Ids /\ row[o] \in Row /\ row[o].status \in Statuses
        /\ tries[p] \in Nat
    BY PidParts DEF TypeOK, Row
  <2>00. Alive(p) => Running(o)
    BY PidParts DEF Running
  <2>1. CASE ChildStart(p)
    BY <2>1, <1>3, <2>0, PidParts, StartedRow DEF ChildStart
  <2>2. CASE BodyCleans(p) \/ BodyCleansRequested(p)
    <3>1. PICK D, C : row' = Cleaned(D, C) /\ \A i \in C : row[i].status # "deleted"
      <4>1. CASE BodyCleans(p)
        <5>1. PICK d \in Domains : row' = Cleaned(OthersOn(o, d, DeletedBy(Command(o))),
                                                  OthersOn(o, d, ClosedBy(Command(o))))
          BY <4>1 DEF BodyCleans
        <5>2. \A i \in OthersOn(o, d, ClosedBy(Command(o))) : row[i].status # "deleted"
          BY DEF OthersOn, Pending, Exists
        <5> QED BY <5>1, <5>2
      <4>2. CASE BodyCleansRequested(p)
        BY <4>2 DEF BodyCleansRequested
      <4> QED BY <2>2, <4>1, <4>2
    <3> QED BY <3>1, <1>0 DEF Cleaned, Row
  <2>3. CASE ChildFinish(p)
    <3>1. PICK e \in {"", "failed"} : row' = Updated(o, Ended(row[o], e))
      BY <2>3 DEF ChildFinish
    <3>2. /\ Ended(row[o], e) \in Row
          /\ Ended(row[o], e).status \in {row[o].status, "done"}
      BY <2>0, EndedRow
    <3> QED BY <3>1, <3>2, <1>3, <2>0
  <2>4. CASE ChildDefer(p)
    <3> DEFINE left == tries[p] - 1
    <3>0. left \in Nat
      BY <2>0, <2>4 DEF ChildDefer
    <3>1. PICK n \in Ids : /\ row[n].status = "absent"
                           /\ row' = [Updated(o, Deferred(row[o], n, left)) EXCEPT ![n] = NewRow(n)]
      BY <2>4 DEF ChildDefer, NextId
    <3>2. Running(o)
      BY <2>4, <2>00 DEF ChildDefer, ChildAt, Alive
    <3> HIDE DEF left
    <3>3. NewRow(n).status = "requested"
      BY NewRowType DEF TypeOK
    <3>4. Deferred(row[o], n, left) \in Row /\ Deferred(row[o], n, left).status = "retry"
      BY <3>0, <2>0, DeferredRow
    <3> QED BY <3>1, <3>2, <3>3, <3>4, <1>0, <2>0 DEF Updated, Exists, Postpones
  <2>5. CASE ChildRetry(p)
    <3>1. /\ Retried(row[o], tries[p]) \in Row
          /\ Retried(row[o], tries[p]).status \in {"requested", "done"}
      BY <2>0, RetriedRow
    <3> QED BY <2>5, <3>1, <1>3, <2>0 DEF ChildRetry
  <2>6. CASE ChildRetryLater(p)
    BY <2>6, <1>3, <2>0, RetriedLaterRow DEF ChildRetryLater
  <2>7. CASE ChildExit(p)
    BY <2>7, <1>1 DEF ChildExit
  <2>8. CASE BodyTells(p)
    <3>1. PICK s \in {"busy", "working"} : row' = Updated(o, [row[o] EXCEPT !.status = s])
      BY <2>8 DEF BodyTells
    <3>2. [row[o] EXCEPT !.status = s] \in Row /\ [row[o] EXCEPT !.status = s].status = s
      BY <2>0, RowFields, RowStatus DEF Statuses
    <3> QED BY <3>1, <3>2, <1>3, <2>0
  <2> QED BY <1>5, <2>1, <2>2, <2>3, <2>4, <2>5, <2>6, <2>7, <2>8 DEF Process
<1>6. CASE Daemon
  <2>1. CASE WaitPids \/ ReapBeforeFork
    BY <2>1, <1>2 DEF WaitPids, ReapBeforeFork, Reap
  <2>2. CASE KillProcesses
    <3>1. PICK S \in SUBSET (Stale \union Dead \union TimedOut) : row' = Closed(S)
      BY <2>2 DEF KillProcesses, Stop
    <3> QED BY <3>1, <1>2 DEF Stale, Dead, TimedOut, Pending, Exists
  <2>3. CASE SelectRequests
    BY <2>3, <1>1 DEF SelectRequests
  <2>4. CASE ClaimRequest
    <3>1. Foremost(picked) \in Ids
      BY <2>4, ForemostIn DEF ClaimRequest, TypeOK
    <3>2. PICK i \in Ids : row' = row \/ row' = Updated(i, Claimed(row[i]))
      BY <2>4, <3>1 DEF ClaimRequest
    <3>3. /\ Claimed(row[i]) \in Row
          /\ Claimed(row[i]).status \in {"working", row[i].status}
      BY ClaimedRow DEF TypeOK
    <3> QED BY <3>2, <3>3, <1>1, <1>3
  <2>5. CASE StopRefresh
    BY <2>5, <1>2 DEF StopRefresh, Stop
  <2>7. CASE WaitForLimit
    BY <2>7, <1>0, LimitedRow DEF WaitForLimit, Updated, Exists, Control, Postpones
  <2>8. CASE Fork
    BY <2>8, <1>0 DEF Fork, Updated, Exists, Row, Control
  <2>9. CASE Restart
    BY <2>9, <1>0 DEF Restart, Pending, Exists, Row
  <2>10. CASE \E i \in Ids : ScanSkip(i) \/ ScanClose(i) \/ ScanPick(i) \/ ScanDie(i)
    <3>1. PICK i \in Ids : \/ ScanSkip(i) \/ ScanPick(i) \/ ScanDie(i)
                           \/ ScanClose(i)
      BY <2>10
    <3>2. CASE ScanClose(i)
      <4>1. row' = [row EXCEPT ![i] = [row[i] EXCEPT !.status = "done",
                      !.error = IF Command(i) = "ping_backend" THEN @ ELSE "failed"]]
            /\ Exists(i)
        BY <3>2 DEF ScanClose
      <4> QED BY <4>1, <1>0 DEF Row, Exists, TypeOK
    <3> QED BY <3>1, <3>2, <1>1 DEF ScanSkip, ScanPick, ScanDie
  <2> QED BY <1>6, <2>1, <2>2, <2>3, <2>4, <2>5, <2>7, <2>8, <2>9, <2>10 DEF Daemon
<1>7. CASE Failure
  BY <1>7, <1>1 DEF Failure, Crash, ChildDies
<1> QED BY <1>4, <1>5, <1>6, <1>7 DEF Step

\* A request enters "pending" when it has not begun, "picked" from "pending",
\* and is executed from "picked".  Executing it marks its row.
Begins(id) == \/ row'[id].status = "working"
              \/ row'[id].status = row[id].status /\ row[id].status # "requested"

LEMMA QueueMoves ==
  ASSUME TypeOK, Control, Step
  PROVE  /\ pending' \subseteq pending \union Eligible
         /\ picked' \subseteq picked \union pending
         /\ \/ current' = current \/ current' = Null
            \/ current' \in picked /\ (row[current'].status # "absent" => Begins(current'))
<1> USE DEF daemon
<1>1. CASE UNCHANGED daemon
  BY <1>1
<1>2. ASSUME NEW id \in Ids, Front(id) PROVE UNCHANGED daemon
  BY <1>2 DEF Front, Creator, CreateRequest, ValidateRequest, ReadStatus, ConfirmRequest,
    ComesDue
<1>3. ASSUME NEW p \in Pids, Process(p) PROVE UNCHANGED daemon
  BY <1>3 DEF Process, ChildStart, BodyTells, BodyCleans, BodyCleansRequested, ChildFinish,
              ChildDefer, ChildRetry, ChildRetryLater, ChildExit
<1>4. CASE ClaimRequest
  <2>1. pending' = pending /\ picked' \subseteq picked
    BY <1>4 DEF ClaimRequest
  <2>2. PICK id \in picked :
          \/ current' = current
          \/ /\ current' = id /\ row[id].status # "done"
             /\ row' = Updated(id, Claimed(row[id]))
    BY <1>4, ForemostIn DEF ClaimRequest, MayExecute, TypeOK
  <2>3. ASSUME current' = id, row' = Updated(id, Claimed(row[id])), row[id].status # "absent"
        PROVE  Begins(id)
    <3>1. id \in Ids /\ row[id] \in Row /\ row \in [Ids -> Row]
      BY DEF TypeOK
    <3>2. CASE Exists(id)
      BY <2>3, <3>1, <3>2, ClaimedRow DEF Begins, Updated
    <3>3. CASE ~Exists(id)
      BY <2>3, <3>1, <3>3 DEF Begins, Updated, Exists
    <3> QED BY <3>2, <3>3
  <2> QED BY <2>1, <2>2, <2>3
<1>5. ASSUME Daemon, ~ClaimRequest
      PROVE  /\ pending' \subseteq pending \union Eligible
             /\ picked' \subseteq picked \union pending
             /\ current' = current \/ current' = Null
  <2>1. ASSUME NEW id \in Ids, ScanPick(id)
        PROVE  pending' \subseteq pending /\ picked' \subseteq picked \union pending
               /\ current' = current
    <3>1. id \in pending
      BY <2>1, IdsAssumption, EarliestIn DEF ScanPick, Scanning, TypeOK
    <3> QED BY <2>1, <3>1 DEF ScanPick
  <2> QED BY <1>5, <2>1 DEF Daemon, WaitPids, KillProcesses, SelectRequests,
     StopRefresh, ReapBeforeFork, WaitForLimit, Fork, Restart, ScanSkip, ScanClose,
     ScanDie, Down
<1>6. ASSUME Failure
      PROVE  UNCHANGED daemon \/ (pending' = {} /\ picked' = {} /\ current' = Null)
  BY <1>6 DEF Failure, Crash, Down, ChildDies
<1> QED BY <1>1, <1>2, <1>3, <1>4, <1>5, <1>6 DEF Step

\* What Fork does.
LEMMA ForkMoves ==
  ASSUME TypeOK, Control, Fork
  PROVE  /\ current \in Ids /\ current \notin pending /\ current \notin picked
         /\ pending' = pending /\ picked' = picked /\ current' = Null
         /\ \A id \in Ids : row'[id].status = row[id].status
         /\ \E k \in Slots :
              /\ child' = [child EXCEPT ![<<current, k>>] = "forked"]
              /\ tracked' = tracked \union {<<current, k>>}
              /\ <<current, k>> \in Pids
<1>1. current \in Ids /\ current \notin pending /\ current \notin picked
  BY DEF Fork, Control
<1>2. PICK k \in FreeSlots(current) :
        /\ child' = [child EXCEPT ![<<current, k>>] = "forked"]
        /\ tracked' = tracked \union {<<current, k>>}
        /\ row' = Updated(current, [row[current] EXCEPT !.pid = k])
  BY SlotsAssumption, EarliestIn DEF Fork, FreeSlots
<1>3. ASSUME NEW id \in Ids PROVE row'[id].status = row[id].status
  BY <1>1, <1>2, RowStatus DEF TypeOK, Updated
<1>4. k \in Slots /\ <<current, k>> \in Pids
  BY <1>1 DEF FreeSlots, Pids
<1>5. pending' = pending /\ picked' = picked /\ current' = Null
  BY DEF Fork
<1> QED BY <1>1, <1>2, <1>3, <1>4, <1>5
-----------------------------------------------------------------------------
(* No two processes execute one request.  SingleRun is not inductive: that *)
(* Fork finds no process of the request at work rests on the row having    *)
(* been selected while it had none, and on every later step that puts a    *)
(* row back in the queue being recorded in "postponed".                    *)

\* A request that is not created has no process and is in none of the lists.
AbsentIsUntouched ==
  \A id \in Ids : row[id].status = "absent" =>
    ~Running(id) /\ id \notin pending /\ id \notin picked /\ id # current

\* A request that has not begun, or that the daemon is about to execute, has
\* no process at work, unless it was postponed.
NotBegun(id) == row[id].status \in {"requested", "waiting", "retry"}
Chosen(id) == id \in pending \/ id \in picked \/ id = current
QuietUntilForked ==
  \A id \in Ids \ postponed : NotBegun(id) \/ Chosen(id) => ~Running(id)

\* The daemon marks a request before it forks it.
CurrentHasBegun == current \in Ids \ postponed => ~NotBegun(current)

\* Only a postponed request waits or is to be tried again.
WaitingIsPostponed ==
  \A id \in Ids : row[id].status \in {"waiting", "retry"} => id \in postponed

RunInv == /\ TypeOK /\ Control /\ AbsentIsUntouched /\ QuietUntilForked
          /\ CurrentHasBegun /\ WaitingIsPostponed /\ SingleRun

LEMMA RunInit == Init => RunInv
<1> SUFFICES ASSUME Init PROVE RunInv
  OBVIOUS
<1>1. \A id \in Ids : row[id].status = "absent"
  BY DEF Init, NoRow
<1>2. \A p \in Pids : child[p] = "gone"
  BY DEF Init
<1>3. \A id \in Ids : ~Running(id)
  BY <1>2 DEF Running, Alive, Pids
<1>4. \A id \in Ids : id \notin pending /\ id \notin picked /\ id # current
  BY NullIsNoId DEF Init
<1>5. AbsentIsUntouched /\ QuietUntilForked
  BY <1>3, <1>4 DEF AbsentIsUntouched, QuietUntilForked
<1>6. CurrentHasBegun /\ WaitingIsPostponed
  BY <1>1, <1>4 DEF CurrentHasBegun, WaitingIsPostponed
<1>7. SingleRun
  BY <1>3 DEF SingleRun, Running
<1> QED BY <1>5, <1>6, <1>7, TypeInit, ControlInit DEF RunInv

\* A request whose row is put back in the queue is recorded in "postponed".
LEMMA PostponedMoves ==
  ASSUME TypeOK, History
  PROVE  /\ postponed \subseteq postponed'
         /\ \A id \in Ids \ postponed' :
              NotBegun(id)' => row[id].status = "absent" \/ NotBegun(id)
BY DEF TypeOK, History, NotBegun

\* Only Fork makes a request run, and it is the one the daemon executes.
LEMMA RunningMoves ==
  ASSUME TypeOK, Control, Step, NEW id \in Ids, Running(id)'
  PROVE  Running(id) \/ (Fork /\ id = current)
<1>1. PICK k \in Slots : Alive(<<id, k>>)'
  BY DEF Running
<1>2. <<id, k>> \in Pids
  BY DEF Pids
<1>3. CASE ~Fork
  BY <1>1, <1>2, <1>3, NoNewProcess DEF Running
<1>4. CASE Fork /\ id # current
  <2>1. PICK l \in Slots : child' = [child EXCEPT ![<<current, l>>] = "forked"]
    BY <1>4, ForkMoves
  <2>2. child'[<<id, k>>] = child[<<id, k>>]
    BY <2>1, <1>2, <1>4 DEF TypeOK
  <2> QED BY <1>1, <2>2 DEF Alive, Running
<1> QED BY <1>3, <1>4

LEMMA RunStep ==
  ASSUME RunInv, [Next]_vars
  PROVE  RunInv'
<1> USE DEF RunInv
<1>0. TypeOK' /\ Control'
  BY TypeStep, ControlStep
<1>1. CASE UNCHANGED vars
  BY <1>0, <1>1 DEF vars, table, creators, daemon, processes, history, AbsentIsUntouched,
     QuietUntilForked, CurrentHasBegun, WaitingIsPostponed, SingleRun, Chosen,
     NotBegun, Running, Alive
<1>2. CASE Next
  <2>0. Step /\ History
    BY <1>2 DEF Next, Step
  <2>1. \A id \in Ids : RowMoves(id)
    BY <2>0, RowsMove
  <2>2. AbsentIsUntouched'
    <3> SUFFICES ASSUME NEW id \in Ids, row'[id].status = "absent"
                 PROVE  /\ ~Running(id)' /\ id \notin pending'
                        /\ id \notin picked' /\ id # current'
      BY DEF AbsentIsUntouched
    <3>1. row[id].status = "absent"
      BY <2>1 DEF RowMoves
    <3>2. ~Running(id) /\ id \notin pending /\ id \notin picked /\ id # current
      BY <3>1 DEF AbsentIsUntouched
    <3>3. ~Running(id)'
      BY <2>0, <3>2, RunningMoves
    <3>4. id \notin Eligible
      BY <3>1 DEF Eligible
    <3>5. id # Null
      BY NullIsNoId
    <3> QED BY <2>0, <3>2, <3>3, <3>4, <3>5, QueueMoves
  <2>3. QuietUntilForked'
    <3> SUFFICES ASSUME NEW id \in Ids \ postponed',
                        NotBegun(id)' \/ Chosen(id)', Running(id)'
                 PROVE  FALSE
      BY DEF QuietUntilForked
    <3>1. id \notin postponed /\ (NotBegun(id)' => row[id].status = "absent" \/ NotBegun(id))
      BY <2>0, PostponedMoves
    <3>2. Chosen(id)' => Chosen(id) \/ NotBegun(id)
      BY <2>0, QueueMoves, NullIsNoId DEF Chosen, Eligible, MaySelect, NotBegun
    <3>3. row[id].status = "absent" => ~Running(id) /\ id # current
      BY DEF AbsentIsUntouched
    <3>4. ~Running(id)
      BY <3>1, <3>2, <3>3 DEF QuietUntilForked
    <3>5. Fork /\ id = current
      BY <2>0, <3>4, RunningMoves
    <3>6. ~Chosen(id)'
      BY <3>5, ForkMoves, NullIsNoId DEF Chosen
    <3>7. ~NotBegun(id)
      BY <3>1, <3>5 DEF CurrentHasBegun
    <3> QED BY <3>1, <3>3, <3>5, <3>6, <3>7
  <2>4. CurrentHasBegun'
    <3> SUFFICES ASSUME current' \in Ids \ postponed', NotBegun(current)' PROVE FALSE
      BY DEF CurrentHasBegun
    <3>0. current' # Null
      BY NullIsNoId
    <3>1. current' \notin postponed /\ (row[current'].status = "absent"
                                          \/ row[current'].status \in {"requested", "waiting", "retry"})
      BY <2>0, PostponedMoves DEF NotBegun
    <3>2. CASE current' = current
      BY <3>1, <3>2 DEF CurrentHasBegun, AbsentIsUntouched, NotBegun
    <3>3. CASE current' \in picked /\ (row[current'].status # "absent" => Begins(current'))
      <4>1. row[current'].status # "absent"
        BY <3>3 DEF AbsentIsUntouched
      <4>2. row[current'].status = "requested"
        BY <3>1, <4>1 DEF WaitingIsPostponed
      <4> QED BY <3>3, <4>1, <4>2 DEF Begins, NotBegun
    <3> QED BY <2>0, <3>0, <3>2, <3>3, QueueMoves
  <2>5. WaitingIsPostponed'
    <3> SUFFICES ASSUME NEW id \in Ids, row'[id].status \in {"waiting", "retry"}
                 PROVE  id \in postponed'
      BY DEF WaitingIsPostponed
    <3>1. postponed \subseteq postponed'
      BY <2>0, PostponedMoves
    <3>2. CASE row'[id].status = row[id].status
      BY <3>1, <3>2 DEF WaitingIsPostponed
    <3>3. CASE Postpones(id)
      <4> SUFFICES ASSUME id \notin postponed' PROVE FALSE
        OBVIOUS
      <4>1. NotBegun(id)'
        BY DEF NotBegun
      <4>2. row[id].status = "absent" \/ NotBegun(id)
        BY <2>0, <4>1, PostponedMoves
      <4>3. ~Running(id)
        BY <3>1, <4>2 DEF AbsentIsUntouched, QuietUntilForked
      <4>4. id = current
        BY <3>3, <4>3 DEF Postpones
      <4> QED BY <3>1, <4>2, <4>4 DEF AbsentIsUntouched, CurrentHasBegun
    <3> QED BY <2>1, <3>2, <3>3 DEF RowMoves
  <2>6. SingleRun'
    <3> SUFFICES ASSUME NEW id \in Ids, NEW k \in Slots, NEW l \in Slots,
                        Alive(<<id, k>>)', Alive(<<id, l>>)', k # l,
                        id \notin postponed'
                 PROVE  FALSE
      BY DEF SingleRun
    <3>1. id \notin postponed
      BY <2>0, PostponedMoves
    <3>2. CASE ~Fork
      <4>1. Alive(<<id, k>>) /\ Alive(<<id, l>>)
        BY <2>0, <3>2, NoNewProcess DEF Pids
      <4> QED BY <4>1, <3>1 DEF SingleRun
    <3>3. CASE Fork
      <4>1. PICK m \in Slots : child' = [child EXCEPT ![<<current, m>>] = "forked"]
        BY <3>3, ForkMoves
      <4>2. child \in [Pids -> Phases] /\ <<id, k>> \in Pids /\ <<id, l>> \in Pids
        BY DEF TypeOK, Pids
      <4>3. CASE id # current
        BY <4>1, <4>2, <4>3, <3>1 DEF Alive, SingleRun
      <4>4. CASE id = current
        <5>1. ~Running(id)
          BY <3>1, <4>4 DEF QuietUntilForked, Chosen
        <5> QED BY <4>1, <4>2, <4>4, <5>1 DEF Running, Alive
      <4> QED BY <4>3, <4>4
    <3> QED BY <3>2, <3>3
  <2> QED BY <1>0, <2>2, <2>3, <2>4, <2>5, <2>6
<1> QED BY <1>1, <1>2

\* No two processes execute one request that was never postponed, however the
\* creators, the daemon, its processes, its kills and its crashes interleave.
THEOREM NoDoubleRun == Spec => []SingleRun
<1>1. Init => RunInv
  BY RunInit
<1>2. RunInv /\ [Next]_vars => RunInv'
  BY RunStep
<1>3. RunInv => SingleRun
  BY DEF RunInv
<1> QED BY <1>1, <1>2, <1>3, PTL DEF Spec
-----------------------------------------------------------------------------
(* The pools.  _can_fork counts the processes the daemon tracks whose      *)
(* request is not done; the processes at work for an open request are      *)
(* among them, because a process is tracked from its fork to its end.      *)

\* A process at work is tracked.
WorkIsTracked == \A p \in Pids : Alive(p) => p \in tracked

\* The history knows of every row that is done.
DoneIsFinished == \A id \in Ids : row[id].status = "done" => id \in finished

PoolInv == /\ RunInv /\ WorkIsTracked /\ IsFiniteSet(tracked)
           /\ DoneIsFinished /\ LimitRespected

\* A command has one of the types, and every type has a limit.
LEMMA TypeOfType ==
  ASSUME NEW c
  PROVE  TypeOf(c) \in Types /\ Limit(TypeOf(c)) \in Nat
<1>1. TypeOf(c) \in Types
  <2>1. CASE \E t \in Types : c \in CommandsOf(t)
    BY <2>1 DEF TypeOf
  <2>2. CASE ~\E t \in Types : c \in CommandsOf(t)
    BY <2>2 DEF TypeOf, Types
  <2> QED BY <2>1, <2>2
<1>2. ASSUME NEW t \in Types PROVE Limit(t) \in Nat
  BY <1>2 DEF Limit, Types
<1> QED BY <1>1, <1>2

\* The pools count with the Cardinality of their own instance.
LEMMA PoolCardinality ==
  ASSUME NEW S
  PROVE  Pool!Cardinality(S) = Cardinality(S)
BY DEF Pool!Cardinality, Cardinality

\* What the creators fixed stays.
LEMMA ArgsStay ==
  ASSUME Step
  PROVE  args' = args
<1>1. CASE Daemon
  BY <1>1 DEF Daemon, WaitPids, KillProcesses, SelectRequests, ClaimRequest, StopRefresh,
     ReapBeforeFork, WaitForLimit, Fork, Restart, ScanSkip, ScanClose, ScanPick, ScanDie,
     table
<1>2. ASSUME NEW p \in Pids, Process(p) PROVE args' = args
  BY <1>2 DEF Process, ChildStart, BodyTells, BodyCleans, BodyCleansRequested, ChildFinish,
     ChildDefer, ChildRetry, ChildRetryLater, ChildExit
<1>3. ASSUME NEW id \in Ids, Front(id) PROVE args' = args
  BY <1>3 DEF Front, Creator, CreateRequest, ValidateRequest, ReadStatus, ConfirmRequest,
    ComesDue
<1>4. CASE Failure
  BY <1>4 DEF Failure, Crash, ChildDies, table
<1> QED BY <1>1, <1>2, <1>3, <1>4 DEF Step

\* The daemon forgets a process only when it has ended.
LEMMA TrackedMoves ==
  ASSUME TypeOK, Step, ~Fork
  PROVE  /\ tracked' \subseteq tracked
         /\ \A p \in tracked \ tracked' : ~Alive(p)'
<1> USE DEF processes
<1>1. ASSUME Reap PROVE /\ tracked' \subseteq tracked
                        /\ \A p \in tracked \ tracked' : ~Alive(p)'
  BY <1>1 DEF Reap, Lost, Alive, TypeOK
<1>2. ASSUME Down PROVE /\ tracked' \subseteq tracked
                        /\ \A p \in tracked \ tracked' : ~Alive(p)'
  BY <1>2 DEF Down, Alive, TypeOK
<1>3. CASE Daemon
  BY <1>1, <1>2, <1>3
     DEF Daemon, WaitPids, KillProcesses, SelectRequests, ClaimRequest, StopRefresh,
         ReapBeforeFork, WaitForLimit, Restart, ScanSkip, ScanClose, ScanPick, ScanDie
<1>4. ASSUME NEW p \in Pids, Process(p) PROVE tracked' = tracked
  BY <1>4 DEF Process, ChildStart, BodyTells, BodyCleans, BodyCleansRequested, ChildFinish,
     ChildDefer, ChildRetry, ChildRetryLater, ChildExit
<1>5. ASSUME NEW id \in Ids, Front(id) PROVE tracked' = tracked
  BY <1>5 DEF Front, Creator, CreateRequest, ValidateRequest, ReadStatus, ConfirmRequest,
    ComesDue
<1>6. CASE Failure
  BY <1>2, <1>6 DEF Failure, Crash, ChildDies
<1> QED BY <1>3, <1>4, <1>5, <1>6 DEF Step

\* The open work of a type is among the processes _can_fork counts.
LEMMA WorkIsCounted ==
  ASSUME PoolInv, NEW t
  PROVE  /\ Pool!OfKind(t) \subseteq Busy(t)
         /\ IsFiniteSet(Busy(t)) /\ IsFiniteSet(Pool!OfKind(t))
         /\ Cardinality(Pool!OfKind(t)) <= Cardinality(Busy(t))
         /\ Cardinality(Pool!OfKind(t)) \in Nat /\ Cardinality(Busy(t)) \in Nat
<1>1. Pool!OfKind(t) \subseteq Busy(t)
  <2> SUFFICES ASSUME NEW p \in Pids, p \in OpenWork, TypeOf(Command(Owner(p))) = t
               PROVE  p \in Busy(t)
    BY DEF Pool!OfKind, OpenWork
  <2> QED BY PidParts DEF OpenWork, Busy, Pending, PoolInv, WorkIsTracked, DoneIsFinished
<1>2. IsFiniteSet(Busy(t))
  BY FS_Subset DEF PoolInv, Busy
<1> QED BY <1>1, <1>2, FS_Subset, FS_CardinalityType

\* A step that is no Fork adds nothing to the open work.
LEMMA WorkShrinks ==
  ASSUME PoolInv, Step, History, ~Fork
  PROVE  OpenWork' \subseteq OpenWork
<1> SUFFICES ASSUME NEW p \in Pids, Alive(p)', Exists(Owner(p))', Owner(p) \notin finished'
             PROVE  p \in OpenWork
  BY DEF OpenWork
<1>1. Alive(p)
  BY NoNewProcess DEF PoolInv, RunInv
<1>2. Running(Owner(p)) /\ Owner(p) \in Ids
  BY <1>1, PidParts DEF Running
<1>3. RowMoves(Owner(p))
  BY <1>2, RowsMove DEF PoolInv, RunInv
<1>4. Exists(Owner(p))
  BY <1>2, <1>3 DEF Exists, RowMoves, PoolInv, RunInv, AbsentIsUntouched
<1>5. Owner(p) \notin finished
  BY DEF History
<1> QED BY <1>1, <1>4, <1>5 DEF OpenWork

\* Fork adds the new process to the open work, if the request is still open,
\* and only when the type of the request has room.
LEMMA ForkEnters ==
  ASSUME PoolInv, History, Fork
  PROVE  \/ OpenWork' \subseteq OpenWork
         \/ \E p \in Pids : /\ p \notin OpenWork /\ OpenWork' = OpenWork \union {p}
                            /\ Cardinality(Pool!OfKind(TypeOf(Command(Owner(p)))))
                                 < Limit(TypeOf(Command(Owner(p))))
<1> USE DEF PoolInv, RunInv
<1>1. PICK k \in Slots : /\ child' = [child EXCEPT ![<<current, k>>] = "forked"]
                         /\ <<current, k>> \in Pids
  BY ForkMoves
<1> DEFINE new == <<current, k>>
<1>2. current \in Ids /\ Owner(new) = current
  BY ForkMoves DEF Owner
<1>3. child \in [Pids -> Phases]
  BY DEF TypeOK
<1>4. \A p \in Pids : p # new => (Alive(p)' <=> Alive(p))
  BY <1>1, <1>3 DEF Alive
<1>5. finished' = finished
  BY ForkMoves DEF History, DoneIsFinished, TypeOK
<1>6. \A id \in Ids : Exists(id)' <=> Exists(id)
  BY ForkMoves DEF Exists
<1>7. \A p \in Pids : p # new => (p \in OpenWork' <=> p \in OpenWork)
  BY <1>4, <1>5, <1>6, PidParts DEF OpenWork
<1>8. CASE OpenWork' \subseteq OpenWork
  BY <1>8
<1>9. CASE ~(OpenWork' \subseteq OpenWork)
  <2>1. new \in OpenWork' /\ new \notin OpenWork
    BY <1>7, <1>9 DEF OpenWork
  <2>2. OpenWork' = OpenWork \union {new}
    BY <1>7, <2>1 DEF OpenWork
  <2>3. Cardinality(Busy(TypeOf(Command(current)))) < Limit(TypeOf(Command(current)))
    BY DEF Fork, CanFork
  <2>4. Cardinality(Pool!OfKind(TypeOf(Command(current)))) < Limit(TypeOf(Command(current)))
    BY <2>3, WorkIsCounted, TypeOfType
  <2> QED BY <1>1, <1>2, <2>1, <2>2, <2>4
<1> QED BY <1>8, <1>9

\* Every step is a step of the pools, or none.
LEMMA PoolStep ==
  ASSUME PoolInv, [Next]_vars
  PROVE  Pool!Next
<1>1. CASE UNCHANGED vars
  <2>1. OpenWork' = OpenWork
    BY <1>1 DEF vars, table, creators, processes, history, OpenWork, Alive, Exists
  <2>2. args' = args
    BY <1>1 DEF vars, table, creators
  <2> QED BY <2>1, <2>2 DEF Pool!Next, Pool!Leave, Command
<1>2. CASE Next
  <2>1. Step /\ History
    BY <1>2 DEF Next, Step
  <2>2. args' = args
    BY <2>1, ArgsStay
  <2>3. CASE OpenWork' \subseteq OpenWork
    BY <2>2, <2>3 DEF Pool!Next, Pool!Leave, Command
  <2>4. CASE \E p \in Pids : /\ p \notin OpenWork /\ OpenWork' = OpenWork \union {p}
                             /\ Cardinality(Pool!OfKind(TypeOf(Command(Owner(p)))))
                                  < Limit(TypeOf(Command(Owner(p))))
    <3>1. PICK p \in Pids : /\ p \notin OpenWork /\ OpenWork' = OpenWork \union {p}
                            /\ Cardinality(Pool!OfKind(TypeOf(Command(Owner(p)))))
                                 < Limit(TypeOf(Command(Owner(p))))
      BY <2>4
    <3>2. TypeOf(Command(Owner(p))) \in Types
      BY TypeOfType
    <3>3. Pool!Enter(p)
      <4>1. [q \in Pids |-> TypeOf(Command(Owner(q)))][p] = TypeOf(Command(Owner(p)))
        OBVIOUS
      <4>2. [t \in Types |-> Limit(t)][TypeOf(Command(Owner(p)))]
              = Limit(TypeOf(Command(Owner(p))))
        BY <3>2
      <4> QED BY <3>1, <4>1, <4>2, PoolCardinality DEF Pool!Enter
    <3> QED BY <2>2, <3>3 DEF Pool!Next, Command
  <2> QED BY <2>1, <2>3, <2>4, WorkShrinks, ForkEnters
<1> QED BY <1>1, <1>2

\* A step of the pools keeps every pool within its cap.
LEMMA LimitStep ==
  ASSUME PoolInv, [Next]_vars
  PROVE  LimitRespected'
<1> DEFINE Of(work, t) == {p \in work : TypeOf(Command(Owner(p))) = t}
<1>1. \A t \in Types : Pool!OfKind(t) = Of(OpenWork, t) /\ Pool!OfKind(t)' = Of(OpenWork', t)
  <2>1. args' = args
    BY ArgsStay DEF Next, Step, vars, table
  <2> QED BY <2>1 DEF Pool!OfKind, OpenWork, Command
<1>2. SUFFICES ASSUME NEW t \in Types PROVE Cardinality(Of(OpenWork', t)) <= Limit(t)
  BY <1>1, PoolCardinality DEF LimitRespected, Pool!Bounded
<1>3. /\ IsFiniteSet(Of(OpenWork, t)) /\ Cardinality(Of(OpenWork, t)) \in Nat
      /\ Cardinality(Of(OpenWork, t)) <= Limit(t)
  BY <1>1, WorkIsCounted, PoolCardinality DEF PoolInv, LimitRespected, Pool!Bounded
<1>4. Limit(t) \in Nat
  BY DEF Limit, Types
<1>5. CASE OpenWork' \subseteq OpenWork
  <2>1. Of(OpenWork', t) \subseteq Of(OpenWork, t)
    BY <1>5
  <2>2. IsFiniteSet(Of(OpenWork', t)) /\ Cardinality(Of(OpenWork', t)) \in Nat
        /\ Cardinality(Of(OpenWork', t)) <= Cardinality(Of(OpenWork, t))
    <3> HIDE DEF Of
    <3> QED BY <1>3, <2>1, FS_Subset, FS_CardinalityType
  <2> QED BY <1>3, <1>4, <2>2
<1>6. ASSUME NEW p \in Pids, p \notin OpenWork, OpenWork' = OpenWork \union {p},
             Cardinality(Pool!OfKind(TypeOf(Command(Owner(p)))))
               < Limit(TypeOf(Command(Owner(p))))
      PROVE  Cardinality(Of(OpenWork', t)) <= Limit(t)
  <2>1. CASE TypeOf(Command(Owner(p))) = t
    <3>1. Of(OpenWork', t) = Of(OpenWork, t) \union {p} /\ p \notin Of(OpenWork, t)
      BY <1>6, <2>1
    <3>2. Cardinality(Of(OpenWork, t)) < Limit(t)
      BY <1>1, <1>6, <2>1
    <3>3. Cardinality(Of(OpenWork', t)) = Cardinality(Of(OpenWork, t)) + 1
      <4> HIDE DEF Of
      <4> QED BY <1>3, <3>1, FS_AddElement
    <3> QED BY <1>3, <1>4, <3>2, <3>3
  <2>2. CASE TypeOf(Command(Owner(p))) # t
    <3>1. Of(OpenWork', t) = Of(OpenWork, t)
      BY <1>6, <2>2
    <3> QED BY <1>3, <3>1
  <2> QED BY <2>1, <2>2
<1>7. CASE UNCHANGED vars
  <2>1. OpenWork' = OpenWork
    BY <1>7 DEF vars, table, creators, processes, history, OpenWork, Alive, Exists
  <2> QED BY <2>1, <1>5
<1>8. CASE Next
  <2>1. Step /\ History
    BY <1>8 DEF Next, Step
  <2> QED BY <2>1, <1>5, <1>6, WorkShrinks, ForkEnters
<1> QED BY <1>7, <1>8

LEMMA PoolInvInit == Init => PoolInv
<1> SUFFICES ASSUME Init PROVE PoolInv
  OBVIOUS
<1>1. \A id \in Ids : row[id].status = "absent"
  BY DEF Init, NoRow
<1>2. \A p \in Pids : child[p] = "gone"
  BY DEF Init
<1>3. OpenWork = {}
  BY <1>2 DEF OpenWork, Alive
<1>4. LimitRespected
  <2>1. ASSUME NEW t \in Types PROVE Pool!OfKind(t) = {}
    BY <1>3 DEF Pool!OfKind
  <2>2. ASSUME NEW t \in Types PROVE 0 <= Limit(t) /\ [k \in Types |-> Limit(k)][t] = Limit(t)
    BY DEF Limit, Types
  <2> QED BY <2>1, <2>2, FS_EmptySet, PoolCardinality DEF LimitRespected, Pool!Bounded
<1>5. WorkIsTracked /\ IsFiniteSet(tracked)
  BY <1>2, FS_EmptySet DEF WorkIsTracked, Alive, Init
<1>6. DoneIsFinished
  BY <1>1 DEF DoneIsFinished
<1> QED BY <1>4, <1>5, <1>6, RunInit DEF PoolInv

LEMMA PoolInvStep ==
  ASSUME PoolInv, [Next]_vars
  PROVE  PoolInv'
<1> USE DEF PoolInv
<1>1. RunInv'
  BY RunStep
<1>2. LimitRespected'
  BY LimitStep
<1>3. CASE UNCHANGED vars
  BY <1>1, <1>2, <1>3
     DEF vars, table, creators, processes, history, WorkIsTracked, DoneIsFinished, Alive
<1>4. CASE Next
  <2>0. Step /\ History /\ TypeOK /\ Control
    BY <1>4 DEF Next, Step, RunInv
  <2>1. DoneIsFinished'
    BY <2>0 DEF History, DoneIsFinished
  <2>2. WorkIsTracked' /\ IsFiniteSet(tracked')
    <3>1. CASE ~Fork
      <4>1. IsFiniteSet(tracked')
        BY <2>0, <3>1, TrackedMoves, FS_Subset
      <4>2. WorkIsTracked'
        BY <2>0, <3>1, TrackedMoves, NoNewProcess DEF WorkIsTracked
      <4> QED BY <4>1, <4>2
    <3>2. CASE Fork
      <4>1. PICK k \in Slots : /\ child' = [child EXCEPT ![<<current, k>>] = "forked"]
                               /\ tracked' = tracked \union {<<current, k>>}
        BY <2>0, <3>2, ForkMoves
      <4>2. IsFiniteSet(tracked')
        BY <4>1, FS_AddElement
      <4>3. WorkIsTracked'
        BY <2>0, <4>1 DEF WorkIsTracked, Alive, TypeOK
      <4> QED BY <4>2, <4>3
    <3> QED BY <3>1, <3>2
  <2> QED BY <1>1, <1>2, <2>1, <2>2
<1> QED BY <1>3, <1>4

\* No type ever has more processes at work for open requests than its limit,
\* for any number of requests, process slots and crashes.
THEOREM LimitsHold == Spec => []LimitRespected
<1>1. Init => PoolInv
  BY PoolInvInit
<1>2. PoolInv /\ [Next]_vars => PoolInv'
  BY PoolInvStep
<1>3. PoolInv => LimitRespected
  BY DEF PoolInv
<1> QED BY <1>1, <1>2, <1>3, PTL DEF Spec

\* The queue implements one pool of workers for each type of request: its
\* initial states are theirs, and each of its steps is one of theirs or none.
THEOREM QueueImplementsPools == Spec => IsWorkerPool
<1>1. Init => Pool!Init
  <2> SUFFICES ASSUME Init PROVE Pool!Init
    OBVIOUS
  <2>1. OpenWork = {}
    BY DEF Init, OpenWork, Alive
  <2>2. \A p \in Pids : TypeOf(Command(Owner(p))) \in Types
    BY TypeOfType
  <2> QED BY <2>1, <2>2 DEF Pool!Init
<1>2. Init => PoolInv
  BY PoolInvInit
<1>3. PoolInv /\ [Next]_vars => PoolInv'
  BY PoolInvStep
<1>4. PoolInv /\ [Next]_vars => Pool!Next
  BY PoolStep
<1> QED BY <1>1, <1>2, <1>3, <1>4, PTL DEF Spec, IsWorkerPool, Pool!Spec
-----------------------------------------------------------------------------
(* A done request that no process runs stays done.                         *)

LEMMA DoneStays ==
  ASSUME TypeOK, Control, Step, NEW id \in Ids,
         row[id].status = "done", ~Running(id), current # id, id \notin confirming
  PROVE  row'[id].status = "done"
<1> USE DEF table, creators
<1>0. row \in [Ids -> Row] /\ row[id] \in Row
  BY DEF TypeOK
<1>1. ASSUME NEW S, row' = Closed(S) PROVE row'[id].status = "done"
  BY <1>0, <1>1, RowStatus DEF Closed
<1>2. ASSUME NEW i \in Ids, NEW new \in Row, row' = Updated(i, new), i # id
      PROVE  row'[id].status = "done"
  BY <1>0, <1>2 DEF Updated
<1>3. ASSUME NEW i \in Ids, Front(i) PROVE row'[id].status = "done"
  <2>1. CASE CreateRequest(i)
    <3>1. i # id
      BY <2>1 DEF CreateRequest, NextId
    <3> QED BY <2>1, <3>1, <1>0, RowStatus DEF CreateRequest, Closed
  <2>2. CASE ValidateRequest(i)
    BY <2>2, <1>0, ValidateStatus
  <2>3. CASE ReadStatus(i)
    BY <2>3 DEF ReadStatus
  <2>4. CASE ConfirmRequest(i)
    BY <2>4, ConfirmWrites
  <2>5. CASE ComesDue(i)
    BY <2>5, <1>0, RowStatus DEF ComesDue
  <2> QED BY <1>3, <2>1, <2>2, <2>3, <2>4, <2>5 DEF Front, Creator
<1>4. ASSUME NEW p \in Pids, Process(p) PROVE row'[id].status = "done"
  <2> DEFINE o == Owner(p)
  <2>0. o \in Ids /\ row[o] \in Row /\ p[2] \in Slots /\ tries[p] \in Nat
    BY PidParts DEF TypeOK
  <2>1. Alive(p)
    BY <1>4 DEF Process, ChildStart, BodyTells, BodyCleans, BodyCleansRequested, ChildFinish,
       ChildDefer, ChildRetry, ChildRetryLater, ChildExit, ChildAt, Alive
  <2>2. o # id
    BY <2>1, PidParts DEF Running
  <2>3. CASE ChildStart(p)
    BY <2>3, <2>0, <2>2, <1>2, StartedRow DEF ChildStart
  <2>4. CASE BodyCleans(p)
    <3>1. PICK d \in Domains : row' = Cleaned(OthersOn(o, d, DeletedBy(Command(o))),
                                              OthersOn(o, d, ClosedBy(Command(o))))
      BY <2>4 DEF BodyCleans
    <3>2. id \notin OthersOn(o, d, DeletedBy(Command(o)))
      BY DEF OthersOn, Pending
    <3> QED BY <3>1, <3>2, <1>0, RowStatus DEF Cleaned
  <2>5. CASE BodyCleansRequested(p)
    BY <2>5, <1>0 DEF BodyCleansRequested, Cleaned
  <2>6. CASE ChildFinish(p)
    <3>1. PICK e \in {"", "failed"} : row' = Updated(o, Ended(row[o], e))
      BY <2>6 DEF ChildFinish
    <3> QED BY <3>1, <2>0, <2>2, <1>2, EndedRow
  <2>7. CASE ChildDefer(p)
    <3> DEFINE left == tries[p] - 1
    <3>1. PICK n \in Ids : /\ row[n].status = "absent"
                           /\ row' = [Updated(o, Deferred(row[o], n, left)) EXCEPT ![n] = NewRow(n)]
      BY <2>7 DEF ChildDefer, NextId
    <3>2. n # id
      BY <3>1
    <3> QED BY <3>1, <3>2, <2>0, <2>2, <1>0 DEF Updated
  <2>8. CASE ChildRetry(p)
    BY <2>8, <2>0, <2>2, <1>2, RetriedRow DEF ChildRetry
  <2>9. CASE ChildRetryLater(p)
    BY <2>9, <2>0, <2>2, <1>2, RetriedLaterRow DEF ChildRetryLater
  <2>10. CASE ChildExit(p)
    BY <2>10 DEF ChildExit
  <2>11. CASE BodyTells(p)
    <3>1. PICK s \in {"busy", "working"} : row' = Updated(o, [row[o] EXCEPT !.status = s])
      BY <2>11 DEF BodyTells
    <3>2. [row[o] EXCEPT !.status = s] \in Row
      BY <2>0, RowFields DEF Statuses
    <3> QED BY <3>1, <3>2, <2>0, <2>2, <1>2
  <2> QED BY <1>4, <2>3, <2>4, <2>5, <2>6, <2>7, <2>8, <2>9, <2>10, <2>11 DEF Process
<1>5. CASE Daemon
  <2>1. CASE WaitPids \/ ReapBeforeFork
    BY <2>1, <1>1 DEF WaitPids, ReapBeforeFork, Reap
  <2>2. CASE KillProcesses \/ StopRefresh
    BY <2>2, <1>1 DEF KillProcesses, StopRefresh, Stop
  <2>3. CASE SelectRequests
    BY <2>3 DEF SelectRequests
  <2>4. CASE ClaimRequest
    <3>1. PICK i \in picked : \/ row' = row
                              \/ /\ row[i].status # "done"
                                 /\ row' = Updated(i, Claimed(row[i]))
      <4> DEFINE i == Foremost(picked)
      <4>1. i \in picked
        BY <2>4, ForemostIn DEF ClaimRequest, TypeOK
      <4>2. row' = row \/ (row[i].status # "done" /\ row' = Updated(i, Claimed(row[i])))
        BY <2>4 DEF ClaimRequest, MayExecute
      <4> HIDE DEF i
      <4> QED BY <4>1, <4>2
    <3>2. i \in Ids
      BY DEF TypeOK
    <3> QED BY <3>1, <3>2, <1>2, ClaimedRow DEF TypeOK
  <2>5. CASE WaitForLimit
    BY <2>5, <1>2, LimitedRow DEF WaitForLimit, Control, TypeOK
  <2>6. CASE Fork
    BY <2>6, ForkMoves
  <2>7. CASE Restart
    BY <2>7, <1>0 DEF Restart, Pending
  <2>8. CASE \E i \in Ids : ScanSkip(i) \/ ScanClose(i) \/ ScanPick(i) \/ ScanDie(i)
    <3>1. PICK i \in Ids : \/ ScanSkip(i) \/ ScanPick(i) \/ ScanDie(i)
                           \/ ScanClose(i)
      BY <2>8
    <3>2. CASE ScanClose(i)
      <4>1. row' = [row EXCEPT ![i] = [row[i] EXCEPT !.status = "done",
                      !.error = IF Command(i) = "ping_backend" THEN @ ELSE "failed"]]
        BY <3>2 DEF ScanClose
      <4> QED BY <4>1, <1>0, RowStatus
    <3> QED BY <3>1, <3>2 DEF ScanSkip, ScanPick, ScanDie
  <2> QED BY <1>5, <2>1, <2>2, <2>3, <2>4, <2>5, <2>6, <2>7, <2>8 DEF Daemon
<1>6. CASE Failure
  BY <1>6 DEF Failure, Crash, ChildDies
<1> QED BY <1>3, <1>4, <1>5, <1>6 DEF Step

\* Once no process runs a done request and the daemon is not executing it, it
\* stays done: no validation, kill, retry, sweep or restart opens it again.  Only
\* a creator that has read another status of it may still write "requested".
THEOREM DoneStaysDone == Spec => DoneIsFinal
<1> DEFINE Final == \A id \in Ids :
             row[id].status = "done" /\ ~Running(id) /\ current # id /\ id \notin confirming
               => row'[id].status = "done"
<1>1. Init => TypeOK /\ Control
  BY TypeInit, ControlInit
<1>2. TypeOK /\ Control /\ [Next]_vars => (TypeOK /\ Control)'
  BY TypeStep, ControlStep
<1>3. TypeOK /\ Control /\ [Next]_vars => [Final]_vars
  BY DoneStays DEF Next, Step
<1> QED BY <1>1, <1>2, <1>3, PTL DEF Spec, DoneIsFinal

-----------------------------------------------------------------------------
(* Two requests of a machine.  MachineExclusion is not inductive: between  *)
(* the scan that picks a request and the process that marks it at work lie *)
(* the scans of the rest, so the invariant speaks of both.                 *)

\* A row comes to be at work when the daemon claims it or a process of its own
\* says so.
AtWork(id) == row[id].status \in {"working", "busy"}

LEMMA WorkMoves ==
  ASSUME TypeOK, Control, Step, NEW id \in Ids, AtWork(id)'
  PROVE  AtWork(id) \/ id \in picked \/ Running(id)
<1> DEFINE Rests == row'[id].status \notin {"working", "busy"}
<1> SUFFICES ASSUME row[id].status \notin {"working", "busy"}, ~Running(id), id \notin picked
             PROVE  Rests
  BY DEF AtWork
<1> USE DEF table, creators
<1>0. row \in [Ids -> Row] /\ row[id] \in Row
  BY DEF TypeOK
<1>1. ASSUME NEW S, row' = Closed(S) PROVE Rests
  BY <1>0, <1>1, RowStatus DEF Closed
<1>2. ASSUME NEW i \in Ids, NEW new \in Row, row' = Updated(i, new), i # id
      PROVE  Rests
  BY <1>0, <1>2 DEF Updated
<1>3. CASE row' = row
  BY <1>0, <1>3
<1>4. ASSUME NEW i \in Ids, Front(i) PROVE Rests
  <2>1. CASE CreateRequest(i)
    <3>1. /\ row' = [Closed(LowPriorityOf(i)) EXCEPT ![i] = NewRow(i)]
          /\ NewRow(i).status = "requested"
      BY <2>1, NewRowType DEF CreateRequest, TypeOK
    <3>2. CASE i = id
      BY <3>1, <3>2, <1>0 DEF Closed
    <3>3. CASE i # id
      <4>1. row'[id] \in {row[id], [row[id] EXCEPT !.status = "done"]}
        BY <3>1, <3>3, <1>0 DEF Closed
      <4>2. [row[id] EXCEPT !.status = "done"].status = "done"
        BY <1>0, RowStatus
      <4> QED BY <4>1, <4>2
    <3> QED BY <3>2, <3>3
  <2>2. CASE ValidateRequest(i)
    BY <2>2, <1>0, ValidateStatus
  <2>3. CASE ReadStatus(i)
    BY <2>3, <1>3 DEF ReadStatus
  <2>4. CASE ConfirmRequest(i)
    BY <2>4, <1>0, ConfirmWrites
  <2>5. CASE ComesDue(i)
    BY <2>5, <1>0, RowStatus DEF ComesDue
  <2> QED BY <1>4, <2>1, <2>2, <2>3, <2>4, <2>5 DEF Front, Creator
<1>5. ASSUME NEW p \in Pids, Process(p) PROVE Rests
  <2> DEFINE o == Owner(p)
  <2>0. o \in Ids /\ row[o] \in Row /\ p[2] \in Slots /\ tries[p] \in Nat
    BY PidParts DEF TypeOK
  <2>1. Alive(p)
    BY <1>5 DEF Process, ChildStart, BodyTells, BodyCleans, BodyCleansRequested, ChildFinish,
       ChildDefer, ChildRetry, ChildRetryLater, ChildExit, ChildAt, Alive
  <2>2. o # id
    BY <2>1, PidParts DEF Running
  <2>3. CASE ChildStart(p)
    BY <2>3, <2>0, <2>2, <1>2, StartedRow DEF ChildStart
  <2>4. CASE BodyCleans(p) \/ BodyCleansRequested(p)
    <3>1. PICK D, C : row' = Cleaned(D, C)
      BY <2>4 DEF BodyCleans, BodyCleansRequested
    <3> QED BY <3>1, <1>0, RowStatus DEF Cleaned
  <2>5. CASE ChildFinish(p)
    <3>1. PICK e \in {"", "failed"} : row' = Updated(o, Ended(row[o], e))
      BY <2>5 DEF ChildFinish
    <3> QED BY <3>1, <2>0, <2>2, <1>2, EndedRow
  <2>6. CASE ChildDefer(p)
    <3> DEFINE left == tries[p] - 1
    <3>1. PICK n \in Ids : row' = [Updated(o, Deferred(row[o], n, left)) EXCEPT ![n] = NewRow(n)]
      BY <2>6 DEF ChildDefer
    <3>2. NewRow(n).status = "requested"
      BY NewRowType DEF TypeOK
    <3> QED BY <3>1, <3>2, <2>0, <2>2, <1>0 DEF Updated
  <2>7. CASE ChildRetry(p)
    BY <2>7, <2>0, <2>2, <1>2, RetriedRow DEF ChildRetry
  <2>8. CASE ChildRetryLater(p)
    BY <2>8, <2>0, <2>2, <1>2, RetriedLaterRow DEF ChildRetryLater
  <2>9. CASE ChildExit(p)
    BY <2>9, <1>3 DEF ChildExit
  <2>10. CASE BodyTells(p)
    <3>1. PICK s \in {"busy", "working"} : row' = Updated(o, [row[o] EXCEPT !.status = s])
      BY <2>10 DEF BodyTells
    <3>2. [row[o] EXCEPT !.status = s] \in Row
      BY <2>0, RowFields DEF Statuses
    <3> QED BY <3>1, <3>2, <2>0, <2>2, <1>2
  <2> QED BY <1>5, <2>3, <2>4, <2>5, <2>6, <2>7, <2>8, <2>9, <2>10 DEF Process
<1>6. CASE Daemon
  <2>1. CASE WaitPids \/ ReapBeforeFork
    BY <2>1, <1>1 DEF WaitPids, ReapBeforeFork, Reap
  <2>2. CASE KillProcesses \/ StopRefresh
    BY <2>2, <1>1 DEF KillProcesses, StopRefresh, Stop
  <2>3. CASE SelectRequests
    BY <2>3, <1>3 DEF SelectRequests
  <2>4. CASE ClaimRequest
    <3>1. PICK i \in picked : row' = row \/ row' = Updated(i, Claimed(row[i]))
      <4> DEFINE i == Foremost(picked)
      <4>1. i \in picked
        BY <2>4, ForemostIn DEF ClaimRequest, TypeOK
      <4>2. row' = row \/ row' = Updated(i, Claimed(row[i]))
        BY <2>4 DEF ClaimRequest
      <4> HIDE DEF i
      <4> QED BY <4>1, <4>2
    <3>2. i \in Ids /\ i # id
      BY DEF TypeOK
    <3> QED BY <3>1, <3>2, <1>2, <1>3, ClaimedRow DEF TypeOK
  <2>5. CASE WaitForLimit
    <3>1. current \in Ids /\ row' = Updated(current, Limited(row[current]))
      BY <2>5 DEF WaitForLimit, Control
    <3> QED BY <3>1, <1>0, LimitedRow DEF Updated
  <2>6. CASE Fork
    BY <2>6, <1>0, ForkMoves
  <2>7. CASE Restart
    BY <2>7, <1>0 DEF Restart, Row
  <2>8. CASE \E i \in Ids : ScanSkip(i) \/ ScanClose(i) \/ ScanPick(i) \/ ScanDie(i)
    <3>1. PICK i \in Ids : \/ ScanSkip(i) \/ ScanPick(i) \/ ScanDie(i)
                           \/ ScanClose(i)
      BY <2>8
    <3>2. CASE ScanClose(i)
      <4>1. row' = [row EXCEPT ![i] = [row[i] EXCEPT !.status = "done",
                      !.error = IF Command(i) = "ping_backend" THEN @ ELSE "failed"]]
        BY <3>2 DEF ScanClose
      <4> QED BY <4>1, <1>0, RowStatus
    <3> QED BY <3>1, <3>2, <1>3 DEF ScanSkip, ScanPick, ScanDie
  <2> QED BY <1>6, <2>1, <2>2, <2>3, <2>4, <2>5, <2>6, <2>7, <2>8 DEF Daemon
<1>7. CASE Failure
  BY <1>7, <1>3 DEF Failure, Crash, ChildDies
<1> QED BY <1>4, <1>5, <1>6, <1>7 DEF Step

\* Unless it was postponed or is done, it was at work or picked before.
LEMMA WorkIsPicked ==
  ASSUME PoolInv, Step, NEW id \in Ids \ (postponed \union finished), AtWork(id)'
  PROVE  AtWork(id) \/ id \in picked
<1> USE DEF PoolInv, RunInv
<1>1. CASE Running(id)
  <2>1. row[id].status # "absent" /\ ~NotBegun(id)
    BY <1>1 DEF AbsentIsUntouched, QuietUntilForked
  <2>2. row[id].status # "done"
    BY DEF DoneIsFinished
  <2>3. row[id].status # "deleted"
    <3>1. RowMoves(id)
      BY RowsMove
    <3> QED BY <3>1 DEF RowMoves, AtWork
  <2>4. row[id].status \in Statuses
    BY DEF TypeOK, Row
  <2> QED BY <2>1, <2>2, <2>3, <2>4 DEF AtWork, NotBegun, Statuses
<1>2. CASE ~Running(id)
  BY <1>2, WorkMoves
<1> QED BY <1>1, <1>2

\* Only a scan that finds nothing in its way picks a request, and it notes what
\* it has scanned until the next pass.
LEMMA PickMoves ==
  ASSUME TypeOK, Control, Step
  PROVE  \/ picked' = {}
         \/ picked' \subseteq picked /\ seen \subseteq seen'
         \/ \E id \in Ids : /\ ScanPick(id) /\ CanPick(id) /\ row' = row
                            /\ picked' = picked \union {id} /\ seen \subseteq seen'
                            /\ IdDomain(id) # NoDomain => Twin(id) \in seen'
<1> USE DEF daemon, table
<1>1. ASSUME NEW id \in Ids, Front(id) PROVE picked' = picked /\ seen' = seen
  BY <1>1 DEF Front, Creator, CreateRequest, ValidateRequest, ReadStatus, ConfirmRequest,
    ComesDue
<1>2. ASSUME NEW p \in Pids, Process(p) PROVE picked' = picked /\ seen' = seen
  BY <1>2 DEF Process, ChildStart, BodyTells, BodyCleans, BodyCleansRequested, ChildFinish,
              ChildDefer, ChildRetry, ChildRetryLater, ChildExit
<1>3. CASE SelectRequests
  BY <1>3 DEF SelectRequests, Idle, Control
<1>4. ASSUME NEW id \in Ids, ScanPick(id), CanPick(id)
      PROVE  /\ row' = row /\ picked' = picked \union {id} /\ seen \subseteq seen'
             /\ IdDomain(id) # NoDomain => Twin(id) \in seen'
  BY <1>4 DEF ScanPick
<1>5. ASSUME NEW id \in Ids, ScanPick(id), ~CanPick(id)
      PROVE  picked' = picked /\ seen \subseteq seen'
  BY <1>5 DEF ScanPick
<1>6. CASE Daemon
  BY <1>3, <1>4, <1>5, <1>6 DEF Daemon, WaitPids, KillProcesses, ClaimRequest,
     StopRefresh, ReapBeforeFork, WaitForLimit, Fork, Restart, ScanSkip, ScanClose,
     ScanDie, Down
<1>7. CASE Failure
  BY <1>7 DEF Failure, Crash, Down, ChildDies
<1> QED BY <1>1, <1>2, <1>6, <1>7 DEF Step

\* What the daemon picked in a pass, its scan has noted.
PickedIsSeen ==
  \A id \in picked : IdDomain(id) # NoDomain => Twin(id) \in seen

\* Of two requests for one command on one machine, the daemon has picked, or is
\* at work on, only one.
Taken(id) == id \in picked \/ AtWork(id)
Rivals(i, j) ==
  /\ i # j /\ IdDomain(i) # NoDomain /\ Twin(i) = Twin(j)
  /\ ~IsShutdown(Command(i)) /\ ~SharesMachine(Command(i))
  /\ Command(i) # "list_cpu_models"
OneTaken ==
  \A i, j \in Ids \ (postponed \union finished) :
    Rivals(i, j) => ~(Taken(i) /\ Taken(j))

ExclusionInv == PoolInv /\ PickedIsSeen /\ OneTaken

\* A scan does not pick the rival of a request that was taken.
LEMMA RivalNotPicked ==
  ASSUME TypeOK, PickedIsSeen, NEW i \in Ids, NEW j \in Ids, Rivals(i, j), Taken(i)
  PROVE  ~CanPick(j)
<1>1. Command(i) = Command(j) /\ IdDomain(i) = IdDomain(j) /\ IdDomain(j) # NoDomain
  BY DEF Rivals, Twin
<1>2. ~IsShutdown(Command(j))
  BY <1>1 DEF Rivals
<1>3. CASE i \in picked
  BY <1>1, <1>3 DEF PickedIsSeen, Rivals, CanPick, IsDuplicated
<1>4. CASE AtWork(i)
  <2>1. Machine(j) = IdDomain(i) /\ Machine(j) # NoDomain
    BY <1>1 DEF Machine, IdDomain
  <2>2. Pending(i) /\ row[i].status \notin {"requested", "waiting"}
    BY <1>4 DEF AtWork, Pending, Exists
  <2>3. DomainWorking(j)
    BY <1>1, <2>1, <2>2 DEF DomainWorking, Rivals
  <2> QED BY <1>2, <2>3 DEF CanPick
<1> QED BY <1>3, <1>4 DEF Taken

LEMMA ExclusionInit == Init => ExclusionInv
<1> SUFFICES ASSUME Init PROVE ExclusionInv
  OBVIOUS
<1>1. picked = {} /\ \A id \in Ids : row[id].status = "absent"
  BY DEF Init, NoRow
<1>2. PickedIsSeen /\ OneTaken
  BY <1>1 DEF PickedIsSeen, OneTaken, Taken, AtWork
<1> QED BY <1>2, PoolInvInit DEF ExclusionInv

LEMMA ExclusionStep ==
  ASSUME ExclusionInv, [Next]_vars
  PROVE  ExclusionInv'
<1> USE DEF ExclusionInv
<1>1. PoolInv'
  BY PoolInvStep
<1>2. CASE UNCHANGED vars
  BY <1>1, <1>2 DEF vars, table, creators, daemon, processes, history, PickedIsSeen, OneTaken, Taken,
     AtWork, Rivals, Twin, IdDomain, Command
<1>3. CASE Next
  <2>0. Step /\ History /\ TypeOK /\ Control
    BY <1>3 DEF Next, Step, PoolInv, RunInv
  <2>1. args' = args
    BY <2>0, ArgsStay
  <2>2. \A i, j \in Ids : /\ Twin(i)' = Twin(i) /\ IdDomain(i)' = IdDomain(i)
                          /\ Rivals(i, j)' <=> Rivals(i, j)
    BY <2>1 DEF Rivals, Twin, IdDomain, Command
  <2>3. picked \subseteq Ids
    BY <2>0 DEF TypeOK
  <2>4. PickedIsSeen'
    <3>1. CASE picked' = {}
      BY <3>1 DEF PickedIsSeen
    <3>2. CASE picked' \subseteq picked /\ seen \subseteq seen'
      BY <2>2, <2>3, <3>2 DEF PickedIsSeen
    <3>3. CASE \E id \in Ids : /\ picked' = picked \union {id} /\ seen \subseteq seen'
                               /\ IdDomain(id) # NoDomain => Twin(id) \in seen'
      BY <2>2, <2>3, <3>3 DEF PickedIsSeen
    <3> QED BY <2>0, <3>1, <3>2, <3>3, PickMoves
  <2>5. OneTaken'
    <3> SUFFICES ASSUME NEW i \in Ids \ (postponed' \union finished'),
                        NEW j \in Ids \ (postponed' \union finished'),
                        Rivals(i, j), Taken(i)', Taken(j)'
                 PROVE  FALSE
      BY <2>2 DEF OneTaken
    <3>1. i \notin postponed \union finished /\ j \notin postponed \union finished
      BY <2>0 DEF History
    <3>2. /\ AtWork(i)' => AtWork(i) \/ i \in picked
          /\ AtWork(j)' => AtWork(j) \/ j \in picked
      BY <2>0, <3>1, WorkIsPicked
    <3>3. ~(Taken(i) /\ Taken(j))
      BY <3>1 DEF OneTaken
    <3>4. Rivals(j, i)
      BY DEF Rivals, Twin
    <3>5. PICK id \in Ids : /\ CanPick(id) /\ picked' = picked \union {id} /\ row' = row
      BY <2>0, <3>2, <3>3, PickMoves DEF Taken
    <3>6. ~Taken(i) => id = i
      BY <3>5 DEF Taken, AtWork
    <3>7. ~Taken(j) => id = j
      BY <3>5 DEF Taken, AtWork
    <3>8. i # j
      BY DEF Rivals
    <3> QED BY <2>0, <3>3, <3>4, <3>5, <3>6, <3>7, <3>8, RivalNotPicked
  <2> QED BY <1>1, <2>4, <2>5
<1> QED BY <1>2, <1>3

\* Two requests for the same command on the same machine are not both at work,
\* whatever was created, killed, retried or restarted between the scan of one
\* and the process of the other.
THEOREM MachinesExclude == Spec => []MachineExclusion
<1>1. Init => ExclusionInv
  BY ExclusionInit
<1>2. ExclusionInv /\ [Next]_vars => ExclusionInv'
  BY ExclusionStep
<1>3. ExclusionInv => MachineExclusion
  BY DEF ExclusionInv, OneTaken, MachineExclusion, Rivals, Taken, AtWork
<1> QED BY <1>1, <1>2, <1>3, PTL DEF Spec
-----------------------------------------------------------------------------
(* One request after another.  The daemon forks long after its scan found  *)
(* that the other was done; what lets it do so without looking again is    *)
(* that nobody changes the order of a request that was scanned, and that   *)
(* the other is never opened again under the same id.                      *)

\* The order fields of a row, as they are kept by what writes other fields.
SameOrder(new, old) == new.after = old.after /\ new.afterOk = old.afterOk

\* Only a creator and a process that defers its request write "after".
LEMMA OrderFields ==
  ASSUME NEW r \in Row, NEW x, NEW y
  PROVE  /\ SameOrder([r EXCEPT !.status = x], r)
         /\ SameOrder([r EXCEPT !.pid = x], r)
         /\ SameOrder([r EXCEPT !.at = x], r)
         /\ SameOrder([r EXCEPT !.status = x, !.error = y], r)
         /\ SameOrder(Claimed(r), r) /\ SameOrder(Limited(r), r)
         /\ SameOrder(Started(r, x), r) /\ SameOrder(Ended(r, x), r)
         /\ SameOrder(Retried(r, x), r) /\ SameOrder(RetriedLater(r, x), r)
         /\ Deferred(r, x, y).afterOk = r.afterOk /\ Deferred(r, x, y).after = x
<1>1. /\ SameOrder([r EXCEPT !.status = x], r)
      /\ SameOrder([r EXCEPT !.pid = x], r)
      /\ SameOrder([r EXCEPT !.at = x], r)
      /\ SameOrder([r EXCEPT !.status = x, !.error = y], r)
  BY DEF SameOrder, Row
<1>2. SameOrder(Claimed(r), r)
  BY DEF SameOrder, Row, Claimed
<1>3. SameOrder(Limited(r), r)
  BY DEF SameOrder, Row, Limited
<1>4. SameOrder(Started(r, x), r)
  BY DEF SameOrder, Row, Started
<1>5. SameOrder(Ended(r, x), r)
  BY DEF SameOrder, Row, Ended
<1>6. SameOrder(Retried(r, x), r)
  BY DEF SameOrder, Row, Retried
<1>7. SameOrder(RetriedLater(r, x), r)
  BY DEF SameOrder, Row, RetriedLater
<1>8. Deferred(r, x, y).afterOk = r.afterOk /\ Deferred(r, x, y).after = x
  BY DEF Row, Deferred
<1> QED BY <1>1, <1>2, <1>3, <1>4, <1>5, <1>6, <1>7, <1>8

\* What a request waits for is changed by its creator and its processes only, to
\* a request that was created.
OrderMoves(id) ==
  /\ row[id].status # "absent" =>
       /\ row'[id].afterOk = row[id].afterOk
       /\ row'[id].after = row[id].after \/ id \in creating \/ Running(id)
  /\ \/ row'[id].after \in {row[id].after, Null}
     \/ row[row'[id].after].status # "absent" \/ row'[row'[id].after].status # "absent"

LEMMA OrdersMove ==
  ASSUME TypeOK, Control, Step, NEW id \in Ids
  PROVE  OrderMoves(id)
<1> USE DEF OrderMoves, table, creators
<1>0. row \in [Ids -> Row] /\ row[id] \in Row /\ Null \notin Ids
  BY NullIsNoId DEF TypeOK
<1>1. CASE UNCHANGED row
  BY <1>1
<1>8. ASSUME row'[id] \in {row[id], [row[id] EXCEPT !.status = "done"],
                          [row[id] EXCEPT !.status = "deleted"]}
      PROVE  OrderMoves(id)
  <2>1. /\ SameOrder([row[id] EXCEPT !.status = "done"], row[id])
        /\ SameOrder([row[id] EXCEPT !.status = "deleted"], row[id])
    BY <1>0, OrderFields
  <2> QED BY <1>8, <2>1 DEF SameOrder
<1>2. ASSUME NEW S, row' = Closed(S)
      PROVE  OrderMoves(id)
  BY <1>2, <1>0, RowStatus, OrderFields DEF Closed, SameOrder
<1>3. ASSUME NEW i \in Ids, NEW new \in Row, row' = Updated(i, new), SameOrder(new, row[i])
      PROVE  OrderMoves(id)
  BY <1>3, <1>0 DEF Updated, SameOrder
<1>4. ASSUME NEW i \in Ids, Front(i) PROVE OrderMoves(id)
  <2>1. CASE CreateRequest(i)
    <3>1. /\ row' = [Closed(LowPriorityOf(i)) EXCEPT ![i] = NewRow(i)]
          /\ row[i].status = "absent" /\ NewRow(i).status = "requested"
          /\ \A k \in Ids : k < i => row[k].status # "absent"
      BY <2>1, NewRowType DEF CreateRequest, NextId, TypeOK
    <3>2. Closed(LowPriorityOf(i)) \in [Ids -> Row]
      BY HelperTypes DEF TypeOK
    <3>3. CASE id # i
      <4>1. row'[id] \in {row[id], [row[id] EXCEPT !.status = "done"]}
        BY <3>1, <3>2, <3>3 DEF Closed
      <4> QED BY <4>1, <1>8
    <3>4. CASE id = i
      <4>1. row'[id] = NewRow(id)
        BY <3>1, <3>2, <3>4
      <4>2. NewRow(id).after = Null \/ (NewRow(id).after = id - 1 /\ id - 1 \in Ids)
        BY DEF NewRow
      <4>3. id - 1 \in Ids => row[id - 1].status # "absent"
        BY <3>1, <3>4, IdsAssumption
      <4> QED BY <3>1, <3>4, <4>1, <4>2, <4>3
    <3> QED BY <3>3, <3>4
  <2>2. CASE ValidateRequest(i)
    <3>1. i \in creating
      BY <2>2 DEF ValidateRequest
    <3>2. CASE row'[id] = row[id]
      BY <3>2
    <3>3. CASE row'[id] = [row[id] EXCEPT !.at = ""]
      <4>1. SameOrder([row[id] EXCEPT !.at = ""], row[id])
        BY <1>0, OrderFields
      <4> QED BY <3>3, <4>1 DEF SameOrder
    <3>4. CASE id = i /\ WritesOrder(id)
      <4>1. PICK after \in Ids \union {Null} :
              /\ after = row[id].after \/ Named(after)
              /\ row'[id] = [row[id] EXCEPT !.after = after]
        BY <3>4 DEF WritesOrder
      <4>2. row'[id].afterOk = row[id].afterOk /\ row'[id].after = after
        BY <4>1, <1>0, AfterRow
      <4> QED BY <3>1, <3>4, <4>1, <4>2 DEF Named
    <3>5. CASE row'[id] = [row[id] EXCEPT !.status = "done", !.error = "failed"]
      <4>1. SameOrder([row[id] EXCEPT !.status = "done", !.error = "failed"], row[id])
        BY <1>0, OrderFields
      <4> QED BY <3>5, <4>1 DEF SameOrder
    <3> QED BY <2>2, <1>0, <3>2, <3>3, <3>4, <3>5, ValidateWrites
  <2>3. CASE ReadStatus(i)
    BY <2>3, <1>1 DEF ReadStatus
  <2>4. CASE ConfirmRequest(i)
    <3>1. SameOrder([row[id] EXCEPT !.status = "requested"], row[id])
      BY <1>0, OrderFields
    <3> QED BY <2>4, <3>1, ConfirmWrites DEF SameOrder
  <2>5. CASE ComesDue(i)
    BY <2>5, <1>0, RowStatus, OrderFields DEF ComesDue, SameOrder
  <2> QED BY <1>4, <2>1, <2>2, <2>3, <2>4, <2>5 DEF Front, Creator
<1>5. ASSUME NEW p \in Pids, Process(p) PROVE OrderMoves(id)
  <2> DEFINE o == Owner(p)
  <2>0. /\ o \in Ids /\ row[o] \in Row /\ row[o].status \in Statuses
        /\ tries[p] \in Nat
    BY PidParts DEF TypeOK, Row
  <2>00. Alive(p) => Running(o)
    BY PidParts DEF Running
  <2>1. CASE ChildStart(p)
    <3>1. Started(row[o], p[2]) \in Row /\ SameOrder(Started(row[o], p[2]), row[o])
      BY <2>0, PidParts, StartedRow, OrderFields
    <3> QED BY <2>1, <3>1, <1>3, <2>0 DEF ChildStart
  <2>2. CASE BodyCleans(p) \/ BodyCleansRequested(p)
    <3>1. PICK D, C : row' = Cleaned(D, C)
      BY <2>2 DEF BodyCleans, BodyCleansRequested
    <3> QED BY <3>1, <1>0, RowStatus, OrderFields DEF Cleaned, SameOrder
  <2>3. CASE ChildFinish(p)
    <3>1. PICK e \in {"", "failed"} : row' = Updated(o, Ended(row[o], e))
      BY <2>3 DEF ChildFinish
    <3>2. /\ Ended(row[o], e) \in Row /\ SameOrder(Ended(row[o], e), row[o])
      BY <2>0, EndedRow, OrderFields
    <3> QED BY <3>1, <3>2, <1>3, <2>0
  <2>4. CASE ChildDefer(p)
    <3> DEFINE left == tries[p] - 1
    <3>0. left \in Nat
      BY <2>0, <2>4 DEF ChildDefer
    <3>1. PICK n \in Ids : /\ NextId(n)
                           /\ row' = [Updated(o, Deferred(row[o], n, left)) EXCEPT ![n] = NewRow(n)]
      BY <2>4 DEF ChildDefer
    <3>2. Running(o)
      BY <2>4, <2>00 DEF ChildDefer, ChildAt, Alive
    <3> HIDE DEF left
    <3>3. NewRow(n).status = "requested" /\ row[n].status = "absent"
      BY <3>1, NewRowType DEF TypeOK, NextId
    <3>40. Deferred(row[o], n, left) \in Row /\ Deferred(row[o], n, left).status = "retry"
      BY <3>0, <2>0, DeferredRow
    <3>41. Deferred(row[o], n, left).after = n /\ Deferred(row[o], n, left).afterOk = row[o].afterOk
      BY <2>0 DEF Deferred, Row
    <3>4. /\ Deferred(row[o], n, left) \in Row /\ Deferred(row[o], n, left).status = "retry"
          /\ Deferred(row[o], n, left).after = n /\ Deferred(row[o], n, left).afterOk = row[o].afterOk
      BY <3>40, <3>41
    <3>5. Updated(o, Deferred(row[o], n, left)) \in [Ids -> Row]
      BY <2>0, <3>4, HelperTypes DEF TypeOK
    <3>6. row'[n].status # "absent"
      BY <3>1, <3>3, <3>5
    <3>7. CASE id = n
      <4>1. row'[id] = NewRow(id)
        BY <3>1, <3>5, <3>7
      <4>2. NewRow(id).after = Null \/ (NewRow(id).after = id - 1 /\ id - 1 \in Ids)
        BY DEF NewRow
      <4>3. id - 1 \in Ids => row[id - 1].status # "absent"
        <5>1. \A k \in Ids : k < id => row[k].status # "absent"
          BY <3>1, <3>7 DEF NextId
        <5>2. id \in Nat /\ id - 1 < id
          BY IdsAssumption
        <5> QED BY <5>1, <5>2
      <4> QED BY <3>3, <3>7, <4>1, <4>2, <4>3
    <3>8. CASE id # n /\ id = o
      <4>1. row'[id] \in {row[id], Deferred(row[id], n, left)}
        BY <3>1, <3>5, <3>8, <1>0 DEF Updated
      <4> QED BY <3>2, <3>4, <3>6, <3>8, <4>1
    <3>9. CASE id # n /\ id # o
      <4>1. row'[id] = row[id]
        BY <3>1, <3>5, <3>9, <1>0 DEF Updated
      <4> QED BY <4>1
    <3> QED BY <3>7, <3>8, <3>9
  <2>5. CASE ChildRetry(p)
    <3>1. /\ Retried(row[o], tries[p]) \in Row
          /\ SameOrder(Retried(row[o], tries[p]), row[o])
      BY <2>0, RetriedRow, OrderFields
    <3> QED BY <2>5, <3>1, <1>3, <2>0 DEF ChildRetry
  <2>6. CASE ChildRetryLater(p)
    <3> DEFINE new == RetriedLater(row[o], tries[p])
    <3>1. new \in Row
      BY <2>0, RetriedLaterRow
    <3>2. SameOrder(new, row[o])
      BY <2>0, OrderFields
    <3>3. row' = Updated(o, new)
      BY <2>6 DEF ChildRetryLater
    <3> HIDE DEF new
    <3> QED BY <1>3, <2>0, <3>1, <3>2, <3>3
  <2>7. CASE ChildExit(p)
    BY <2>7, <1>1 DEF ChildExit
  <2>8. CASE BodyTells(p)
    <3>1. PICK s \in {"busy", "working"} : row' = Updated(o, [row[o] EXCEPT !.status = s])
      BY <2>8 DEF BodyTells
    <3>2. [row[o] EXCEPT !.status = s] \in Row /\ SameOrder([row[o] EXCEPT !.status = s], row[o])
      BY <2>0, RowFields, OrderFields DEF Statuses
    <3> QED BY <3>1, <3>2, <1>3, <2>0
  <2> QED BY <1>5, <2>1, <2>2, <2>3, <2>4, <2>5, <2>6, <2>7, <2>8 DEF Process
<1>6. CASE Daemon
  <2>1. CASE WaitPids \/ ReapBeforeFork
    BY <2>1, <1>2 DEF WaitPids, ReapBeforeFork, Reap
  <2>2. CASE KillProcesses \/ StopRefresh
    BY <2>2, <1>2 DEF KillProcesses, StopRefresh, Stop
  <2>3. CASE SelectRequests
    BY <2>3, <1>1 DEF SelectRequests
  <2>4. CASE ClaimRequest
    <3>1. Foremost(picked) \in picked
      BY <2>4, ForemostIn DEF ClaimRequest, TypeOK
    <3>2. PICK i \in picked : row' = row \/ row' = Updated(i, Claimed(row[i]))
      BY <2>4, <3>1 DEF ClaimRequest
    <3>3. /\ i \in Ids /\ Claimed(row[i]) \in Row /\ SameOrder(Claimed(row[i]), row[i])
      BY ClaimedRow, OrderFields DEF TypeOK
    <3> QED BY <3>2, <3>3, <1>1, <1>3
  <2>5. CASE WaitForLimit
    <3>1. current \in Ids /\ row' = Updated(current, Limited(row[current]))
      BY <2>5 DEF WaitForLimit, Control
    <3>2. Limited(row[current]) \in Row /\ SameOrder(Limited(row[current]), row[current])
      BY <3>1, <1>0, LimitedRow, OrderFields
    <3> QED BY <3>1, <3>2, <1>3
  <2>6. CASE Fork
    <3>1. PICK k \in Slots : row' = Updated(current, [row[current] EXCEPT !.pid = k])
      BY <2>6, SlotsAssumption, EarliestIn DEF Fork, FreeSlots
    <3>2. current \in Ids
      BY <2>6 DEF Fork, Control
    <3> DEFINE new == [row[current] EXCEPT !.pid = k]
    <3>3. new \in Row /\ SameOrder(new, row[current])
      BY <1>0, <3>2, RowFields, OrderFields
    <3> HIDE DEF new
    <3> QED BY <1>3, <3>1, <3>2, <3>3 DEF new
  <2>7. CASE Restart
    <3>1. row'[id] \in {row[id], [row[id] EXCEPT !.status = "done"],
                        [row[id] EXCEPT !.status = "deleted"]}
      BY <2>7, <1>0 DEF Restart
    <3> QED BY <3>1, <1>8
  <2>8. CASE \E i \in Ids : ScanSkip(i) \/ ScanClose(i) \/ ScanPick(i) \/ ScanDie(i)
    <3>1. PICK i \in Ids : \/ ScanSkip(i) \/ ScanPick(i) \/ ScanDie(i)
                           \/ ScanClose(i)
      BY <2>8
    <3>2. CASE ScanClose(i)
      <4>1. row' = [row EXCEPT ![i] = [row[i] EXCEPT !.status = "done",
                      !.error = IF Command(i) = "ping_backend" THEN @ ELSE "failed"]]
        BY <3>2 DEF ScanClose
      <4> QED BY <4>1, <1>0, RowStatus, OrderFields DEF SameOrder
    <3> QED BY <3>1, <3>2, <1>1 DEF ScanSkip, ScanPick, ScanDie
  <2> QED BY <1>6, <2>1, <2>2, <2>3, <2>4, <2>5, <2>6, <2>7, <2>8 DEF Daemon
<1>7. CASE Failure
  BY <1>7, <1>1 DEF Failure, Crash, ChildDies
<1> QED BY <1>4, <1>5, <1>6, <1>7 DEF Step

\* Only the creation of a request puts it among those being created.
LEMMA CreatingMoves ==
  ASSUME Step, NEW id \in Ids, id \in creating'
  PROVE  id \in creating \/ row[id].status = "absent"
<1> USE DEF table, creators
<1>1. CASE Daemon
  BY <1>1 DEF Daemon, WaitPids, KillProcesses, SelectRequests, ClaimRequest, StopRefresh,
     ReapBeforeFork, WaitForLimit, Fork, Restart, ScanSkip, ScanClose, ScanPick, ScanDie
<1>2. ASSUME NEW p \in Pids, Process(p) PROVE creating' = creating
  BY <1>2 DEF Process, ChildStart, BodyTells, BodyCleans, BodyCleansRequested, ChildFinish,
     ChildDefer, ChildRetry, ChildRetryLater, ChildExit
<1>3. ASSUME NEW i \in Ids, Front(i) PROVE id \in creating \/ row[id].status = "absent"
  BY <1>3 DEF Front, Creator, CreateRequest, ValidateRequest, ReadStatus, ConfirmRequest,
    ComesDue, NextId
<1>4. CASE Failure
  BY <1>4 DEF Failure, Crash, ChildDies
<1> QED BY <1>1, <1>2, <1>3, <1>4 DEF Step

\* The daemon forks the request it executes, and nothing else starts a process.
LEMMA ForkedIsCurrent ==
  ASSUME TypeOK, Control, Step, NEW p \in Pids, Forked(p)
  PROVE  Owner(p) = current /\ current \in Ids
<1> USE DEF Forked, processes
<1>0. child \in [Pids -> Phases]
  BY DEF TypeOK
<1>1. CASE Fork
  <2>1. PICK k \in Slots : child' = [child EXCEPT ![<<current, k>>] = "forked"]
    BY <1>1, ForkMoves
  <2>2. p = <<current, k>>
    BY <1>0, <2>1
  <2> QED BY <1>1, <2>2, ForkMoves DEF Owner
<1>2. CASE ~Fork
  <2> SUFFICES child'[p] # "forked" \/ child'[p] = child[p]
    OBVIOUS
  <2>1. ASSUME NEW S, Stop(S) PROVE child'[p] # "forked" \/ child'[p] = child[p]
    BY <2>1 DEF Stop, Killed
  <2>2. ASSUME Reap PROVE child'[p] # "forked" \/ child'[p] = child[p]
    BY <2>2 DEF Reap
  <2>3. ASSUME Down PROVE child'[p] # "forked" \/ child'[p] = child[p]
    BY <2>3 DEF Down
  <2>4. CASE Daemon
    BY <1>2, <2>1, <2>2, <2>3, <2>4
       DEF Daemon, WaitPids, KillProcesses, SelectRequests, ClaimRequest, StopRefresh,
           ReapBeforeFork, WaitForLimit, Restart, ScanSkip, ScanClose, ScanPick, ScanDie
  <2>5. ASSUME NEW q \in Pids, Process(q)
        PROVE  child'[p] # "forked" \/ child'[p] = child[p]
    BY <1>0, <2>5
       DEF Process, ChildStart, BodyTells, BodyCleans, BodyCleansRequested, ChildFinish,
           ChildDefer, ChildRetry, ChildRetryLater, ChildExit, Becomes
  <2>6. ASSUME NEW id \in Ids, Front(id)
        PROVE  child'[p] # "forked" \/ child'[p] = child[p]
    BY <2>6 DEF Front, Creator, CreateRequest, ValidateRequest, ReadStatus, ConfirmRequest,
    ComesDue, Killed
  <2>7. CASE Failure
    BY <1>0, <2>3, <2>7 DEF Failure, Crash, ChildDies, Becomes
  <2> QED BY <2>4, <2>5, <2>6, <2>7 DEF Step
<1> QED BY <1>1, <1>2

\* A request waits for one that was created: an id that is not used yet cannot
\* pass for a request that was deleted.
AfterIsCreated ==
  \A id \in Ids : row[id].after \in Ids => row[row[id].after].status # "absent"

\* What the daemon picked, or executes, waits for nothing any more, and its
\* creator has finished with it.
Cleared(id) == \/ row[id].after = Null \/ row[id].afterOk # Null
               \/ row[id].after \in finished \/ ~Exists(row[id].after)
PickedIsCleared ==
  \A id \in Ids \ (postponed \union early) :
    id \in picked \/ id = current => id \notin creating /\ Cleared(id)

OrderInv == PoolInv /\ AfterIsCreated /\ PickedIsCleared

LEMMA OrderInit == Init => OrderInv
<1> SUFFICES ASSUME Init PROVE OrderInv
  OBVIOUS
<1>1. picked = {} /\ current = Null /\ \A id \in Ids : row[id].after = Null
  BY DEF Init, NoRow
<1>2. AfterIsCreated /\ PickedIsCleared
  BY <1>1, NullIsNoId DEF AfterIsCreated, PickedIsCleared
<1> QED BY <1>2, PoolInvInit DEF OrderInv

\* A scan clears what it picks.
LEMMA PickClears ==
  ASSUME PoolInv, NEW id \in Ids, ScanPick(id)
  PROVE  Cleared(id) /\ creating' = creating /\ row' = row
<1>1. creating' = creating /\ row' = row /\ RequirementsDone(id)
  BY DEF ScanPick, table, creators
<1>2. row[id].after \in Ids \union {Null}
  BY DEF PoolInv, RunInv, TypeOK, Row
<1>3. CASE row[id].afterOk = Null /\ row[id].after # Null
  <2>1. ~Pending(row[id].after) /\ row[id].after \in Ids
    BY <1>1, <1>2, <1>3 DEF RequirementsDone
  <2> QED BY <1>1, <2>1 DEF Pending, Cleared, PoolInv, DoneIsFinished
<1>4. CASE ~(row[id].afterOk = Null /\ row[id].after # Null)
  BY <1>1, <1>4 DEF Cleared
<1> QED BY <1>3, <1>4

LEMMA OrderStep ==
  ASSUME OrderInv, [Next]_vars
  PROVE  OrderInv'
<1> USE DEF OrderInv
<1>1. PoolInv'
  BY PoolInvStep
<1>2. CASE UNCHANGED vars
  BY <1>1, <1>2 DEF vars, table, creators, daemon, history, AfterIsCreated, PickedIsCleared, Cleared,
     Exists
<1>3. CASE Next
  <2>0. Step /\ History /\ RunInv /\ TypeOK /\ Control
    BY <1>3 DEF Next, Step, PoolInv, RunInv
  <2>1. \A id \in Ids : RowMoves(id) /\ OrderMoves(id)
    BY <2>0, RowsMove, OrdersMove
  <2>2. AfterIsCreated'
    <3> SUFFICES ASSUME NEW id \in Ids, row'[id].after \in Ids,
                        row'[row'[id].after].status = "absent"
                 PROVE  FALSE
      BY DEF AfterIsCreated
    <3>1. row[row'[id].after].status = "absent"
      BY <2>1 DEF RowMoves
    <3>2. row'[id].after = row[id].after
      BY <2>1, <3>1, NullIsNoId DEF OrderMoves
    <3> QED BY <3>1, <3>2 DEF AfterIsCreated
  <2>3. PickedIsCleared'
    <3> SUFFICES ASSUME NEW id \in Ids \ (postponed' \union early'),
                        id \in picked' \/ id = current'
                 PROVE  id \notin creating' /\ Cleared(id)'
      BY DEF PickedIsCleared
    <3>0. id \notin postponed \union early /\ finished \subseteq finished'
      BY <2>0 DEF History
    <3>1. CASE id \in picked \/ id = current
      <4>1. id \notin creating /\ Cleared(id)
        BY <3>0, <3>1 DEF PickedIsCleared
      <4>2. row[id].status # "absent" /\ ~Running(id)
        BY <2>0, <3>0, <3>1 DEF RunInv, AbsentIsUntouched, QuietUntilForked, Chosen
      <4>3. id \notin creating'
        BY <2>0, <4>1, <4>2, CreatingMoves
      <4>4. row'[id].after = row[id].after /\ row'[id].afterOk = row[id].afterOk
        BY <2>1, <4>1, <4>2 DEF OrderMoves
      <4>5. row[id].after \in Ids \union {Null}
        BY <2>0 DEF TypeOK, Row
      <4>6. ASSUME row[id].after \in Ids, ~Exists(row[id].after)
            PROVE  ~Exists(row[id].after)'
        <5>1. row[row[id].after].status = "deleted"
          BY <4>6 DEF AfterIsCreated, Exists
        <5>2. row'[row[id].after].status = "deleted"
          BY <2>1, <4>6, <5>1 DEF RowMoves
        <5> QED BY <4>4, <5>2 DEF Exists
      <4>7. Cleared(id)'
        BY <3>0, <4>1, <4>4, <4>5, <4>6 DEF Cleared
      <4> QED BY <4>3, <4>7
    <3>2. CASE id \notin picked /\ id # current
      <4>1. id \in picked'
        BY <2>0, <3>2, QueueMoves, NullIsNoId
      <4>2. ScanPick(id)
        BY <2>0, <3>2, <4>1, PickMoves
      <4>3. id \notin creating
        BY <2>0, <3>2, <4>1 DEF History
      <4>4. Cleared(id) /\ creating' = creating /\ row' = row
        BY <4>2, PickClears
      <4> QED BY <3>0, <4>3, <4>4 DEF Cleared, Exists
    <3> QED BY <3>1, <3>2
  <2> QED BY <1>1, <2>2, <2>3
<1> QED BY <1>2, <1>3

\* A request gets its process only when the one it names in after_request has
\* been done or was deleted, whatever happened between its scan and its fork,
\* unless it was picked before its creator had finished or was postponed.
THEOREM OrderKept == Spec => RunsAfter
<1> DEFINE Kept == \A p \in Pids :
             Forked(p) => LET id == Owner(p)
                              before == row[id].after
                          IN \/ before = Null \/ row[id].afterOk # Null
                             \/ before \in finished \/ ~Exists(before)
                             \/ id \in postponed \union early
<1>1. Init => OrderInv
  BY OrderInit
<1>2. OrderInv /\ [Next]_vars => OrderInv'
  BY OrderStep
<1>3. OrderInv /\ [Next]_vars => [Kept]_vars
  <2> SUFFICES ASSUME OrderInv, Next, NEW p \in Pids, Forked(p),
                      Owner(p) \notin postponed \union early
               PROVE  Cleared(Owner(p))
    BY DEF Cleared
  <2>1. Owner(p) = current /\ current \in Ids
    BY ForkedIsCurrent DEF OrderInv, PoolInv, RunInv, Next, Step
  <2> QED BY <2>1 DEF OrderInv, PickedIsCleared
<1> QED BY <1>1, <1>2, <1>3, PTL DEF Spec, RunsAfter
=============================================================================
