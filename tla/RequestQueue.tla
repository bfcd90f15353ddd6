---------------------------- MODULE RequestQueue ----------------------------
(***************************************************************************)
(* The request queue of Ravada and the daemon that serves it.              *)
(*                                                                         *)
(* Users of the front end, and the bodies of running requests, insert rows *)
(* in the table "requests".  The daemon rvd_back loops over                *)
(* process_requests: once a minute it reaps and kills processes, then it   *)
(* selects the rows that may run, scans them one by one, and forks one     *)
(* process for each it picked, in the order of their priorities.  The      *)
(* process writes its own status, runs the command and writes the result.  *)
(* All of them read and write the same table and none holds a lock on it:  *)
(* every step below is one visit of one process to the table.              *)
(*                                                                         *)
(* Time is abstract: a row scheduled for later may become due at any       *)
(* moment, and a row that has started may count as old at any moment.      *)
(*                                                                         *)
(* Beside a definition stands, at times, a faulty variant of it that Next  *)
(* never reaches: ClaimedUnmarked, RetriedLaterBelow, EligibleUnlimited,   *)
(* RequirementsStarted, CanPickAgain, MayExecuteAnyway, BusyWorking and    *)
(* CanForkOneMore.  Put in its place, it breaks one of the properties.     *)
(***************************************************************************)
EXTENDS RequestTypes, Integers, FiniteSets

CONSTANTS
  Ids,        \* ids of requests, in the order they are created (date_req)
  Slots,      \* processes one request may have at once; an ended one is reused
  Domains,    \* virtual machines
  NoDomain,   \* a request that names no virtual machine
  Workloads,  \* which requests are created: a set of functions [Ids -> Args]
  MaxCrash    \* how many times the daemon, or a process of it, may be killed

Null == 0     \* no request, no process, an unlocked machine

ASSUME IdsAssumption == Ids \subseteq Nat \ {0}
ASSUME SlotsAssumption == Slots \subseteq Nat \ {0}
ASSUME DomainAssumption == NoDomain \notin Domains
ASSUME CrashAssumption == MaxCrash \in Nat

\* What the creator of a request fixes: the command, the machine, whether the
\* row names it by id_domain (or by name or id_base, leaving the column NULL),
\* whether it must wait for the request created just before it, the retries
\* left, the at_time and whether the request carries a timeout.  The last two
\* fields are bounds of the model: only a row whose creator is slow is selected
\* between its insertion and the end of _new_request, and only a body that
\* tells writes what it is doing in its status.
Args ==
  [command : STRING, domain : Domains \union {NoDomain}, byId : BOOLEAN,
   after : BOOLEAN, afterOk : BOOLEAN, retry : Nat, at : BOOLEAN,
   timeout : BOOLEAN, slow : BOOLEAN, tells : BOOLEAN]

ASSUME WorkloadsAssumption == Workloads \subseteq [Ids -> Args]

VARIABLES
  args,      \* [Ids -> Args]: the requests that will be created
  row,       \* [Ids -> Row]: the table "requests"
  creating,  \* rows inserted whose creator has not finished with them
  validated, \* those of creating that their creator has validated
  confirming,\* those of validated that their creator has read as not done
  locked,    \* [Domains -> Ids or Null]: the column domains.is_locked
  child,     \* [Pids -> Phases]: the processes forked by the daemon
  tracked,   \* $self->{pids}: the processes the daemon knows of
  tries,     \* [Pids -> Nat]: the retry field, as the process has read it
  pc,        \* where the daemon is in process_requests
  pending,   \* rows selected and not yet scanned
  picked,    \* @reqs: rows scanned and not yet executed
  seen,      \* %duplicated: <<machine, command>> of the rows scanned
  current,   \* the row in _execute
  read,      \* the retry field of the row in _execute, as it was read there
  crashes,   \* how many times the daemon or one of its processes was killed
  finished,  \* history: requests that have been "done"
  postponed, \* history: requests that became eligible again after starting
  early,     \* history: requests picked before their creator had finished
  succeeded  \* history: requests whose body ended without an error

creators == <<creating, validated, confirming>>
table == <<args, row, creators, locked>>
daemon == <<pc, pending, picked, seen, current, read>>
processes == <<child, tracked, tries>>
history == <<finished, postponed, early, succeeded>>
vars == <<table, daemon, processes, crashes, history>>

\* "busy" stands for any text a body writes in place of "working", such as
\* "creating machine" or "downloading 40 %".
Statuses == {"absent", "deleted", "requested", "waiting", "retry", "working",
             "busy", "done"}
Row == [status : Statuses, after : Ids \union {Null},
        afterOk : Ids \union {Null}, retry : Nat, at : {"", "later", "due"},
        error : {"", "failed", "limit"}, pid : Slots \union {Null},
        started : BOOLEAN]

\* A process: in its code before the first write to its row ("forked"), in the
\* command ("body"), between the writes of a retry ("again"), done with its row
\* ("closing"), ended and not waited for ("zombie"), gone.
Phases == {"gone", "forked", "body", "again", "closing", "zombie"}

\* A process is named by its request and a slot; the row keeps the slot.
Pids == Ids \X Slots
Owner(p) == p[1]

\* The main loop (it scans while rows are pending, then executes those picked,
\* then starts another pass), the steps inside _execute, and no daemon.
Stages == {"loop", "sweep", "select", "refresh", "reap", "fork", "down"}
-----------------------------------------------------------------------------
Command(id) == args[id].command

\* The column requests.id_domain, and the machine _domain_working resolves.
IdDomain(id) == IF args[id].byId THEN args[id].domain ELSE NoDomain
Machine(id) == args[id].domain

Exists(id) == row[id].status \notin {"absent", "deleted"}
Pending(id) == Exists(id) /\ row[id].status # "done"
Alive(p) == child[p] \notin {"gone", "zombie"}
Running(id) == \E k \in Slots : Alive(<<id, k>>)

\* An UPDATE of a row that was deleted changes nothing.
Updated(id, new) == IF Exists(id) THEN [row EXCEPT ![id] = new] ELSE row

\* lock_domain and unlock_domain: is_locked is overwritten, whoever set it.
Locked(id, value) ==
  IF IdDomain(id) \in Domains THEN [locked EXCEPT ![IdDomain(id)] = value]
                              ELSE locked

\* Request::stop: kill the recorded process, then close the row.  The error
\* of the row is left as it was.
Closed(S) == [i \in Ids |-> IF i \in S THEN [row[i] EXCEPT !.status = "done"]
                                       ELSE row[i]]
Killed(S) == [p \in Pids |->
                IF Alive(p) /\ Owner(p) \in S /\ row[Owner(p)].pid = p[2]
                THEN "zombie" ELSE child[p]]
Stop(S) == row' = Closed(S) /\ child' = Killed(S)

Earliest(S) == CHOOSE i \in S : \A j \in S : i <= j

\* The first of @reqs sorted by priority; the sort keeps the order of the scan.
Foremost(S) ==
  Earliest({i \in S : \A j \in S : Priority(Command(i)) <= Priority(Command(j))})
-----------------------------------------------------------------------------
NewRow(id) ==
  LET previous == IF id - 1 \in Ids THEN id - 1 ELSE Null IN
  [status |-> "requested",
   after |-> IF args[id].after THEN previous ELSE Null,
   afterOk |-> IF args[id].afterOk THEN previous ELSE Null,
   retry |-> args[id].retry, at |-> IF args[id].at THEN "later" ELSE "", error |-> "",
   pid |-> Null, started |-> FALSE]

NoRow == [status |-> "absent", after |-> Null, afterOk |-> Null, retry |-> 0,
          at |-> "", error |-> "", pid |-> Null, started |-> FALSE]

\* What _execute writes in a row when it takes it and when the limit of the type
\* sends it back.  A waiting row stays "waiting" until its process writes
\* "working".
ClaimedUnmarked(r) == [r EXCEPT !.started = TRUE, !.error = ""]
Claimed(r) == [r EXCEPT !.status = IF @ = "waiting" THEN @ ELSE "working",
                        !.started = TRUE, !.error = ""]
Limited(r) == [r EXCEPT !.status = "waiting", !.error = "limit", !.at = "later"]

\* By the process: started, ended with an error or none, deferred until after
\* another request, to be retried, and retried later.  What is left of the tries
\* is counted from what the process had read, not from what the row has by now.
Started(r, slot) == [r EXCEPT !.status = "working", !.pid = slot]
Ended(r, error) == [r EXCEPT !.error = IF error = "" THEN @ ELSE error,
                             !.status = IF @ = "retry" THEN @ ELSE "done"]
Deferred(r, after, left) == [r EXCEPT !.status = "retry", !.retry = left,
                                      !.at = "later", !.after = after,
                                      !.error = "failed"]
Retried(r, left) == [r EXCEPT !.error = "failed",
                              !.status = IF left > 0 THEN "requested" ELSE "done"]
RetriedLaterBelow(r, left) == [r EXCEPT !.at = "later", !.retry = left - 1]
RetriedLater(r, left) == [r EXCEPT !.at = "later", !.retry = left]

Init ==
  /\ args \in Workloads
  /\ row = [id \in Ids |-> NoRow]
  /\ creating = {} /\ validated = {} /\ confirming = {}
  /\ locked = [d \in Domains |-> Null]
  /\ child = [p \in Pids |-> "gone"]
  /\ tracked = {} /\ tries = [p \in Pids |-> 0]
  /\ pc = "loop"
  /\ pending = {} /\ picked = {} /\ seen = {} /\ current = Null /\ read = 0
  /\ crashes = 0
  /\ finished = {} /\ postponed = {} /\ early = {} /\ succeeded = {}
-----------------------------------------------------------------------------
(* The front end, and the commands that ask for more commands.             *)

\* The ids are given in order; a workload may leave its last ones unused.
NextId(id) ==
  /\ Command(id) # "" /\ row[id].status = "absent"
  /\ \A i \in Ids : i < id => row[i].status # "absent"

\* Rows a start removes from its way: _remove_low_priority_requests.
LowPriorityOf(id) ==
  IF Command(id) # "start" THEN {}
  ELSE {i \in Ids : /\ Pending(i)
                    /\ Command(i) \in LowPriorityCommands
                    /\ IdDomain(i) = Machine(id)
                    /\ IdDomain(i) # NoDomain}

\* _new_request inserts the row, after the check for duplicates: from now on
\* the daemon may select it.
CreateRequest(id) ==
  /\ NextId(id)
  /\ row' = [Closed(LowPriorityOf(id)) EXCEPT ![id] = NewRow(id)]
  /\ child' = Killed(LowPriorityOf(id))
  /\ creating' = creating \union {id}
  /\ UNCHANGED <<args, validated, confirming, locked, tracked, tries, daemon, crashes>>

\* _search_request: a request still open on the same machine, or Null.  The
\* oldest date_req, in seconds, comes first and then the last id: any of them.
Search(id, commands) ==
  LET found == {i \in Ids \ {id} : /\ Pending(i) /\ Command(i) \in commands
                                   /\ IdDomain(i) = IdDomain(id)}
  IN IF found = {} \/ IdDomain(id) = NoDomain THEN {Null} ELSE found
Larger(i, j) == IF i > j THEN i ELSE j

\* _validate_change_hardware and _validate_compact: wait for the one found,
\* unless the creator named another.  A compact or spinoff found runs at once.
ValidateOrder(id, some, others, hurry) ==
  \E i \in Search(id, some), j \in Search(id, others) :
    LET skip == row[id].after # Null IN
    row' = [k \in Ids |->
      IF k = id
      THEN [row[k] EXCEPT !.after = IF skip THEN row[k].after ELSE Larger(i, j)]
      ELSE IF k \in {i, j} /\ hurry /\ ~skip THEN [row[k] EXCEPT !.at = ""] ELSE row[k]]

\* _validate_start_domain: wait for an earlier start that waits itself, or for
\* an earlier change of hardware, in the place of what the creator named.
ValidateStart(id) ==
  \E i \in Search(id, {"start"}), j \in Search(id, HardwareCommands) :
    LET counts(k) == k # Null /\ k < id /\ row[k].at = ""
        after == IF j # Null /\ counts(j) THEN j
                 ELSE IF i # Null /\ counts(i) /\ row[i].after # Null THEN i
                 ELSE row[id].after
    IN row' = [row EXCEPT ![id].after = after]

\* _validate_clone, _validate_create_domain and those of the exposed ports: the
\* user may not, or the machine is gone, and the request ends here.
ValidateLeave(id) ==
  \/ row' = row
  \/ row' = [row EXCEPT ![id].status = "done", ![id].error = "failed"]

\* The rest of _new_request visits the table three times.  First _validate, of
\* the row just inserted; nothing more is done if it is gone by now.
ValidateRequest(id) ==
  /\ id \in creating \ validated
  /\ IF Exists(id)
     THEN /\ CASE Command(id) \in HardwareCommands \union {"move_volume"} ->
                    ValidateOrder(id, HardwareCommands, {"move_volume"}, FALSE)
               [] Command(id) \in {"compact", "spinoff", "prepare_base"} ->
                    ValidateOrder(id, {"compact"}, {"spinoff"}, TRUE)
               [] Command(id) = "start" -> ValidateStart(id)
               [] Command(id) \in RefusedCommands -> ValidateLeave(id)
               [] OTHER -> row' = row
          /\ validated' = validated \union {id} /\ UNCHANGED creating
     ELSE creating' = creating \ {id} /\ UNCHANGED <<row, validated>>
  /\ UNCHANGED <<args, confirming, locked, processes, daemon, crashes>>

\* Then it reads the status.  A request that is done is left so.
ReadStatus(id) ==
  /\ id \in validated \ confirming
  /\ IF row[id].status = "done"
     THEN /\ creating' = creating \ {id} /\ validated' = validated \ {id}
          /\ locked' = Locked(id, id) /\ UNCHANGED confirming
     ELSE /\ confirming' = confirming \union {id}
          /\ UNCHANGED <<creating, validated, locked>>
  /\ UNCHANGED <<args, row, processes, daemon, crashes>>

\* Then it writes "requested", whatever became of the row since, and locks the
\* machine.
ConfirmRequest(id) ==
  /\ id \in confirming
  /\ row' = Updated(id, [row[id] EXCEPT !.status = "requested"])
  /\ locked' = Locked(id, id)
  /\ creating' = creating \ {id}
  /\ validated' = validated \ {id} /\ confirming' = confirming \ {id}
  /\ UNCHANGED <<args, processes, daemon, crashes>>

\* The at_time of a row passes.
ComesDue(id) ==
  /\ row[id].at = "later" /\ Pending(id)
  /\ row' = [row EXCEPT ![id].at = "due"]
  /\ UNCHANGED <<args, creators, locked, processes, daemon, crashes>>
-----------------------------------------------------------------------------
(* The daemon: the periodic care of its processes.                         *)

\* _wait_pids.  kill(0) still finds a zombie, so a process that has ended is
\* only waited for now, and its request is looked at in the next call.
Lost == {p \in tracked : child[p] = "gone"}
Reap ==
  /\ row' = Closed({i \in Ids : /\ row[i].status = "working"
                                /\ \E p \in Lost : Owner(p) = i})
  /\ tracked' = tracked \ Lost
  /\ child' = [p \in Pids |-> IF child[p] = "zombie" THEN "gone" ELSE child[p]]

Idle == pc = "loop" /\ pending = {} /\ picked = {}

WaitPids ==
  /\ Idle
  /\ Reap
  /\ pc' = "sweep"
  /\ UNCHANGED <<args, creators, locked, tries, pending, picked, seen, current, read, crashes>>

\* What each of the three sweeps may stop; time decides which of them it stops.
Stale == {i \in Ids : Pending(i) /\ row[i].started /\ Command(i) \in StaleCommands}
Dead == {i \in Ids : /\ \/ row[i].status = "working"
                        \/ row[i].status = "busy" /\ Command(i) = "download"
                     /\ row[i].pid # Null
                     /\ child[<<i, row[i].pid>>] = "gone"
                     /\ Command(i) # "move_volume"}
TimedOut == {i \in Ids : /\ row[i].status = "working"
                         /\ args[i].timeout /\ Command(i) # "move_volume"}

\* _kill_stale_process, _kill_dead_process and _timeout_requests, in one step.
KillProcesses ==
  /\ pc = "sweep"
  /\ \E S \in SUBSET (Stale \union Dead \union TimedOut) : Stop(S)
  /\ pc' = "select"
  /\ UNCHANGED <<args, creators, locked, tracked, tries, pending, picked, seen, current, read, crashes>>
-----------------------------------------------------------------------------
(* The daemon: selecting and scanning the rows that may run.               *)

\* A slot no process is left in.  A row with none is not selected until one is
\* reaped: a bound of the model.
FreeSlots(id) == {k \in Slots : child[<<id, k>>] = "gone" /\ <<id, k>> \notin tracked}
MaySelect(id) == /\ row[id].at # "later" /\ FreeSlots(id) # {}
                 /\ id \in creating => args[id].slow

EligibleUnlimited == {i \in Ids : MaySelect(i) /\ row[i].status \in {"requested", "retry"}}
Eligible ==
  {i \in Ids : MaySelect(i) /\ row[i].status \in {"requested", "retry", "waiting"}}

SelectRequests ==
  /\ Idle \/ pc = "select"
  /\ pending' = Eligible /\ seen' = {}
  /\ pc' = "loop"
  /\ UNCHANGED <<table, processes, picked, current, read, crashes>>

\* requirements_done: each of the two fields decides when it is set, and
\* after_request_ok has the last word.
AfterOkFailed(id) ==
  /\ row[id].afterOk # Null
  /\ row[row[id].afterOk].status = "done"
  /\ row[row[id].afterOk].error # ""

RequirementsStarted(id) ==
  row[id].after # Null => row[row[id].after].status \notin {"requested", "retry"}
RequirementsDone(id) ==
  IF row[id].afterOk # Null
  THEN /\ row[row[id].afterOk].status = "done"
       /\ row[row[id].afterOk].error = ""
  ELSE row[id].after # Null => ~Pending(row[id].after)

\* The row after_request_ok names is opened outside an eval.
AfterOkMissing(id) == row[id].afterOk # Null /\ ~Exists(row[id].afterOk)

\* _domain_working: another request runs, or is to be retried, on the machine.
DomainWorking(id) ==
  /\ Command(id) # "list_cpu_models"
  /\ Machine(id) # NoDomain
  /\ \E i \in Ids \ {id} :
       /\ IdDomain(i) = Machine(id)
       /\ Pending(i)
       /\ row[i].status \notin {"requested", "waiting"}
       /\ ~SharesMachine(Command(i))

Twin(id) == <<IdDomain(id), Command(id)>>
IsDuplicated(id) == IdDomain(id) # NoDomain /\ Twin(id) \in seen
CanPickAgain(id) == IsShutdown(Command(id)) \/ ~DomainWorking(id)
CanPick(id) ==
  ~IsDuplicated(id) /\ (IsShutdown(Command(id)) \/ ~DomainWorking(id))

\* The scan of one row, the oldest of those left.
Scanning(id) == pc = "loop" /\ pending # {} /\ id = Earliest(pending)

\* The row is gone, or its requirements are not done yet.
ScanSkip(id) ==
  /\ Scanning(id)
  /\ \/ ~Exists(id)
     \/ /\ Command(id) # "ping_backend"
        /\ ~AfterOkMissing(id) /\ ~AfterOkFailed(id) /\ ~RequirementsDone(id)
  /\ pending' = pending \ {id}
  /\ UNCHANGED <<table, processes, pc, picked, seen, current, read, crashes>>

\* ping_backend is answered on the spot; a request whose predecessor failed
\* takes its error.
ScanClose(id) ==
  /\ Scanning(id) /\ Exists(id)
  /\ \/ Command(id) = "ping_backend"
     \/ ~AfterOkMissing(id) /\ AfterOkFailed(id)
  /\ row' = [row EXCEPT ![id].status = "done",
                        ![id].error = IF Command(id) = "ping_backend" THEN @ ELSE "failed"]
  /\ pending' = pending \ {id}
  /\ UNCHANGED <<args, creators, locked, processes, pc, picked, seen, current, read, crashes>>

ScanPick(id) ==
  /\ Scanning(id) /\ Exists(id) /\ Command(id) # "ping_backend"
  /\ ~AfterOkMissing(id) /\ RequirementsDone(id)
  /\ pending' = pending \ {id}
  /\ picked' = IF CanPick(id) THEN picked \union {id} ELSE picked
  /\ seen' = IF IdDomain(id) = NoDomain THEN seen ELSE seen \union {Twin(id)}
  /\ UNCHANGED <<table, processes, pc, current, read, crashes>>
-----------------------------------------------------------------------------
(* The daemon: executing the rows it picked.                               *)

\* A row closed since it was scanned is dropped; a deleted row has the status
\* "unknown" and is executed.  The write of the status reads the row again.
MayExecuteAnyway(id) == row[id].status # "working"
MayExecute(id) == row[id].status \notin {"done", "working"}
ClaimRequest ==
  /\ pc = "loop" /\ pending = {} /\ picked # {}
  /\ LET id == Foremost(picked) IN
     /\ picked' = picked \ {id}
     /\ IF MayExecute(id)
        THEN /\ pc' = IF Command(id) \in {"clone", "start"} THEN "refresh" ELSE "reap"
             /\ current' = id
             /\ row' = Updated(id, Claimed(row[id]))
             /\ read' = row[id].retry
        ELSE UNCHANGED <<pc, current, row, read>>
  /\ UNCHANGED <<args, creators, locked, processes, pending, seen, crashes>>

StopRefresh ==
  /\ pc = "refresh"
  /\ Stop({i \in Ids : row[i].status = "working" /\ IsRefresh(Command(i))})
  /\ pc' = "reap"
  /\ UNCHANGED <<args, creators, locked, tracked, tries, pending, picked, seen, current, read, crashes>>

ReapBeforeFork ==
  /\ pc = "reap"
  /\ Reap
  /\ pc' = "fork"
  /\ UNCHANGED <<args, creators, locked, tries, pending, picked, seen, current, read, crashes>>

\* _can_fork: the tracked processes of the type whose request is not done.
BusyWorking(type) == {p \in tracked : /\ TypeOf(Command(Owner(p))) = type
                                      /\ row[Owner(p)].status = "working"}
Busy(type) == {p \in tracked : TypeOf(Command(Owner(p))) = type /\ Pending(Owner(p))}
CanForkOneMore(id) ==
  Cardinality(Busy(TypeOf(Command(id)))) <= Limit(TypeOf(Command(id)))
CanFork(id) ==
  Cardinality(Busy(TypeOf(Command(id)))) < Limit(TypeOf(Command(id)))

WaitForLimit ==
  /\ pc = "fork" /\ ~CanFork(current)
  /\ row' = Updated(current, Limited(row[current]))
  /\ pc' = "loop" /\ current' = Null
  /\ UNCHANGED <<args, creators, locked, processes, pending, picked, seen, read, crashes>>

\* fork, _add_pid and the write of the pid.  The process has the daemon's copy
\* of the row.
Fork ==
  /\ pc = "fork" /\ CanFork(current)
  /\ FreeSlots(current) # {}
  /\ LET k == Earliest(FreeSlots(current)) IN
     /\ child' = [child EXCEPT ![<<current, k>>] = "forked"]
     /\ tracked' = tracked \union {<<current, k>>}
     /\ tries' = [tries EXCEPT ![<<current, k>>] = read]
     /\ row' = Updated(current, [row[current] EXCEPT !.pid = k])
  /\ pc' = "loop" /\ current' = Null
  /\ UNCHANGED <<args, creators, locked, pending, picked, seen, read, crashes>>
-----------------------------------------------------------------------------
(* A process of the daemon: _do_execute_command.                           *)

ChildAt(p, phase) == child[p] = phase
Becomes(p, phase) == child' = [child EXCEPT ![p] = phase]
Reads(p, retry) == tries' = [tries EXCEPT ![p] = retry]

\* A row that is "working" already is not written, and so not read again.
ChildStart(p) ==
  /\ ChildAt(p, "forked")
  /\ LET id == Owner(p) IN
     /\ row' = Updated(id, Started(row[id], p[2]))
     /\ locked' = Locked(id, id)
     /\ Reads(p, IF row[id].status = "working" THEN tries[p] ELSE row[id].retry)
  /\ Becomes(p, "body")
  /\ UNCHANGED <<args, creators, tracked, daemon, crashes>>

\* What the bodies below do to rows they do not own: remove, or done.
Cleaned(deleted, closed) ==
  [i \in Ids |-> IF i \in deleted THEN [row[i] EXCEPT !.status = "deleted"]
                 ELSE IF i \in closed THEN [row[i] EXCEPT !.status = "done"]
                 ELSE row[i]]
OthersOn(id, d, commands) ==
  {i \in Ids \ {id} : /\ Pending(i) /\ IdDomain(i) = d /\ Command(i) \in commands
                      /\ Command(id) = "refresh_vms" => row[i].at # "later"}

\* The body deletes or closes other pending requests of a machine.  Only
\* refresh_vms looks at machines other than its own, and it leaves alone what
\* is scheduled for later.
BodyCleans(p) ==
  /\ ChildAt(p, "body")
  /\ LET id == Owner(p) IN
     \E d \in Domains :
       /\ Command(id) = "refresh_vms" \/ d = Machine(id)
       /\ LET deleted == OthersOn(id, d, DeletedBy(Command(id)))
              closed == OthersOn(id, d, ClosedBy(Command(id)))
          IN deleted \union closed # {} /\ row' = Cleaned(deleted, closed)
  /\ UNCHANGED <<args, creators, locked, processes, daemon, crashes>>

\* The body writes what it is doing in its status, or "working" again.  (The
\* text of a download starts with "downloading", that of the others with
\* nothing the daemon looks for.)
BodyTells(p) ==
  /\ ChildAt(p, "body") /\ args[Owner(p)].tells
  /\ \E status \in {"busy", "working"} :
       /\ row[Owner(p)].status # status
       /\ row' = Updated(Owner(p), [row[Owner(p)] EXCEPT !.status = status])
  /\ Reads(p, row[Owner(p)].retry)
  /\ UNCHANGED <<args, creators, locked, child, tracked, daemon, crashes>>

\* refresh_vms deletes the others still requested: _clean_requests.
BodyCleansRequested(p) ==
  /\ ChildAt(p, "body") /\ Command(Owner(p)) = "refresh_vms"
  /\ LET others == {i \in Ids \ {Owner(p)} : /\ Command(i) = "refresh_vms"
                                             /\ row[i].status = "requested"}
     IN others # {} /\ row' = Cleaned(others, {})
  /\ UNCHANGED <<args, creators, locked, processes, daemon, crashes>>

\* The body returned, or died with an error that asks for no retry.
ChildFinish(p) ==
  /\ ChildAt(p, "body")
  /\ LET id == Owner(p) IN
     /\ \E error \in {"", "failed"} : row' = Updated(id, Ended(row[id], error))
     /\ locked' = Locked(id, Null)
  /\ Becomes(p, "closing")
  /\ UNCHANGED <<args, creators, tracked, tries, daemon, crashes>>

\* prepare_base of a running machine asks for its shutdown, the next request
\* created, and for another try after it.  (A prepare_base with no retry field
\* counts as one with a try more than the five it is then given.)
ChildDefer(p) ==
  /\ ChildAt(p, "body")
  /\ LET id == Owner(p) IN
     /\ Command(id) = "prepare_base" /\ tries[p] > 0
     /\ \E n \in Ids :
          /\ NextId(n) /\ Command(n) = "shutdown" /\ IdDomain(n) = IdDomain(id)
          /\ row' = [Updated(id, Deferred(row[id], n, tries[p] - 1)) EXCEPT ![n] = NewRow(n)]
     /\ locked' = Locked(id, Null)
  /\ Becomes(p, "closing")
  /\ UNCHANGED <<args, creators, tracked, tries, daemon, crashes>>

\* The body died with an error that ends in "retry" and the process read that
\* tries are left: the status is written first.  With none left it is done.
ChildRetry(p) ==
  /\ ChildAt(p, "body")
  /\ LET id == Owner(p) IN
     /\ row' = Updated(id, Retried(row[id], tries[p]))
     /\ locked' = Locked(id, Null)
     /\ IF tries[p] > 0 THEN Becomes(p, "again") /\ Reads(p, tries[p] - 1)
                        ELSE Becomes(p, "closing") /\ UNCHANGED tries
  /\ UNCHANGED <<args, creators, tracked, daemon, crashes>>

\* Then at_time, and the retry field with one less than the process had read.
ChildRetryLater(p) ==
  /\ ChildAt(p, "again")
  /\ row' = Updated(Owner(p), RetriedLater(row[Owner(p)], tries[p]))
  /\ Becomes(p, "closing")
  /\ UNCHANGED <<args, creators, locked, tracked, tries, daemon, crashes>>

\* _set_domain_changed, then exit.
ChildExit(p) ==
  /\ ChildAt(p, "closing")
  /\ locked' = Locked(Owner(p), Null)
  /\ Becomes(p, "zombie")
  /\ UNCHANGED <<args, row, creators, tracked, tries, daemon, crashes>>
-----------------------------------------------------------------------------
(* The daemon dies, and systemd kills the processes it left.               *)

Down ==
  /\ child' = [p \in Pids |-> "gone"]
  /\ tracked' = {}
  /\ pc' = "down"
  /\ pending' = {} /\ picked' = {} /\ seen' = {} /\ current' = Null

Crash ==
  /\ pc # "down" /\ crashes < MaxCrash
  /\ crashes' = crashes + 1
  /\ Down
  /\ UNCHANGED <<table, tries, read>>

\* A process is killed from outside, or dies in a way no eval catches.
ChildDies(p) ==
  /\ Alive(p) /\ crashes < MaxCrash
  /\ crashes' = crashes + 1
  /\ Becomes(p, "zombie")
  /\ UNCHANGED <<table, tracked, tries, daemon>>

Failure == Crash \/ \E p \in Pids : ChildDies(p)

\* requirements_done dies on a missing after_request_ok; nothing catches it.
ScanDie(id) ==
  /\ Scanning(id) /\ Exists(id) /\ Command(id) # "ping_backend"
  /\ AfterOkMissing(id)
  /\ Down
  /\ UNCHANGED <<table, tries, read, crashes>>

\* clean_old_requests, and the _clean_requests of do_start.
Restart ==
  /\ pc = "down"
  /\ row' = [i \in Ids |->
       CASE Pending(i) /\ row[i].status # "requested" -> [row[i] EXCEPT !.status = "done"]
         [] row[i].status = "requested" /\ Command(i) \in DeletedAtRestart ->
              [row[i] EXCEPT !.status = "deleted"]
         [] OTHER -> row[i]]
  /\ pc' = "loop"
  /\ UNCHANGED <<args, creators, locked, processes, pending, picked, seen, current, read, crashes>>
-----------------------------------------------------------------------------
\* The history variables follow every step.
History ==
  /\ finished' = finished \union {i \in Ids : row'[i].status = "done"}
  /\ postponed' = postponed \union
       {i \in Ids : /\ row[i].status \notin {"absent", "requested", "waiting", "retry"}
                    /\ row'[i].status \in {"requested", "waiting", "retry"}}
  /\ early' = early \union ((picked' \ picked) \cap creating)
  /\ succeeded' = succeeded \union
       {i \in Ids : \E k \in Slots : /\ child[<<i, k>>] = "body"
                                     /\ child'[<<i, k>>] = "closing"
                                     /\ row'[i].error = ""}

Daemon ==
  \/ WaitPids \/ KillProcesses \/ SelectRequests \/ ClaimRequest
  \/ StopRefresh \/ ReapBeforeFork \/ WaitForLimit \/ Fork \/ Restart
  \/ \E id \in Ids : ScanSkip(id) \/ ScanClose(id) \/ ScanPick(id) \/ ScanDie(id)

Process(p) ==
  \/ ChildStart(p) \/ BodyTells(p) \/ BodyCleans(p) \/ BodyCleansRequested(p)
  \/ ChildFinish(p) \/ ChildDefer(p) \/ ChildRetry(p)
  \/ ChildRetryLater(p) \/ ChildExit(p)

Creator(id) == ValidateRequest(id) \/ ReadStatus(id) \/ ConfirmRequest(id)
Front(id) == CreateRequest(id) \/ Creator(id) \/ ComesDue(id)

Next ==
  /\ \/ Daemon
     \/ \E p \in Pids : Process(p)
     \/ \E id \in Ids : Front(id)
     \/ Failure
  /\ History

Spec == Init /\ [][Next]_vars

\* The daemon loops for ever and systemd restarts it, a minute passes again and
\* again between two of its passes, a command ends, and the time a request was
\* scheduled for passes.
FairSpec ==
  /\ Spec
  /\ WF_vars(Daemon /\ History)
  /\ SF_vars(WaitPids /\ History)
  /\ \A p \in Pids : WF_vars(Process(p) /\ History)
  /\ \A id \in Ids : WF_vars((Creator(id) \/ ComesDue(id)) /\ History)
-----------------------------------------------------------------------------
\* Every variable stays in its type.
TypeOK ==
  /\ args \in Workloads
  /\ row \in [Ids -> Row]
  /\ creating \subseteq Ids /\ validated \subseteq Ids /\ confirming \subseteq Ids
  /\ locked \in [Domains -> Ids \union {Null}]
  /\ child \in [Pids -> Phases]
  /\ tracked \subseteq Pids /\ tries \in [Pids -> Nat]
  /\ pc \in Stages
  /\ pending \subseteq Ids /\ picked \subseteq Ids
  /\ seen \subseteq (Domains \union {NoDomain}) \X STRING
  /\ current \in Ids \union {Null} /\ read \in Nat
  /\ crashes \in 0 .. MaxCrash
  /\ finished \subseteq Ids /\ postponed \subseteq Ids
  /\ early \subseteq Ids /\ succeeded \subseteq Ids

\* No two processes execute one request, unless the request was put back in
\* the queue after it had started: by the limit of its type (_can_fork leaves
\* it "waiting" after the next fork) or by a retry (_do_execute_command writes
\* "requested" before it writes when).
SingleRun ==
  \A id \in Ids : \A k, l \in Slots :
    Alive(<<id, k>>) /\ Alive(<<id, l>>) /\ k # l => id \in postponed

\* The processes at work for a request still open.  As the types of Ravada see
\* them, they are the workers of pools of a fixed size.
OpenWork ==
  {p \in Pids : Alive(p) /\ Exists(Owner(p)) /\ Owner(p) \notin finished}

Pool == INSTANCE WorkerPool
  WITH Workers <- Pids, Kinds <- Types, Cap <- [t \in Types |-> Limit(t)],
       kind <- [p \in Pids |-> TypeOf(Command(Owner(p)))], work <- OpenWork

\* The processes of a type that work for a request still open are never more
\* than the limit %COMMAND gives the type, however many passes, kills, waits
\* and retries lie between their forks.
LimitRespected == Pool!Bounded

\* The queue behaves as one pool for each type, seen from its processes: one
\* is added when there is room, and any number of them may leave at once.
IsWorkerPool == Pool!Spec

\* Two requests for the same command on the same machine are not both working,
\* though each was picked by a scan that saw the table at another moment.
\* (Shutdowns, what shares the machine and list_cpu_models may.)
MachineExclusion ==
  \A i, j \in Ids :
    /\ i # j
    /\ {row[i].status, row[j].status} \subseteq {"working", "busy"}
    /\ IdDomain(i) # NoDomain /\ Twin(i) = Twin(j)
    /\ ~IsShutdown(Command(i)) /\ ~SharesMachine(Command(i))
    /\ Command(i) # "list_cpu_models"
    => {i, j} \cap (postponed \union finished) # {}

\* A request that names another in after_request alone gets its process only
\* when the other has been done, or was deleted, even though the daemon forks
\* long after it scanned the row.  (Not so for a request the daemon picked
\* before its creator had finished with it, or that was postponed.)
Forked(p) == child[p] # "forked" /\ child'[p] = "forked"
RunsAfter ==
  [][\A p \in Pids :
       Forked(p) => LET id == Owner(p)
                        before == row[id].after
                    IN \/ before = Null \/ row[id].afterOk # Null
                       \/ before \in finished \/ ~Exists(before)
                       \/ id \in postponed \union early]_vars

\* Once no process runs a done request and the daemon is not executing it, it
\* stays done: no scan, retry, sweep or restart runs it again, nor does its
\* creator open it, unless the request ended after its creator had read that it
\* was not done and before it wrote "requested".
DoneIsFinal ==
  [][\A id \in Ids :
       row[id].status = "done" /\ ~Running(id) /\ current # id /\ id \notin confirming
         => row'[id].status = "done"]_vars

\* Every request is closed in the end, in spite of limits, retries (of two
\* processes at once too, whose tries are counted from what each had read),
\* kills, a predecessor that fails and a daemon that restarts.
EveryRequestCloses ==
  \A id \in Ids : row[id].status # "absent" ~> row[id].status \in {"done", "deleted"}
-----------------------------------------------------------------------------
(* What the source says of the queue and the queue does not do.            *)

\* A request that names another in after_request is never executed before the
\* other is done (the text above requirements_done).  The row can be selected
\* as soon as it is inserted, and the validators name the other only later.
AfterRequestHonoured ==
  [][\A p \in Pids :
       Forked(p) => LET before == row[Owner(p)].after IN
                    \/ before = Null \/ before \in finished \/ ~Exists(before)]_vars

\* A request that names another in after_request_ok is executed only if the
\* body of the other ended without an error.  A request that was killed is
\* done, and its error is empty.
AfterOkHonoured ==
  [][\A p \in Pids :
       Forked(p) => LET before == row[Owner(p)].afterOk IN
                    before = Null \/ before \in succeeded]_vars

\* Each change of hardware waits for an earlier one, so no two wait for each
\* other.  Both creators may find the row of the other.
NoCircularWait ==
  \A i, j \in Ids : Pending(i) /\ Pending(j) => ~(row[i].after = j /\ row[j].after = i)
=============================================================================
