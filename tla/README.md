# A TLA+ model of Ravada

Ravada is a broker of virtual desktops. A web front end (`script/rvd_front`) and
a daemon (`script/rvd_back`) share a database: the front end inserts *requests*,
the daemon executes them in processes it forks, and the machines run in KVM,
Proxmox or mock hypervisors on one or several nodes. This directory holds the
model of the parts of it that are hard to test, the runs that check the model
with TLC, and the theorems about it that TLAPS proves.

    tlasany RequestQueue.tla                          # parse
    tlc -workers 2 -config queue.cfg MCRequestQueue   # check
    tlc -workers 2 -config pages.cfg MCPages
    tlapm RequestQueue_proofs.tla                     # prove
    tlapm RunMachine_proofs.tla                       # and so for each *_proofs

`PROJECT.json` lists the runs, the source lines each definition stands for, the
hazards of the code, what disagrees with its documentation, and the theorems.

## The system

Paths are under `src/`; `Ravada.pm` and the others are in `lib/`.

| Component | State | Operations | What makes it correct |
|---|---|---|---|
| Request queue (`Ravada/Request.pm`) | table `requests`: status, after_request, after_request_ok, retry, at_time, pid, error; column `domains.is_locked` | `_new_request`, validators, `status`, `stop`, `requirements_done` | a request runs once, after those it waits for, and ends |
| Daemon loop (`Ravada.pm`, `script/rvd_back`) | `{pids}`, the list of a pass, `%duplicated` | `process_requests`, `_execute`, `_can_fork`, `_wait_pids`, the three sweeps, `clean_old_requests` | limits for each type, exclusion on a machine, recovery after a crash |
| Processes of the daemon (`Ravada.pm`) | own pid, own row | `_do_execute_command` and 100 `_cmd_*` bodies | the row tells the truth about the process |
| Duplicates (`Ravada/Request.pm`) | rows recently done | `_duplicated_request`, `done_recently` | at most one open request of the kinds that allow no second |
| Machines (`Ravada/Domain.pm`) | status, base, clones, volumes, locks | start, shutdown, hibernate, prepare_base, clone, remove, autostart | a base is never started or lost while it has clones; a machine runs in one place |
| Nodes (`Ravada/VM.pm`, `Ravada/Domain.pm`) | enabled, active, `bases_vm`, instances | set_base_vm, migrate, rsync, balance | a clone starts only where its base is |
| Exposed ports (`Ravada/Domain.pm`) | `domain_ports`, iptables rules | expose, open, close | no public port is given twice, rules go away with the machine |
| Host devices (`Ravada/HostDevice.pm`, `Ravada/Domain.pm`) | `host_devices_domain_locked` | attach at start, unlock at shutdown | a device is in one machine at a time |
| Pools (`Ravada.pm`, `Ravada/Domain.pm`) | `is_pool` clones and their owner | manage_pools, `_search_pool_clone` | a clone has one user; the pool keeps its size |
| Bookings (`Ravada/Booking.pm`) | bookings and their entries | create, change, remove, check on start | an entry excludes others of the same base and time |
| Users and grants (`Ravada/Auth/SQL.pm`, `Ravada/Front/Domain.pm`) | grants, groups, access rules | grant, revoke, is_operator, access lists | who may do what is the sum of grants and groups |
| External authentication (`Ravada/Auth/*.pm`) | a connection | login | input and output |
| Drivers (`Ravada/Domain/*.pm`, `Ravada/VM/*.pm`, `Ravada/Volume*`, `Ravada/NetInterface*`) | hypervisor, files | libvirt, REST, qemu-img | translation |
| Front end (`Ravada/Front.pm`, `script/rvd_front`) | sessions | routes that read a table or insert a request | a page is told what the tables hold |
| Channels (`Ravada/WebSocket.pm`) | for each web socket: its channel, what was last sent, what the page asked to see | a tick of two or three seconds, commands of the page | every change is sent some time |
| Pages (`public/js/ravada.js`, `admin.js`, `booking/*.js`) | `$scope`, sockets, timers, calls under way | messages, answers, timers, clicks | what is shown, and what a click acts on, is what the user means, though each message may be old |
| Schema and installation (`Ravada.pm`, `sql/`) | tables | upgrades | run once |

Everything meets in the table of requests. The front end and the bodies of
running requests insert rows; the daemon reads them in passes; each forked
process updates its own row, closes or deletes others of its machine, and asks
for more. No two of these steps are in one transaction and none holds a lock,
so the order of single visits to the table is what the properties are about.
The pages meet the same tables from the other side. A page never sees a table: it
sees snapshots that come in web sockets, each socket in its own order, and answers
of calls, in any order. Each handler writes a few fields of one `$scope` and reads
others that came earlier from elsewhere. None of them waits for another and the
repository has no test of them, so the order of messages, answers, timers and clicks is
what the properties of the pages are about.
The hard behaviours are listed at their lines under `hazards` in
`PROJECT.json`.

## Modules

| Module | What it is |
|---|---|
| `RequestTypes` | the static tables of requests: types, limits, priorities, the sets of commands the daemon treats apart |
| `WorkerPool` | the abstract promise of `%COMMAND`: one pool of workers for each type, with a cap |
| `RequestQueue` | the queue, the daemon, its processes, the creators of requests, crash and restart |
| `MCRequestQueue` | small workloads for TLC |
| `RequestQueue_proofs` | the theorems about `RequestQueue`: types, runs, limits, the refinement, and of two requests their exclusion on a machine and their order |
| `RunMachine` | the page that waits for a machine to start, or to be cloned and started, and shows its display; with the requests and sockets it listens to |
| `RunMachine_proofs` | the theorems about `RunMachine` |
| `Sorting`, `Sorting_proofs` | the rows of a query with ORDER BY and those of a list that meet a condition, and lemmas about them |
| `UserMachines`, `UserMachines_proofs` | the list of a user: bases, the clone chosen of each, start, shutdown, restore |
| `MachineList`, `MachineList_proofs` | the administrator's list of machines, with what the server keeps of it for each socket |
| `MachineSettings`, `MachineSettings_proofs` | the settings of one machine: hardware, disks, options, the requests that change them |
| `AccessLists` | who may use a machine: ordered grants with a default, groups, shares, host devices |
| `Booking` | the calendar, the form of an entry, and the server's tables of bookings and entries |
| `Booking_proofs` | the inductive invariants of `Booking`: types, and what keeps entries apart |
| `Administration` | nodes, options and host devices of a node, unused volumes, the forms of new machines and nodes |
| `Pages` | composes `AccessLists`, `Booking` and `Administration`: one page is open in a behaviour |
| `Pages_proofs` | the inductive invariants of `AccessLists` and `Administration`, and the theorems about `Pages` |
| `MCRunMachine`, `MCUserMachines`, `MCMachineList`, `MCMachineSettings`, `MCPages` | small instances for TLC |

### RequestQueue: state and steps

A run fixes in `args` which requests will be created (command, machine, whom
they wait for, retries, at_time, timeout); when each is created is open. `row` is
the table, `creating` the rows whose creator is still inside `_new_request`,
`locked` the column `is_locked`. The daemon is `pc`, the rows of the pass
(`pending`, `picked`), `%duplicated` (`seen`) and the row in `_execute`
(`current`). A process is `<<request, slot>>`, `child` tells where it is in
`_do_execute_command`, `tries` is the retry field as that process read it (and `read` as
`_execute` read it), `tracked` is `$self->{pids}`. Four history variables
record what has happened; no step reads them.

| Steps | Code |
|---|---|
| `CreateRequest`, `ValidateRequest`, `ReadStatus`, `ConfirmRequest` | `_new_request` up to the INSERT; then `_validate`; then the status is read; then one that was not done gets `status('requested')`, whatever it has become since, and its machine is locked: each a visit of its own to the table |
| `ComesDue` | the at_time of a row passes |
| `WaitPids`, `KillProcesses` | the work of each minute: `_wait_pids`; `_kill_stale_process`, `_kill_dead_process`, `_timeout_requests` |
| `SelectRequests`, `ScanSkip`, `ScanClose`, `ScanPick`, `ScanDie` | the SELECT of `process_requests` and its loop over the rows, one row a step |
| `ClaimRequest`, `StopRefresh`, `ReapBeforeFork`, `WaitForLimit`, `Fork` | the loop over the rows picked and `_execute`, one visit to the table a step |
| `ChildStart`, `ChildFinish`, `ChildRetry`, `ChildRetryLater`, `ChildExit` | `_do_execute_command` and `_set_domain_changed` |
| `BodyTells`, `BodyCleans`, `BodyCleansRequested`, `ChildDefer` | what bodies do to the queue: a status text of their own, requests closed or deleted (shutdown, prepare_base, refresh_vms), a prepare_base that asks for a shutdown and waits for it |
| `Crash`, `ChildDies`, `Restart` | the daemon and its processes die; a process dies; `clean_old_requests` and the cleaning of `do_start` |

The result of a body is open: no error, an error, or an error that asks for a
retry. The requests `rvd_back` itself creates when it starts and once a minute are
`CreateRequest` steps like any other.

Abstractions: time is not counted (a row scheduled for later may come due, and
a row that started may be stale or timed out, at any moment); the three sweeps
are one step that stops any subset of what they may stop; `SIGTERM` ends a
process at once; the check for duplicates before the INSERT is left to
`RequestCreate`, so a workload simply creates what passed it; `_kill_requests`'
passing status "stopping" is skipped, since the daemon alone writes and leaves it.

### The pages: state and steps

All the page modules are made alike. Variables named as in `$scope` are the page;
those of the server are what the tables hold; between them are queues of messages
(one for each socket, in order) and a sequence of calls under way (in any order: a
call is handled by the server in one step, unless the code visits the table field by field,
and its answer by the page in another). A message or an answer carries the snapshot taken when it was sent. Where the code keeps
references to objects of a list, the model keeps places in it, so that an object
that is replaced is told from one that is changed. A *story* bounds what users and
the world may still do (clicks, changes by others, connections lost); which of
them happens, when, and with which value is open. What belongs to the layout, the wording and the
waiting times is left out, and so are fields that no handler reads together
with another.

| Module | Steps | Code |
|---|---|---|
| `RunMachine` | `ServerWorks` .. `ServerEnds`, `ServerTick` | the daemon on the request followed and those of its machine; one tick of a socket |
| | `OnRequest`, `OnBaseInfo`, `OnMachineInfo` | `subscribe_request` and `subscribe_domain_info` of `run_domain_req_ctrl`, which open further sockets, count down (`redirect_time`) and open the viewer (`Redirects`); a message of the base does so too, with the machine shown before |
| | `ClickDisplay` | the links of `machine_displays.html.ep`, which call `redirect` |
| | `ConnectionLost`, `OnClose`, `SubscribeAll` | every socket closes; each reports it five seconds later; "connect again" |
| | `ServerPost`, `AnswerFirst`, `AnswerRefresh`, `AnswerReopen`, `ReloadPorts` | the chained calls about ports |
| `UserMachines` | `Publish`, `ChangeClone`, `SwitchPower`, `PreparedBase`, `Tick` | the tables of `list_machines_user` and the channel |
| | `OnList` | `subscribe_list_machines_user`: `copy_machine_data`, `set_one_clone`, `change_clone` |
| | `StartActive`, `CheckMaxMachines`, `ServerAnswers`, `OnRoom`, `OnFull`, `ConfirmingStop*` | start with the limit of machines, asked of the server and then of the user |
| | `Shutdown`, `AskRestore`, `AskPrepare`, ... | the other buttons, which act on the clone chosen when they are answered |
| `MachineList` | `SwitchPower`, `Rename`, `AddOrRemove` | the table `domains` and its dates |
| | `ServerReceives`, `TickWhole`, `TickRefresh`, `TickTooSoon` | `subscribe`, `manage_action` and `_list_machines_tree` of `WebSocket.pm`: what each socket asked to see, whole lists and lists of changes |
| | `OnMessage`, `Dropped` | `subscribe_list_machines` of `admin.js`: by place, by id, and the rows shown |
| | `ToggleShowClones`, `ToggleShowActive`, `TypeFilter`, `ReloadList`, `OpenModal`, `SubscribeListMachines`, `OnOpen`, `OnClose` | the controls of the page and its connection |
| `MachineSettings` | `InfoLoaded`, `OnInfo`, `ToggleEdit`, `TypeCpu` | GET `/machine/info`, `subscribe_machine_info`, `lock_info` |
| | `ChangeHardware`, `AddHardware`, `AskRemove`, `RemoveHardware`, `OnAnswer`, `OnWatch` | `$scope.request`, the dialogs and the banner of the requests |
| | `EditOptions`, `UpdateOptions`, `SetField`, `Screenshot` | options and screenshots |
| `AccessLists` | `AddAccess`, `DeleteAccess`, `MoveAccess`, `SetAccess` | the ordered grants of LDAP attributes and clients, `_fix_default_access` and its siblings in `Domain.pm` |
| | `AddGroup`, `RemoveGroup`, `ShareMachine`, `ToggleHostDevice`, ... | the group components, shares and host devices |
| `Booking` | `ServerReads`, `ServerSaves`, `ServerChanges`, `ServerRemoves` | `Ravada::Booking` and `Booking::Entry` |
| | `NewEntry`, `EditEntry`, `SetDate` .. `ToggleDow`, `Save`, `AskWhich`, `Confirm`, `Cancel` | the calendar, the form and its modals |
| | `OnCheck`, `OnFetch`, `OnSaved`, `OnRead` | the answers |
| `Administration` | `Poll`, `ClickNode`, `ConfirmDisable`, `AnswerDialog`, `NodesHandled`, `NodesDone` | `manage_nodes`, its interval and its dialog |
| | `OnNodeInfo`, `EditNode`, `CancelEdits`, `UpdateNode`, `InfoBack` | `settings_node`: the form, the messages and the error of a save |
| | `InfoReads`, `InfoWrites`, `InfoHandled` | `_update_fields`: one field after another, until one fails |
| | `OnDevices`, `UpdateHostDevice`, `RemoveHostDevice`, `DevicesDone` | host devices, merged by place and date |
| | `More`, `RemoveSelected`, `OnUnused` | pages of unused volumes |
| | `TypeName`, `TypeHostname`, `ChooseBackend`, `OnImages` | `newMachineCtrl`, `newNodeCtrl` |

## Properties and runs

| Run | Shows | States |
|---|---|---|
| `queue.cfg` | `TypeOK`, `SingleRun`, `MachineExclusion`, `RunsAfter`, `DoneIsFinal`, `IsWorkerPool` over fifteen pairs of requests, one failure | 208 000 |
| `stories.cfg` | `SingleRun`, `LimitRespected` over seven longer stories, no failure | 469 000 |
| `closes.cfg` | `EveryRequestCloses` under fairness, seven pairs of requests, one of them retried, one failure, deadlock checked | 108 000 |
| `late_order.cfg` | violated: `AfterRequestHonoured` | |
| `killed_ok.cfg` | violated: `AfterOkHonoured` | |
| `two_changes.cfg` | violated: `NoCircularWait` | |
| `run_machine.cfg` | `TypeOK`, `RedirectAfterStart`, `ConnectionTold`, `EndsUp` over a start and a clone, with a lost connection, a shutdown or a reload of the ports | 486 000 |
| `user_machines.cfg` | `TypeOK`, `ClonePresent`, `ChoiceKept`, `ListSettles` over three tables, two changes of each | 405 000 |
| `machine_list.cfg` | `TypeOK`, `ShownOnce`, `ListSettles`, `MeantVisible` over four stories | 150 000 |
| `machine_settings.cfg` | `TypeOK`, `InfoSettles`, `BannerEnds`, `ScreenshotEnds` over seven stories | 127 000 |
| `removed_disk.cfg` | violated: `RemovedIsNamed` | |
| `pages.cfg` | `TypeOK`, `DefaultIsLast`, `NoOverlap`, `NothingSkipped`, `AccessSettles`, `GroupsAsAsked`, `CalendarSettles`, `NodesSettle`, `NodeInfoSettles`, `RowsSettle`, `NewMachineSettles` over a story or more of each page | 284 000 |

* `SingleRun`: two processes never execute one request, unless it was put back
  in the queue after it had started. The exception is real. A request over its
  limit stays "waiting" when it is taken again, until its process writes
  "working", so the next pass may fork it twice; a retry is "requested" before it
  is scheduled.
* `MachineExclusion`: two requests for the same command on the same machine are
  not both at work. It is stated for equal commands on purpose: the check for
  different commands in one pass compares keys that are never set
  (`Ravada.pm:4234` and `4237`). `list_cpu_models` is left out: `_domain_working`
  returns at once for it (`Ravada.pm:4468`), so two passes may pick two of them.
* `RunsAfter`: a request that names another in after_request is forked only when
  the other has been done or deleted, although the table changes between scan and
  fork.
* `DoneIsFinal`: a done request that no process runs and the daemon is not
  executing stays done. One actor is excused, because the code lets it: a creator
  that has read that its request is not done may still write "requested" after it
  is (`Request.pm:851`), and the request runs again.
* `LimitRespected` and `IsWorkerPool`: counted from the processes, not from the
  daemon's bookkeeping, no type has more processes at work for open requests
  than its limit, and the queue is a refinement of one pool a type.
* `EveryRequestCloses`: in spite of limits, retries, failed predecessors, a dead
  process or a daemon that restarts. A retried request may have two processes at
  once, each counting its tries from what it read; it is closed all the same.

Of the pages:

* `RedirectAfterStart`: the page opens the viewer, and schedules the logout by itself, only
  when the start has ended. It decides it from five fields of three sources; the
  request it follows is done before the machine's start when it is a clone, the
  machine of a volatile clone is active before, and each message of the base counts
  down again with the machine shown before. The links of a display schedule the logout when
  they are clicked (`ClickDisplay`), with none of these conditions; the property leaves
  that to the user.
* `ConnectionTold`: whatever the order of closing sockets, their delayed reports
  and "connect again", a page that says nothing has a connection.
* `EndsUp`: a machine that stays up with nothing pending is shown in the end, though
  messages of the base it was cloned from came first.
* `ClonePresent`, `ChoiceKept`: the clone start, shutdown and restore act on is one of
  those listed, and the user's choice outlives a new list with the same clones.
* `ListSettles` (of both lists): the rows merged in place come to be the server's.
  In `MachineList` rows are compared by dates in seconds, sockets can be two, and what to list is kept in the server.
* `ShownOnce`: no machine in two rows, whatever was merged before.
* `MeantVisible`: what a filter or "show active" means comes to be visible, provided
  the server was told. It may not be told: a command sent as the first message of a
  socket only makes the client.
* `InfoSettles`, `BannerEnds`, `ScreenshotEnds`: what is typed over, refused or answered
  late leaves nothing behind.
* `DefaultIsLast`, `AccessSettles`, `GroupsAsAsked`: the default of ordered grants
  stays last, and the lists come to agree with the server, whatever order two
  calls of one click are handled in.
* `NoOverlap`, `CalendarSettles`: a time is not booked twice though conflicts are
  looked for only when some fields change; the calendar fetches what was saved.
* `NodesSettle`, `NodeInfoSettles`, `RowsSettle`, `NothingSkipped`,
  `NewMachineSettles`: what the administrator's pages show in the end. A save of a node that
  stopped at a field leaves the form with values that were not saved and no message
  corrects it: `NodeInfoSettles` asks that the page then shows the error.

**Conditions.** Several of these hold only for a user who waits, and the property
says so. *Patient* (`AccessLists`, `Administration`) is one who clicks again when
every answer has been shown; *careful* (`Booking`) waits for each answer, changes only "this
event", and nobody else books; *quick* (host devices) lets two changes come in one
second. The stories that are hasty, careless or quick are run too, for the other
properties. What fails for them is under `hazards`: a default moved away from its place
by two moves computed from one list; a booking saved with the answer to an earlier
form or into a time taken meanwhile, since the server does not look for conflicts when it saves; the
entries of a booking changed together, of which all but the edited one take only some of its
fields, in the order of a hash, while no error is answered (`Entry.pm:307`); a row of a device left as it was because its date is the same second's.

The four violated properties are sentences of the source that the code does not
keep; `findings` in `PROJECT.json` quotes each and tells the trace.

**Bounds of the queue.** Three requests, one machine, two process slots for each request, one
failure (none in the longer stories). Every rule of the queue relates two
requests, or a request and one it waits for; `queue.cfg` runs fifteen such pairs,
at least one for each rule, with a failure at every point; in `stories.cfg` a third request deletes, closes or
overtakes the others, or is the shutdown a prepare_base asks for. The limit of
`huge` is 1, so two downloads go over it. Two slots suffice to see a second
process of a request; an ended slot is used again, and a row whose slots are both
in use is not selected until one of them is free. Two flags of a request bound the interleavings and nothing else:
`slow` (its row is selected before its creator has finished) and `tells` (its body
writes texts in its status). The workloads that need them set them.

**Bounds of the pages.** Handlers relate a message to one that came before it, to a
click in between, or to a message of another socket. So each run has two sockets where
the page may have two (`Sockets`, `MaxSockets`), one message of each on its way
(`MaxUnderWay`; `MaxUnread` is 2 where messages may overtake a click), and calls without
a bound but that of the clicks that make them. Lists are as short as a merge by place
can go wrong in: two machines with two clones of one; three rows, a base, its
clone and another; two groups; two nodes, one with machines; two host devices; five
volumes in pages of two, so that there is a third page. The calendar has three
days, two hours, weeks of two days and a booking on days 1 and 3, so
an entry can be weekly, overlap in part and end before it starts again. Stories are
combinations of two or three kinds of events, at most four clicks; each is named in the
MC module. Every action fires in at least one of them.

**Fairness of the queue.** `FairSpec` asks that the daemon keeps looping and systemd restarts
it (weak fairness of its next step), that a minute passes again and again between
two passes (strong fairness of `WaitPids`, whose guard holds only between passes),
that each process goes on, a creator finishes and a scheduled time comes. It does
not ask for new requests, for failures, or for any given result of a body.

**Fairness of the pages.** The server's timer goes on for ever (`WebSocket.pm` sets it
for each channel), the browser handles what has arrived, sockets that are opening
open, calls are handled and answered, and the daemon does what is asked: weak
fairness of those steps, for each socket apart. Two need more words. `TickWhole` of `MachineList` has strong
fairness: at least each sixtieth tick sends a whole list, but lists of changes and answers to commands
disable it in between. `Polls` is the interval of thirty seconds, which is
enabled unless a dialog is open. Nothing is owed by users: no click, no dialog
closed, no button "connect again", so each property says what it excuses (a dialog left open,
a closed socket).

`EveryRequestCloses` is checked for requests whose bodies write no texts of
their own: one that wrote its text and died leaves a row that no sweep looks at
until the daemon restarts. It is false of requests that wait for each
other in a circle (`two_changes.cfg`). The retried request of the run is a command that
fails; a prepare_base, which also asks for a shutdown and waits for it, is too large for a
liveness run, and is in `stories.cfg` for safety alone.

## Theorems

Every invariant that a passing run checks, and every property of single steps, is
stated by a theorem.

`RequestQueue_proofs` proves, for every set of requests, slots, machines and
workloads and any number of failures, from the assumptions on the constants that
`RequestQueue` names (ids and slots are positive numbers, `NoDomain` is no
machine, workloads are functions to `Args`):

| Theorem | States |
|---|---|
| `TypeCorrect` | `Spec => []TypeOK` |
| `NoDoubleRun` | `Spec => []SingleRun` |
| `LimitsHold` | `Spec => []LimitRespected` |
| `QueueImplementsPools` | `Spec => IsWorkerPool` |
| `DoneStaysDone` | `Spec => DoneIsFinal` |
| `MachinesExclude` | `Spec => []MachineExclusion` |
| `OrderKept` | `Spec => RunsAfter` |

The type invariant is not inductive alone: that `current` is a request while the
daemon executes, and that nothing is left to scan then, is `Control`, proved with
it. `SingleRun` needs `RunInv`: a request that has a process, or is about to get
one, and was never put back is neither selected, nor picked, nor eligible, so the
next pass cannot reach it; the lemmas `RowsMove` and `QueueMoves` say once what
any step may do to a row and to the daemon's lists. `LimitRespected` needs
`PoolInv`: every live process is tracked until it ends, every done row is in
`finished`, and so the work of a type is a subset of what `_can_fork` counts.
The refinement to `WorkerPool` follows from the same facts: a step that is no
`Fork` only takes processes away, and `Fork` adds one where there is room.

The last two are about the time between the scan that picks a request and the process
that runs it. `ExclusionInv` adds to `PoolInv` that what was picked in a pass is noted
in `seen`, and that of two rivals at most one is picked or at work: a row comes to
be at work only from "picked", or through a process it already has. `OrderInv` adds
that what a request waits for was created, so that it cannot pass for deleted and be
created later, and that what is picked or executed is cleared: its creator has
finished, and nobody else changes the order of a request that has no process.

`RunMachine_proofs` proves, for every set of stories and any number of sockets and
losses, from the assumptions `RunMachine` names:

| Theorem | States |
|---|---|
| `PageTypeCorrect` | `Spec => []TypeOK` |
| `ConnectionIsTold` | `Spec => []ConnectionTold` |
| `RedirectWaits` | `Spec => []RedirectAfterStart` |

`ConnectionTold` needs only the types: a socket that closes sets a timer, and a page
that forgets a loss opens a socket of the request. `RedirectAfterStart` is not
inductive: a message that tells "active" and "idle" may have been sent before the start
was asked for. `StartInv` adds that, until the start has ended, an active machine has
its clone or its start pending, and so that no message on its way to any socket of
the machine says of it that it is active and idle (`Late`), nor does the machine shown
(`ShownLate`), which a message of the base tests again long after it came.

`UserMachines_proofs` proves, for all bases and clones, tables, and any number of changes and of
lists on their way, and `MachineList_proofs`, for all machines, names and filters, any number
of sockets and stories of any length:

| Theorem | States |
|---|---|
| `MachinesTyped` | `Spec => []TypeOK` |
| `ClonesPresent` | `Spec => []ClonePresent` |
| `ChoiceStays` | `Spec => ChoiceKept` |
| `ListTyped` | `Spec => []TypeOK` |
| `EachShownOnce` | `Spec => []ShownOnce` |

`ClonePresent` is almost inductive: the invariant adds the types of what is on its way,
so that a merge puts clones only in places that the list has. `CopyClonesType` and
`SetOneCloneType` carry the argument: a list that grows, shrinks or
has other clones in its places either keeps the chosen place or chooses again.
`ShownOnce` is not inductive. Rows are unique after a merge only if the list is, and
a list is only if its query is: so the invariant says that names tell machines apart (the
table has that key), that the order of the query is then total (`BeforeOrder`), that every list
on its way to any socket has each machine once, and that rows beyond `length` do not
count, since a list put by place leaves the old ones there.

`MachineSettings_proofs` proves, for any disks, values, requests and stories:

| Theorem | States |
|---|---|
| `SettingsTyped` | `Spec => []TypeOK` |

The types rest on each other: the machine keeps its type because requests and calls have an
argument of their kind, and the banner names a request that was made because answers and
open sockets do (`SettingsInv`).

`Pages_proofs` proves, for every calendar (days, hours, length of the week, first
entries), any grants, groups, nodes, devices, volumes, names and backends, and any number of
forms and clicks, from `AccessAssumption`, `BookingAssumption` and `AdminAssumption`:

| Theorem | States |
|---|---|
| `PagesTyped` | `Spec => []TypeOK` |
| `DefaultStaysLast` | `Spec => []DefaultIsLast` |
| `BookedOnce` | `Spec => []NoOverlap` |
| `EveryVolumeListed` | `Spec => []NothingSkipped` |

`PagesTyped` is of every user, the hasty and the careless too. Its invariants say which kind of
argument and of answer each call under way may have; those of `Booking` that
matter for `NoOverlap` hold for a careful user alone, so its types are proved apart
(`TypedStep`).

`DefaultIsLast` is about the server's list, but depends on what the page shows when an
arrow is pressed. `AccessBase`, of every user, says that no two rows have an id, not even those of
additions under way, so that a change acts on one row. `PatientInv` says that a change
is under way alone; that a list is either being loaded again or shown whole, with the
default taken out of it (`ShownWhole`); and so that a move under way changes places with a
row that is not the default (`MoveOK`), and is still so when the server handles it.

`NothingSkipped` needs `Paging`: one call is under way or everything up to the last
page asked for is listed, and the next page starts at the last file of the one before. That a page
has one file more than its limit is what makes both "there is more" and the
overlap right.

`NoOverlap` says what the table holds; what keeps it so is what the page knows. The
invariant of `Booking_proofs` says of a careful user's page that an open form with no check under
way shows the conflicts of its fields (`KnownInv`), that a call that writes is of the
form as it is, which had none (`WriteOK`), and that no form opens but over a
calendar that is up to date (`ShownInv`, `FetchOK`) or of an entry just read (`ReadOK`). Two facts
of the server close the argument: its four conditions on times are those of two
intervals that meet (`MeetsIsOverlap`), and the days a new booking takes are among
those that were looked at (`BookedIsChecked`), also when Save drops the last day.

`Sorting_proofs` is there for all of these. The rows of a query and of a filter were
first written with `SetToSortSeq` and `SelectSeq`, whose definitions are recursive and tell the
provers nothing; `Sorting` states the same lists as the increasing ones of the right
length. That such a list exists and has every element once is proved by rank: the
element in place n is the one that n - 1 others precede (`RankOnto`), without induction
over the list.

Besides the assumptions the runs need, the proofs ask that filters, options and backends are
not empty (the forms start with the first one) and that sets of machines, filters and groups are
finite.

Only model-checked: the properties `EveryRequestCloses`, `EndsUp`, `ListSettles` (both),
`MeantVisible`, `InfoSettles`, `BannerEnds`, `ScreenshotEnds`, `AccessSettles`,
`GroupsAsAsked`, `CalendarSettles`, `NodesSettle`, `NodeInfoSettles`, `RowsSettle` and
`NewMachineSettles`: all say that something comes to be so in the end, which is
liveness under fairness and out of TLAPS's reach. That a violated property is violated is a
counterexample of TLC.

## Not modelled

In the queue: the check for duplicates; `create`, which writes "retry" with no
delay; `rebase` and `migrate`, which put another request before themselves and
retry; `set_base_vm` and the other components of the table above that the plan
names.

In the pages: those of users and grants, networks and routes, bundles, messages
and charts, new storage pools, the form that counts entries of an LDAP attribute,
and the forms to rename or copy a machine. Their handlers make a call and
show its answer, or are a second instance of a form that is modelled. In the
modelled pages: fields that no handler reads with another one (descriptions, icons,
spinners), the waiting times, and the removal of a machine whose settings are shown, after
which an empty message makes the page leave.

Not planned: drivers, authentication servers, routes that read a table, schema
upgrades and translations, which translate or display and have no ordering of their own.

## Plan

In this order; each module comes with its MC module, runs and theorems.

1. Done: `RequestQueue` and the pages, with theorems for every invariant and every property of steps.
2. In the queue, the bodies that put other requests before themselves.
3. `RequestCreate`: `_duplicated_request`, `done_recently`, the insertion, over
   several creators; abstract specification: at most one open request of a kind.
4. `DomainLifecycle`: start, shutdown, prepare_base, clone and remove of a base
   and its clones, with the partial failures of `prepare_base`; abstract
   specification: a base has no running machine and is not removed under clones.
5. `Nodes`: set_base_vm, migrate and balance over two nodes, with a node that
   goes down; a clone starts only where its base is, and in one node.
6. `HostDevices`, `ExposedPorts`, `ClonePools`: check-then-write locks on a
   device, a port and a clone, with several starts at once; one abstract
   specification of exclusive allocation implemented by the three.
7. `ProxmoxTasks`: the wait for remote tasks, with timeouts and late answers.
