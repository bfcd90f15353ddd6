--------------------------- MODULE MCRequestQueue ---------------------------
(***************************************************************************)
(* Small instances of RequestQueue: three requests, one virtual machine.   *)
(* A workload fixes the requests and the order they are created in; when   *)
(* each of them is created is left to the run.                             *)
(***************************************************************************)
EXTENDS RequestQueue

ThreeIds == 1 .. 3
TwoSlots == 1 .. 2
OneDomain == {"vm1"}

\* A request for command, on vm1 by its id unless it is one that names none.
Ask(command) ==
  LET onMachine == command \notin {"", "check_storage", "refresh_vms", "cleanup",
                                   "ping_backend", "download", "list_isos"}
  IN [command |-> command, domain |-> IF onMachine THEN "vm1" ELSE NoDomain,
      byId |-> onMachine, after |-> FALSE, afterOk |-> FALSE, retry |-> 0,
      at |-> FALSE, timeout |-> FALSE, slow |-> FALSE, tells |-> FALSE]
After(request) == [request EXCEPT !.after = TRUE]
AfterOk(request) == [request EXCEPT !.afterOk = TRUE]
Retrying(request) == [request EXCEPT !.retry = 1]
Later(request) == [request EXCEPT !.at = TRUE]
Timed(request) == [request EXCEPT !.timeout = TRUE]
Slow(request) == [request EXCEPT !.slow = TRUE]
Telling(request) == [request EXCEPT !.tells = TRUE]
Nothing == Ask("")

\* Pairs of requests on one machine: a start and what follows it, a base and its
\* shutdown, changes of hardware, the low priority work a start removes and the
\* refresh a clone stops.
MachineWorkloads ==
  {<<Ask("start"), After(Ask("set_time")), Nothing>>,
   <<Ask("set_time"), Ask("shutdown"), Nothing>>,
   <<Ask("prepare_base"), Ask("shutdown"), Nothing>>,
   <<Timed(Ask("change_hardware")), Later(After(Ask("start"))), Nothing>>,
   <<Ask("change_hardware"), Slow(Ask("change_hardware")), Nothing>>,
   <<Later(Ask("compact")), Ask("spinoff"), Nothing>>,
   <<Ask("rsync_back"), Ask("start"), Nothing>>,
   <<Ask("refresh_machine"), Ask("clone"), Nothing>>,
   <<Telling(Ask("clone")), Ask("clone"), Nothing>>}

\* Requests on no machine, or that reach for others' machines: the refreshes,
\* those that wait for one that may fail or be deleted, a retry, and more than
\* the limit of a type (1 for huge).
OtherWorkloads ==
  {<<Ask("refresh_vms"), Ask("refresh_vms"), Nothing>>,
   <<Ask("refresh_vms"), Ask("shutdown"), Nothing>>,
   <<Ask("refresh_vms"), AfterOk(Ask("cleanup")), Ask("ping_backend")>>,
   <<Ask("check_storage"), After(Ask("cleanup")), Nothing>>,
   <<Retrying(Ask("check_storage")), Nothing, Nothing>>,
   <<Telling(Ask("download")), Ask("download"), Nothing>>}

QueueWorkloads == MachineWorkloads \union OtherWorkloads

\* Longer stories, run without failures: three requests on a machine, two
\* refreshes and a shutdown, two downloads of which one may run, a retry another
\* waits for, and the two tries of a prepare_base.
StoryWorkloads ==
  {<<Ask("start"), Ask("prepare_base"), Ask("shutdown")>>,
   <<Ask("start"), After(Ask("set_time")), Ask("shutdown")>>,
   <<Timed(Ask("change_hardware")), Later(After(Ask("start"))), Ask("change_hardware")>>,
   <<Ask("refresh_vms"), Ask("refresh_vms"), Ask("shutdown")>>,
   <<Telling(Ask("download")), Ask("download"), Nothing>>,
   <<Retrying(Ask("check_storage")), AfterOk(Ask("start")), Nothing>>,
   <<Retrying(Ask("prepare_base")), Ask("shutdown"), Nothing>>}

\* Requests that do not wait for one another in a circle and do not wait for a
\* deleted one: these must all be closed in the end, the one that is retried
\* while another waits for it among them.
ClosingWorkloads ==
  {<<Ask("start"), After(Ask("set_time")), Nothing>>,
   <<Ask("set_time"), Ask("shutdown"), Nothing>>,
   <<Ask("change_hardware"), Later(After(Ask("start"))), Nothing>>,
   <<Ask("rsync_back"), Ask("start"), Nothing>>,
   <<Ask("check_storage"), AfterOk(Ask("start")), Nothing>>,
   <<Ask("download"), Ask("download"), Nothing>>,
   <<Retrying(Ask("check_storage")), AfterOk(Ask("start")), Nothing>>}

\* One workload each for the disagreements with the text of the source.
LateOrderWorkload == {<<Ask("change_hardware"), Slow(Ask("start")), Nothing>>}
KilledWorkload == {<<Ask("check_storage"), AfterOk(Ask("start")), Nothing>>}
TwoChangesWorkload == {<<Ask("change_hardware"), Ask("change_hardware"), Nothing>>}
=============================================================================
