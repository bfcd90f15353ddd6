---------------------------- MODULE RequestTypes ----------------------------
(***************************************************************************)
(* The static tables of Ravada::Request: which queue a command belongs to, *)
(* how many processes a queue may run, in which order queues are served,   *)
(* and which commands the daemon treats apart when it picks, kills or      *)
(* deletes requests.  Commands are strings; a command no table names is    *)
(* of the default type "long".                                             *)
(***************************************************************************)
EXTENDS Naturals

LowPriorityCommands ==
  {"rsync_back", "check_storage", "refresh_vms", "move_volume"}

\* %COMMAND: the commands of every type but the default one, "long".
CommandsOf(type) ==
  CASE type = "disk_low_priority" -> LowPriorityCommands
    [] type = "disk" ->
         {"prepare_base", "remove_base", "set_base_vm", "rebase_volumes",
          "remove_base_vm", "screenshot", "cleanup", "compact", "spinoff",
          "backup"}
    [] type = "huge" -> {"download", "manage_pools"}
    [] type = "secondary" ->
         {"shutdown", "shutdown_now", "enforce_limits", "set_time",
          "remove_domain", "remove", "refresh_machine_ports",
          "connect_node", "start_node", "shutdown_node", "post_login"}
    [] type = "important" ->
         {"clone", "start", "start_clones", "shutdown_clones", "create",
          "open_iptables", "list_network_interfaces", "list_isos",
          "ping_backend", "refresh_machine", "list_cpu_models"}
    [] type = "iptables" -> {"open_exposed_ports"}
    [] OTHER -> {}

Types == {"long", "disk_low_priority", "disk", "huge", "secondary",
          "important", "iptables"}

\* How many processes of a type may run at once.
Limit(type) ==
  CASE type = "long" -> 4
    [] type = "disk_low_priority" -> 2
    [] type = "disk" -> 2
    [] type = "huge" -> 1
    [] type = "secondary" -> 50
    [] type = "important" -> 20
    [] type = "iptables" -> 4

\* The priority written beside a type; the lowest number is served first.
TypePriority(type) ==
  CASE type = "long" -> 10
    [] type = "disk_low_priority" -> 30
    [] type = "disk" -> 20
    [] type = "huge" -> 15
    [] type = "secondary" -> 4
    [] type = "important" -> 1
    [] type = "iptables" -> 2

TypeOf(command) ==
  IF \E t \in Types : command \in CommandsOf(t)
  THEN CHOOSE t \in Types : command \in CommandsOf(t)
  ELSE "long"

\* _set_priority walks the lists of commands.  A command in none of them
\* leaves the loop without a return, and the empty value sorts as 0.
Priority(command) ==
  IF \E t \in Types : command \in CommandsOf(t)
  THEN TypePriority(TypeOf(command))
  ELSE 0

\* $command =~ /shutdown/i: picked whatever else runs on the machine.
IsShutdown(command) ==
  command \in {"shutdown", "shutdown_now", "shutdown_domain",
               "force_shutdown", "shutdown_clones", "shutdown_node",
               "shutdown_start"}

\* A working request of these commands does not keep others from its machine.
SharesMachine(command) ==
  command \in {"set_base_vm", "set_time", "refresh_machine",
               "refresh_machine_ports"}

\* command like 'refresh%': stopped before a clone or a start is forked.
IsRefresh(command) ==
  command \in {"refresh_vms", "refresh_machine", "refresh_machine_ports",
               "refresh_storage"}

\* command like '%_hardware'
HardwareCommands == {"add_hardware", "change_hardware", "remove_hardware"}

\* The commands whose validator may end the request: the user may not clone or
\* create, the machine whose ports are asked for is gone.
RefusedCommands ==
  {"clone", "create", "create_domain", "open_exposed_ports", "close_exposed_ports"}

\* The commands _kill_stale_process stops when they have run for too long.
StaleCommands ==
  {"refresh_vms", "screenshot", "set_time", "open_exposed_ports", "remove",
   "refresh_machine_ports", "post_login"}

\* Requests still waiting for the daemon that a restart deletes: by
\* clean_old_requests, then by do_start.
DeletedAtRestart == {"refresh_vms", "cleanup", "ping_backend"}

\* The follow-ups of a start that a shutdown of the same machine deletes
\* (_remove_start_requests).
DeletedBy(command) ==
  IF command \in {"shutdown", "force_shutdown"}
  THEN {"set_time", "refresh_machine_ports", "open_exposed_ports"}
  ELSE {}

\* The requests of one machine that the body of a command sets to done:
\* prepare_base (_remove_unnecessary_request, _remove_unnecessary_downs) on
\* its own machine, refresh_vms (_refresh_down_domains) on one it finds down.
ClosedBy(command) ==
  CASE command = "prepare_base" ->
         {"set_time", "open_exposed_ports", "shutdown", "force_shutdown"}
    [] command = "refresh_vms" -> {"shutdown", "force_shutdown"}
    [] OTHER -> {}
=============================================================================
