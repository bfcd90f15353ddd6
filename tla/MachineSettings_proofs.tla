----------------------- MODULE MachineSettings_proofs -----------------------
(***************************************************************************)
(* What is proved of MachineSettings, for any disks, values, requests and   *)
(* stories.  The types alone are not inductive: the banner names a request  *)
(* that was made because the sockets and the answers do, and the machine    *)
(* keeps its type because each request and each call has an argument of its *)
(* kind (Fits), which is not looked at again where it is used.              *)
(***************************************************************************)
EXTENDS MachineSettings, Sorting_proofs

(* The argument of a request or of a call, of this kind.                    *)
Fits(kind, arg) ==
    /\ kind \in {"cpu", "set", "save"} => arg \in Values
    /\ kind = "remove index" => arg # 0

(* Answers and sockets name requests that were made.                        *)
CallOK(c, n) == Fits(c.kind, c.arg) /\ c.answer <= n
SocketOK(i, s, n) == s.open \/ s.queue # {} => i <= n

Machine == [disks: Seq(Disks), cpu: Values, options: Values, shot: BOOLEAN]
Banner(n) == {None, [id |-> 0, status |-> "done"]} \cup [id: 1..n, status: {"requested", "done"}]

ServerInv ==
    /\ machine \in Machine
    /\ requests \in Seq(Request) /\ Len(requests) <= MaxRequests
    /\ \A i \in DOMAIN requests : Fits(requests[i].kind, requests[i].arg)
InfoInv == info \in [open: BOOLEAN, queue: Seq(Info)] /\ Len(info.queue) <= 1
LoadInv == load \in [state: {"sent", "answered", "done"}, info: Info]
CallsInv == calls \in Seq(Call) /\ \A c \in DOMAIN calls : CallOK(calls[c], Len(requests))
WatchInv == watch \in [Ids -> Socket] /\ \A i \in Ids : SocketOK(i, watch[i], Len(requests))
FlagsInv ==
    /\ subscribed_extra \in BOOLEAN /\ lock_info \in BOOLEAN /\ edit \in BOOLEAN
    /\ touched \in BOOLEAN /\ pristine \in BOOLEAN /\ screenshot_waiting \in BOOLEAN
PageInv ==
    /\ showmachine \in Info /\ new_option \in Values
    /\ remove_item \in {None} \cup [index: Nat \ {0}, name: Disks]
    /\ pending_request \in Banner(Len(requests))
    /\ FlagsInv
SettingsInv ==
    /\ left \in Story
    /\ ServerInv /\ InfoInv /\ LoadInv /\ CallsInv /\ WatchInv /\ PageInv

-----------------------------------------------------------------------------
(* The operators of the server.                                             *)
LEMMA HappensType ==
    ASSUME left \in Story, NEW what \in Happenings, Happens(what)
    PROVE  left' \in Story
BY BoundsAssumption DEF Story, Happens

LEMMA ConstantFacts ==
    /\ 1 \in Values /\ Values \subseteq Nat \ {0}
    /\ Disks \subseteq Nat \ {0} /\ IsFiniteSet(Disks)
    /\ Ids = 1..MaxRequests /\ MaxRequests \in Nat
    /\ Files \subseteq Disks
<1>1. IsFiniteSet(Disks)
    BY DisksAssumption, FS_Interval DEF Disks
<1> QED BY <1>1, DisksAssumption, BoundsAssumption DEF Values, Disks, Ids

LEMMA LoadingType == NotLoaded \in Info
BY ConstantFacts DEF NotLoaded, Info

LEMMA OpenCounted == ASSUME ServerInv PROVE Cardinality(Open) \in Nat
<1>1. IsFiniteSet(1..Len(requests))
    BY FS_Interval DEF ServerInv
<1>2. Open \subseteq 1..Len(requests)
    BY DEF Open, ServerInv
<1> QED BY <1>1, <1>2, FS_Subset, FS_CardinalityType

LEMMA SnapshotType == ASSUME ServerInv PROVE Snapshot \in Info
BY OpenCounted DEF Snapshot, Info, ServerInv, Machine

(* Any machine is one still when a request that fits is executed.           *)
LEMMA ExecutedType ==
    ASSUME machine \in Machine, NEW r \in Request, Fits(r.kind, r.arg)
    PROVE  Executed(r) \in Machine
<1>1. machine.disks \in Seq(Disks)
    BY DEF Machine
<1>2. CASE r.kind = "add"
    <2>1. CASE Missing = {}
        BY <1>2, <2>1 DEF Executed, Machine
    <2>2. CASE Missing # {}
        <3> DEFINE new == CHOOSE d \in Missing : \A e \in Missing : d <= e
        <3>1. Missing \in SUBSET Nat /\ IsFiniteSet(Missing) /\ Missing \subseteq Disks
            BY ConstantFacts, FS_Subset DEF Missing
        <3>2. new \in Disks
            BY <2>2, <3>1, LeastOf
        <3>3. Append(machine.disks, new) \in Seq(Disks)
            BY <1>1, <3>2
        <3>4. Executed(r) = [machine EXCEPT !.disks = Append(@, new)]
            BY <1>2, <2>2 DEF Executed
        <3> QED BY <3>3, <3>4 DEF Machine
    <2> QED BY <2>1, <2>2
<1>3. CASE r.kind = "remove file"
    <2>1. Where(machine.disks, Disks \ {r.arg}) \in Seq(Disks)
        BY <1>1, WhereOf
    <2>2. Executed(r) = [machine EXCEPT !.disks = Where(@, Disks \ {r.arg})]
        BY <1>3 DEF Executed
    <2> QED BY <2>1, <2>2 DEF Machine
<1>4. CASE r.kind = "remove index"
    <2>1. CASE r.arg <= Len(machine.disks)
        <3>1. r.arg \in DOMAIN machine.disks
            <4>1. r.arg \in Nat /\ r.arg # 0
                BY <1>4 DEF Fits, Request
            <4> QED BY ONLY <1>1, <2>1, <4>1
        <3>2. RemoveAt(machine.disks, r.arg) \in Seq(Disks)
            BY <1>1, <3>1, RemoveAtFrom
        <3>3. Executed(r) = [machine EXCEPT !.disks = RemoveAt(@, r.arg)]
            BY <1>4, <2>1 DEF Executed
        <3> QED BY <3>2, <3>3 DEF Machine
    <2>2. CASE ~(r.arg <= Len(machine.disks))
        BY <1>4, <2>2 DEF Executed, Machine
    <2> QED BY <2>1, <2>2
<1>5. CASE r.kind = "cpu"
    BY <1>5 DEF Executed, Machine, Fits
<1>6. CASE r.kind = "shot"
    BY <1>6 DEF Executed, Machine
<1> QED BY <1>2, <1>3, <1>4, <1>5, <1>6 DEF Request, Kinds

LEMMA ServerStays ==
    ASSUME ServerInv, UNCHANGED server
    PROVE  ServerInv' /\ requests' = requests
BY DEF ServerInv, server

(* A request more is one of those that can be made.                         *)
LEMMA NewRequestFacts ==
    ASSUME ServerInv, NEW kind \in Kinds, NEW arg \in Nat, Fits(kind, arg),
           NewRequest(kind, arg), machine' = machine
    PROVE  ServerInv' /\ Len(requests') = Len(requests) + 1 /\ Len(requests') \in Ids
<1> DEFINE new == [kind |-> kind, arg |-> arg, status |-> "requested"]
<1>1. new \in Request /\ Fits(new.kind, new.arg)
    BY DEF Request
<1>2. requests \in Seq(Request) /\ requests' = Append(requests, new) /\ Len(requests) < MaxRequests
    BY DEF NewRequest, ServerInv
<1> HIDE DEF new
<1>3. /\ requests' \in Seq(Request) /\ Len(requests') = Len(requests) + 1
      /\ \A i \in DOMAIN requests' : requests'[i] = new \/ (i \in DOMAIN requests /\ requests'[i] = requests[i])
    BY ONLY <1>1, <1>2
<1>4. Len(requests) \in Nat
    BY ONLY <1>2
<1> QED BY <1>1, <1>2, <1>3, <1>4, ConstantFacts DEF ServerInv

(* What names requests that were made names them when there are more.       *)
LEMMA RestStays ==
    ASSUME SettingsInv, requests' \in Seq(Request), Len(requests) <= Len(requests')
    PROVE  /\ calls' = calls => CallsInv'
           /\ watch' = watch => WatchInv'
           /\ UNCHANGED page => PageInv'
           /\ UNCHANGED load => LoadInv'
           /\ UNCHANGED info => InfoInv'
<1> DEFINE n == Len(requests)
           m == Len(requests')
<1>1. n \in Nat /\ m \in Nat /\ n <= m
    BY DEF SettingsInv, ServerInv
<1>2. ASSUME calls' = calls PROVE CallsInv'
    <2>1. \A c \in DOMAIN calls : CallOK(calls[c], n) /\ calls[c] \in Call
        BY DEF SettingsInv, CallsInv
    <2>2. \A c \in DOMAIN calls : CallOK(calls[c], m)
        <3> SUFFICES ASSUME NEW c \in DOMAIN calls PROVE CallOK(calls[c], m)
            OBVIOUS
        <3>1. calls[c].answer \in Int
            BY <2>1, ConstantFacts DEF Call, Refused
        <3> QED BY <1>1, <2>1, <3>1 DEF CallOK
    <2> QED BY <1>2, <2>2 DEF SettingsInv, CallsInv
<1>3. ASSUME watch' = watch PROVE WatchInv'
    BY <1>1, <1>3, ConstantFacts DEF SettingsInv, WatchInv, SocketOK
<1>4. ASSUME UNCHANGED page PROVE PageInv'
    <2>1. Banner(n) \subseteq Banner(m)
        BY <1>1 DEF Banner
    <2> QED BY <1>4, <2>1 DEF page, editor, options, banner, SettingsInv, PageInv, FlagsInv
<1>5. (UNCHANGED load => LoadInv') /\ (UNCHANGED info => InfoInv')
    BY DEF SettingsInv, LoadInv, InfoInv
<1> QED BY <1>2, <1>3, <1>4, <1>5

-----------------------------------------------------------------------------
(* The steps of the server.                                                 *)
LEMMA ExecuteStep == ASSUME SettingsInv, Execute PROVE SettingsInv'
<1>1. PICK i \in Open : /\ machine' \in {machine, Executed(requests[i])}
                        /\ requests' = [requests EXCEPT ![i].status = "done"]
    BY DEF Execute
<1> DEFINE r == requests[i]
           done == [r EXCEPT !.status = "done"]
<1>2. requests \in Seq(Request) /\ i \in DOMAIN requests /\ r \in Request /\ Fits(r.kind, r.arg)
    BY DEF SettingsInv, ServerInv, Open
<1>3. done \in Request /\ done.kind = r.kind /\ done.arg = r.arg
    BY <1>2 DEF Request
<1>4. machine' \in Machine
    BY <1>1, <1>2, ExecutedType DEF SettingsInv, ServerInv
<1>5. requests' = [requests EXCEPT ![i] = done]
    BY <1>1
<1> HIDE DEF done, r
<1>6. /\ requests' \in Seq(Request) /\ Len(requests') = Len(requests)
      /\ DOMAIN requests' = DOMAIN requests /\ requests'[i] = done
      /\ \A k \in DOMAIN requests \ {i} : requests'[k] = requests[k]
    BY <1>2, <1>3, <1>5, ReplacedType
<1>7. \A k \in DOMAIN requests' : Fits(requests'[k].kind, requests'[k].arg)
    BY <1>2, <1>3, <1>6 DEF SettingsInv, ServerInv, r
<1>8. ServerInv'
    BY <1>4, <1>6, <1>7 DEF SettingsInv, ServerInv
<1>9. Len(requests) <= Len(requests')
    BY <1>2, <1>6
<1> QED BY <1>6, <1>8, <1>9, RestStays DEF Execute, link, SettingsInv

LEMMA OthersAskStep == ASSUME SettingsInv, OthersAsk PROVE SettingsInv'
<1>1. left' \in Story
    BY HappensType DEF OthersAsk, SettingsInv, Happenings
<1>2. PICK kind \in Kinds, arg \in Nat : Fits(kind, arg) /\ NewRequest(kind, arg)
    <2>1. \A d \in Files : "remove file" \in Kinds /\ d \in Nat /\ Fits("remove file", d)
        BY ConstantFacts DEF Kinds, Fits
    <2>2. \A v \in Values : "cpu" \in Kinds /\ v \in Nat /\ Fits("cpu", v)
        BY ConstantFacts DEF Kinds, Fits
    <2> QED BY <2>1, <2>2 DEF OthersAsk
<1>3. ServerInv' /\ Len(requests') = Len(requests) + 1
    BY <1>2, NewRequestFacts DEF SettingsInv, OthersAsk
<1>4. requests' \in Seq(Request) /\ Len(requests) <= Len(requests')
    BY <1>3 DEF SettingsInv, ServerInv
<1> QED BY <1>1, <1>3, <1>4, RestStays DEF OthersAsk, link, SettingsInv

LEMMA OthersSetStep == ASSUME SettingsInv, OthersSet PROVE SettingsInv'
<1>1. left' \in Story
    BY HappensType DEF OthersSet, SettingsInv, Happenings
<1>2. ServerInv'
    BY DEF OthersSet, SettingsInv, ServerInv, Machine
<1>3. requests' \in Seq(Request) /\ Len(requests) <= Len(requests')
    BY <1>2 DEF ServerInv, OthersSet
<1> QED BY <1>1, <1>2, <1>3, RestStays DEF OthersSet, link, SettingsInv

(* Call c with its answer.                                                  *)
LEMMA AnsweredFacts ==
    ASSUME CallsInv, NEW c \in DOMAIN calls, NEW answer \in {Refused} \cup 0..MaxRequests,
           calls' = [calls EXCEPT ![c].answer = answer],
           requests' \in Seq(Request), requests \in Seq(Request),
           Len(requests) <= Len(requests'), answer <= Len(requests')
    PROVE  CallsInv'
<1> DEFINE told == [calls[c] EXCEPT !.answer = answer]
<1>1. calls \in Seq(Call) /\ calls[c] \in Call /\ CallOK(calls[c], Len(requests))
    BY DEF CallsInv
<1>2. told \in Call /\ CallOK(told, Len(requests'))
    BY <1>1 DEF Call, CallOK
<1>3. calls' = [calls EXCEPT ![c] = told]
    OBVIOUS
<1> HIDE DEF told
<1>4. /\ calls' \in Seq(Call) /\ DOMAIN calls' = DOMAIN calls /\ calls'[c] = told
      /\ \A k \in DOMAIN calls \ {c} : calls'[k] = calls[k]
    <2>1. calls \in Seq(Call) /\ c \in DOMAIN calls /\ told \in Call
        BY <1>1, <1>2
    <2> QED BY ONLY <1>3, <2>1, ReplacedType
<1>5. ASSUME NEW k \in DOMAIN calls PROVE CallOK(calls'[k], Len(requests'))
    <2>1. calls[k] \in Call /\ CallOK(calls[k], Len(requests))
        BY <1>1 DEF CallsInv
    <2>2. calls[k].answer \in Int
        BY <2>1, ConstantFacts DEF Call, Refused
    <2>3. CallOK(calls[k], Len(requests'))
        BY <2>1, <2>2 DEF CallOK
    <2> QED BY <1>2, <1>4, <2>3
<1> QED BY <1>4, <1>5 DEF CallsInv

(* The calls without one of them.                                           *)
LEMMA RemovedCall ==
    ASSUME CallsInv, NEW c \in DOMAIN calls, calls' = RemoveAt(calls, c), requests' = requests
    PROVE  CallsInv'
<1>1. calls \in Seq(Call) /\ calls' \in Seq(Call) /\ Len(calls') = Len(calls) - 1
    BY RemoveAtFrom DEF CallsInv
<1>2. \A k \in DOMAIN calls' : \E o \in DOMAIN calls : calls'[k] = calls[o]
    <2>1. c \in 1..Len(calls)
        BY <1>1
    <2>2. \A k \in 1..Len(calls) - 1 : calls'[k] = calls[IF k < c THEN k ELSE k + 1]
        BY <1>1, <2>1, RemoveAtFacts
    <2>3. ASSUME NEW k \in DOMAIN calls' PROVE \E o \in DOMAIN calls : calls'[k] = calls[o]
        <3> DEFINE o == IF k < c THEN k ELSE k + 1
        <3>1. k \in 1..Len(calls) - 1 /\ DOMAIN calls = 1..Len(calls) /\ Len(calls) \in Nat
            BY ONLY <1>1, <2>3
        <3>2. o \in DOMAIN calls /\ calls'[k] = calls[o]
            BY <2>1, <2>2, <3>1
        <3> QED BY <3>2
    <2> QED BY <2>3
<1> QED BY <1>1, <1>2 DEF CallsInv

LEMMA HandlesStep ==
    ASSUME SettingsInv, NEW c \in DOMAIN calls, ServerHandles(c)
    PROVE  SettingsInv'
<1> DEFINE call == calls[c]
<1>1. call \in Call /\ Fits(call.kind, call.arg)
    BY DEF SettingsInv, CallsInv, CallOK
<1>2. CASE /\ call.kind \in Kinds /\ NewRequest(call.kind, call.arg)
           /\ calls' = [calls EXCEPT ![c].answer = Len(requests) + 1]
           /\ machine' = machine
    <2>1. call.arg \in Nat
        BY <1>1 DEF Call
    <2>2. ServerInv' /\ Len(requests') = Len(requests) + 1 /\ Len(requests') \in Ids
        BY <1>1, <1>2, <2>1, NewRequestFacts DEF SettingsInv
    <2>3. requests' \in Seq(Request) /\ requests \in Seq(Request) /\ Len(requests) <= Len(requests')
        BY <2>2 DEF SettingsInv, ServerInv
    <2>4. Len(requests) + 1 \in {Refused} \cup 0..MaxRequests /\ Len(requests) + 1 <= Len(requests')
        BY <2>2, <2>3, ConstantFacts
    <2>5. CallsInv'
        BY <1>2, <2>3, <2>4, AnsweredFacts DEF SettingsInv
    <2> QED BY <2>2, <2>3, <2>5, RestStays DEF ServerHandles, SettingsInv
<1>3. CASE /\ calls' = [calls EXCEPT ![c].answer = Refused] /\ UNCHANGED server
    <2>1. ServerInv' /\ requests' = requests
        BY <1>3, ServerStays DEF SettingsInv
    <2>2. requests' \in Seq(Request) /\ requests \in Seq(Request) /\ Len(requests) <= Len(requests')
        BY <2>1 DEF SettingsInv, ServerInv
    <2>3. Refused \in {Refused} \cup 0..MaxRequests /\ Refused <= Len(requests')
        BY <2>2 DEF Refused
    <2>4. CallsInv'
        BY <1>3, <2>2, <2>3, AnsweredFacts DEF SettingsInv
    <2> QED BY <2>1, <2>2, <2>4, RestStays DEF ServerHandles, SettingsInv
<1>4. CASE /\ call.kind \in {"set", "save"}
           /\ machine' = [machine EXCEPT !.options = call.arg]
           /\ calls' = RemoveAt(calls, c) /\ requests' = requests
    <2>1. ServerInv'
        BY <1>1, <1>4 DEF SettingsInv, ServerInv, Machine, Fits
    <2>2. requests' \in Seq(Request) /\ Len(requests) <= Len(requests')
        BY <1>4 DEF SettingsInv, ServerInv
    <2>3. CallsInv'
        BY <1>4, RemovedCall DEF SettingsInv
    <2> QED BY <2>1, <2>2, <2>3, RestStays DEF ServerHandles, SettingsInv
<1> QED BY <1>2, <1>3, <1>4 DEF ServerHandles

LEMMA SendsInfoStep == ASSUME SettingsInv, ServerSendsInfo PROVE SettingsInv'
<1>1. ServerInv' /\ requests' = requests
    BY ServerStays DEF ServerSendsInfo, SettingsInv
<1>2. <<Snapshot>> \in Seq(Info) /\ Len(<<Snapshot>>) <= 1
    BY SnapshotType DEF SettingsInv
<1>3. InfoInv'
    BY <1>2 DEF ServerSendsInfo, SettingsInv, InfoInv
<1>4. requests' \in Seq(Request) /\ Len(requests) <= Len(requests')
    BY <1>1 DEF SettingsInv, ServerInv
<1> QED BY <1>1, <1>3, <1>4, RestStays DEF ServerSendsInfo, SettingsInv

(* Only a socket of a request that was made is open, so there is a status.  *)
LEMMA SendsRequestStep ==
    ASSUME SettingsInv, NEW i \in Ids, ServerSendsRequest(i) PROVE SettingsInv'
<1>1. ServerInv' /\ requests' = requests
    BY ServerStays DEF ServerSendsRequest, SettingsInv
<1>2. requests \in Seq(Request) /\ i \in DOMAIN requests /\ watch \in [Ids -> Socket]
    BY ConstantFacts DEF ServerSendsRequest, SettingsInv, ServerInv, WatchInv, SocketOK
<1>3. requests[i].status \in {"requested", "done"}
    <2>1. requests[i] \in Request
        BY <1>2
    <2> QED BY <2>1 DEF Request
<1>4. WatchInv'
    BY <1>1, <1>2, <1>3 DEF ServerSendsRequest, SettingsInv, WatchInv, SocketOK, Socket
<1>5. requests' \in Seq(Request) /\ Len(requests) <= Len(requests')
    BY <1>1, <1>2
<1> QED BY <1>1, <1>4, <1>5, RestStays DEF ServerSendsRequest, SettingsInv

LEMMA AnswersLoadStep == ASSUME SettingsInv, ServerAnswersLoad PROVE SettingsInv'
<1>1. ServerInv' /\ requests' = requests
    BY ServerStays DEF ServerAnswersLoad, SettingsInv
<1>2. LoadInv'
    BY SnapshotType DEF ServerAnswersLoad, SettingsInv, LoadInv
<1>3. requests' \in Seq(Request) /\ Len(requests) <= Len(requests')
    BY <1>1 DEF SettingsInv, ServerInv
<1> QED BY <1>1, <1>2, <1>3, RestStays DEF ServerAnswersLoad, SettingsInv

-----------------------------------------------------------------------------
(* The steps of the page.  Those that ask for nothing leave the calls.      *)
LEMMA AsksNothing ==
    ASSUME SettingsInv, UNCHANGED server
    PROVE  /\ ServerInv' /\ requests' = requests
           /\ UNCHANGED calls => CallsInv'
           /\ UNCHANGED watch => WatchInv'
           /\ UNCHANGED load => LoadInv'
           /\ UNCHANGED info => InfoInv'
           /\ UNCHANGED link => CallsInv' /\ WatchInv' /\ LoadInv' /\ InfoInv'
<1>1. ServerInv' /\ requests' = requests
    BY ServerStays DEF SettingsInv
<1>2. requests' \in Seq(Request) /\ Len(requests) <= Len(requests')
    BY <1>1 DEF SettingsInv, ServerInv
<1> QED BY <1>1, <1>2, RestStays DEF link

LEMMA InfoLoadedStep == ASSUME SettingsInv, InfoLoaded PROVE SettingsInv'
<1>1. /\ ServerInv' /\ requests' = requests
      /\ CallsInv' /\ WatchInv' /\ InfoInv'
    BY AsksNothing DEF InfoLoaded
<1>2. LoadInv'
    BY LoadingType DEF InfoLoaded, LoadInv
<1>3. PageInv'
    BY <1>1 DEF InfoLoaded, SettingsInv, LoadInv, Info, PageInv, FlagsInv, editor, banner
<1> QED BY <1>1, <1>2, <1>3 DEF InfoLoaded, SettingsInv

LEMMA OnInfoStep == ASSUME SettingsInv, OnInfo PROVE SettingsInv'
<1>1. /\ ServerInv' /\ requests' = requests
      /\ CallsInv' /\ WatchInv' /\ LoadInv'
    BY AsksNothing DEF OnInfo
<1>2. info \in [open: BOOLEAN, queue: Seq(Info)] /\ info.queue \in Seq(Info) /\ info.queue # <<>>
    BY DEF OnInfo, SettingsInv, InfoInv
<1>3. info.queue[1] \in Info
    BY ONLY <1>2
<1>4. info.queue[1].options \in Values /\ info.queue[1].shot \in BOOLEAN
    BY <1>3 DEF Info
<1>5. InfoInv'
    <2>1. <<>> \in Seq(Info) /\ Len(<<>>) <= 1
        OBVIOUS
    <2>2. info' = [info EXCEPT !.queue = <<>>]
        BY DEF OnInfo
    <2> QED BY <1>2, <2>1, <2>2 DEF InfoInv
<1>6. FlagsInv'
    BY <1>4 DEF OnInfo, SettingsInv, PageInv, FlagsInv
<1>7. PageInv'
    BY <1>1, <1>3, <1>4, <1>6 DEF OnInfo, SettingsInv, PageInv
<1> QED BY <1>1, <1>5, <1>7 DEF OnInfo, SettingsInv

LEMMA ToggleEditStep == ASSUME SettingsInv, ToggleEdit PROVE SettingsInv'
<1>1. ServerInv' /\ requests' = requests /\ CallsInv' /\ WatchInv' /\ LoadInv' /\ InfoInv'
    BY AsksNothing DEF ToggleEdit
<1>2. left' \in Story
    BY HappensType DEF ToggleEdit, SettingsInv, Happenings
<1>3. PageInv'
    BY <1>1 DEF ToggleEdit, SettingsInv, PageInv, FlagsInv, options, banner
<1> QED BY <1>1, <1>2, <1>3 DEF SettingsInv

LEMMA CloseEditStep == ASSUME SettingsInv, CloseEdit PROVE SettingsInv'
<1>1. ServerInv' /\ requests' = requests /\ CallsInv' /\ WatchInv' /\ LoadInv' /\ InfoInv'
    BY AsksNothing DEF CloseEdit
<1>2. PageInv'
    BY <1>1 DEF CloseEdit, SettingsInv, PageInv, FlagsInv, options, banner
<1> QED BY <1>1, <1>2 DEF CloseEdit, SettingsInv

LEMMA TypeCpuStep == ASSUME SettingsInv, TypeCpu PROVE SettingsInv'
<1>1. ServerInv' /\ requests' = requests /\ CallsInv' /\ WatchInv' /\ LoadInv' /\ InfoInv'
    BY AsksNothing DEF TypeCpu
<1>2. left' \in Story
    BY HappensType DEF TypeCpu, SettingsInv, Happenings
<1>3. showmachine' \in Info
    BY DEF TypeCpu, SettingsInv, PageInv, Info
<1>4. PageInv'
    BY <1>1, <1>3 DEF TypeCpu, SettingsInv, PageInv, FlagsInv, options, banner
<1> QED BY <1>1, <1>2, <1>4 DEF SettingsInv

(* A call more, with the argument of its kind.                              *)
LEMMA SendFacts ==
    ASSUME CallsInv, NEW kind \in Kinds \cup {"set", "save"}, NEW arg \in Nat, Fits(kind, arg),
           Send(kind, arg), requests' = requests, requests \in Seq(Request)
    PROVE  CallsInv'
<1> DEFINE new == [kind |-> kind, arg |-> arg, answer |-> 0]
<1>1. Len(requests) \in Nat
    OBVIOUS
<1>2. new \in Call /\ CallOK(new, Len(requests))
    BY <1>1, ConstantFacts DEF Call, CallOK
<1>3. calls \in Seq(Call) /\ calls' = Append(calls, new)
    BY DEF CallsInv, Send
<1> HIDE DEF new
<1>4. /\ calls' \in Seq(Call)
      /\ \A c \in DOMAIN calls' : calls'[c] = new \/ (c \in DOMAIN calls /\ calls'[c] = calls[c])
    BY ONLY <1>2, <1>3
<1> QED BY <1>2, <1>4 DEF CallsInv

LEMMA DoRequestFacts ==
    ASSUME SettingsInv, NEW kind \in Kinds, NEW arg \in Nat, Fits(kind, arg), DoRequest(kind, arg)
    PROVE  /\ ServerInv' /\ requests' = requests
           /\ CallsInv' /\ WatchInv' /\ LoadInv' /\ InfoInv'
           /\ showmachine' \in Info /\ pending_request' \in Banner(Len(requests'))
           /\ edit' \in BOOLEAN => FlagsInv'
<1>1. ServerInv' /\ requests' = requests /\ WatchInv' /\ LoadInv' /\ InfoInv'
    BY AsksNothing DEF DoRequest
<1>2. CallsInv'
    BY <1>1, SendFacts DEF DoRequest, SettingsInv, ServerInv
<1>3. showmachine' \in Info
    BY DEF DoRequest, SettingsInv, PageInv, Info
<1>4. pending_request' \in Banner(Len(requests'))
    BY DEF DoRequest, Banner
<1>5. edit' \in BOOLEAN => FlagsInv'
    BY DEF DoRequest, SettingsInv, PageInv, FlagsInv
<1> QED BY <1>1, <1>2, <1>3, <1>4, <1>5

LEMMA ChangeHardwareStep == ASSUME SettingsInv, ChangeHardware PROVE SettingsInv'
<1>1. showmachine.cpu \in Values
    BY DEF SettingsInv, PageInv, Info
<1>2. "cpu" \in Kinds /\ showmachine.cpu \in Nat /\ Fits("cpu", showmachine.cpu)
    BY <1>1, ConstantFacts DEF Kinds, Fits
<1>3. edit' \in BOOLEAN
    BY DEF ChangeHardware, SettingsInv, PageInv, FlagsInv
<1>4. left' \in Story
    BY HappensType DEF ChangeHardware, SettingsInv, Happenings
<1> QED BY <1>2, <1>3, <1>4, DoRequestFacts DEF ChangeHardware, SettingsInv, PageInv

LEMMA SetDefaultsStep == ASSUME SettingsInv, SetDefaults PROVE SettingsInv'
<1>1. "cpu" \in Kinds /\ 1 \in Nat /\ Fits("cpu", 1)
    BY ConstantFacts DEF Kinds, Fits
<1>2. edit' \in BOOLEAN
    BY DEF SetDefaults, SettingsInv, PageInv, FlagsInv
<1>3. left' \in Story
    BY HappensType DEF SetDefaults, SettingsInv, Happenings
<1> QED BY <1>1, <1>2, <1>3, DoRequestFacts DEF SetDefaults, SettingsInv, PageInv

LEMMA AddHardwareStep == ASSUME SettingsInv, AddHardware PROVE SettingsInv'
<1>1. "add" \in Kinds /\ 0 \in Nat /\ Fits("add", 0)
    BY DEF Kinds, Fits
<1>2. edit' \in BOOLEAN
    BY DEF AddHardware, SettingsInv, PageInv, FlagsInv
<1>3. left' \in Story
    BY HappensType DEF AddHardware, SettingsInv, Happenings
<1> QED BY <1>1, <1>2, <1>3, DoRequestFacts DEF AddHardware, SettingsInv, PageInv

(* A disk shown at some place.                                              *)
LEMMA ShownDisk ==
    ASSUME SettingsInv, NEW i \in DOMAIN showmachine.disks
    PROVE  i \in Nat \ {0} /\ showmachine.disks[i] \in Disks
<1>1. showmachine.disks \in Seq(Disks)
    BY DEF SettingsInv, PageInv, Info
<1> QED BY <1>1

LEMMA AskRemoveStep == ASSUME SettingsInv, AskRemove PROVE SettingsInv'
<1>1. ServerInv' /\ requests' = requests /\ CallsInv' /\ WatchInv' /\ LoadInv' /\ InfoInv'
    BY AsksNothing DEF AskRemove
<1>2. remove_item' \in [index: Nat \ {0}, name: Disks]
    BY ShownDisk DEF AskRemove
<1>3. PageInv'
    BY <1>1, <1>2 DEF AskRemove, SettingsInv, PageInv, FlagsInv, editor, options, banner
<1> QED BY <1>1, <1>3 DEF AskRemove, SettingsInv

LEMMA CancelRemoveStep == ASSUME SettingsInv, CancelRemove PROVE SettingsInv'
<1>1. ServerInv' /\ requests' = requests /\ CallsInv' /\ WatchInv' /\ LoadInv' /\ InfoInv'
    BY AsksNothing DEF CancelRemove
<1>2. PageInv'
    BY <1>1 DEF CancelRemove, SettingsInv, PageInv, FlagsInv, editor, options, banner
<1> QED BY <1>1, <1>2 DEF CancelRemove, SettingsInv

LEMMA RemoveHardwareStep == ASSUME SettingsInv, RemoveHardware PROVE SettingsInv'
<1>1. left' \in Story
    BY HappensType DEF RemoveHardware, SettingsInv, Happenings
<1>2. CASE remove_item.index \in DOMAIN showmachine.disks
    <2> DEFINE r == RemovedAs(remove_item.index)
    <2>1. r[1] \in Kinds /\ r[2] \in Nat /\ Fits(r[1], r[2])
        BY <1>2, ShownDisk, ConstantFacts DEF RemovedAs, Kinds, Fits
    <2>2. DoRequest(r[1], r[2]) /\ UNCHANGED <<edit, new_option>>
        BY <1>2 DEF RemoveHardware
    <2>3. edit' \in BOOLEAN
        BY <2>2 DEF SettingsInv, PageInv, FlagsInv
    <2> HIDE DEF r
    <2> QED BY <1>1, <2>1, <2>2, <2>3, DoRequestFacts DEF RemoveHardware, SettingsInv, PageInv
<1>3. CASE remove_item.index \notin DOMAIN showmachine.disks
    <2>1. ServerInv' /\ requests' = requests /\ CallsInv' /\ WatchInv' /\ LoadInv' /\ InfoInv'
        BY <1>3, AsksNothing DEF RemoveHardware
    <2>2. PageInv'
        BY <1>3, <2>1 DEF RemoveHardware, SettingsInv, PageInv, FlagsInv, editor, options, banner
    <2> QED BY <1>1, <2>1, <2>2 DEF SettingsInv
<1> QED BY <1>2, <1>3

LEMMA EditOptionsStep == ASSUME SettingsInv, EditOptions PROVE SettingsInv'
<1>1. ServerInv' /\ requests' = requests /\ CallsInv' /\ WatchInv' /\ LoadInv' /\ InfoInv'
    BY AsksNothing DEF EditOptions
<1>2. left' \in Story
    BY HappensType DEF EditOptions, SettingsInv, Happenings
<1>3. PageInv'
    BY <1>1 DEF EditOptions, SettingsInv, PageInv, FlagsInv, editor, banner
<1> QED BY <1>1, <1>2, <1>3 DEF SettingsInv

LEMMA ResetOptionsStep == ASSUME SettingsInv, ResetOptions PROVE SettingsInv'
<1>1. ServerInv' /\ requests' = requests /\ CallsInv' /\ WatchInv' /\ LoadInv' /\ InfoInv'
    BY AsksNothing DEF ResetOptions
<1>2. showmachine.options \in Values
    BY DEF SettingsInv, PageInv, Info
<1>3. PageInv'
    BY <1>1, <1>2 DEF ResetOptions, SettingsInv, PageInv, FlagsInv, editor, banner
<1> QED BY <1>1, <1>3 DEF ResetOptions, SettingsInv

LEMMA UpdateOptionsStep == ASSUME SettingsInv, UpdateOptions PROVE SettingsInv'
<1>1. ServerInv' /\ requests' = requests /\ WatchInv' /\ LoadInv' /\ InfoInv'
    BY AsksNothing DEF UpdateOptions
<1>2. new_option \in Nat /\ Fits("save", new_option)
    BY ConstantFacts DEF SettingsInv, PageInv, Fits
<1>3. CallsInv'
    BY <1>1, <1>2, SendFacts DEF UpdateOptions, SettingsInv, ServerInv
<1>4. PageInv'
    BY <1>1 DEF UpdateOptions, SettingsInv, PageInv, FlagsInv, editor, banner
<1> QED BY <1>1, <1>3, <1>4 DEF UpdateOptions, SettingsInv

LEMMA SetFieldStep == ASSUME SettingsInv, SetField PROVE SettingsInv'
<1>1. ServerInv' /\ requests' = requests /\ WatchInv' /\ LoadInv' /\ InfoInv'
    BY AsksNothing DEF SetField
<1>2. PICK v \in Values : showmachine' = [showmachine EXCEPT !.options = v] /\ Send("set", v)
    BY DEF SetField
<1>3. v \in Nat /\ Fits("set", v)
    BY ConstantFacts DEF Fits
<1>4. CallsInv'
    BY <1>1, <1>2, <1>3, SendFacts DEF SettingsInv, ServerInv
<1>5. showmachine' \in Info
    BY <1>2 DEF SettingsInv, PageInv, Info
<1>6. pending_request' \in Banner(Len(requests'))
    BY <1>1 DEF SetField, DoneIsForgotten, SettingsInv, PageInv, Banner
<1>7. PageInv'
    BY <1>5, <1>6 DEF SetField, SettingsInv, PageInv, FlagsInv, editor, options
<1>8. left' \in Story
    BY HappensType DEF SetField, SettingsInv, Happenings
<1> QED BY <1>1, <1>4, <1>7, <1>8 DEF SettingsInv

LEMMA ScreenshotStep == ASSUME SettingsInv, Screenshot PROVE SettingsInv'
<1>1. ServerInv' /\ requests' = requests /\ WatchInv' /\ LoadInv' /\ InfoInv'
    BY AsksNothing DEF Screenshot
<1>2. "shot" \in Kinds /\ 0 \in Nat /\ Fits("shot", 0)
    BY DEF Kinds, Fits
<1>3. CallsInv'
    BY <1>1, <1>2, SendFacts DEF Screenshot, SettingsInv, ServerInv
<1>4. showmachine' \in Info
    BY DEF Screenshot, SettingsInv, PageInv, Info
<1>5. PageInv'
    BY <1>1, <1>4 DEF Screenshot, SettingsInv, PageInv, FlagsInv, editor, options
<1>6. left' \in Story
    BY HappensType DEF Screenshot, SettingsInv, Happenings
<1> QED BY <1>1, <1>3, <1>5, <1>6 DEF SettingsInv

(* What an answer opens is a socket of a request that was made.             *)
LEMMA OnAnswerStep ==
    ASSUME SettingsInv, NEW c \in DOMAIN calls, OnAnswer(c) PROVE SettingsInv'
<1> DEFINE answer == calls[c].answer
<1>1. ServerInv' /\ requests' = requests /\ LoadInv' /\ InfoInv' /\ (UNCHANGED watch => WatchInv')
    BY AsksNothing DEF OnAnswer
<1>2. CallsInv'
    BY <1>1, RemovedCall DEF OnAnswer, SettingsInv
<1>3. answer \in {Refused} \cup 0..MaxRequests /\ answer <= Len(requests) /\ answer # 0
    <2>1. calls[c] \in Call /\ CallOK(calls[c], Len(requests))
        BY DEF SettingsInv, CallsInv
    <2> QED BY <2>1 DEF CallOK, Call, OnAnswer
<1>4. WatchInv'
    <2>1. CASE watch' = watch
        BY <1>1, <2>1
    <2>2. CASE answer # Refused /\ watch' = [watch EXCEPT ![answer].open = TRUE]
        <3>1. answer \in Ids
            BY <1>3, <2>2, ConstantFacts
        <3> HIDE DEF answer
        <3> QED BY <1>1, <1>3, <2>2, <3>1 DEF SettingsInv, WatchInv, SocketOK, Socket
    <2> QED BY <2>1, <2>2 DEF OnAnswer
<1>5. pending_request' \in Banner(Len(requests'))
    BY <1>1 DEF OnAnswer, SettingsInv, PageInv, Banner
<1>6. FlagsInv'
    BY DEF OnAnswer, WaitingAfterAnswer, SettingsInv, PageInv, FlagsInv, editor, options
<1>7. PageInv'
    BY <1>5, <1>6 DEF OnAnswer, PendingAfterAnswer, SettingsInv, PageInv, editor, options
<1> QED BY <1>1, <1>2, <1>4, <1>7 DEF OnAnswer, SettingsInv

LEMMA OnWatchStep ==
    ASSUME SettingsInv, NEW i \in Ids, OnWatch(i) PROVE SettingsInv'
<1>1. ServerInv' /\ requests' = requests /\ CallsInv' /\ LoadInv' /\ InfoInv'
    BY AsksNothing DEF OnWatch
<1>2. watch[i].queue # {} /\ i \in 1..Len(requests) /\ watch[i] \in Socket
    BY ConstantFacts DEF OnWatch, SettingsInv, ServerInv, WatchInv, SocketOK
<1>3. pending_request' \in Banner(Len(requests'))
    BY <1>1, <1>2 DEF OnWatch, Banner, Socket
<1>4. WatchInv'
    BY <1>1 DEF OnWatch, SettingsInv, WatchInv, SocketOK, Socket
<1>5. PageInv'
    BY <1>3 DEF OnWatch, SettingsInv, PageInv, FlagsInv, editor, options
<1> QED BY <1>1, <1>4, <1>5 DEF OnWatch, SettingsInv

LEMMA LostStep == ASSUME SettingsInv, ConnectionLost PROVE SettingsInv'
<1>1. ServerInv' /\ requests' = requests /\ CallsInv' /\ LoadInv'
    BY AsksNothing DEF ConnectionLost
<1>2. InfoInv' /\ WatchInv'
    BY DEF ConnectionLost, InfoInv, WatchInv, SocketOK, Socket
<1>3. PageInv'
    BY <1>1 DEF ConnectionLost, SettingsInv, PageInv, FlagsInv, page, editor, options, banner
<1>4. left' \in Story
    BY HappensType DEF ConnectionLost, SettingsInv, Happenings
<1> QED BY <1>1, <1>2, <1>3, <1>4 DEF SettingsInv

-----------------------------------------------------------------------------
LEMMA SettingsStarts == Init => SettingsInv
<1> SUFFICES ASSUME Init PROVE SettingsInv
    OBVIOUS
<1>1. FirstDisks \in Nat /\ 1..FirstDisks \subseteq Disks
    BY DisksAssumption DEF Disks
<1>2. [i \in 1..FirstDisks |-> i] \in Seq(Disks)
    BY <1>1
<1>3. ServerInv
    BY <1>2, ConstantFacts DEF Init, ServerInv, Machine
<1>4. InfoInv /\ LoadInv /\ CallsInv
    BY LoadingType DEF Init, InfoInv, LoadInv, CallsInv
<1>5. WatchInv
    BY DEF Init, WatchInv, SocketOK, Socket
<1>6. PageInv
    BY LoadingType, ConstantFacts DEF Init, PageInv, FlagsInv, Banner
<1> QED BY <1>3, <1>4, <1>5, <1>6, StoriesAssumption DEF Init, SettingsInv

LEMMA SettingsStep == SettingsInv /\ [Next]_vars => SettingsInv'
<1> SUFFICES ASSUME SettingsInv, [Next]_vars PROVE SettingsInv'
    OBVIOUS
<1>1. CASE Acts
    BY <1>1, ToggleEditStep, CloseEditStep, TypeCpuStep, ChangeHardwareStep, SetDefaultsStep,
       AddHardwareStep, AskRemoveStep, CancelRemoveStep, RemoveHardwareStep, EditOptionsStep,
       ResetOptionsStep, UpdateOptionsStep, SetFieldStep, ScreenshotStep DEF Acts
<1>2. CASE Answers
    BY <1>2, ExecuteStep, AnswersLoadStep, InfoLoadedStep, HandlesStep, OnAnswerStep DEF Answers
<1>3. CASE OthersAsk \/ OthersSet \/ ConnectionLost
    BY <1>3, OthersAskStep, OthersSetStep, LostStep
<1>4. CASE \/ ServerSendsInfo \/ OnInfo
           \/ \E i \in Ids : ServerSendsRequest(i) \/ OnWatch(i)
    BY <1>4, SendsInfoStep, OnInfoStep, SendsRequestStep, OnWatchStep
<1>5. CASE UNCHANGED vars
    <2>1. UNCHANGED server /\ UNCHANGED link /\ UNCHANGED page /\ left' = left
        BY <1>5 DEF vars
    <2>2. ServerInv' /\ requests' = requests /\ CallsInv' /\ WatchInv' /\ LoadInv' /\ InfoInv'
        BY <2>1, AsksNothing
    <2>3. PageInv'
        BY <2>1, <2>2 DEF SettingsInv, PageInv, FlagsInv, page, editor, options, banner
    <2> QED BY <2>1, <2>2, <2>3 DEF SettingsInv
<1> QED BY <1>1, <1>2, <1>3, <1>4, <1>5 DEF Next

(* What the page of the settings shows, and what its calls and sockets      *)
(* carry, is of its type, whoever changes the machine meanwhile: the banner *)
(* is of a request that was made, or of one that was refused.               *)
THEOREM SettingsTyped == Spec => []TypeOK
<1>1. SettingsInv => TypeOK
    BY DEF SettingsInv, ServerInv, Machine, InfoInv, LoadInv, CallsInv, WatchInv, PageInv,
           FlagsInv, Banner, TypeOK
<1>2. Init => SettingsInv
    BY SettingsStarts
<1>3. SettingsInv /\ [Next]_vars => SettingsInv'
    BY SettingsStep
<1> QED BY <1>1, <1>2, <1>3, PTL DEF Spec
=============================================================================
