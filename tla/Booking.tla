------------------------------ MODULE Booking ------------------------------
(***************************************************************************)
(* The calendar of bookings (public/js/booking): its events, the form of   *)
(* one entry in a modal, and the calls to the server that looks for        *)
(* conflicts, saves, changes and removes entries (Ravada::Booking).  Calls *)
(* are handled, and answered, in any order.  Days are numbers and a week   *)
(* has WeekLength of them; a time is a pair <<start, end>>.  Titles,       *)
(* groups and options are left out.  One form at a time: nothing else is   *)
(* clicked while an entry is fetched, nor Save or Delete of an entry while *)
(* the last one is under way; Save of a new booking may be clicked twice.  *)
(*                                                                         *)
(* Faulty variants Next never reaches: CheckedFirstDay, RefetchedNot.      *)
(***************************************************************************)
EXTENDS Integers, Sequences, FiniteSets, SequencesExt

CONSTANTS
    LastDay, LastHour,   \* bounds: days and hours of the calendar
    WeekLength,
    FirstEntries,        \* entries of booking 1, at the start
    BookingStories       \* bounds: see BookingStory

Days == 1..LastDay
Hours == 0..LastHour
Times == {t \in Hours \X Hours : t[1] < t[2]}
WeekDay(day) == ((day - 1) % WeekLength) + 1
WeekDays == 1..WeekLength
Overlap(a, b) == a[1] < b[2] /\ b[1] < a[2]
Modes == {"current", "next", "next_dow", "all"}
Entry == [id: Nat, booking: Nat, day: Days, time: Hours \X Hours]

(* What the user does: forms opened, fields touched, Save or Delete, with   *)
(* which modes; what other users do.  careful: waits for every answer,      *)
(* changes only "this event", and nobody else books.                        *)
BookingStory == [open: Nat, touch: Nat, save: Nat, modes: SUBSET Modes,
                 others: Nat, careful: BOOLEAN]

ASSUME BookingAssumption ==
    /\ {LastDay, LastHour, WeekLength} \subseteq Nat \ {0}
    /\ IsFiniteSet(FirstEntries) /\ FirstEntries \subseteq Entry
    /\ \A e \in FirstEntries : e.booking = 1 /\ e.time[1] < e.time[2]
    /\ \A e, f \in FirstEntries : e.id = f.id \/ e.day = f.day => e = f
    /\ \A e \in FirstEntries : e.id \in 1..Cardinality(FirstEntries)
    /\ BookingStories \subseteq BookingStory
    /\ \A s \in BookingStories : s.careful => s.others = 0 /\ s.modes = {"current"}

VARIABLES
    booking_left,         \* what may still happen
    entries, bookings,    \* server: the tables
    made, booked,         \* server: the last id of each
    calls,                \* under way
    events,               \* page: shown in the calendar
    form, forms,          \* page: the form of the modal, and how many were opened
    conflicts             \* page: of the form

tables == <<entries, bookings, made, booked>>
bookingVars == <<booking_left, tables, calls, events, form, forms, conflicts>>

(* no: which form; id: the entry, 0 of a new one; last: the date shown as   *)
(* the end, and undated: the entry has none; dow: the days ticked, and      *)
(* boxes: dow is still an array.                                            *)
NoForm == [no |-> 0, id |-> 0, booking |-> 0, day |-> 1, last |-> 1, time |-> <<0, 1>>,
           undated |-> FALSE, repeat |-> "unset", dow |-> {}, boxes |-> TRUE, confirming |-> "no"]
Form == [no: Nat, id: Nat, booking: Nat, day: Days, last: Days, time: Hours \X Hours, undated: BOOLEAN,
         repeat: {"unset", "no", "weekly"}, dow: SUBSET WeekDays, boxes: BOOLEAN,
         confirming: {"no", "modify", "delete"}]
CallFor(op, of, mode) == [op |-> op, of |-> of, mode |-> mode,
                      answered |-> FALSE, ok |-> TRUE, data |-> {}]
IsOpen == form.no # 0

BookingInit ==
    /\ booking_left \in BookingStories
    /\ entries = FirstEntries /\ bookings = {1}
    /\ made = Cardinality(FirstEntries) /\ booked = 1
    /\ calls = <<>> /\ events = entries
    /\ form = NoForm /\ forms = 0 /\ conflicts = {}

-----------------------------------------------------------------------------
(* The server: bookings_range, that looks for conflicts.                    *)
Meets(e, t) ==
    \/ e[1] <= t[1] /\ e[2] > t[1]
    \/ e[2] >= t[2] /\ e[1] < t[2]
    \/ e[1] < t[2] /\ e[2] >= t[2]
    \/ e[1] >= t[1] /\ e[1] < t[2]
EndOf(f) == IF f.undated THEN f.day ELSE f.last
CheckedFirstDay(f) == {f.day}
CheckedDays(f) == {d \in f.day..EndOf(f) : f.dow = {} \/ WeekDay(d) \in f.dow}
InConflict(f) == {e \in entries : e.id # f.id /\ e.day \in CheckedDays(f) /\ Meets(e.time, f.time)}

(* A new booking: one entry on each of these days.                           *)
BookedDays(f) ==
    LET dow == IF f.dow = {} THEN {WeekDay(f.day)} ELSE f.dow
    IN {d \in f.day..EndOf(f) : WeekDay(d) \in dow}
NewEntries(f) ==
    {[id |-> made + Cardinality({d \in BookedDays(f) : d <= day}), booking |-> booked + 1,
      day |-> day, time |-> f.time] : day \in BookedDays(f)}

WithId(id) == {e \in entries : e.id = id}
(* The entries a change or a removal of e is about.                          *)
Selected(e, mode) ==
    {x \in entries : /\ x.booking = e.booking
                     /\ mode = "current" => x = e
                     /\ mode \in {"next", "next_dow"} => x.day >= e.day
                     /\ mode = "next_dow" => WeekDay(x.day) = WeekDay(e.day)}

Answer(i, ok, data) == calls' = [calls EXCEPT ![i].answered = TRUE, ![i].ok = ok, ![i].data = data]
ServerReads(i) ==
    LET c == calls[i] IN
    /\ ~c.answered /\ c.op \in {"check", "fetch", "entry", "booking"}
    /\ CASE c.op = "check" -> Answer(i, TRUE, InConflict(c.of))
         [] c.op = "fetch" -> Answer(i, TRUE, entries)
         [] c.op = "entry" -> Answer(i, WithId(c.of.id) # {}, WithId(c.of.id))
         [] c.op = "booking" -> Answer(i, c.of.booking \in bookings, {})
    /\ UNCHANGED <<booking_left, tables, events, form, forms, conflicts>>

(* The row of the booking is inserted before its entries, and stays when    *)
(* there are none: "No entries were saved".                                 *)
ServerSaves(i) ==
    LET f == calls[i].of IN
    /\ ~calls[i].answered /\ calls[i].op = "save"
    /\ booked' = booked + 1 /\ bookings' = bookings \cup {booked'}
    /\ entries' = entries \cup NewEntries(f)
    /\ made' = made + Cardinality(BookedDays(f))
    /\ Answer(i, BookedDays(f) # {}, {})
    /\ UNCHANGED <<booking_left, events, form, forms, conflicts>>

(* The form sends every field, its id too.  Another entry than that of the   *)
(* form takes them in the order of a hash until it comes to the id: those    *)
(* after it are written to the entry of the form.  It keeps its date, and    *)
(* starts gives the entries that take the time the form starts at, ends the  *)
(* one it ends at.                                                           *)
Moved(e, f) == [e EXCEPT !.day = f.day, !.time = f.time]
Retimed(x, f, starts, ends) ==
    [x EXCEPT !.time = <<IF x \in starts THEN f.time[1] ELSE x.time[1],
                         IF x \in ends THEN f.time[2] ELSE x.time[2]>>]
ServerChanges(i) ==
    LET f == calls[i].of
    IN /\ ~calls[i].answered /\ calls[i].op = "change"
       /\ \/ WithId(f.id) = {} /\ UNCHANGED entries /\ Answer(i, FALSE, {})
          \/ \E e \in WithId(f.id) :
               LET others == Selected(e, calls[i].mode) \ {e} IN
               /\ \E starts, ends \in SUBSET others :
                    entries' = (entries \ (others \cup {e}))
                               \cup {Moved(e, f)} \cup {Retimed(x, f, starts, ends) : x \in others}
               /\ Answer(i, TRUE, {})
       /\ UNCHANGED <<booking_left, bookings, made, booked, events, form, forms, conflicts>>

ServerRemoves(i) ==
    LET c == calls[i] IN
    /\ ~c.answered /\ c.op = "delete"
    /\ \/ WithId(c.of.id) = {} /\ UNCHANGED <<entries, bookings>> /\ Answer(i, FALSE, {})
       \/ \E e \in WithId(c.of.id) :
            /\ entries' = entries \ Selected(e, c.mode)
            /\ bookings' = IF c.mode = "all" THEN bookings \ {e.booking} ELSE bookings
            /\ Answer(i, TRUE, {})
    /\ UNCHANGED <<booking_left, made, booked, events, form, forms, conflicts>>

-----------------------------------------------------------------------------
(* The page: what each answer does.                                          *)
Others(i) == RemoveAt(calls, i)
(* The calendar keeps the answer to the last of its fetches only.            *)
RefetchedNot(waiting) == waiting
Fetches(waiting) == {i \in DOMAIN waiting : waiting[i].op = "fetch"}
Refetched(waiting) ==
    Append(IF Fetches(waiting) = {} THEN waiting ELSE RemoveAt(waiting, CHOOSE i \in Fetches(waiting) : TRUE),
           CallFor("fetch", NoForm, "current"))

OnCheck(i) ==
    /\ calls[i].op = "check"
    /\ conflicts' = IF IsOpen /\ calls[i].of.no = form.no THEN calls[i].data ELSE conflicts
    /\ calls' = Others(i)
    /\ UNCHANGED <<events, form, forms>>

OnFetch(i) ==
    /\ calls[i].op = "fetch"
    /\ events' = calls[i].data
    /\ calls' = Others(i)
    /\ UNCHANGED <<form, forms, conflicts>>

(* showResponse: the modal closes and the calendar fetches again, unless     *)
(* the user had closed it.                                                   *)
OnSaved(i) ==
    /\ calls[i].op \in {"save", "change", "delete"}
    /\ IF calls[i].ok /\ IsOpen /\ calls[i].of.no = form.no
       THEN form' = NoForm /\ conflicts' = {} /\ calls' = Refetched(Others(i))
       ELSE calls' = Others(i) /\ UNCHANGED <<form, conflicts>>
    /\ UNCHANGED <<events, forms>>

(* editEntry awaits the entry, then its booking, then opens the form.        *)
ReadAs(e) == [NoForm EXCEPT !.id = e.id, !.booking = e.booking, !.day = e.day, !.last = e.day,
                            !.time = e.time, !.dow = {WeekDay(e.day)}]
OnRead(i) ==
    /\ \/ calls[i].op \in {"entry", "booking"} /\ ~calls[i].ok
          /\ calls' = Others(i) /\ UNCHANGED <<form, forms>>
       \/ calls[i].op = "entry"
          /\ \E e \in calls[i].data : calls' = Append(Others(i), CallFor("booking", ReadAs(e), "current"))
          /\ UNCHANGED <<form, forms>>
       \/ calls[i].op = "booking" /\ calls[i].ok
          /\ forms' = forms + 1 /\ form' = [calls[i].of EXCEPT !.no = forms']
          /\ calls' = Others(i)
    /\ UNCHANGED <<events, conflicts>>

OnAnswered(i) ==
    /\ calls[i].answered
    /\ OnCheck(i) \/ OnFetch(i) \/ OnSaved(i) \/ OnRead(i)
    /\ UNCHANGED <<booking_left, tables>>

-----------------------------------------------------------------------------
(* The page: what the user clicks.                                           *)
FormClick(what) ==
    /\ booking_left[what] > 0
    /\ booking_left.careful => calls = <<>>
    /\ booking_left' = [booking_left EXCEPT ![what] = @ - 1]
    /\ UNCHANGED <<tables, events>>
UnderWay(ops) == \E i \in DOMAIN calls : calls[i].op \in ops /\ calls[i].of.no = form.no

(* selectOverlap is false: only where the calendar shows no event.           *)
NewEntry ==
    /\ FormClick("open") /\ ~IsOpen /\ ~UnderWay({"entry", "booking"})
    /\ forms' = forms + 1
    /\ \E day \in Days, time \in Times :
        /\ \A e \in events : e.day = day => ~Overlap(e.time, time)
        /\ form' = [NoForm EXCEPT !.no = forms', !.day = day, !.last = day, !.time = time,
                                  !.dow = {WeekDay(day)}]
    /\ UNCHANGED <<calls, conflicts>>

EditEntry ==
    /\ FormClick("open") /\ ~IsOpen /\ ~UnderWay({"entry", "booking"})
    /\ \E e \in events :
          calls' = Append(calls, CallFor("entry", [NoForm EXCEPT !.id = e.id, !.booking = e.booking], "current"))
    /\ UNCHANGED <<form, forms, conflicts>>

(* $doCheck: a change of the dates, the times or the days of the week is     *)
(* checked for conflicts; one of repeat is not.                              *)
Same(f) == \A field \in {"day", "last", "undated", "time", "dow"} : f[field] = form[field]
Touch(f) ==
    /\ FormClick("touch") /\ IsOpen /\ form.confirming = "no"
    /\ form' = f
    /\ calls' = IF Same(f) THEN calls ELSE Append(calls, CallFor("check", f, "current"))
    /\ UNCHANGED <<forms, conflicts>>

(* updateDates.                                                              *)
Dated(day, last) ==
    IF form.repeat = "weekly"
    THEN [form EXCEPT !.day = day, !.last = IF day > last THEN day ELSE last, !.undated = FALSE]
    ELSE [form EXCEPT !.day = day, !.last = day, !.undated = FALSE, !.dow = {WeekDay(day)}, !.boxes = TRUE]
SetDate == \E day \in Days \ {form.day} : Touch(Dated(day, form.last))
SetEnd == form.repeat = "weekly" /\ \E last \in form.day..LastDay : last # form.last /\ Touch(Dated(form.day, last))

SetTime ==
    \E time \in Times \ {form.time} :
        /\ time[1] = form.time[1] \/ time[2] = form.time[2]
        /\ Touch([form EXCEPT !.time = time])
SetRepeat == form.id = 0 /\ \E repeat \in {"no", "weekly"} \ {form.repeat} : Touch([form EXCEPT !.repeat = repeat])
ToggleDow ==
    /\ form.repeat = "weekly" /\ form.boxes
    /\ \E d \in WeekDays :
          Touch([form EXCEPT !.dow = IF d \in form.dow THEN form.dow \ {d} ELSE form.dow \cup {d}])

(* Save of a new booking.  Without repeat the last day is dropped, which    *)
(* is one more change to be checked.                                         *)
Save ==
    /\ FormClick("save") /\ IsOpen /\ form.id = 0 /\ conflicts = {}
    /\ form' = IF form.repeat = "weekly" THEN form ELSE [form EXCEPT !.undated = TRUE, !.boxes = FALSE]
    /\ calls' = Append(calls, CallFor("save", form', "current"))
                \o (IF Same(form') THEN <<>> ELSE <<CallFor("check", form', "current")>>)
    /\ UNCHANGED <<forms, conflicts>>

(* Save and Delete of an entry ask which ones, in a modal of their own.      *)
AskWhich(type) ==
    /\ FormClick("save") /\ IsOpen /\ form.id # 0 /\ form.confirming = "no"
    /\ ~UnderWay({"change", "delete"})
    /\ type = "modify" => conflicts = {}
    /\ form' = [form EXCEPT !.confirming = type]
    /\ UNCHANGED <<calls, forms, conflicts>>
Confirm ==
    /\ form.confirming # "no"
    /\ form' = [form EXCEPT !.confirming = "no"]
    /\ \E mode \in booking_left.modes :
          calls' = Append(calls, CallFor(IF form.confirming = "modify" THEN "change" ELSE "delete", form', mode))
    /\ UNCHANGED <<booking_left, tables, events, forms, conflicts>>

(* Cancel, of either modal: no fetch.                                        *)
Cancel ==
    /\ IsOpen /\ (booking_left.careful => calls = <<>>)
    /\ IF form.confirming # "no" THEN form' = [form EXCEPT !.confirming = "no"] /\ UNCHANGED conflicts
       ELSE form' = NoForm /\ conflicts' = {}
    /\ UNCHANGED <<booking_left, tables, calls, events, forms>>

-----------------------------------------------------------------------------
OthersBook ==
    /\ booking_left.others > 0
    /\ booking_left' = [booking_left EXCEPT !.others = @ - 1]
    /\ made' = made + 1 /\ booked' = booked + 1 /\ bookings' = bookings \cup {booked'}
    /\ \E day \in Days, time \in Times :
          entries' = entries \cup {[id |-> made', booking |-> booked', day |-> day, time |-> time]}
    /\ UNCHANGED <<calls, events, form, forms, conflicts>>

OthersRemove ==
    /\ booking_left.others > 0
    /\ booking_left' = [booking_left EXCEPT !.others = @ - 1]
    /\ \E e \in entries : entries' = entries \ Selected(e, "all") /\ bookings' = bookings \ {e.booking}
    /\ UNCHANGED <<made, booked, calls, events, form, forms, conflicts>>

BookingClicks ==
    \/ NewEntry \/ EditEntry
    \/ SetDate \/ SetEnd \/ SetTime \/ SetRepeat \/ ToggleDow
    \/ Save \/ AskWhich("modify") \/ AskWhich("delete") \/ Confirm \/ Cancel
BookingAnswers ==
    \E i \in DOMAIN calls :
        ServerReads(i) \/ ServerSaves(i) \/ ServerChanges(i) \/ ServerRemoves(i) \/ OnAnswered(i)
BookingNext == BookingClicks \/ BookingAnswers \/ OthersBook \/ OthersRemove

BookingTypeOK ==
    /\ booking_left \in BookingStory
    /\ entries \subseteq Entry /\ events \subseteq Entry /\ conflicts \subseteq Entry
    /\ bookings \subseteq 1..booked /\ made \in Nat /\ booked \in Nat
    /\ form \in Form /\ forms \in Nat
    /\ calls \in Seq([op: {"check", "fetch", "entry", "booking", "save", "change", "delete"}, of: Form,
                      mode: Modes, answered: BOOLEAN, ok: BOOLEAN, data: SUBSET Entry])

(* No two entries are at the same time of the same day.                      *)
NothingOverlaps == \A e, x \in entries : e # x /\ e.day = x.day => ~Overlap(e.time, x.time)
=============================================================================
