--------------------------- MODULE Booking_proofs ---------------------------
(***************************************************************************)
(* The inductive invariant of the calendar of bookings, for a careful user. *)
(* Nothing overlaps in the table of entries, and what keeps it so is where  *)
(* the conflicts of a form are known: a form with no check under way shows  *)
(* those of its fields (KnownInv), a call that writes is of the form as it  *)
(* is and of one that had none (WriteOK), an unhandled check is of the form *)
(* as it is (CheckOK), and when a form opens the calendar shows what the    *)
(* server has (ShownInv) or its entry was just read (ReadOK).  Each lemma   *)
(* ...Step says that one action keeps it.                                   *)
(***************************************************************************)
EXTENDS Booking, Sorting_proofs

(* A call to the server.                                                    *)
Call == [op: {"check", "fetch", "entry", "booking", "save", "change", "delete"}, of: Form,
         mode: Modes, answered: BOOLEAN, ok: BOOLEAN, data: SUBSET Entry]

-----------------------------------------------------------------------------
(* The answered call removed: the others, none twice.                       *)
LEMMA OthersFacts ==
    ASSUME calls \in Seq(Call), NEW i \in DOMAIN calls
    PROVE  /\ Others(i) \in Seq(Call)
           /\ \E from \in [DOMAIN Others(i) -> DOMAIN calls \ {i}] :
                /\ \A k \in DOMAIN Others(i) : Others(i)[k] = calls[from[k]]
                /\ \A j, k \in DOMAIN Others(i) : from[j] = from[k] => j = k
                /\ \A j \in DOMAIN calls \ {i} : \E k \in DOMAIN Others(i) : from[k] = j
<1>1. Others(i) \in Seq(Call) /\ IsRest(Others(i), calls, i)
    BY RemoveAtFrom DEF Others
<1> QED BY <1>1 DEF IsRest

-----------------------------------------------------------------------------
(* Calls that change the entries, whether one did, and the form of one day  *)
(* without repeat.                                                          *)
Writer(c) == c.op \in {"save", "change", "delete"}
Done == \E i \in DOMAIN calls : Writer(calls[i]) /\ calls[i].answered /\ calls[i].ok
Plain(f) == f.repeat = "unset" /\ ~f.undated /\ f.last = f.day /\ f.dow = {WeekDay(f.day)}

(* The types, and what a careful user is.                                   *)
TypeInv ==
    /\ booking_left \in BookingStory /\ booking_left.careful
    /\ booking_left.others = 0 /\ booking_left.modes = {"current"}
    /\ entries \subseteq Entry /\ made \in Nat /\ booked \in Nat
    /\ calls \in Seq(Call) /\ form \in Form /\ forms \in Nat

(* The table of entries.                                                    *)
EntriesInv ==
    /\ \A e \in entries : e.id \in 1..made /\ e.time[1] < e.time[2]
    /\ \A e, x \in entries : e.id = x.id => e = x
    /\ NothingOverlaps

(* The form: an entry is edited as one day, and the modal that asks which   *)
(* entries is open with nothing under way.                                  *)
FormInv ==
    /\ form.time[1] < form.time[2] /\ form.day <= form.last
    /\ form.id # 0 => Plain(form)
    /\ IsOpen \/ (conflicts = {} /\ form.confirming = "no")
    /\ form.confirming # "no" => form.id # 0 /\ calls = <<>>
    /\ form.confirming = "modify" => conflicts = {}

(* What is true of a call under way.                                        *)
CheckOK(c) ==
    c.op = "check" /\ IsOpen => c.of = form /\ (c.answered /\ ~Done => c.data = InConflict(form))
FetchOK(c) == c.op = "fetch" => ~IsOpen /\ (c.answered => c.data = entries)
ReadOK(c) ==
    c.op \in {"entry", "booking"} =>
        /\ ~IsOpen /\ Len(calls) = 1
        /\ c.op = "entry" /\ c.answered => c.data \subseteq entries
        /\ c.op = "booking" => \E e \in entries : c.of = ReadAs(e)
WriteOK(c) ==
    Writer(c) =>
        /\ IsOpen /\ c.of = form /\ c.mode = "current"
        /\ c.op = "save" <=> form.id = 0
        /\ ~c.answered /\ c.op # "delete" => InConflict(form) = {}
CallsInv ==
    /\ \A i \in DOMAIN calls : CheckOK(calls[i]) /\ FetchOK(calls[i]) /\ ReadOK(calls[i]) /\ WriteOK(calls[i])
    /\ \A i, j \in DOMAIN calls : Writer(calls[i]) /\ Writer(calls[j]) => i = j

(* The calendar shows the entries, or will; the conflicts of the form are   *)
(* known, or will be.                                                       *)
ShownInv == Done \/ events = entries \/ \E i \in DOMAIN calls : calls[i].op = "fetch"
KnownInv ==
    IsOpen /\ ~Done => conflicts = InConflict(form) \/ \E i \in DOMAIN calls : calls[i].op = "check"

(* The invariant: of a careful user, and what stays of the others.         *)
CarefulInv == TypeInv /\ EntriesInv /\ FormInv /\ CallsInv /\ ShownInv /\ KnownInv
Inv == booking_left \in BookingStory /\ (booking_left.careful => CarefulInv)

-----------------------------------------------------------------------------
(* A day has a day of the week.                                             *)
LEMMA WeekDayType == ASSUME NEW day \in Days PROVE WeekDay(day) \in WeekDays
BY BookingAssumption DEF Days, WeekDay, WeekDays

(* The form that is not open.                                               *)
LEMMA NoFormType ==
    /\ NoForm \in Form /\ NoForm.no = 0 /\ NoForm.id = 0 /\ ~NoForm.undated
    /\ NoForm.repeat = "unset" /\ NoForm.confirming = "no" /\ NoForm.time[1] < NoForm.time[2]
    /\ NoForm.day = NoForm.last
<1>1. 1 \in Days /\ <<0, 1>> \in Hours \X Hours
    BY BookingAssumption DEF Days, Hours
<1> QED BY <1>1 DEF NoForm, Form

(* The form of an entry that was read is one of that day, without repeat.   *)
LEMMA ReadAsType == ASSUME NEW e \in Entry PROVE ReadAs(e) \in Form /\ Plain(ReadAs(e))
<1>1. WeekDay(e.day) \in WeekDays
    BY WeekDayType DEF Entry
<1> QED BY <1>1, NoFormType DEF ReadAs, Plain, NoForm, Form, Entry

(* A new call is a call.                                                    *)
LEMMA CallForType ==
    ASSUME NEW op \in {"check", "fetch", "entry", "booking", "save", "change", "delete"},
           NEW of \in Form, NEW mode \in Modes
    PROVE  CallFor(op, of, mode) \in Call
BY DEF CallFor, Call

(* An answer changes one call, and neither its kind nor its form.           *)
LEMMA AnswerFacts ==
    ASSUME calls \in Seq(Call), NEW i \in DOMAIN calls, NEW ok \in BOOLEAN,
           NEW data \in SUBSET Entry, Answer(i, ok, data)
    PROVE  /\ calls' \in Seq(Call) /\ DOMAIN calls' = DOMAIN calls /\ Len(calls') = Len(calls)
           /\ \A j \in DOMAIN calls \ {i} : calls'[j] = calls[j]
           /\ calls'[i].op = calls[i].op /\ calls'[i].of = calls[i].of /\ calls'[i].mode = calls[i].mode
           /\ calls'[i].answered /\ calls'[i].ok = ok /\ calls'[i].data = data
<1>1. calls[i] \in Call
    OBVIOUS
<1> DEFINE c == [calls[i] EXCEPT !.answered = TRUE, !.ok = ok, !.data = data]
<1>2. c \in Call /\ c.op = calls[i].op /\ c.of = calls[i].of /\ c.mode = calls[i].mode
      /\ c.answered /\ c.ok = ok /\ c.data = data
    BY <1>1 DEF Call
<1>3. calls' = [calls EXCEPT ![i] = c]
    BY DEF Answer
<1> HIDE DEF c
<1> QED BY <1>2, <1>3

(* The server's test for conflicts is the one of two intervals.             *)
LEMMA MeetsIsOverlap ==
    ASSUME NEW a \in Hours \X Hours, NEW b \in Hours \X Hours, a[1] < a[2], b[1] < b[2]
    PROVE  Meets(a, b) <=> Overlap(a, b)
BY BookingAssumption DEF Meets, Overlap, Hours

(* What is booked was looked at for conflicts.                              *)
LEMMA BookedIsChecked ==
    ASSUME NEW f \in Form
    PROVE  /\ BookedDays(f) \subseteq CheckedDays(f) /\ BookedDays(f) \subseteq Days
           /\ Plain(f) => f.day \in CheckedDays(f)
BY BookingAssumption DEF Form, BookedDays, CheckedDays, EndOf, Plain, Days

(* A form of one day is looked at on that day.                              *)
LEMMA CheckedOfOneDay ==
    ASSUME NEW f \in Form, ~f.undated, f.last = f.day, f.dow = {WeekDay(f.day)}
    PROVE  CheckedDays(f) = {f.day}
BY BookingAssumption DEF Form, CheckedDays, EndOf, Days

(* A form for what no entry overlaps has no conflicts.                      *)
LEMMA NoConflict ==
    ASSUME TypeInv, EntriesInv, NEW f \in Form, f.time[1] < f.time[2],
           \A e \in entries : e.id = f.id \/ e.day \notin CheckedDays(f) \/ ~Overlap(e.time, f.time)
    PROVE  InConflict(f) = {}
<1>1. ASSUME NEW e \in entries, e.id # f.id, e.day \in CheckedDays(f) PROVE ~Meets(e.time, f.time)
    <2>1. e.time \in Hours \X Hours /\ f.time \in Hours \X Hours /\ e.time[1] < e.time[2]
        BY DEF TypeInv, EntriesInv, Entry, Form
    <2> QED BY <1>1, <2>1, MeetsIsOverlap
<1> QED BY <1>1 DEF InConflict

-----------------------------------------------------------------------------
(* The invariant holds of the page as it was loaded.                        *)
LEMMA StartsRight == BookingInit => Inv
<1> SUFFICES ASSUME BookingInit, booking_left.careful PROVE CarefulInv
    BY BookingAssumption DEF BookingInit, Inv
<1>1. DOMAIN calls = {} /\ calls = <<>> /\ calls \in Seq(Call)
    BY DEF BookingInit
<1>2. TypeInv
    <2>1. made \in Nat
        BY BookingAssumption, FS_CardinalityType DEF BookingInit
    <2>2. booking_left \in BookingStory /\ booking_left.others = 0 /\ booking_left.modes = {"current"}
        BY BookingAssumption DEF BookingInit
    <2> QED BY <1>1, <2>1, <2>2, NoFormType, BookingAssumption DEF BookingInit, TypeInv
<1>3. EntriesInv
    BY BookingAssumption DEF BookingInit, EntriesInv, NothingOverlaps
<1>4. ~IsOpen /\ form.id = 0 /\ form.confirming = "no" /\ form.time[1] < form.time[2]
      /\ form.day <= form.last
    BY DEF BookingInit, NoForm, IsOpen
<1>5. FormInv
    BY <1>4 DEF FormInv, BookingInit
<1>6. CallsInv /\ ShownInv /\ KnownInv
    BY <1>1, <1>4 DEF CallsInv, ShownInv, KnownInv, BookingInit
<1> QED BY <1>2, <1>3, <1>5, <1>6 DEF CarefulInv

-----------------------------------------------------------------------------
(* What a careful user clicks, with nothing under way.                      *)
LEMMA ClickFacts ==
    ASSUME CarefulInv, NEW what \in {"open", "touch", "save"}, FormClick(what)
    PROVE  /\ calls = <<>> /\ events = entries
           /\ IsOpen => conflicts = InConflict(form)
           /\ booking_left' \in BookingStory /\ booking_left'.careful
           /\ booking_left'.others = 0 /\ booking_left'.modes = {"current"}
           /\ entries' = entries /\ made' = made /\ booked' = booked /\ events' = events
<1>1. calls = <<>>
    BY DEF CarefulInv, TypeInv, FormClick
<1>2. ~Done /\ ~(\E i \in DOMAIN calls : calls[i].op \in {"fetch", "check"})
    BY <1>1 DEF Done
<1>3. booking_left \in BookingStory /\ booking_left[what] > 0
      /\ booking_left' = [booking_left EXCEPT ![what] = @ - 1]
    BY DEF CarefulInv, TypeInv, FormClick
<1>4. booking_left' \in BookingStory /\ booking_left'.careful = booking_left.careful
      /\ booking_left'.others = booking_left.others /\ booking_left'.modes = booking_left.modes
    <2>1. CASE what = "open"
        BY <2>1, <1>3 DEF BookingStory
    <2>2. CASE what = "touch"
        BY <2>2, <1>3 DEF BookingStory
    <2>3. CASE what = "save"
        BY <2>3, <1>3 DEF BookingStory
    <2> QED BY <2>1, <2>2, <2>3
<1> QED BY <1>1, <1>2, <1>4 DEF CarefulInv, TypeInv, ShownInv, KnownInv, FormClick, tables

(* What is said of the entries stays when they do.                          *)
LEMMA EntriesStay ==
    ASSUME EntriesInv, entries' = entries, made' = made
    PROVE  EntriesInv'
BY DEF EntriesInv, NothingOverlaps

(* A new form is of a time where the calendar, that is up to date, shows    *)
(* nothing: it has no conflicts.                                            *)
LEMMA NewEntryStep == ASSUME CarefulInv, NewEntry PROVE CarefulInv'
<1>1. FormClick("open") /\ ~IsOpen /\ UNCHANGED <<calls, conflicts>> /\ forms' = forms + 1
    BY DEF NewEntry
<1>2. PICK day \in Days, time \in Times :
        /\ \A e \in events : e.day = day => ~Overlap(e.time, time)
        /\ form' = [NoForm EXCEPT !.no = forms', !.day = day, !.last = day, !.time = time,
                                  !.dow = {WeekDay(day)}]
    BY DEF NewEntry
<1>3. /\ calls = <<>> /\ events = entries
      /\ booking_left' \in BookingStory /\ booking_left'.careful
      /\ booking_left'.others = 0 /\ booking_left'.modes = {"current"}
      /\ entries' = entries /\ made' = made /\ booked' = booked /\ events' = events
    BY <1>1, ClickFacts
<1>4. /\ form' \in Form /\ form'.no = forms + 1 /\ form'.id = 0 /\ form'.confirming = "no"
      /\ form'.time = time /\ form'.day = day /\ form'.last = day /\ ~form'.undated
      /\ form'.dow = {WeekDay(day)} /\ time[1] < time[2] /\ forms \in Nat
    <2>1. WeekDay(day) \in WeekDays /\ time \in Hours \X Hours /\ forms \in Nat /\ time[1] < time[2]
        BY WeekDayType DEF CarefulInv, TypeInv, Times
    <2>2. forms + 1 \in Nat /\ {WeekDay(day)} \in SUBSET WeekDays
        BY <2>1
    <2> DEFINE f == [NoForm EXCEPT !.no = forms + 1, !.day = day, !.last = day, !.time = time,
                                   !.dow = {WeekDay(day)}]
    <2>3. /\ f \in Form /\ f.no = forms + 1 /\ f.id = 0 /\ f.confirming = "no"
          /\ f.time = time /\ f.day = day /\ f.last = day /\ ~f.undated /\ f.dow = {WeekDay(day)}
        BY <2>1, <2>2, NoFormType DEF Form
    <2>4. form' = f
        BY <1>1, <1>2
    <2> HIDE DEF f
    <2> QED BY <2>1, <2>3, <2>4
<1>5. TypeInv'
    BY <1>1, <1>3, <1>4 DEF CarefulInv, TypeInv
<1>6. EntriesInv'
    BY <1>3, EntriesStay DEF CarefulInv
<1>7. InConflict(form') = {}
    <2>1. CheckedDays(form') = {day}
        BY <1>4, CheckedOfOneDay
    <2>2. \A e \in entries : e.day = day => ~Overlap(e.time, time)
        BY <1>2, <1>3
    <2> QED BY <1>4, <2>1, <2>2, NoConflict DEF CarefulInv
<1>8. InConflict(form)' = InConflict(form')
    BY <1>3 DEF InConflict, CheckedDays, EndOf
<1>9. conflicts' = {} /\ IsOpen' /\ calls' = <<>> /\ DOMAIN calls' = {}
    BY <1>1, <1>3, <1>4 DEF CarefulInv, FormInv, IsOpen
<1>10. FormInv'
    <2>1. day <= day
        BY BookingAssumption DEF Days
    <2> QED BY <1>4, <1>9, <2>1 DEF FormInv
<1>11. CallsInv' /\ ShownInv' /\ KnownInv'
    BY <1>3, <1>7, <1>8, <1>9 DEF CallsInv, ShownInv, KnownInv
<1> QED BY <1>5, <1>6, <1>10, <1>11 DEF CarefulInv

(* A call after the others.                                                 *)
LEMMA AppendFacts ==
    ASSUME NEW s \in Seq(Call), NEW c \in Call
    PROVE  /\ Append(s, c) \in Seq(Call) /\ Len(Append(s, c)) = Len(s) + 1
           /\ DOMAIN Append(s, c) = 1..Len(s) + 1 /\ DOMAIN s = 1..Len(s) /\ Len(s) \in Nat
           /\ Append(s, c)[Len(s) + 1] = c
           /\ \A k \in DOMAIN s : Append(s, c)[k] = s[k]
OBVIOUS

(* A call where none was.                                                   *)
LEMMA OneCall ==
    ASSUME NEW c \in Call
    PROVE  /\ Append(<<>>, c) \in Seq(Call) /\ Len(Append(<<>>, c)) = 1
           /\ DOMAIN Append(<<>>, c) = {1} /\ Append(<<>>, c)[1] = c
OBVIOUS

(* Opening an entry only asks for it.                                       *)
LEMMA EditEntryStep == ASSUME CarefulInv, EditEntry PROVE CarefulInv'
<1>1. FormClick("open") /\ ~IsOpen /\ UNCHANGED <<form, forms, conflicts>>
    BY DEF EditEntry
<1>2. PICK e \in events :
        calls' = Append(calls, CallFor("entry", [NoForm EXCEPT !.id = e.id, !.booking = e.booking], "current"))
    BY DEF EditEntry
<1>3. /\ calls = <<>> /\ events = entries
      /\ booking_left' \in BookingStory /\ booking_left'.careful
      /\ booking_left'.others = 0 /\ booking_left'.modes = {"current"}
      /\ entries' = entries /\ made' = made /\ booked' = booked /\ events' = events
    BY <1>1, ClickFacts
<1> DEFINE c == CallFor("entry", [NoForm EXCEPT !.id = e.id, !.booking = e.booking], "current")
<1>4. c \in Call /\ c.op = "entry" /\ ~c.answered
    <2>1. e \in Entry
        BY <1>3 DEF CarefulInv, TypeInv
    <2>2. [NoForm EXCEPT !.id = e.id, !.booking = e.booking] \in Form
        BY <2>1, NoFormType DEF Form, Entry
    <2> QED BY <2>2, CallForType DEF CallFor, Modes
<1>5. /\ calls' \in Seq(Call) /\ Len(calls') = 1 /\ DOMAIN calls' = {1} /\ calls'[1] = c
    BY <1>2, <1>3, <1>4, OneCall
<1> HIDE DEF c
<1>6. TypeInv' /\ EntriesInv'
    BY <1>1, <1>3, <1>5, EntriesStay DEF CarefulInv, TypeInv
<1>7. FormInv'
    BY <1>1 DEF CarefulInv, FormInv, IsOpen
<1>8. ~IsOpen'
    BY <1>1 DEF IsOpen
<1>9. CallsInv' /\ ShownInv' /\ KnownInv'
    BY <1>3, <1>4, <1>5, <1>8
       DEF CallsInv, ShownInv, KnownInv, CheckOK, FetchOK, ReadOK, WriteOK, Writer
<1> QED BY <1>6, <1>7, <1>9 DEF CarefulInv

(* A field that changes the form, or does not, and is looked at or not.     *)
LEMMA TouchStep ==
    ASSUME CarefulInv, NEW f \in Form, f.time[1] < f.time[2], f.day <= f.last,
           f.no = form.no, f.id = form.id, f.id # 0 => Plain(f), f.confirming = form.confirming, Touch(f)
    PROVE  CarefulInv'
<1>1. FormClick("touch") /\ IsOpen /\ form.confirming = "no" /\ form' = f /\ UNCHANGED <<forms, conflicts>>
    BY DEF Touch
<1>2. /\ calls = <<>> /\ events = entries /\ conflicts = InConflict(form)
      /\ booking_left' \in BookingStory /\ booking_left'.careful
      /\ booking_left'.others = 0 /\ booking_left'.modes = {"current"}
      /\ entries' = entries /\ made' = made /\ booked' = booked /\ events' = events
    BY <1>1, ClickFacts
<1>3. IsOpen' /\ form'.confirming = "no"
    BY <1>1 DEF IsOpen
<1>4. FormInv'
    BY <1>1, <1>3 DEF FormInv
<1>5. CASE Same(f)
    <2>1. calls' = <<>> /\ calls' \in Seq(Call) /\ DOMAIN calls' = {}
        BY <1>2, <1>5 DEF Touch
    <2>2. InConflict(form)' = InConflict(form)
        <3>1. f.day = form.day /\ f.last = form.last /\ f.undated = form.undated
              /\ f.time = form.time /\ f.dow = form.dow
            BY <1>5 DEF Same
        <3> QED BY <1>1, <1>2, <3>1 DEF InConflict, CheckedDays, EndOf
    <2>3. TypeInv' /\ EntriesInv'
        BY <1>1, <1>2, <2>1, EntriesStay DEF CarefulInv, TypeInv
    <2>4. CallsInv' /\ ShownInv' /\ KnownInv'
        BY <1>1, <1>2, <2>1, <2>2 DEF CallsInv, ShownInv, KnownInv
    <2> QED BY <1>4, <2>3, <2>4 DEF CarefulInv
<1>6. CASE ~Same(f)
    <2> DEFINE c == CallFor("check", f, "current")
    <2>1. c \in Call /\ c.op = "check" /\ ~c.answered /\ c.of = f
        BY CallForType DEF CallFor, Modes
    <2>2. calls' \in Seq(Call) /\ Len(calls') = 1 /\ DOMAIN calls' = {1} /\ calls'[1] = c
        BY <1>2, <1>6, <2>1, OneCall DEF Touch
    <2> HIDE DEF c
    <2>3. TypeInv' /\ EntriesInv'
        BY <1>1, <1>2, <2>2, EntriesStay DEF CarefulInv, TypeInv
    <2>4. CallsInv' /\ ShownInv' /\ KnownInv'
        BY <1>1, <1>2, <1>3, <2>1, <2>2
           DEF CallsInv, ShownInv, KnownInv, CheckOK, FetchOK, ReadOK, WriteOK, Writer
    <2> QED BY <1>4, <2>3, <2>4 DEF CarefulInv
<1> QED BY <1>5, <1>6

(* A form of a weekly booking with other dates: the last is not before the  *)
(* first.                                                                   *)
LEMMA DatedWeekly ==
    ASSUME form \in Form, form.repeat = "weekly", NEW day \in Days, NEW last \in Days
    PROVE  /\ Dated(day, last) \in Form /\ Dated(day, last).no = form.no /\ Dated(day, last).id = form.id
           /\ Dated(day, last).confirming = form.confirming /\ Dated(day, last).time = form.time
           /\ Dated(day, last).day <= Dated(day, last).last
<1> DEFINE end == IF day > last THEN day ELSE last
           f == [form EXCEPT !.day = day, !.last = end, !.undated = FALSE]
<1>1. end \in Days /\ day <= end
    BY DEF Days
<1>2. Dated(day, last) = f
    BY DEF Dated
<1> HIDE DEF end
<1>3. /\ f \in Form /\ f.no = form.no /\ f.id = form.id /\ f.confirming = form.confirming
      /\ f.time = form.time /\ f.day = day /\ f.last = end
    BY <1>1 DEF Form
<1> HIDE DEF f
<1> QED BY <1>1, <1>2, <1>3

(* Every field is touched in one of the ways TouchStep is about.            *)
LEMMA FieldsStep ==
    ASSUME CarefulInv, SetDate \/ SetEnd \/ SetTime \/ SetRepeat \/ ToggleDow
    PROVE  CarefulInv'
<1>1. /\ form \in Form /\ form.time[1] < form.time[2] /\ form.day <= form.last
      /\ form.id # 0 => Plain(form)
    BY DEF CarefulInv, TypeInv, FormInv
<1>2. form.day \in Int /\ form.last \in Int /\ \A day \in Days : day \in Int
    BY <1>1 DEF Form, Days
<1>3. CASE SetDate
    <2>1. PICK day \in Days : Touch(Dated(day, form.last))
        BY <1>3 DEF SetDate
    <2> DEFINE f == Dated(day, form.last)
    <2>2. WeekDay(day) \in WeekDays
        BY WeekDayType
    <2>3. CASE form.repeat = "weekly"
        <3>1. form.id = 0
            BY <1>1, <2>3 DEF Plain
        <3>2. /\ f \in Form /\ f.no = form.no /\ f.id = form.id /\ f.confirming = form.confirming
              /\ f.time = form.time /\ f.day <= f.last
            <4>1. form.last \in Days
                BY <1>1 DEF Form
            <4> QED BY <1>1, <2>3, <4>1, DatedWeekly
        <3> HIDE DEF f
        <3> QED BY <1>1, <2>1, <3>1, <3>2, TouchStep DEF f
    <2>4. CASE form.repeat # "weekly"
        <3>1. /\ f \in Form /\ f.no = form.no /\ f.id = form.id /\ f.confirming = form.confirming
              /\ f.time = form.time /\ f.day = day /\ f.last = day /\ ~f.undated /\ f.dow = {WeekDay(day)}
              /\ f.repeat = form.repeat
            BY <1>1, <2>2, <2>4 DEF Dated, Form
        <3> HIDE DEF f
        <3>2. f.day <= f.last /\ (f.id # 0 => Plain(f))
            BY <1>1, <1>2, <3>1 DEF Plain
        <3> QED BY <1>1, <2>1, <3>1, <3>2, TouchStep DEF f
    <2> QED BY <2>3, <2>4
<1>4. CASE SetEnd
    <2>1. PICK last \in form.day..LastDay : form.repeat = "weekly" /\ Touch(Dated(form.day, last))
        BY <1>4 DEF SetEnd
    <2> DEFINE f == Dated(form.day, last)
    <2>2. form.id = 0 /\ last \in Days
        BY <1>1, <2>1 DEF Plain, Form, Days
    <2>3. /\ f \in Form /\ f.no = form.no /\ f.id = form.id /\ f.confirming = form.confirming
          /\ f.time = form.time /\ f.day <= f.last
        <3>1. form.day \in Days
            BY <1>1 DEF Form
        <3> QED BY <1>1, <2>1, <2>2, <3>1, DatedWeekly
    <2> HIDE DEF f
    <2> QED BY <1>1, <2>1, <2>2, <2>3, TouchStep DEF f
<1>5. CASE SetTime
    <2>1. PICK time \in Times : Touch([form EXCEPT !.time = time])
        BY <1>5 DEF SetTime
    <2> DEFINE f == [form EXCEPT !.time = time]
    <2>2. time \in Hours \X Hours /\ time[1] < time[2]
        BY DEF Times
    <2>3. /\ f \in Form /\ f.no = form.no /\ f.id = form.id /\ f.confirming = form.confirming
          /\ f.time = time /\ f.day = form.day /\ f.last = form.last
          /\ f.repeat = form.repeat /\ f.undated = form.undated /\ f.dow = form.dow
        BY <1>1, <2>2 DEF Form
    <2> HIDE DEF f
    <2>4. f.id # 0 => Plain(f)
        BY <1>1, <2>3 DEF Plain
    <2> QED BY <1>1, <2>1, <2>2, <2>3, <2>4, TouchStep DEF f
<1>6. CASE SetRepeat
    <2>1. PICK repeat \in {"no", "weekly"} : form.id = 0 /\ Touch([form EXCEPT !.repeat = repeat])
        BY <1>6 DEF SetRepeat
    <2> DEFINE f == [form EXCEPT !.repeat = repeat]
    <2>2. /\ f \in Form /\ f.no = form.no /\ f.id = form.id /\ f.confirming = form.confirming
          /\ f.time = form.time /\ f.day = form.day /\ f.last = form.last
        BY <1>1 DEF Form
    <2> HIDE DEF f
    <2> QED BY <1>1, <2>1, <2>2, TouchStep DEF f
<1>7. CASE ToggleDow
    <2>1. PICK dow \in SUBSET WeekDays : form.repeat = "weekly" /\ Touch([form EXCEPT !.dow = dow])
        <3>1. PICK d \in WeekDays :
                Touch([form EXCEPT !.dow = IF d \in form.dow THEN form.dow \ {d} ELSE form.dow \cup {d}])
            BY <1>7 DEF ToggleDow
        <3>2. (IF d \in form.dow THEN form.dow \ {d} ELSE form.dow \cup {d}) \in SUBSET WeekDays
            BY <1>1 DEF Form
        <3> QED BY <1>7, <3>1, <3>2 DEF ToggleDow
    <2> DEFINE f == [form EXCEPT !.dow = dow]
    <2>2. /\ f \in Form /\ f.no = form.no /\ f.id = form.id /\ f.confirming = form.confirming
          /\ f.time = form.time /\ f.day = form.day /\ f.last = form.last /\ form.id = 0
        BY <1>1, <2>1 DEF Form, Plain
    <2> HIDE DEF f
    <2> QED BY <1>1, <2>1, <2>2, TouchStep DEF f
<1> QED BY <1>3, <1>4, <1>5, <1>6, <1>7

(* The calls of Save.                                                       *)
LEMMA SaveCalls ==
    ASSUME NEW a \in Call, NEW b \in Call
    PROVE  /\ LET one == Append(<<>>, a) \o <<>> IN
                one \in Seq(Call) /\ DOMAIN one = {1} /\ one[1] = a
           /\ LET two == Append(<<>>, a) \o <<b>> IN
                two \in Seq(Call) /\ DOMAIN two = {1, 2} /\ two[1] = a /\ two[2] = b
OBVIOUS

(* Without repeat the days that are saved are among those looked at.        *)
LEMMA SaveStep == ASSUME CarefulInv, Save PROVE CarefulInv'
<1>1. FormClick("save") /\ IsOpen /\ form.id = 0 /\ conflicts = {} /\ UNCHANGED <<forms, conflicts>>
    BY DEF Save
<1>2. /\ calls = <<>> /\ events = entries /\ conflicts = InConflict(form)
      /\ booking_left' \in BookingStory /\ booking_left'.careful
      /\ booking_left'.others = 0 /\ booking_left'.modes = {"current"}
      /\ entries' = entries /\ made' = made /\ booked' = booked /\ events' = events
    BY <1>1, ClickFacts
<1>3. form \in Form /\ form.time[1] < form.time[2] /\ form.day <= form.last
      /\ form.day \in Int /\ form.last \in Int /\ form.confirming = "no"
    BY <1>1 DEF CarefulInv, TypeInv, FormInv, Form, Days
<1>4. form' = IF form.repeat = "weekly" THEN form ELSE [form EXCEPT !.undated = TRUE, !.boxes = FALSE]
    BY DEF Save
<1>5. /\ form' \in Form /\ form'.no = form.no /\ form'.id = form.id /\ form'.time = form.time
      /\ form'.day = form.day /\ form'.last = form.last /\ form'.dow = form.dow
      /\ form'.confirming = "no" /\ (form.undated => form'.undated)
      /\ (form'.undated # form.undated => form'.undated)
    BY <1>3, <1>4 DEF Form
<1>6. CheckedDays(form') \subseteq CheckedDays(form)
    BY <1>3, <1>5 DEF CheckedDays, EndOf
<1>7. InConflict(form') = {}
    <2>1. InConflict(form) = {}
        BY <1>1, <1>2
    <2> QED BY <1>5, <1>6, <2>1 DEF InConflict
<1>8. InConflict(form)' = {}
    BY <1>2, <1>7 DEF InConflict, CheckedDays, EndOf
<1>9. IsOpen' /\ conflicts' = {}
    BY <1>1, <1>5 DEF IsOpen
<1> DEFINE c == CallFor("save", form', "current")
           d == CallFor("check", form', "current")
<1>10. /\ c \in Call /\ c.op = "save" /\ ~c.answered /\ c.of = form' /\ c.mode = "current"
       /\ d \in Call /\ d.op = "check" /\ ~d.answered /\ d.of = form'
    BY <1>5, CallForType DEF CallFor, Modes
<1>11. /\ calls' \in Seq(Call) /\ DOMAIN calls' \in {{1}, {1, 2}}
       /\ calls'[1] = c /\ (2 \in DOMAIN calls' => calls'[2] = d)
    <2>1. calls' = Append(<<>>, c) \o (IF Same(form') THEN <<>> ELSE <<d>>)
        BY <1>2 DEF Save
    <2> HIDE DEF c, d
    <2> QED BY <1>10, <2>1, SaveCalls
<1> HIDE DEF c, d
<1>12. TypeInv' /\ EntriesInv'
    BY <1>1, <1>2, <1>5, <1>11, EntriesStay DEF CarefulInv, TypeInv
<1>13. FormInv'
    BY <1>1, <1>3, <1>5, <1>9 DEF FormInv
<1>14. CallsInv' /\ ShownInv' /\ KnownInv'
    BY <1>1, <1>2, <1>5, <1>8, <1>9, <1>10, <1>11
       DEF CallsInv, ShownInv, KnownInv, CheckOK, FetchOK, ReadOK, WriteOK, Writer
<1> QED BY <1>12, <1>13, <1>14 DEF CarefulInv

(* The modal that asks which entries changes nothing of what was looked at. *)
LEMMA AskWhichStep ==
    ASSUME CarefulInv, NEW type \in {"modify", "delete"}, AskWhich(type)
    PROVE  CarefulInv'
<1>1. /\ FormClick("save") /\ IsOpen /\ form.id # 0 /\ UNCHANGED <<calls, forms, conflicts>>
      /\ form' = [form EXCEPT !.confirming = type] /\ (type = "modify" => conflicts = {})
    BY DEF AskWhich
<1>2. /\ calls = <<>> /\ events = entries /\ conflicts = InConflict(form)
      /\ booking_left' \in BookingStory /\ booking_left'.careful
      /\ booking_left'.others = 0 /\ booking_left'.modes = {"current"}
      /\ entries' = entries /\ made' = made /\ booked' = booked /\ events' = events
    BY <1>1, ClickFacts
<1>3. /\ form' \in Form /\ form'.no = form.no /\ form'.id = form.id /\ form'.time = form.time
      /\ form'.day = form.day /\ form'.last = form.last /\ form'.dow = form.dow
      /\ form'.undated = form.undated /\ form'.repeat = form.repeat /\ form'.confirming = type
    BY <1>1 DEF CarefulInv, TypeInv, Form
<1>4. InConflict(form)' = InConflict(form)
    BY <1>2, <1>3 DEF InConflict, CheckedDays, EndOf
<1>5. calls' = <<>> /\ DOMAIN calls' = {} /\ IsOpen' /\ conflicts' = conflicts
    BY <1>1, <1>2, <1>3 DEF IsOpen
<1>6. TypeInv' /\ EntriesInv'
    BY <1>1, <1>2, <1>3, EntriesStay DEF CarefulInv, TypeInv
<1>7. FormInv'
    BY <1>1, <1>3, <1>5 DEF CarefulInv, FormInv, Plain
<1>8. CallsInv' /\ ShownInv' /\ KnownInv'
    BY <1>2, <1>4, <1>5 DEF CallsInv, ShownInv, KnownInv
<1> QED BY <1>6, <1>7, <1>8 DEF CarefulInv

(* The call that changes an entry is of a form without conflicts.           *)
LEMMA ConfirmStep == ASSUME CarefulInv, Confirm PROVE CarefulInv'
<1>1. /\ form.confirming # "no" /\ form' = [form EXCEPT !.confirming = "no"]
      /\ UNCHANGED <<booking_left, tables, events, forms, conflicts>>
    BY DEF Confirm
<1> DEFINE op == IF form.confirming = "modify" THEN "change" ELSE "delete"
           c == CallFor(op, form', "current")
<1>2. calls' = Append(calls, c)
    <2>1. PICK mode \in booking_left.modes : calls' = Append(calls, CallFor(op, form', mode))
        BY DEF Confirm
    <2> QED BY <2>1 DEF CarefulInv, TypeInv
<1>3. /\ form' \in Form /\ form'.no = form.no /\ form'.id = form.id /\ form'.time = form.time
      /\ form'.day = form.day /\ form'.last = form.last /\ form'.dow = form.dow
      /\ form'.undated = form.undated /\ form'.repeat = form.repeat /\ form'.confirming = "no"
    BY <1>1 DEF CarefulInv, TypeInv, Form
<1>4. calls = <<>> /\ DOMAIN calls = {} /\ IsOpen /\ form.id # 0 /\ (op = "change" => conflicts = {})
    BY <1>1 DEF CarefulInv, FormInv
<1>5. ~Done /\ conflicts = InConflict(form) /\ events = entries
    BY <1>4 DEF CarefulInv, KnownInv, ShownInv, Done
<1>6. /\ c \in Call /\ Writer(c) /\ ~c.answered /\ c.of = form' /\ c.mode = "current"
      /\ c.op = op /\ c.op # "save" /\ (c.op # "delete" => op = "change")
    BY <1>3, CallForType DEF CallFor, Modes, Writer
<1>7. calls' \in Seq(Call) /\ DOMAIN calls' = {1} /\ calls'[1] = c
    BY <1>2, <1>4, <1>6, OneCall
<1> HIDE DEF c, op
<1>8. InConflict(form)' = InConflict(form)
    BY <1>1, <1>3 DEF InConflict, CheckedDays, EndOf, tables
<1>9. IsOpen' /\ entries' = entries /\ made' = made /\ events' = events
    BY <1>1, <1>3, <1>4 DEF IsOpen, tables
<1>10. TypeInv' /\ EntriesInv'
    BY <1>1, <1>3, <1>7, <1>9, EntriesStay DEF CarefulInv, TypeInv, tables
<1>11. FormInv'
    BY <1>3, <1>9 DEF CarefulInv, FormInv, Plain
<1>12. CallsInv' /\ ShownInv' /\ KnownInv'
    BY <1>1, <1>3, <1>4, <1>5, <1>6, <1>7, <1>8, <1>9
       DEF CallsInv, ShownInv, KnownInv, CheckOK, FetchOK, ReadOK, WriteOK, Writer
<1> QED BY <1>10, <1>11, <1>12 DEF CarefulInv

(* Closing the form writes nothing.                                         *)
LEMMA CancelStep == ASSUME CarefulInv, Cancel PROVE CarefulInv'
<1>1. /\ IsOpen /\ calls = <<>> /\ UNCHANGED <<booking_left, tables, calls, events, forms>>
      /\ \/ form' = [form EXCEPT !.confirming = "no"] /\ conflicts' = conflicts
         \/ form' = NoForm /\ conflicts' = {}
    BY DEF Cancel, CarefulInv, TypeInv
<1>2. ~Done /\ DOMAIN calls = {}
    BY <1>1 DEF Done
<1>3. conflicts = InConflict(form) /\ events = entries
    BY <1>1, <1>2 DEF CarefulInv, KnownInv, ShownInv
<1>4. entries' = entries /\ made' = made /\ events' = events /\ calls' = calls
    BY <1>1 DEF tables
<1>5. CASE form' = [form EXCEPT !.confirming = "no"] /\ conflicts' = conflicts
    <2>1. /\ form' \in Form /\ form'.no = form.no /\ form'.id = form.id /\ form'.time = form.time
          /\ form'.day = form.day /\ form'.last = form.last /\ form'.dow = form.dow
          /\ form'.undated = form.undated /\ form'.repeat = form.repeat /\ form'.confirming = "no"
        BY <1>5 DEF CarefulInv, TypeInv, Form
    <2>2. InConflict(form)' = InConflict(form)
        BY <1>4, <2>1 DEF InConflict, CheckedDays, EndOf
    <2>3. TypeInv' /\ EntriesInv'
        BY <1>1, <1>4, <2>1, EntriesStay DEF CarefulInv, TypeInv, tables
    <2>4. FormInv'
        BY <1>1, <2>1 DEF CarefulInv, FormInv, Plain, IsOpen
    <2>5. CallsInv' /\ ShownInv' /\ KnownInv'
        BY <1>2, <1>3, <1>4, <1>5, <2>2 DEF CallsInv, ShownInv, KnownInv
    <2> QED BY <2>3, <2>4, <2>5 DEF CarefulInv
<1>6. CASE form' = NoForm /\ conflicts' = {}
    <2>1. /\ form' \in Form /\ ~IsOpen' /\ form'.id = 0 /\ form'.confirming = "no"
          /\ form'.time[1] < form'.time[2] /\ form'.day <= form'.last
        BY <1>6, NoFormType DEF IsOpen, Form, Days
    <2>2. TypeInv' /\ EntriesInv'
        BY <1>1, <1>4, <2>1, EntriesStay DEF CarefulInv, TypeInv, tables
    <2>3. FormInv' /\ CallsInv' /\ ShownInv' /\ KnownInv'
        BY <1>2, <1>3, <1>4, <1>6, <2>1 DEF FormInv, CallsInv, ShownInv, KnownInv
    <2> QED BY <2>2, <2>3 DEF CarefulInv
<1> QED BY <1>1, <1>5, <1>6

-----------------------------------------------------------------------------
(* What the server does, with the page as it was.                           *)
PageStays == UNCHANGED <<booking_left, events, form, forms, conflicts>>

(* A read is answered with the entries as they are.                         *)
LEMMA ServerReadsStep ==
    ASSUME CarefulInv, NEW i \in DOMAIN calls, ServerReads(i)
    PROVE  CarefulInv'
<1>1. /\ calls[i].op \in {"check", "fetch", "entry", "booking"}
      /\ UNCHANGED <<booking_left, tables, events, form, forms, conflicts>>
    BY DEF ServerReads
<1>2. calls \in Seq(Call) /\ calls[i] \in Call /\ entries \subseteq Entry
    BY DEF CarefulInv, TypeInv
<1>3. PICK ok \in BOOLEAN, data \in SUBSET Entry :
        /\ Answer(i, ok, data)
        /\ calls[i].op = "check" => data = InConflict(calls[i].of)
        /\ calls[i].op = "fetch" => data = entries
        /\ calls[i].op = "entry" => data \subseteq entries
    <2>1. InConflict(calls[i].of) \in SUBSET Entry /\ entries \in SUBSET Entry
          /\ WithId(calls[i].of.id) \in SUBSET Entry /\ WithId(calls[i].of.id) \subseteq entries
          /\ {} \in SUBSET Entry
          /\ (WithId(calls[i].of.id) # {}) \in BOOLEAN /\ (calls[i].of.booking \in bookings) \in BOOLEAN
        BY <1>2 DEF InConflict, WithId
    <2>2. CASE calls[i].op = "check"
        BY <2>1, <2>2 DEF ServerReads
    <2>3. CASE calls[i].op = "fetch"
        BY <2>1, <2>3 DEF ServerReads
    <2>4. CASE calls[i].op = "entry"
        <3>1. Answer(i, WithId(calls[i].of.id) # {}, WithId(calls[i].of.id))
            BY <2>4 DEF ServerReads
        <3> QED BY <2>1, <2>4, <3>1
    <2>5. CASE calls[i].op = "booking"
        <3>1. Answer(i, calls[i].of.booking \in bookings, {})
            BY <2>5 DEF ServerReads
        <3> QED BY <2>1, <2>5, <3>1
    <2> QED BY <1>1, <2>2, <2>3, <2>4, <2>5
<1>4. /\ calls' \in Seq(Call) /\ DOMAIN calls' = DOMAIN calls /\ Len(calls') = Len(calls)
      /\ \A j \in DOMAIN calls \ {i} : calls'[j] = calls[j]
      /\ calls'[i].op = calls[i].op /\ calls'[i].of = calls[i].of /\ calls'[i].mode = calls[i].mode
      /\ calls'[i].answered /\ calls'[i].ok = ok /\ calls'[i].data = data
    BY <1>2, <1>3, AnswerFacts
<1>5. entries' = entries /\ made' = made /\ events' = events /\ form' = form /\ conflicts' = conflicts
    BY <1>1 DEF tables
<1>6. InConflict(form)' = InConflict(form) /\ (IsOpen' <=> IsOpen)
    BY <1>5 DEF InConflict, CheckedDays, EndOf, IsOpen
<1>7. Done' <=> Done
    BY <1>1, <1>4 DEF Done, Writer
<1>8. TypeInv' /\ EntriesInv'
    BY <1>1, <1>4, EntriesStay DEF CarefulInv, TypeInv, tables
<1>9. FormInv'
    <2>1. calls # <<>> /\ calls' # <<>>
        BY <1>2, <1>4
    <2> QED BY <1>5, <1>6, <2>1 DEF CarefulInv, FormInv
<1>10. CallsInv'
    <2>1. CallsInv
        BY DEF CarefulInv
    <2>2. ASSUME NEW j \in DOMAIN calls', j # i
          PROVE (CheckOK(calls[j]) /\ FetchOK(calls[j]) /\ ReadOK(calls[j]) /\ WriteOK(calls[j]))'
        BY <1>4, <1>5, <1>6, <1>7, <2>1, <2>2 DEF CallsInv, CheckOK, FetchOK, ReadOK, WriteOK, Writer
    <2>3. (CheckOK(calls[i]) /\ FetchOK(calls[i]) /\ ReadOK(calls[i]) /\ WriteOK(calls[i]))'
        BY <1>1, <1>3, <1>4, <1>5, <1>6, <1>7, <2>1 DEF CallsInv, CheckOK, FetchOK, ReadOK, WriteOK, Writer
    <2>4. \A j, k \in DOMAIN calls' : Writer(calls'[j]) /\ Writer(calls'[k]) => j = k
        BY <1>1, <1>4, <2>1 DEF CallsInv, Writer
    <2> QED BY <2>2, <2>3, <2>4 DEF CallsInv
<1>11. ShownInv' /\ KnownInv'
    BY <1>4, <1>5, <1>6, <1>7 DEF CarefulInv, ShownInv, KnownInv
<1> QED BY <1>8, <1>9, <1>10, <1>11 DEF CarefulInv

(* A writer is answered: with the tables changed, or with an error and the  *)
(* entries as they were.                                                    *)
LEMMA WrittenStep ==
    ASSUME CarefulInv, NEW i \in DOMAIN calls, Writer(calls[i]), ~calls[i].answered,
           NEW ok \in BOOLEAN, Answer(i, ok, {}), PageStays, EntriesInv',
           entries' \subseteq Entry, made' \in Nat, booked' \in Nat, ok \/ entries' = entries
    PROVE  CarefulInv'
<1>1. /\ calls' \in Seq(Call) /\ DOMAIN calls' = DOMAIN calls /\ Len(calls') = Len(calls)
      /\ \A j \in DOMAIN calls \ {i} : calls'[j] = calls[j]
      /\ calls'[i].op = calls[i].op /\ calls'[i].of = calls[i].of /\ calls'[i].mode = calls[i].mode
      /\ calls'[i].answered /\ calls'[i].ok = ok
    BY AnswerFacts DEF CarefulInv, TypeInv
<1>2. CallsInv /\ IsOpen /\ IsOpen' /\ form' = form /\ events' = events /\ conflicts' = conflicts
    BY DEF CarefulInv, CallsInv, WriteOK, PageStays, IsOpen
<1>3. \A j \in DOMAIN calls : j # i => ~Writer(calls[j])
    BY <1>2 DEF CallsInv
<1>4. (Done' <=> ok) /\ ~Done
    BY <1>1, <1>3 DEF Done, Writer
<1>5. ~ok => InConflict(form)' = InConflict(form)
    BY <1>2 DEF InConflict, CheckedDays, EndOf
<1>6. TypeInv'
    BY <1>1 DEF CarefulInv, TypeInv, PageStays
<1>7. FormInv'
    <2>1. calls # <<>> /\ calls' # <<>>
        BY <1>1
    <2> QED BY <1>2, <2>1 DEF CarefulInv, FormInv
<1>8. CASE ok
    <2>1. Done'
        BY <1>4, <1>8
    <2>2. CallsInv' /\ ShownInv' /\ KnownInv'
        BY <1>1, <1>2, <1>3, <2>1
           DEF CallsInv, ShownInv, KnownInv, CheckOK, FetchOK, ReadOK, WriteOK, Writer
    <2> QED BY <1>6, <1>7, <2>2 DEF CarefulInv
<1>9. CASE ~ok
    <2>1. ~Done' /\ ~Done /\ entries' = entries
        BY <1>4, <1>9
    <2>2. ASSUME NEW j \in DOMAIN calls'
          PROVE (CheckOK(calls[j]) /\ FetchOK(calls[j]) /\ ReadOK(calls[j]) /\ WriteOK(calls[j]))'
        BY <1>1, <1>2, <1>3, <1>5, <1>9, <2>1 DEF CallsInv, CheckOK, FetchOK, ReadOK, WriteOK, Writer
    <2>3. \A j, k \in DOMAIN calls' : Writer(calls'[j]) /\ Writer(calls'[k]) => j = k
        BY <1>1, <1>2 DEF CallsInv, Writer
    <2>4. CallsInv'
        BY <2>2, <2>3 DEF CallsInv
    <2>5. ShownInv' /\ KnownInv'
        BY <1>1, <1>2, <1>5, <1>9, <2>1 DEF CarefulInv, ShownInv, KnownInv
    <2> QED BY <1>6, <1>7, <2>4, <2>5 DEF CarefulInv
<1> QED BY <1>8, <1>9

(* The entries of a new booking have ids of their own, after all others,    *)
(* and days of their own.                                                   *)
LEMMA NewEntriesFacts ==
    ASSUME made \in Nat, booked \in Nat, NEW f \in Form
    PROVE  /\ Cardinality(BookedDays(f)) \in Nat
           /\ NewEntries(f) \subseteq Entry
           /\ \A e \in NewEntries(f) :
                /\ e.id \in made + 1..made + Cardinality(BookedDays(f))
                /\ e.day \in BookedDays(f) /\ e.time = f.time
           /\ \A e, x \in NewEntries(f) : e.id = x.id \/ e.day = x.day => e = x
           /\ BookedDays(f) = {} => NewEntries(f) = {}
<1> DEFINE B == BookedDays(f)
           upTo(day) == {d \in B : d <= day}
           new(day) == [id |-> made + Cardinality(upTo(day)), booking |-> booked + 1, day |-> day, time |-> f.time]
<1>1. B \subseteq Days /\ B \subseteq 1..LastDay /\ LastDay \in Nat
    BY BookedIsChecked, BookingAssumption DEF Days
<1>3. NewEntries(f) = {new(day) : day \in B}
    BY DEF NewEntries
<1> HIDE DEF B
<1>2. IsFiniteSet(B) /\ Cardinality(B) \in Nat
    <2>1. 1 \in Int /\ LastDay \in Int
        BY <1>1
    <2>2. IsFiniteSet(1..LastDay)
        BY <2>1, FS_Interval
    <2>3. IsFiniteSet(B)
        BY <1>1, <2>2, FS_Subset
    <2> QED BY <2>3, FS_CardinalityType
<1>4. ASSUME NEW day \in B PROVE Cardinality(upTo(day)) \in 1..Cardinality(B)
    <2>1. upTo(day) \subseteq B /\ day \in upTo(day)
        BY <1>1
    <2>2. IsFiniteSet(upTo(day)) /\ Cardinality(upTo(day)) <= Cardinality(B)
        BY <1>2, <2>1, FS_Subset
    <2>3. Cardinality(upTo(day)) # 0 /\ Cardinality(upTo(day)) \in Nat
        BY <2>1, <2>2, FS_EmptySet, FS_CardinalityType
    <2> QED BY <1>2, <2>2, <2>3
<1>5. ASSUME NEW day \in B, NEW other \in B, day < other
      PROVE Cardinality(upTo(day)) # Cardinality(upTo(other))
    <2>1. upTo(day) \subseteq upTo(other) /\ other \in upTo(other) /\ other \notin upTo(day)
        <3>1. \A d \in B : d \in Int
            BY <1>1
        <3>2. other <= other /\ ~(other <= day) /\ \A d \in B : d <= day => d <= other
            BY <1>5, <3>1
        <3> QED BY <3>2
    <2>2. upTo(other) \subseteq B
        OBVIOUS
    <2>3. IsFiniteSet(upTo(other))
        BY <1>2, <2>2, FS_Subset
    <2>4. Cardinality(upTo(day)) = Cardinality(upTo(other)) => upTo(day) = upTo(other)
        BY <2>1, <2>3, FS_Subset
    <2> QED BY <2>1, <2>4
<1> HIDE DEF upTo
<1>6. ASSUME NEW day \in B, NEW other \in B, Cardinality(upTo(day)) = Cardinality(upTo(other))
      PROVE day = other
    <2>1. day \in Int /\ other \in Int
        BY <1>1
    <2> QED BY <1>5, <1>6, <2>1
<1>7. ASSUME NEW day \in B
      PROVE  /\ new(day) \in Entry /\ new(day).day = day /\ new(day).time = f.time
             /\ new(day).id = made + Cardinality(upTo(day))
             /\ new(day).id \in made + 1..made + Cardinality(B)
    <2>1. made + Cardinality(upTo(day)) \in made + 1..made + Cardinality(B)
        BY <1>2, <1>4
    <2>2. made + Cardinality(upTo(day)) \in Nat /\ booked + 1 \in Nat /\ day \in Days /\ f.time \in Hours \X Hours
        BY <1>1, <1>4 DEF Form
    <2> QED BY <2>1, <2>2 DEF Entry
<1>8. ASSUME NEW e \in NewEntries(f), NEW x \in NewEntries(f), e.id = x.id \/ e.day = x.day
      PROVE e = x
    <2>1. PICK day \in B : e = new(day)
        BY <1>3
    <2>2. PICK other \in B : x = new(other)
        BY <1>3
    <2>3. CASE e.day = x.day
        BY <1>7, <2>1, <2>2, <2>3
    <2>4. CASE e.id = x.id
        <3>1. made + Cardinality(upTo(day)) = made + Cardinality(upTo(other))
            BY <1>7, <2>1, <2>2, <2>4
        <3>2. Cardinality(upTo(day)) \in Int /\ Cardinality(upTo(other)) \in Int
            BY <1>4
        <3>3. \A m, n \in Int : made + m = made + n => m = n
            OBVIOUS
        <3>4. Cardinality(upTo(day)) = Cardinality(upTo(other))
            BY <3>1, <3>2, <3>3
        <3>5. day = other
            BY <1>6, <3>4
        <3> QED BY <2>1, <2>2, <3>5
    <2> QED BY <1>8, <2>3, <2>4
<1> HIDE DEF new
<1>9. \A e \in NewEntries(f) : \E day \in B : e = new(day)
    BY <1>3
<1> QED BY <1>2, <1>3, <1>7, <1>8, <1>9 DEF B

(* The days that are booked were looked at for conflicts.                   *)
LEMMA ServerSavesStep ==
    ASSUME CarefulInv, NEW i \in DOMAIN calls, ServerSaves(i)
    PROVE  CarefulInv'
<1> DEFINE B == BookedDays(form)
           new == NewEntries(form)
<1>1. /\ Writer(calls[i]) /\ ~calls[i].answered /\ calls[i].of = form
      /\ form.id = 0 /\ InConflict(form) = {}
    BY DEF ServerSaves, CarefulInv, CallsInv, WriteOK, Writer
<1>2. /\ entries' = entries \cup new /\ made' = made + Cardinality(B) /\ booked' = booked + 1
      /\ Answer(i, B # {}, {}) /\ PageStays
    BY <1>1 DEF ServerSaves, PageStays
<1>3. /\ entries \subseteq Entry /\ made \in Nat /\ booked \in Nat /\ form \in Form
      /\ form.time[1] < form.time[2] /\ form.time \in Hours \X Hours
    BY DEF CarefulInv, TypeInv, FormInv, Form
<1>4. /\ Cardinality(B) \in Nat /\ new \subseteq Entry
      /\ \A e \in new : /\ e.id \in made + 1..made + Cardinality(B)
                       /\ e.day \in B /\ e.time = form.time
      /\ \A e, x \in new : e.id = x.id \/ e.day = x.day => e = x
      /\ B = {} => new = {}
    BY <1>3, NewEntriesFacts
<1>5. B \subseteq CheckedDays(form)
    BY <1>3, BookedIsChecked
<1> HIDE DEF B, new
<1>6. /\ \A e \in entries : e.id \in 1..made /\ e.time[1] < e.time[2] /\ e.time \in Hours \X Hours
      /\ \A e, x \in entries : e.id = x.id => e = x
      /\ \A e, x \in entries : e # x /\ e.day = x.day => ~Overlap(e.time, x.time)
    BY <1>3 DEF CarefulInv, EntriesInv, NothingOverlaps, Entry
<1>7. ASSUME NEW e \in entries, NEW x \in new, e.day = x.day
      PROVE ~Overlap(e.time, x.time) /\ ~Overlap(x.time, e.time)
    <2>1. e.id # form.id /\ e.day \in CheckedDays(form)
        BY <1>1, <1>4, <1>5, <1>6, <1>7
    <2>2. ~Meets(e.time, form.time)
        BY <1>1, <2>1 DEF InConflict
    <2>3. ~Overlap(e.time, form.time)
        BY <1>3, <1>6, <2>2, MeetsIsOverlap
    <2> QED BY <1>4, <2>3 DEF Overlap
<1>8. EntriesInv'
    <2>1. \A e \in entries' : e.id \in 1..made' /\ e.time[1] < e.time[2]
        BY <1>2, <1>3, <1>4, <1>6
    <2>2. \A e, x \in entries' : e.id = x.id => e = x
        BY <1>2, <1>3, <1>4, <1>6
    <2>3. NothingOverlaps'
        BY <1>2, <1>4, <1>6, <1>7 DEF NothingOverlaps
    <2> QED BY <2>1, <2>2, <2>3 DEF EntriesInv
<1>9. entries' \subseteq Entry /\ made' \in Nat /\ booked' \in Nat /\ (B # {} \/ entries' = entries)
    BY <1>2, <1>3, <1>4
<1>10. (B # {}) \in BOOLEAN
    OBVIOUS
<1> QED BY <1>1, <1>2, <1>8, <1>9, <1>10, WrittenStep

(* What is changed was looked at for conflicts, and only it is changed.     *)
LEMMA ServerChangesStep ==
    ASSUME CarefulInv, NEW i \in DOMAIN calls, ServerChanges(i)
    PROVE  CarefulInv'
<1>1. /\ Writer(calls[i]) /\ ~calls[i].answered /\ calls[i].of = form /\ calls[i].mode = "current"
      /\ form.id # 0 /\ InConflict(form) = {}
    BY DEF ServerChanges, CarefulInv, CallsInv, WriteOK, Writer
<1>2. PageStays /\ made' = made /\ booked' = booked
    BY DEF ServerChanges, PageStays
<1>3. /\ entries \subseteq Entry /\ made \in Nat /\ booked \in Nat /\ form \in Form
      /\ form.time[1] < form.time[2] /\ form.time \in Hours \X Hours /\ form.day \in Days
    BY DEF CarefulInv, TypeInv, FormInv, Form
<1>4. form.day \in CheckedDays(form)
    BY <1>1, <1>3, BookedIsChecked DEF CarefulInv, FormInv
<1>5. \A e \in entries : Selected(e, "current") = {e}
    BY DEF Selected
<1>6. CASE entries' = entries /\ Answer(i, FALSE, {})
    BY <1>1, <1>2, <1>3, <1>6, EntriesStay, WrittenStep DEF CarefulInv
<1>7. ASSUME NEW e \in WithId(form.id), Answer(i, TRUE, {}),
             entries' = (entries \ {e}) \cup {Moved(e, form)}
      PROVE CarefulInv'
    <2> DEFINE moved == Moved(e, form)
    <2>1. e \in entries /\ e \in Entry /\ e.id = form.id
        BY <1>3 DEF WithId
    <2>2. moved \in Entry /\ moved.id = e.id /\ moved.day = form.day /\ moved.time = form.time
        BY <1>3, <2>1 DEF Entry, Moved
    <2>3. entries' = (entries \ {e}) \cup {moved}
        BY <1>7
    <2> HIDE DEF moved
    <2>4. /\ \A x \in entries : x.id \in 1..made /\ x.time[1] < x.time[2] /\ x.time \in Hours \X Hours
          /\ \A x, y \in entries : x.id = y.id => x = y
          /\ \A x, y \in entries : x # y /\ x.day = y.day => ~Overlap(x.time, y.time)
        BY <1>3 DEF CarefulInv, EntriesInv, NothingOverlaps, Entry
    <2>5. ASSUME NEW x \in entries \ {e}, x.day = form.day
          PROVE ~Overlap(x.time, form.time) /\ ~Overlap(form.time, x.time)
        <3>1. x.id # form.id
            BY <2>1, <2>4
        <3>2. ~Meets(x.time, form.time)
            BY <1>1, <1>4, <2>5, <3>1 DEF InConflict
        <3>3. ~Overlap(x.time, form.time)
            BY <1>3, <2>4, <3>2, MeetsIsOverlap
        <3> QED BY <3>3 DEF Overlap
    <2>6. EntriesInv'
        <3>1. \A x \in entries' : x.id \in 1..made' /\ x.time[1] < x.time[2]
            BY <1>2, <1>3, <2>1, <2>2, <2>3, <2>4
        <3>2. \A x, y \in entries' : x.id = y.id => x = y
            BY <2>1, <2>2, <2>3, <2>4
        <3>3. NothingOverlaps'
            BY <2>2, <2>3, <2>4, <2>5 DEF NothingOverlaps
        <3> QED BY <3>1, <3>2, <3>3 DEF EntriesInv
    <2>7. entries' \subseteq Entry /\ made' \in Nat /\ booked' \in Nat
        BY <1>2, <1>3, <2>2, <2>3
    <2> QED BY <1>1, <1>2, <1>7, <2>6, <2>7, WrittenStep
<1>8. ASSUME NEW e \in WithId(form.id), NEW starts, NEW ends,
             entries' = (entries \ ((Selected(e, "current") \ {e}) \cup {e}))
                        \cup {Moved(e, form)}
                        \cup {Retimed(x, form, starts, ends) : x \in Selected(e, "current") \ {e}}
      PROVE  entries' = (entries \ {e}) \cup {Moved(e, form)}
    <2>1. Selected(e, "current") \ {e} = {}
        BY <1>5 DEF WithId
    <2> QED BY <1>8, <2>1
<1>9. \/ entries' = entries /\ Answer(i, FALSE, {})
      \/ \E e \in WithId(form.id) :
           entries' = (entries \ {e}) \cup {Moved(e, form)} /\ Answer(i, TRUE, {})
    <2> DEFINE After(e, f, mode, starts, ends) ==
                  (entries \ ((Selected(e, mode) \ {e}) \cup {e}))
                  \cup {Moved(e, f)} \cup {Retimed(x, f, starts, ends) : x \in Selected(e, mode) \ {e}}
    <2>1. \/ UNCHANGED entries /\ Answer(i, FALSE, {})
          \/ \E e \in WithId(calls[i].of.id) :
               /\ \E starts, ends \in SUBSET (Selected(e, calls[i].mode) \ {e}) :
                    entries' = After(e, calls[i].of, calls[i].mode, starts, ends)
               /\ Answer(i, TRUE, {})
        BY DEF ServerChanges
    <2>2. \A e \in WithId(form.id) : \A starts, ends :
             entries' = After(e, form, "current", starts, ends) => entries' = (entries \ {e}) \cup {Moved(e, form)}
        BY <1>8
    <2> HIDE DEF After
    <2>3. \/ UNCHANGED entries /\ Answer(i, FALSE, {})
          \/ \E e \in WithId(form.id) :
               /\ \E starts, ends \in SUBSET (Selected(e, "current") \ {e}) :
                    entries' = After(e, form, "current", starts, ends)
               /\ Answer(i, TRUE, {})
        BY <1>1, <2>1
    <2> QED BY <2>2, <2>3
<1>10. CASE \E e \in WithId(form.id) :
               entries' = (entries \ {e}) \cup {Moved(e, form)} /\ Answer(i, TRUE, {})
    <2>1. PICK e \in WithId(form.id) :
               entries' = (entries \ {e}) \cup {Moved(e, form)} /\ Answer(i, TRUE, {})
        BY <1>10
    <2> QED BY <1>7, <2>1
<1> QED BY <1>6, <1>9, <1>10

(* Fewer entries overlap no more.                                           *)
LEMMA ServerRemovesStep ==
    ASSUME CarefulInv, NEW i \in DOMAIN calls, ServerRemoves(i)
    PROVE  CarefulInv'
<1>1. /\ Writer(calls[i]) /\ ~calls[i].answered
      /\ PageStays /\ made' = made /\ booked' = booked
    BY DEF ServerRemoves, Writer, PageStays
<1>2. PICK ok \in BOOLEAN : Answer(i, ok, {}) /\ entries' \subseteq entries /\ (ok \/ entries' = entries)
    BY DEF ServerRemoves
<1>3. EntriesInv'
    BY <1>1, <1>2 DEF CarefulInv, EntriesInv, NothingOverlaps
<1>4. entries' \subseteq Entry /\ made' \in Nat /\ booked' \in Nat
    BY <1>1, <1>2 DEF CarefulInv, TypeInv
<1> QED BY <1>1, <1>2, <1>3, <1>4, WrittenStep

-----------------------------------------------------------------------------
(* What each answer does at the page.                                       *)
Answering(i) == calls[i].answered /\ UNCHANGED <<booking_left, tables>>

(* The conflicts that are shown are those of the form, when it was not      *)
(* written meanwhile.                                                       *)
LEMMA OnCheckStep ==
    ASSUME CarefulInv, NEW i \in DOMAIN calls, Answering(i), OnCheck(i)
    PROVE  CarefulInv'
<1>1. /\ calls[i].op = "check" /\ calls[i].answered /\ calls' = Others(i)
      /\ conflicts' = IF IsOpen /\ calls[i].of.no = form.no THEN calls[i].data ELSE conflicts
      /\ UNCHANGED <<events, form, forms, booking_left, tables>>
    BY DEF OnCheck, Answering
<1>2. /\ entries' = entries /\ made' = made /\ booked' = booked /\ events' = events /\ form' = form
      /\ booking_left' = booking_left /\ forms' = forms
    BY <1>1 DEF tables
<1>3. /\ calls' \in Seq(Call)
      /\ \E from \in [DOMAIN calls' -> DOMAIN calls \ {i}] :
            /\ \A k \in DOMAIN calls' : calls'[k] = calls[from[k]]
            /\ \A j, k \in DOMAIN calls' : from[j] = from[k] => j = k
            /\ \A j \in DOMAIN calls \ {i} : \E k \in DOMAIN calls' : from[k] = j
    BY <1>1, OthersFacts DEF CarefulInv, TypeInv
<1>4. PICK from \in [DOMAIN calls' -> DOMAIN calls \ {i}] :
            /\ \A k \in DOMAIN calls' : calls'[k] = calls[from[k]]
            /\ \A j, k \in DOMAIN calls' : from[j] = from[k] => j = k
            /\ \A j \in DOMAIN calls \ {i} : \E k \in DOMAIN calls' : from[k] = j
    BY <1>3
<1>5. CallsInv /\ calls \in Seq(Call) /\ Len(calls) \in Nat /\ DOMAIN calls = 1..Len(calls)
    BY DEF CarefulInv, TypeInv
<1>6. (IsOpen' <=> IsOpen) /\ InConflict(form)' = InConflict(form)
    BY <1>2 DEF IsOpen, InConflict, CheckedDays, EndOf
<1>7. Done' <=> Done
    BY <1>1, <1>4 DEF Done, Writer
<1>8. TypeInv' /\ EntriesInv'
    BY <1>2, <1>3, EntriesStay DEF CarefulInv, TypeInv
<1>9. FormInv'
    <2>1. form.confirming = "no"
        BY <1>5 DEF CarefulInv, FormInv
    <2> QED BY <1>1, <1>2, <1>6, <2>1 DEF CarefulInv, FormInv
<1>10. CallsInv'
    <2>1. ASSUME NEW k \in DOMAIN calls'
          PROVE (CheckOK(calls[k]) /\ FetchOK(calls[k]) /\ ReadOK(calls[k]) /\ WriteOK(calls[k]))'
        <3>1. /\ from[k] \in DOMAIN calls \ {i} /\ calls'[k] = calls[from[k]]
              /\ CheckOK(calls[from[k]]) /\ FetchOK(calls[from[k]]) /\ ReadOK(calls[from[k]]) /\ WriteOK(calls[from[k]])
            BY <1>4, <1>5 DEF CallsInv
        <3>2. calls'[k].op \notin {"entry", "booking"}
            BY <1>5, <3>1 DEF ReadOK
        <3> QED BY <1>2, <1>6, <1>7, <3>1, <3>2 DEF CheckOK, FetchOK, ReadOK, WriteOK, Writer
    <2>2. \A j, k \in DOMAIN calls' : Writer(calls'[j]) /\ Writer(calls'[k]) => j = k
        BY <1>4, <1>5 DEF CallsInv
    <2> QED BY <2>1, <2>2 DEF CallsInv, Writer
<1>11. ShownInv'
    BY <1>1, <1>2, <1>4, <1>7 DEF CarefulInv, ShownInv
<1>12. KnownInv'
    <2>1. IsOpen /\ ~Done => calls[i].of = form /\ calls[i].data = InConflict(form)
        BY <1>1, <1>5 DEF CallsInv, CheckOK
    <2> QED BY <1>1, <1>6, <1>7, <2>1 DEF KnownInv
<1> QED BY <1>8, <1>9, <1>10, <1>11, <1>12 DEF CarefulInv

(* The calendar shows what the server has: no form is open.                 *)
LEMMA OnFetchStep ==
    ASSUME CarefulInv, NEW i \in DOMAIN calls, Answering(i), OnFetch(i)
    PROVE  CarefulInv'
<1>1. /\ calls[i].op = "fetch" /\ calls[i].answered /\ calls' = Others(i) /\ events' = calls[i].data
      /\ UNCHANGED <<conflicts, form, forms, booking_left, tables>>
    BY DEF OnFetch, Answering
<1>2. /\ entries' = entries /\ made' = made /\ booked' = booked /\ conflicts' = conflicts /\ form' = form
      /\ booking_left' = booking_left /\ forms' = forms
    BY <1>1 DEF tables
<1>3. PICK from \in [DOMAIN calls' -> DOMAIN calls \ {i}] :
            /\ \A k \in DOMAIN calls' : calls'[k] = calls[from[k]]
            /\ \A j, k \in DOMAIN calls' : from[j] = from[k] => j = k
            /\ \A j \in DOMAIN calls \ {i} : \E k \in DOMAIN calls' : from[k] = j
    BY <1>1, OthersFacts DEF CarefulInv, TypeInv
<1>4. CallsInv /\ calls \in Seq(Call) /\ Len(calls) \in Nat /\ DOMAIN calls = 1..Len(calls)
    BY DEF CarefulInv, TypeInv
<1>5. ~IsOpen /\ ~IsOpen' /\ calls[i].data = entries
    BY <1>1, <1>2, <1>4 DEF CallsInv, FetchOK, IsOpen
<1>6. calls' \in Seq(Call)
    BY <1>1, <1>4, OthersFacts
<1>7. TypeInv' /\ EntriesInv'
    BY <1>2, <1>6, EntriesStay DEF CarefulInv, TypeInv
<1>8. FormInv'
    BY <1>2, <1>5 DEF CarefulInv, FormInv, IsOpen
<1>9. CallsInv'
    <2>1. ASSUME NEW k \in DOMAIN calls'
          PROVE (CheckOK(calls[k]) /\ FetchOK(calls[k]) /\ ReadOK(calls[k]) /\ WriteOK(calls[k]))'
        <3>1. /\ from[k] \in DOMAIN calls \ {i} /\ calls'[k] = calls[from[k]]
              /\ CheckOK(calls[from[k]]) /\ FetchOK(calls[from[k]]) /\ ReadOK(calls[from[k]]) /\ WriteOK(calls[from[k]])
            BY <1>3, <1>4 DEF CallsInv
        <3>2. calls'[k].op \notin {"entry", "booking"} /\ ~Writer(calls'[k])
            BY <1>4, <1>5, <3>1 DEF ReadOK, WriteOK
        <3> QED BY <1>2, <1>5, <3>1, <3>2 DEF CheckOK, FetchOK, ReadOK, WriteOK, Writer
    <2>2. \A j, k \in DOMAIN calls' : Writer(calls'[j]) /\ Writer(calls'[k]) => j = k
        BY <1>3, <1>4 DEF CallsInv
    <2> QED BY <2>1, <2>2 DEF CallsInv, Writer
<1>10. ShownInv' /\ KnownInv'
    BY <1>1, <1>2, <1>5 DEF ShownInv, KnownInv
<1> QED BY <1>7, <1>8, <1>9, <1>10 DEF CarefulInv

(* The form that wrote closes, and nothing else but conflicts to be told is *)
(* under way.                                                               *)
LEMMA OnSavedStep ==
    ASSUME CarefulInv, NEW i \in DOMAIN calls, Answering(i), OnSaved(i)
    PROVE  CarefulInv'
<1>1. /\ Writer(calls[i]) /\ calls[i].answered
      /\ UNCHANGED <<events, forms, booking_left, tables>>
    BY DEF OnSaved, Answering, Writer
<1>2. /\ entries' = entries /\ made' = made /\ booked' = booked /\ events' = events
      /\ booking_left' = booking_left /\ forms' = forms
    BY <1>1 DEF tables
<1>3. PICK from \in [DOMAIN Others(i) -> DOMAIN calls \ {i}] :
            /\ \A k \in DOMAIN Others(i) : Others(i)[k] = calls[from[k]]
            /\ \A j, k \in DOMAIN Others(i) : from[j] = from[k] => j = k
            /\ \A j \in DOMAIN calls \ {i} : \E k \in DOMAIN Others(i) : from[k] = j
    BY OthersFacts DEF CarefulInv, TypeInv
<1>4. CallsInv /\ calls \in Seq(Call) /\ Others(i) \in Seq(Call)
    BY OthersFacts DEF CarefulInv, TypeInv
<1>5. IsOpen /\ calls[i].of = form
    BY <1>1, <1>4 DEF CallsInv, WriteOK
<1>6. \A k \in DOMAIN Others(i) : Others(i)[k] \in Call /\ Others(i)[k].op = "check"
    <2> TAKE k \in DOMAIN Others(i)
    <2>1. /\ from[k] \in DOMAIN calls /\ from[k] # i /\ Others(i)[k] = calls[from[k]] /\ calls[from[k]] \in Call
        BY <1>3, <1>4
    <2>2. FetchOK(calls[from[k]]) /\ ReadOK(calls[from[k]]) /\ ~Writer(calls[from[k]])
        BY <1>1, <1>4, <2>1 DEF CallsInv
    <2> QED BY <1>5, <2>1, <2>2 DEF Call, FetchOK, ReadOK, Writer
<1>7. CASE calls[i].ok
    <2>1. form' = NoForm /\ conflicts' = {} /\ calls' = Refetched(Others(i))
        BY <1>5, <1>7 DEF OnSaved
    <2>2. Fetches(Others(i)) = {}
        BY <1>6 DEF Fetches
    <2> DEFINE c == CallFor("fetch", NoForm, "current")
    <2>3. c \in Call /\ c.op = "fetch" /\ ~c.answered
        BY NoFormType, CallForType DEF CallFor, Modes
    <2>4. calls' = Append(Others(i), c)
        BY <2>1, <2>2 DEF Refetched
    <2> HIDE DEF c
    <2>5. /\ calls' \in Seq(Call) /\ DOMAIN calls' = DOMAIN Others(i) \cup {Len(Others(i)) + 1}
          /\ calls'[Len(Others(i)) + 1] = c
          /\ \A k \in DOMAIN Others(i) : calls'[k] = Others(i)[k]
        <3>1. /\ calls' \in Seq(Call) /\ DOMAIN calls' = 1..Len(Others(i)) + 1
              /\ DOMAIN Others(i) = 1..Len(Others(i)) /\ Len(Others(i)) \in Nat
              /\ calls'[Len(Others(i)) + 1] = c
              /\ \A k \in DOMAIN Others(i) : calls'[k] = Others(i)[k]
            BY <1>4, <2>3, <2>4, AppendFacts
        <3>2. 1..Len(Others(i)) + 1 = 1..Len(Others(i)) \cup {Len(Others(i)) + 1}
            BY <3>1
        <3> QED BY <3>1, <3>2
    <2>6. /\ form' \in Form /\ ~IsOpen' /\ form'.id = 0 /\ form'.confirming = "no"
          /\ form'.time[1] < form'.time[2] /\ form'.day <= form'.last
        BY <2>1, NoFormType DEF IsOpen, Form, Days
    <2>7. TypeInv' /\ EntriesInv'
        BY <1>2, <2>5, <2>6, EntriesStay DEF CarefulInv, TypeInv
    <2>8. FormInv'
        BY <2>1, <2>6 DEF FormInv
    <2>9. \A k \in DOMAIN calls' : calls'[k].op = "check" \/ (calls'[k].op = "fetch" /\ ~calls'[k].answered)
        BY <1>6, <2>3, <2>5
    <2>10. CallsInv'
        BY <2>6, <2>9 DEF CallsInv, CheckOK, FetchOK, ReadOK, WriteOK, Writer
    <2>11. \E k \in DOMAIN calls' : calls'[k].op = "fetch"
        BY <2>3, <2>5
    <2>12. ShownInv' /\ KnownInv'
        BY <2>6, <2>11 DEF ShownInv, KnownInv
    <2> QED BY <2>7, <2>8, <2>10, <2>12 DEF CarefulInv
<1>8. CASE ~calls[i].ok
    <2>1. calls' = Others(i) /\ form' = form /\ conflicts' = conflicts
        BY <1>8 DEF OnSaved
    <2>2. IsOpen' /\ InConflict(form)' = InConflict(form)
        BY <1>2, <1>5, <2>1 DEF IsOpen, InConflict, CheckedDays, EndOf
    <2>3. ~Done /\ ~Done'
        BY <1>1, <1>4, <1>6, <1>8, <2>1 DEF Done, CallsInv, Writer
    <2>4. TypeInv' /\ EntriesInv'
        BY <1>2, <1>4, <2>1, EntriesStay DEF CarefulInv, TypeInv
    <2>5. FormInv'
        <3>1. form.confirming = "no"
            BY <1>4 DEF CarefulInv, FormInv
        <3> QED BY <2>1, <2>2, <3>1 DEF CarefulInv, FormInv
    <2>6. CallsInv'
        <3>1. ASSUME NEW k \in DOMAIN calls'
              PROVE (CheckOK(calls[k]) /\ FetchOK(calls[k]) /\ ReadOK(calls[k]) /\ WriteOK(calls[k]))'
            <4>1. /\ from[k] \in DOMAIN calls /\ calls'[k] = calls[from[k]] /\ calls'[k].op = "check"
                  /\ CheckOK(calls[from[k]])
                BY <1>3, <1>4, <1>6, <2>1 DEF CallsInv
            <4> QED BY <1>5, <2>1, <2>2, <2>3, <4>1 DEF CheckOK, FetchOK, ReadOK, WriteOK, Writer
        <3>2. \A k \in DOMAIN calls' : ~Writer(calls'[k])
            BY <1>6, <2>1 DEF Writer
        <3> QED BY <3>1, <3>2 DEF CallsInv, Writer
    <2>7. ShownInv'
        <3>1. \A j \in DOMAIN calls : calls[j].op # "fetch"
            BY <1>4, <1>5 DEF CallsInv, FetchOK
        <3> QED BY <1>2, <2>3, <3>1 DEF CarefulInv, ShownInv
    <2>8. KnownInv'
        <3>1. conflicts = InConflict(form) \/ \E k \in DOMAIN calls \ {i} : calls[k].op = "check"
            BY <1>1, <1>5, <2>3 DEF CarefulInv, KnownInv, Writer
        <3> QED BY <1>3, <2>1, <2>2, <3>1 DEF KnownInv
    <2> QED BY <2>4, <2>5, <2>6, <2>7, <2>8 DEF CarefulInv
<1> QED BY <1>4, <1>7, <1>8

(* The form of an entry opens with nothing under way, and no entry overlaps *)
(* what it shows.                                                           *)
LEMMA OnReadStep ==
    ASSUME CarefulInv, NEW i \in DOMAIN calls, Answering(i), OnRead(i)
    PROVE  CarefulInv'
<1>1. /\ calls[i].op \in {"entry", "booking"} /\ calls[i].answered
      /\ UNCHANGED <<events, conflicts, booking_left, tables>>
    BY DEF OnRead, Answering
<1>2. /\ entries' = entries /\ made' = made /\ booked' = booked /\ events' = events
      /\ booking_left' = booking_left /\ conflicts' = conflicts
    BY <1>1 DEF tables
<1>3. CallsInv /\ calls \in Seq(Call) /\ calls[i] \in Call
    BY DEF CarefulInv, TypeInv
<1>4. ~IsOpen /\ Len(calls) = 1 /\ DOMAIN calls = {i}
    <2>1. ~IsOpen /\ Len(calls) = 1
        BY <1>1, <1>3 DEF CallsInv, ReadOK
    <2>2. DOMAIN calls = 1..1
        BY <1>3, <2>1
    <2> QED BY <2>1, <2>2
<1>5. Others(i) = <<>> /\ DOMAIN Others(i) = {}
    <2>1. Others(i) \in Seq(Call) /\ DOMAIN Others(i) = {}
        <3>1. PICK from \in [DOMAIN Others(i) -> DOMAIN calls \ {i}] : TRUE
            BY <1>3, OthersFacts
        <3> QED BY <1>3, <1>4, <3>1, OthersFacts
    <2> QED BY <2>1
<1>6. ~Done /\ events = entries /\ conflicts = {}
    <2>1. ~Done
        BY <1>1, <1>4 DEF Done, Writer
    <2> QED BY <1>1, <1>4, <2>1 DEF CarefulInv, ShownInv, FormInv
<1>7. EntriesInv'
    BY <1>2, EntriesStay DEF CarefulInv
<1>8. CASE calls' = Others(i) /\ UNCHANGED <<form, forms>>
    <2>1. calls' = <<>> /\ calls' \in Seq(Call) /\ DOMAIN calls' = {} /\ form' = form /\ forms' = forms /\ ~IsOpen'
        BY <1>4, <1>5, <1>8 DEF IsOpen
    <2>2. TypeInv' /\ FormInv'
        BY <1>2, <1>4, <2>1 DEF CarefulInv, TypeInv, FormInv
    <2>3. CallsInv' /\ ShownInv' /\ KnownInv'
        BY <1>2, <1>6, <2>1 DEF CallsInv, ShownInv, KnownInv
    <2> QED BY <1>7, <2>2, <2>3 DEF CarefulInv
<1>9. ASSUME calls[i].op = "entry", NEW e \in calls[i].data, UNCHANGED <<form, forms>>,
             calls' = Append(Others(i), CallFor("booking", ReadAs(e), "current"))
      PROVE CarefulInv'
    <2> DEFINE c == CallFor("booking", ReadAs(e), "current")
    <2>1. e \in entries /\ e \in Entry
        BY <1>1, <1>3, <1>9 DEF CallsInv, ReadOK, CarefulInv, TypeInv
    <2>2. c \in Call /\ c.op = "booking" /\ ~c.answered /\ c.of = ReadAs(e)
        BY <2>1, ReadAsType, CallForType DEF CallFor, Modes
    <2>3. calls' = Append(<<>>, c)
        BY <1>5, <1>9
    <2> HIDE DEF c
    <2>4. calls' \in Seq(Call) /\ Len(calls') = 1 /\ DOMAIN calls' = {1} /\ calls'[1] = c
        BY <2>2, <2>3, OneCall
    <2>5. form' = form /\ forms' = forms /\ ~IsOpen'
        BY <1>4, <1>9 DEF IsOpen
    <2>6. TypeInv' /\ FormInv'
        BY <1>2, <1>4, <2>4, <2>5 DEF CarefulInv, TypeInv, FormInv, IsOpen
    <2>7. CallsInv' /\ ShownInv' /\ KnownInv'
        BY <1>2, <1>6, <2>1, <2>2, <2>4, <2>5
           DEF CallsInv, ShownInv, KnownInv, CheckOK, FetchOK, ReadOK, WriteOK, Writer
    <2> QED BY <1>7, <2>6, <2>7 DEF CarefulInv
<1>10. ASSUME calls[i].op = "booking", forms' = forms + 1, form' = [calls[i].of EXCEPT !.no = forms'],
              calls' = Others(i)
       PROVE CarefulInv'
    <2>1. PICK e \in entries : calls[i].of = ReadAs(e)
        BY <1>3, <1>10 DEF CallsInv, ReadOK
    <2>2. e \in Entry /\ e.id \in 1..made /\ e.time[1] < e.time[2] /\ made \in Nat /\ forms \in Nat
        BY DEF CarefulInv, TypeInv, EntriesInv
    <2>3. /\ ReadAs(e) \in Form /\ Plain(ReadAs(e)) /\ ReadAs(e).id = e.id /\ ReadAs(e).day = e.day
          /\ ReadAs(e).time = e.time /\ ReadAs(e).confirming = "no" /\ ~ReadAs(e).undated
        <3>1. ReadAs(e) \in Form /\ Plain(ReadAs(e))
            BY <2>2, ReadAsType
        <3>2. /\ ReadAs(e).id = e.id /\ ReadAs(e).day = e.day
              /\ ReadAs(e).time = e.time /\ ReadAs(e).confirming = "no"
            BY DEF ReadAs, NoForm
        <3> QED BY <3>1, <3>2 DEF Plain
    <2>4. /\ form' \in Form /\ form'.no = forms + 1 /\ Plain(form') /\ form'.id = e.id /\ form'.day = e.day
          /\ form'.time = e.time /\ form'.confirming = "no" /\ ~form'.undated
        BY <1>10, <2>1, <2>2, <2>3 DEF Form, Plain
    <2>5. InConflict(form') = {}
        <3>1. CheckedDays(form') = {e.day}
            BY <2>4, CheckedOfOneDay DEF Plain
        <3>2. \A x \in entries : x.id = e.id \/ x.day # e.day \/ ~Overlap(x.time, e.time)
            BY DEF CarefulInv, EntriesInv, NothingOverlaps
        <3> QED BY <2>2, <2>4, <3>1, <3>2, NoConflict DEF CarefulInv
    <2>6. InConflict(form)' = {}
        BY <1>2, <2>5 DEF InConflict, CheckedDays, EndOf
    <2>7. IsOpen' /\ form'.id # 0 /\ form'.day <= form'.last
        BY <2>2, <2>4 DEF IsOpen, Plain, Form, Days
    <2>8. calls' = <<>> /\ calls' \in Seq(Call) /\ DOMAIN calls' = {}
        BY <1>5, <1>10
    <2>9. TypeInv'
        BY <1>2, <1>10, <2>2, <2>4, <2>8 DEF CarefulInv, TypeInv
    <2>10. FormInv'
        BY <1>2, <1>6, <2>2, <2>4, <2>7 DEF FormInv
    <2>11. CallsInv' /\ ShownInv' /\ KnownInv'
        BY <1>2, <1>6, <2>6, <2>8 DEF CallsInv, ShownInv, KnownInv
    <2> QED BY <1>7, <2>9, <2>10, <2>11 DEF CarefulInv
<1> QED BY <1>8, <1>9, <1>10 DEF OnRead

-----------------------------------------------------------------------------
(* Steps take from what may still happen, and careful stays what it was.    *)
LEMMA StoryStep ==
    ASSUME booking_left \in BookingStory, BookingNext
    PROVE  booking_left' \in BookingStory /\ booking_left'.careful = booking_left.careful
<1>1. ASSUME NEW what \in {"open", "touch", "save", "others"}, booking_left[what] > 0,
             booking_left' = [booking_left EXCEPT ![what] = @ - 1]
      PROVE  booking_left' \in BookingStory /\ booking_left'.careful = booking_left.careful
    <2>1. CASE what = "open"
        BY <1>1, <2>1 DEF BookingStory
    <2>2. CASE what = "touch"
        BY <1>1, <2>2 DEF BookingStory
    <2>3. CASE what = "save"
        BY <1>1, <2>3 DEF BookingStory
    <2>4. CASE what = "others"
        BY <1>1, <2>4 DEF BookingStory
    <2> QED BY <2>1, <2>2, <2>3, <2>4
<1>2. CASE BookingClicks
    <2>1. \/ FormClick("open") \/ FormClick("touch") \/ FormClick("save")
          \/ booking_left' = booking_left
        <3>1. ASSUME NEW f, Touch(f) PROVE FormClick("touch")
            BY <3>1 DEF Touch
        <3>2. CASE NewEntry
            BY <3>2 DEF NewEntry
        <3>3. CASE EditEntry
            BY <3>3 DEF EditEntry
        <3>4. CASE SetDate \/ SetEnd \/ SetTime \/ SetRepeat \/ ToggleDow
            BY <3>1, <3>4 DEF SetDate, SetEnd, SetTime, SetRepeat, ToggleDow
        <3>5. CASE Save
            BY <3>5 DEF Save
        <3>6. CASE AskWhich("modify") \/ AskWhich("delete")
            BY <3>6 DEF AskWhich
        <3>7. CASE Confirm \/ Cancel
            BY <3>7 DEF Confirm, Cancel
        <3> QED BY <1>2, <3>2, <3>3, <3>4, <3>5, <3>6, <3>7 DEF BookingClicks
    <2> QED BY <1>1, <2>1 DEF FormClick
<1>3. CASE BookingAnswers
    BY <1>3 DEF BookingAnswers, ServerReads, ServerSaves, ServerChanges, ServerRemoves, OnAnswered
<1>4. CASE OthersBook
    <2>1. booking_left.others > 0 /\ booking_left' = [booking_left EXCEPT !.others = @ - 1]
        BY <1>4 DEF OthersBook
    <2> QED BY <2>1 DEF BookingStory
<1>5. CASE OthersRemove
    <2>1. booking_left.others > 0 /\ booking_left' = [booking_left EXCEPT !.others = @ - 1]
        BY <1>5 DEF OthersRemove
    <2> QED BY <2>1 DEF BookingStory
<1> QED BY <1>2, <1>3, <1>4, <1>5 DEF BookingNext

(* The invariant is inductive.                                              *)
LEMMA NextStep == Inv /\ [BookingNext]_bookingVars => Inv'
<1> SUFFICES ASSUME Inv, [BookingNext]_bookingVars PROVE Inv'
    OBVIOUS
<1>1. CASE BookingNext
    <2>1. booking_left' \in BookingStory /\ booking_left'.careful = booking_left.careful
        BY <1>1, StoryStep DEF Inv
    <2>2. ASSUME booking_left.careful PROVE CarefulInv'
        <3>1. CarefulInv
            BY <2>2 DEF Inv
        <3>2. CASE BookingClicks
            <4>1. \A type \in {"modify", "delete"} : AskWhich(type) => CarefulInv'
                BY <3>1, AskWhichStep
            <4> QED BY <3>1, <3>2, <4>1, NewEntryStep, EditEntryStep, FieldsStep, SaveStep, ConfirmStep, CancelStep
                    DEF BookingClicks
        <3>3. CASE BookingAnswers
            <4>1. PICK i \in DOMAIN calls :
                    ServerReads(i) \/ ServerSaves(i) \/ ServerChanges(i) \/ ServerRemoves(i) \/ OnAnswered(i)
                BY <3>3 DEF BookingAnswers
            <4>2. CASE OnAnswered(i)
                <5>1. Answering(i) /\ (OnCheck(i) \/ OnFetch(i) \/ OnSaved(i) \/ OnRead(i))
                    BY <4>2 DEF OnAnswered, Answering
                <5> QED BY <3>1, <5>1, OnCheckStep, OnFetchStep, OnSavedStep, OnReadStep
            <4> QED BY <3>1, <4>1, <4>2, ServerReadsStep, ServerSavesStep, ServerChangesStep, ServerRemovesStep
        <3>4. ~OthersBook /\ ~OthersRemove
            BY <3>1 DEF CarefulInv, TypeInv, OthersBook, OthersRemove
        <3> QED BY <1>1, <3>2, <3>3, <3>4 DEF BookingNext
    <2> QED BY <2>1, <2>2 DEF Inv
<1>2. CASE UNCHANGED bookingVars
    <2> USE <1>2 DEF bookingVars, tables
    <2>1. booking_left' = booking_left
        OBVIOUS
    <2>2. TypeInv => TypeInv'
        BY DEF TypeInv
    <2>3. EntriesInv => EntriesInv'
        BY EntriesStay
    <2>4. (IsOpen' <=> IsOpen) /\ (Done' <=> Done) /\ InConflict(form)' = InConflict(form)
        BY DEF IsOpen, Done, InConflict, CheckedDays, EndOf
    <2>5. FormInv => FormInv'
        BY <2>4 DEF FormInv
    <2>6. CallsInv => CallsInv'
        BY <2>4 DEF CallsInv, CheckOK, FetchOK, ReadOK, WriteOK
    <2>7. ShownInv /\ KnownInv => ShownInv' /\ KnownInv'
        BY <2>4 DEF ShownInv, KnownInv
    <2> QED BY <2>1, <2>2, <2>3, <2>5, <2>6, <2>7 DEF Inv, CarefulInv
<1> QED BY <1>1, <1>2

-----------------------------------------------------------------------------
(* The types, whoever the user is and whatever others do.  Those of careful *)
(* users follow from the invariant above; these are inductive of their own. *)
TablesTyped ==
    /\ entries \subseteq Entry /\ bookings \subseteq 1..booked /\ made \in Nat /\ booked \in Nat
ShownTyped == events \subseteq Entry /\ conflicts \subseteq Entry /\ form \in Form /\ forms \in Nat

LEMMA TypedParts ==
    BookingTypeOK <=> booking_left \in BookingStory /\ TablesTyped /\ ShownTyped /\ calls \in Seq(Call)
BY DEF BookingTypeOK, TablesTyped, ShownTyped, Call

LEMMA TablesStay == ASSUME TablesTyped, UNCHANGED tables PROVE TablesTyped'
BY DEF TablesTyped, tables

LEMMA TypedStarts == BookingInit => BookingTypeOK
<1> SUFFICES ASSUME BookingInit PROVE BookingTypeOK
    OBVIOUS
<1>1. booking_left \in BookingStory
    BY BookingAssumption DEF BookingInit
<1>2. TablesTyped
    <2>1. Cardinality(FirstEntries) \in Nat
        BY BookingAssumption, FS_CardinalityType
    <2> QED BY <2>1, BookingAssumption DEF BookingInit, TablesTyped
<1>3. ShownTyped
    BY BookingAssumption, NoFormType DEF BookingInit, ShownTyped
<1>4. calls \in Seq(Call)
    BY DEF BookingInit
<1> QED BY <1>1, <1>2, <1>3, <1>4, TypedParts

(* The fields of a form that is touched are those of a form.                *)
LEMMA FieldTyped ==
    ASSUME TablesTyped, ShownTyped, calls \in Seq(Call),
           SetDate \/ SetEnd \/ SetTime \/ SetRepeat \/ ToggleDow
    PROVE  TablesTyped' /\ ShownTyped' /\ calls' \in Seq(Call)
<1>0. form \in Form
    BY DEF ShownTyped
<1>1. ASSUME NEW f \in Form, Touch(f) PROVE TablesTyped' /\ ShownTyped' /\ calls' \in Seq(Call)
    <2> DEFINE c == CallFor("check", f, "current")
    <2>1. c \in Call
        BY CallForType DEF Modes
    <2>2. calls' = calls \/ calls' = Append(calls, c)
        BY <1>1 DEF Touch
    <2> HIDE DEF c
    <2>3. calls' \in Seq(Call)
        BY <2>1, <2>2
    <2>4. UNCHANGED <<tables, events, forms, conflicts>> /\ form' = f
        BY <1>1 DEF Touch, FormClick
    <2>5. ShownTyped'
        BY <2>4 DEF ShownTyped
    <2> QED BY <2>3, <2>4, <2>5, TablesStay
<1>2. ASSUME NEW day \in Days, NEW last \in Days PROVE Dated(day, last) \in Form
    <2>1. CASE form.repeat = "weekly"
        BY <1>0, <2>1, DatedWeekly
    <2>2. CASE form.repeat # "weekly"
        <3>1. WeekDay(day) \in WeekDays
            BY WeekDayType
        <3> QED BY <1>0, <2>2, <3>1 DEF Dated, Form
    <2> QED BY <2>1, <2>2
<1>3. CASE SetDate
    <2>1. PICK day \in Days : Touch(Dated(day, form.last))
        BY <1>3 DEF SetDate
    <2>2. form.last \in Days
        BY <1>0 DEF Form
    <2> QED BY <1>1, <1>2, <2>1, <2>2
<1>4. CASE SetEnd
    <2>1. PICK last \in form.day..LastDay : Touch(Dated(form.day, last))
        BY <1>4 DEF SetEnd
    <2>2. form.day \in Days /\ last \in Days
        BY <1>0 DEF Form, Days
    <2> QED BY <1>1, <1>2, <2>1, <2>2
<1>5. CASE SetTime
    <2>1. PICK time \in Times : Touch([form EXCEPT !.time = time])
        BY <1>5 DEF SetTime
    <2>2. [form EXCEPT !.time = time] \in Form
        BY <1>0 DEF Form, Times
    <2> QED BY <1>1, <2>1, <2>2
<1>6. CASE SetRepeat
    <2>1. PICK repeat \in {"no", "weekly"} : Touch([form EXCEPT !.repeat = repeat])
        BY <1>6 DEF SetRepeat
    <2>2. [form EXCEPT !.repeat = repeat] \in Form
        BY <1>0 DEF Form
    <2> QED BY <1>1, <2>1, <2>2
<1>7. CASE ToggleDow
    <2>1. PICK d \in WeekDays :
            Touch([form EXCEPT !.dow = IF d \in form.dow THEN form.dow \ {d} ELSE form.dow \cup {d}])
        BY <1>7 DEF ToggleDow
    <2> DEFINE dow == IF d \in form.dow THEN form.dow \ {d} ELSE form.dow \cup {d}
    <2>2. dow \in SUBSET WeekDays
        BY <1>0 DEF Form
    <2>3. Touch([form EXCEPT !.dow = dow])
        BY <2>1
    <2> HIDE DEF dow
    <2>4. [form EXCEPT !.dow = dow] \in Form
        BY <1>0, <2>2 DEF Form
    <2> QED BY <1>1, <2>3, <2>4
<1> QED BY <1>3, <1>4, <1>5, <1>6, <1>7

LEMMA ClicksTyped ==
    ASSUME TablesTyped, ShownTyped, calls \in Seq(Call), booking_left \in BookingStory, BookingClicks
    PROVE  TablesTyped' /\ ShownTyped' /\ calls' \in Seq(Call)
<1>0. /\ entries \subseteq Entry /\ events \subseteq Entry /\ conflicts \subseteq Entry
      /\ form \in Form /\ forms \in Nat
    BY DEF TablesTyped, ShownTyped
<1>1. ASSUME NEW what, FormClick(what) PROVE TablesTyped' /\ events' = events
    <2>1. UNCHANGED <<tables, events>>
        BY <1>1 DEF FormClick
    <2> QED BY <2>1, TablesStay
<1>2. CASE NewEntry
    <2>1. PICK day \in Days, time \in Times :
            form' = [NoForm EXCEPT !.no = forms', !.day = day, !.last = day, !.time = time, !.dow = {WeekDay(day)}]
        BY <1>2 DEF NewEntry
    <2>2. FormClick("open") /\ forms' = forms + 1 /\ UNCHANGED <<calls, conflicts>>
        BY <1>2 DEF NewEntry
    <2>3. forms' \in Nat /\ time \in Hours \X Hours /\ WeekDay(day) \in WeekDays
        BY <1>0, <2>2, WeekDayType DEF Times
    <2>4. form' \in Form
        BY <2>1, <2>3, NoFormType DEF Form
    <2> QED BY <1>0, <1>1, <2>2, <2>3, <2>4 DEF ShownTyped
<1>3. CASE EditEntry
    <2>1. PICK e \in events :
            calls' = Append(calls, CallFor("entry", [NoForm EXCEPT !.id = e.id, !.booking = e.booking], "current"))
        BY <1>3 DEF EditEntry
    <2>2. FormClick("open") /\ UNCHANGED <<form, forms, conflicts>>
        BY <1>3 DEF EditEntry
    <2> DEFINE f == [NoForm EXCEPT !.id = e.id, !.booking = e.booking]
               c == CallFor("entry", f, "current")
    <2>3. f \in Form
        BY <1>0, NoFormType DEF Form, Entry
    <2> HIDE DEF f
    <2>4. c \in Call
        BY <2>3, CallForType DEF Modes
    <2>5. calls' = Append(calls, c)
        BY <2>1 DEF f
    <2> HIDE DEF c
    <2> QED BY <1>0, <1>1, <2>2, <2>4, <2>5 DEF ShownTyped
<1>4. CASE SetDate \/ SetEnd \/ SetTime \/ SetRepeat \/ ToggleDow
    BY <1>4, FieldTyped
<1>5. CASE Save
    <2> DEFINE f == IF form.repeat = "weekly" THEN form ELSE [form EXCEPT !.undated = TRUE, !.boxes = FALSE]
               a == CallFor("save", f, "current")
               b == CallFor("check", f, "current")
    <2>1. f \in Form
        BY <1>0 DEF Form
    <2>2. form' = f /\ FormClick("save") /\ UNCHANGED <<forms, conflicts>>
        BY <1>5 DEF Save
    <2> HIDE DEF f
    <2>3. a \in Call /\ b \in Call
        BY <2>1, CallForType DEF Modes
    <2>4. calls' = Append(calls, a) \o <<>> \/ calls' = Append(calls, a) \o <<b>>
        BY <1>5, <2>2 DEF Save
    <2> HIDE DEF a, b
    <2>5. <<>> \in Seq(Call) /\ <<b>> \in Seq(Call) /\ Append(calls, a) \in Seq(Call)
        BY <2>3
    <2>6. calls' \in Seq(Call)
        BY <2>4, <2>5, ConcatProperties
    <2> QED BY <1>0, <1>1, <2>1, <2>2, <2>6 DEF ShownTyped
<1>6. ASSUME NEW type \in {"modify", "delete"}, AskWhich(type)
      PROVE  TablesTyped' /\ ShownTyped' /\ calls' \in Seq(Call)
    <2>1. FormClick("save") /\ form' = [form EXCEPT !.confirming = type] /\ UNCHANGED <<calls, forms, conflicts>>
        BY <1>6 DEF AskWhich
    <2>2. form' \in Form
        BY <1>0, <2>1 DEF Form
    <2> QED BY <1>0, <1>1, <2>1, <2>2 DEF ShownTyped
<1>7. CASE Confirm
    <2>1. /\ form' = [form EXCEPT !.confirming = "no"]
          /\ UNCHANGED <<booking_left, tables, events, forms, conflicts>>
        BY <1>7 DEF Confirm
    <2>2. form' \in Form
        BY <1>0, <2>1 DEF Form
    <2> DEFINE op == IF form.confirming = "modify" THEN "change" ELSE "delete"
    <2>3. PICK mode \in booking_left.modes : calls' = Append(calls, CallFor(op, form', mode))
        BY <1>7 DEF Confirm
    <2>4. mode \in Modes
        BY <2>3 DEF BookingStory
    <2> DEFINE c == CallFor(op, form', mode)
    <2>5. c \in Call
        BY <2>2, <2>4, CallForType
    <2>6. calls' = Append(calls, c)
        BY <2>3
    <2> HIDE DEF c
    <2> QED BY <1>0, <2>1, <2>2, <2>5, <2>6, TablesStay DEF ShownTyped
<1>8. CASE Cancel
    <2>1. /\ UNCHANGED <<booking_left, tables, calls, events, forms>>
          /\ \/ form' = [form EXCEPT !.confirming = "no"] /\ UNCHANGED conflicts
             \/ form' = NoForm /\ conflicts' = {}
        BY <1>8 DEF Cancel
    <2>2. form' \in Form /\ conflicts' \subseteq Entry
        BY <1>0, <2>1, NoFormType DEF Form
    <2> QED BY <1>0, <2>1, <2>2, TablesStay DEF ShownTyped
<1> QED BY <1>2, <1>3, <1>4, <1>5, <1>6, <1>7, <1>8 DEF BookingClicks

LEMMA ServerTyped ==
    ASSUME TablesTyped, ShownTyped, calls \in Seq(Call), NEW i \in DOMAIN calls,
           ServerReads(i) \/ ServerSaves(i) \/ ServerChanges(i) \/ ServerRemoves(i)
    PROVE  TablesTyped' /\ ShownTyped' /\ calls' \in Seq(Call)
<1>0. /\ entries \subseteq Entry /\ bookings \subseteq 1..booked /\ made \in Nat /\ booked \in Nat
      /\ calls[i] \in Call /\ calls[i].of \in Form /\ calls[i].mode \in Modes
    <2>1. calls[i] \in Call
        OBVIOUS
    <2> QED BY <2>1 DEF TablesTyped, Call
<1>1. UNCHANGED <<events, form, forms, conflicts>> => ShownTyped'
    BY DEF ShownTyped
<1>2. ASSUME NEW ok \in BOOLEAN, NEW data \in SUBSET Entry, Answer(i, ok, data) PROVE calls' \in Seq(Call)
    BY <1>2, AnswerFacts
<1>3. CASE ServerReads(i)
    <2> DEFINE c == calls[i]
               known == c.of.booking \in bookings
               there == WithId(c.of.id) # {}
    <2>1. known \in BOOLEAN /\ there \in BOOLEAN
        OBVIOUS
    <2>2. InConflict(c.of) \in SUBSET Entry /\ WithId(c.of.id) \in SUBSET Entry /\ entries \in SUBSET Entry
        BY <1>0 DEF InConflict, WithId
    <2>3. \/ Answer(i, TRUE, InConflict(c.of)) \/ Answer(i, TRUE, entries)
          \/ Answer(i, there, WithId(c.of.id)) \/ Answer(i, known, {})
        BY <1>3 DEF ServerReads
    <2> HIDE DEF known, there
    <2>4. calls' \in Seq(Call)
        BY <1>2, <2>1, <2>2, <2>3
    <2>5. UNCHANGED <<booking_left, tables, events, form, forms, conflicts>>
        BY <1>3 DEF ServerReads
    <2> QED BY <1>1, <2>4, <2>5, TablesStay
<1>4. CASE ServerSaves(i)
    <2> DEFINE f == calls[i].of
               some == BookedDays(f) # {}
    <2>1. /\ booked' = booked + 1 /\ bookings' = bookings \cup {booked'}
          /\ entries' = entries \cup NewEntries(f) /\ made' = made + Cardinality(BookedDays(f))
          /\ Answer(i, some, {}) /\ UNCHANGED <<booking_left, events, form, forms, conflicts>>
        BY <1>4 DEF ServerSaves
    <2>2. Cardinality(BookedDays(f)) \in Nat /\ NewEntries(f) \subseteq Entry
        BY <1>0, NewEntriesFacts
    <2>3. some \in BOOLEAN
        OBVIOUS
    <2> HIDE DEF some, f
    <2>4. calls' \in Seq(Call)
        BY <1>2, <2>1, <2>3
    <2>5. bookings' \subseteq 1..booked'
        BY <1>0, <2>1
    <2>6. TablesTyped'
        BY <1>0, <2>1, <2>2, <2>5 DEF TablesTyped
    <2> QED BY <1>1, <2>1, <2>4, <2>6
<1>5. CASE ServerChanges(i)
    <2> DEFINE f == calls[i].of
               mode == calls[i].mode
    <2>1. UNCHANGED <<booking_left, bookings, made, booked, events, form, forms, conflicts>>
        BY <1>5 DEF ServerChanges
    <2>2. f.day \in Days /\ f.time \in Hours \X Hours
        BY <1>0 DEF Form
    <2>3. \A e \in Entry : Moved(e, f) \in Entry
        BY <2>2 DEF Moved, Entry
    <2>4. CASE WithId(f.id) = {} /\ UNCHANGED entries /\ Answer(i, FALSE, {})
        <3>1. calls' \in Seq(Call)
            BY <1>2, <2>4
        <3> QED BY <1>0, <1>1, <2>1, <2>4, <3>1 DEF TablesTyped
    <2>5. ASSUME NEW x \in Entry, NEW starts, NEW ends PROVE Retimed(x, f, starts, ends) \in Entry
        <3> DEFINE time == <<IF x \in starts THEN f.time[1] ELSE x.time[1],
                             IF x \in ends THEN f.time[2] ELSE x.time[2]>>
        <3>1. time \in Hours \X Hours
            BY <2>2 DEF Entry
        <3>2. Retimed(x, f, starts, ends) = [x EXCEPT !.time = time]
            BY DEF Retimed
        <3> HIDE DEF time
        <3> QED BY <3>1, <3>2 DEF Entry
    <2> DEFINE Change(e, starts, ends) ==
            entries' = (entries \ ((Selected(e, mode) \ {e}) \cup {e}))
                       \cup {Moved(e, f)}
                       \cup {Retimed(x, f, starts, ends) : x \in Selected(e, mode) \ {e}}
    <2>6. ASSUME NEW e \in WithId(f.id), NEW starts, NEW ends, Answer(i, TRUE, {}),
                 Change(e, starts, ends)
          PROVE  TablesTyped' /\ ShownTyped' /\ calls' \in Seq(Call)
        <3>1. calls' \in Seq(Call) /\ e \in Entry /\ Selected(e, mode) \subseteq Entry
            BY <1>0, <1>2, <2>6 DEF WithId, Selected
        <3>2. entries' \subseteq Entry
            BY <1>0, <2>3, <2>5, <2>6, <3>1
        <3> QED BY <1>0, <1>1, <2>1, <3>1, <3>2 DEF TablesTyped
    <2>7. \/ WithId(f.id) = {} /\ UNCHANGED entries /\ Answer(i, FALSE, {})
          \/ \E e \in WithId(f.id) :
               /\ \E starts, ends \in SUBSET (Selected(e, mode) \ {e}) : Change(e, starts, ends)
               /\ Answer(i, TRUE, {})
        BY <1>5 DEF ServerChanges
    <2> HIDE DEF f, mode, Change
    <2>8. CASE \E e \in WithId(f.id) :
               /\ \E starts, ends \in SUBSET (Selected(e, mode) \ {e}) : Change(e, starts, ends)
               /\ Answer(i, TRUE, {})
        BY <2>6, <2>8
    <2> QED BY <2>4, <2>7, <2>8
<1>6. CASE ServerRemoves(i)
    <2>1. UNCHANGED <<booking_left, made, booked, events, form, forms, conflicts>>
        BY <1>6 DEF ServerRemoves
    <2>2. \/ UNCHANGED <<entries, bookings>> /\ Answer(i, FALSE, {})
          \/ entries' \subseteq entries /\ bookings' \subseteq bookings /\ Answer(i, TRUE, {})
        BY <1>6 DEF ServerRemoves
    <2>3. calls' \in Seq(Call)
        BY <1>2, <2>2
    <2> QED BY <1>0, <1>1, <2>1, <2>2, <2>3 DEF TablesTyped
<1> QED BY <1>3, <1>4, <1>5, <1>6

LEMMA AnsweredTyped ==
    ASSUME TablesTyped, ShownTyped, calls \in Seq(Call), NEW i \in DOMAIN calls, OnAnswered(i)
    PROVE  TablesTyped' /\ ShownTyped' /\ calls' \in Seq(Call)
<1>0. /\ events \subseteq Entry /\ conflicts \subseteq Entry /\ form \in Form /\ forms \in Nat
      /\ calls[i] \in Call /\ calls[i].of \in Form /\ calls[i].data \subseteq Entry
    <2>1. calls[i] \in Call
        OBVIOUS
    <2> QED BY <2>1 DEF ShownTyped, Call
<1>1. Others(i) \in Seq(Call)
    BY OthersFacts
<1>2. TablesTyped'
    <2>1. UNCHANGED tables
        BY DEF OnAnswered
    <2> QED BY <2>1, TablesStay
<1>3. CASE OnCheck(i)
    <2>1. UNCHANGED <<events, form, forms>> /\ calls' = Others(i) /\ conflicts' \in {calls[i].data, conflicts}
        BY <1>3 DEF OnCheck
    <2> QED BY <1>0, <1>1, <1>2, <2>1 DEF ShownTyped
<1>4. CASE OnFetch(i)
    BY <1>0, <1>1, <1>2, <1>4 DEF OnFetch, ShownTyped
<1>5. CASE OnSaved(i)
    <2> DEFINE s == Others(i)
    <2>1. UNCHANGED <<events, forms>> /\ (calls' = s \/ calls' = Refetched(s))
        BY <1>5 DEF OnSaved
    <2>2. form' \in Form /\ conflicts' \subseteq Entry
        <3>1. (form' = NoForm /\ conflicts' = {}) \/ UNCHANGED <<form, conflicts>>
            BY <1>5 DEF OnSaved
        <3> QED BY <1>0, <3>1, NoFormType
    <2> DEFINE c == CallFor("fetch", NoForm, "current")
               at == CHOOSE k \in Fetches(s) : TRUE
    <2>3. c \in Call
        BY NoFormType, CallForType DEF Modes
    <2>4. Refetched(s) = Append(s, c) \/ (Fetches(s) # {} /\ Refetched(s) = Append(RemoveAt(s, at), c))
        BY DEF Refetched
    <2> HIDE DEF s, c
    <2>5. Fetches(s) # {} => at \in DOMAIN s
        BY DEF Fetches
    <2> HIDE DEF at
    <2>6. Fetches(s) # {} => RemoveAt(s, at) \in Seq(Call)
        BY <1>1, <2>5, RemoveAtFrom DEF s
    <2>7. calls' \in Seq(Call)
        <3>1. s \in Seq(Call)
            BY <1>1 DEF s
        <3>2. CASE calls' = Append(s, c)
            BY <2>3, <3>1, <3>2, AppendFacts
        <3> DEFINE r == RemoveAt(s, at)
        <3>3. CASE r \in Seq(Call) /\ calls' = Append(r, c)
            <4> HIDE DEF r
            <4> QED BY <2>3, <3>3, AppendFacts
        <3> QED BY <2>1, <2>4, <2>6, <3>1, <3>2, <3>3
    <2> QED BY <1>0, <1>2, <2>1, <2>2, <2>7 DEF ShownTyped
<1>6. CASE OnRead(i)
    <2>1. UNCHANGED <<events, conflicts>>
        BY <1>6 DEF OnRead
    <2>2. CASE calls' = Others(i) /\ UNCHANGED <<form, forms>>
        BY <1>0, <1>1, <1>2, <2>1, <2>2 DEF ShownTyped
    <2>3. ASSUME NEW e \in calls[i].data, UNCHANGED <<form, forms>>,
                 calls' = Append(Others(i), CallFor("booking", ReadAs(e), "current"))
          PROVE  TablesTyped' /\ ShownTyped' /\ calls' \in Seq(Call)
        <3> DEFINE c == CallFor("booking", ReadAs(e), "current")
        <3>1. c \in Call
            BY <1>0, ReadAsType, CallForType DEF Modes
        <3>2. calls' = Append(Others(i), c)
            BY <2>3
        <3> HIDE DEF c
        <3> QED BY <1>0, <1>1, <1>2, <2>1, <2>3, <3>1, <3>2, AppendFacts DEF ShownTyped
    <2>4. CASE forms' = forms + 1 /\ form' = [calls[i].of EXCEPT !.no = forms'] /\ calls' = Others(i)
        <3> DEFINE f == calls[i].of
        <3>1. forms' \in Nat /\ f \in Form /\ form' = [f EXCEPT !.no = forms']
            BY <1>0, <2>4
        <3> HIDE DEF f
        <3>2. form' \in Form
            BY <3>1 DEF Form
        <3> QED BY <1>0, <1>1, <1>2, <2>1, <2>4, <3>1, <3>2 DEF ShownTyped
    <2> QED BY <1>6, <2>2, <2>3, <2>4 DEF OnRead
<1> QED BY <1>3, <1>4, <1>5, <1>6 DEF OnAnswered

LEMMA TypedStep == BookingTypeOK /\ [BookingNext]_bookingVars => BookingTypeOK'
<1> SUFFICES ASSUME BookingTypeOK, [BookingNext]_bookingVars PROVE BookingTypeOK'
    OBVIOUS
<1>0. booking_left \in BookingStory /\ TablesTyped /\ ShownTyped /\ calls \in Seq(Call)
    BY TypedParts
<1>1. CASE UNCHANGED bookingVars
    BY <1>1 DEF BookingTypeOK, bookingVars, tables
<1>2. ASSUME BookingNext, TablesTyped' /\ ShownTyped' /\ calls' \in Seq(Call) PROVE BookingTypeOK'
    <2>1. booking_left' \in BookingStory
        BY <1>0, <1>2, StoryStep
    <2> QED BY <1>2, <2>1 DEF BookingTypeOK, TablesTyped, ShownTyped, Call
<1>3. CASE BookingClicks
    BY <1>0, <1>2, <1>3, ClicksTyped DEF BookingNext
<1>4. CASE BookingAnswers
    <2>1. PICK i \in DOMAIN calls :
            ServerReads(i) \/ ServerSaves(i) \/ ServerChanges(i) \/ ServerRemoves(i) \/ OnAnswered(i)
        BY <1>4 DEF BookingAnswers
    <2>2. TablesTyped' /\ ShownTyped' /\ calls' \in Seq(Call)
        BY <1>0, <2>1, ServerTyped, AnsweredTyped
    <2> QED BY <1>2, <1>4, <2>2 DEF BookingNext
<1>5. CASE OthersBook
    <2>1. PICK day \in Days, time \in Times :
            entries' = entries \cup {[id |-> made', booking |-> booked', day |-> day, time |-> time]}
        BY <1>5 DEF OthersBook
    <2>2. /\ made' = made + 1 /\ booked' = booked + 1 /\ bookings' = bookings \cup {booked'}
          /\ UNCHANGED <<calls, events, form, forms, conflicts>>
        BY <1>5 DEF OthersBook
    <2>3. /\ made' \in Nat /\ booked' \in Nat /\ time \in Hours \X Hours /\ bookings' \subseteq 1..booked'
        BY <1>0, <2>2 DEF TablesTyped, Times
    <2>4. entries' \subseteq Entry
        BY <1>0, <2>1, <2>3 DEF TablesTyped, Entry
    <2> QED BY <1>0, <1>2, <1>5, <2>2, <2>3, <2>4 DEF BookingNext, TablesTyped, ShownTyped
<1>6. CASE OthersRemove
    <2>1. /\ entries' \subseteq entries /\ bookings' \subseteq bookings
          /\ UNCHANGED <<made, booked, calls, events, form, forms, conflicts>>
        BY <1>6 DEF OthersRemove
    <2> QED BY <1>0, <1>2, <1>6, <2>1 DEF BookingNext, TablesTyped, ShownTyped
<1> QED BY <1>1, <1>3, <1>4, <1>5, <1>6 DEF BookingNext
=============================================================================
