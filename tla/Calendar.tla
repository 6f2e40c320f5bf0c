------------------------------ MODULE Calendar ------------------------------
(* The iCalendar feed of a user's tasks, and the due date of a task that     *)
(* recurs: nextDueDate, icalEscape, foldICalLine and buildICalFeed of        *)
(* services/tasks.service.ts, getCalendarFeed of                             *)
(* controllers/tasks.controller.ts.                                          *)
(*                                                                           *)
(* A line is a sequence of characters; the name of a property, an id, a time *)
(* and a status are one character each.  Times are counted in hours.         *)
EXTENDS Integers, Sequences, SequencesExt

CONSTANTS
    Feeds,          \* the tasks of a feed, in the order they are read
    Bases,          \* dates that recurring tasks are due: [y, m, d]
    Width,          \* 75
    MaxRecurrences, \* bound: how often a task recurs
    None            \* no date

Slash  == "\\"
Return == "\r"
Break  == "\n"

ASSUME CalendarAssumption == Width \in Nat /\ Width > 1 /\ MaxRecurrences \in Nat
ASSUME FeedsAreTasks ==
    \A f \in Feeds : /\ f \in Seq(ToSet(f))
                      /\ \A k \in DOMAIN f : /\ f[k].id \notin {Slash, Return}
                                              /\ f[k].title \in Seq(ToSet(f[k].title))
                                              /\ f[k].description \in Seq(ToSet(f[k].description))

VARIABLES
    feed,           \* the tasks of the feed, or None
    left,           \* the lines that are not folded yet
    at,             \* the loop variable of foldICalLine, or 0
    out,            \* the lines of the answer
    due, recurred   \* the due date, and how often it has been moved

calendarVars == <<feed, left, at, out, due, recurred>>

-----------------------------------------------------------------------------
(* Seeded fault: a backslash is not escaped itself. *)
ICalEscape_Slash(s) ==
    FlattenSeq([k \in DOMAIN s |->
        CASE s[k] \in {";", ","} -> <<Slash, s[k]>>
          [] s[k] = Break -> <<Slash, "n">>
          [] s[k] = Return /\ k < Len(s) /\ s[k + 1] = Break -> <<>>
          [] OTHER -> <<s[k]>>])

(* A carriage return that no line feed follows goes through. *)
ICalEscape(s) ==
    FlattenSeq([k \in DOMAIN s |->
        CASE s[k] \in {Slash, ";", ","} -> <<Slash, s[k]>>
          [] s[k] = Break -> <<Slash, "n">>
          [] s[k] = Return /\ k < Len(s) /\ s[k + 1] = Break -> <<>>
          [] OTHER -> <<s[k]>>])

(* the event of a task; it starts when it is due, or else was created *)
Event(t) ==
    LET from == IF t.dueDate # None THEN t.dueDate ELSE t.createdAt
    IN  << <<"BEGIN">>, <<"UID", t.id>>, <<"DTSTART", from>>, <<"DTEND", from + 1>>,
           <<"SUMMARY">> \o ICalEscape(t.title) >>
        \o (IF t.description = <<>> THEN <<>> ELSE << <<"DESCRIPTION">> \o ICalEscape(t.description) >>)
        \o << <<"STATUS", IF t.status = "completed" THEN "CANCELLED" ELSE "CONFIRMED">>, <<"END">> >>

BuildICalFeed(tasks) == FlattenSeq([k \in DOMAIN tasks |-> Event(tasks[k])])

CalendarOff == feed = None /\ left = <<>> /\ at = 0 /\ out = <<>> /\ due = None /\ recurred = 0

CalendarInit ==
    /\ at = 0 /\ out = <<>> /\ recurred = 0
    /\ \/ feed \in Feeds /\ left = BuildICalFeed(feed) /\ due = None
       \/ feed = None /\ left = <<>> /\ due \in Bases

-----------------------------------------------------------------------------
(* foldICalLine, line by line *)
Line == left[1]
Slice(from, to) == SubSeq(Line, from + 1, IF to < Len(Line) THEN to ELSE Len(Line))

Short ==
    /\ left # <<>> /\ at = 0 /\ Len(Line) <= Width
    /\ out' = Append(out, Line) /\ left' = Tail(left)
    /\ UNCHANGED <<feed, at, due, recurred>>

FirstPart ==
    /\ left # <<>> /\ at = 0 /\ Len(Line) > Width
    /\ out' = Append(out, Slice(0, Width)) /\ at' = Width
    /\ UNCHANGED <<feed, left, due, recurred>>

(* Seeded fault: the part does not make room for its blank. *)
NextPart_Wide ==
    /\ at > 0 /\ at < Len(Line)
    /\ out' = Append(out, <<" ">> \o Slice(at, at + Width)) /\ at' = at + Width
    /\ UNCHANGED <<feed, left, due, recurred>>

(* each further line of a long one starts with a blank *)
NextPart ==
    /\ at > 0 /\ at < Len(Line)
    /\ out' = Append(out, <<" ">> \o Slice(at, at + Width - 1)) /\ at' = at + Width - 1
    /\ UNCHANGED <<feed, left, due, recurred>>

LastPart ==
    /\ at > 0 /\ at >= Len(Line)
    /\ left' = Tail(left) /\ at' = 0
    /\ UNCHANGED <<feed, out, due, recurred>>

-----------------------------------------------------------------------------
(* Date: a day that the month does not have is one of the next month *)
Leap(y)    == y % 4 = 0 /\ (y % 100 # 0 \/ y % 400 = 0)
Days(y, m) == CASE m = 2 -> (IF Leap(y) THEN 29 ELSE 28)
                [] m \in {4, 6, 9, 11} -> 30
                [] OTHER -> 31
NextMonth(y, m) == IF m = 12 THEN [y |-> y + 1, m |-> 1] ELSE [y |-> y, m |-> m + 1]

DateOf(y, m, d) ==
    IF d <= Days(y, m) THEN [y |-> y, m |-> m, d |-> d]
    ELSE [y |-> NextMonth(y, m).y, m |-> NextMonth(y, m).m, d |-> d - Days(y, m)]

ASSUME BasesExist ==
    \A b \in Bases : b \in [y : Nat, m : 1..12, d : 1..31] /\ b.d <= Days(b.y, b.m)

(* Seeded fault: a month has thirty days. *)
NextDueDate_Thirty(b, recurrence) ==
    CASE recurrence = "daily"   -> DateOf(b.y, b.m, b.d + 1)
      [] recurrence = "weekly"  -> DateOf(b.y, b.m, b.d + 7)
      [] recurrence = "monthly" -> DateOf(b.y, b.m, b.d + 30)

(* Seeded fault: the month need not have the day. *)
NextDueDate_Same(b, recurrence) ==
    CASE recurrence = "daily"   -> DateOf(b.y, b.m, b.d + 1)
      [] recurrence = "weekly"  -> DateOf(b.y, b.m, b.d + 7)
      [] recurrence = "monthly" -> [y |-> NextMonth(b.y, b.m).y, m |-> NextMonth(b.y, b.m).m, d |-> b.d]

NextDueDate(b, recurrence) ==
    CASE recurrence = "daily"   -> DateOf(b.y, b.m, b.d + 1)
      [] recurrence = "weekly"  -> DateOf(b.y, b.m, b.d + 7)
      [] recurrence = "monthly" -> DateOf(NextMonth(b.y, b.m).y, NextMonth(b.y, b.m).m, b.d)

Recur(recurrence) ==
    /\ due # None /\ recurred < MaxRecurrences
    /\ due' = NextDueDate(due, recurrence) /\ recurred' = recurred + 1
    /\ UNCHANGED <<feed, left, at, out>>

CalendarNext ==
    \/ Short \/ FirstPart \/ NextPart \/ LastPart
    \/ \E recurrence \in {"daily", "weekly", "monthly"} : Recur(recurrence)

-----------------------------------------------------------------------------
(* Types: the lines that are folded, and due dates that exist. *)
CalendarTypeOK ==
    /\ at \in Nat /\ (left = <<>> => at = 0)
    /\ recurred \in 0..MaxRecurrences
    /\ due # None => due.m \in 1..12 /\ due.d \in 1..Days(due.y, due.m)

(* No line of the answer has more characters than fit. *)
LinesFit == \A k \in DOMAIN out : Len(out[k]) \in 1..Width

(* How a reader of the format puts lines together: a line that begins with a *)
(* blank goes on with the one before it.                                     *)
Unfold(lines) ==
    LET goesOn(j, k) == j > k /\ \A i \in (k + 1)..j : lines[i][1] = " "
        whole(k) == FlattenSeq([j \in DOMAIN lines |->
                        IF j = k THEN lines[j] ELSE IF goesOn(j, k) THEN Tail(lines[j]) ELSE <<>>])
    IN  FlattenSeq([k \in DOMAIN lines |-> IF lines[k][1] = " " THEN <<>> ELSE <<whole(k)>>])

(* A character is escaped if an odd number of backslashes stands before it. *)
Unescape(s) ==
    LET escaped(k) == \E n \in 1..(k - 1) : /\ n % 2 = 1 /\ \A j \in (k - n)..(k - 1) : s[j] = Slash
                                            /\ (k - n = 1 \/ s[k - n - 1] # Slash)
    IN  FlattenSeq([k \in DOMAIN s |->
            IF escaped(k) THEN (IF s[k] = "n" THEN <<Break>> ELSE <<s[k]>>)
            ELSE IF s[k] = Slash THEN <<>> ELSE <<s[k]>>])
Seen(s) == FlattenSeq([k \in DOMAIN s |-> IF s[k] = Return THEN <<>> ELSE <<s[k]>>])
TextOf(lines, name) ==
    FlattenSeq([k \in DOMAIN lines |-> IF lines[k][1] = name THEN <<Seen(Unescape(Tail(lines[k])))>> ELSE <<>>])

(* A calendar that reads the feed finds the tasks in it: their texts, but    *)
(* for carriage returns, however lines are folded in the middle of an escape.*)
FeedIsReadBack ==
    feed # None /\ left = <<>> =>
        LET texts(name) == TextOf(Unfold(out), name)
        IN  /\ texts("UID") = [k \in DOMAIN feed |-> <<feed[k].id>>]
            /\ texts("SUMMARY") = [k \in DOMAIN feed |-> Seen(feed[k].title)]
            /\ texts("DESCRIPTION") = FlattenSeq([k \in DOMAIN feed |->
                   IF feed[k].description = <<>> THEN <<>> ELSE <<Seen(feed[k].description)>>])

(* A feed, from the tasks through the folded lines to what is read of it. *)
FeedSafety == CalendarTypeOK /\ LinesFit /\ FeedIsReadBack

(* days since the first of January of year 0 *)
Ordinal(date) ==
    LET years == [y \in 0..date.y |-> y * 365 + (y + 3) \div 4 - (y + 99) \div 100 + (y + 399) \div 400]
        months[m \in 1..12] == IF m = 1 THEN 0 ELSE months[m - 1] + Days(date.y, m - 1)
    IN  years[date.y] + months[date.m] + date.d

(* A task comes again a day later, a week later, or as many days later as    *)
(* the month has that it was due in: the 31st of January is followed by the  *)
(* 3rd of March, and the day of the month is not found again.                *)
DueSteps ==
    [][due # None => Ordinal(due') - Ordinal(due) \in {1, 7, Days(due.y, due.m)}]_due
=============================================================================
