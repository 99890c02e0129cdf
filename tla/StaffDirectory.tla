----------------------------- MODULE StaffDirectory -----------------------------
(***************************************************************************)
(* What the directory, birthday and anniversary endpoints of               *)
(* StaffRegisterService answer.  They write nothing: the state is the day, *)
(* a person's date (of birth or of hire) and, per staff member, how many   *)
(* assignments there are and how many of their tasks are done.  Dates are  *)
(* <<year, month, day>> of a calendar with short months, whose second      *)
(* month is a day longer in leap years.  The server runs on UTC.           *)
(***************************************************************************)
EXTENDS Workplace

CONSTANTS
    Years,       \* the years of a behaviour, from 1 on
    LeapYears,
    MonthDays,   \* length of a month in a common year
    Week,        \* days in a week
    Workload     \* assignments a member of staff may have

ASSUME DirectoryConstants ==
    /\ Years \subseteq Nat \ {0} /\ \E n \in Years : Years = 1..n
    /\ LeapYears \subseteq Years /\ MonthDays \in Nat \ {0} /\ Week \in Nat \ {0}
    /\ 0 \in Workload /\ Workload \subseteq Nat

VARIABLES
    today,    \* new Date() on the server
    date,     \* staff.dateOfBirth, or employment.hireDate
    roll      \* assignments and completed ones, per member of staff

directoryVars == <<today, date, roll>>

-----------------------------------------------------------------------------
(* The calendar; JsDate is the Date constructor, which carries a 29th of   *)
(* February of a common year over to the 1st of March (external)           *)

LeapMonth == 2
DaysIn(y, m) == MonthDays + (IF m = LeapMonth /\ y \in LeapYears THEN 1 ELSE 0)
Dates ==
    {x \in Years \X (1..12) \X (1..(MonthDays + 1)) :
             x[3] <= DaysIn(x[1], x[2])}
LeapBorn(x) == x[2] = LeapMonth /\ x[3] > MonthDays

JsDate(y, m, d) == IF d > DaysIn(y, m) THEN <<y, m + 1, d - DaysIn(y, m)>>
                                       ELSE <<y, m, d>>
SetFullYear(x, y) == JsDate(y, x[2], x[3])

\* getMonth() < or equal and getDate() <: the order within a year
EarlierInYear(x, y) == x[2] < y[2] \/ (x[2] = y[2] /\ x[3] < y[3])
Earlier(x, y) == x[1] < y[1] \/ (x[1] = y[1] /\ EarlierInYear(x, y))
SameDayOfYear(x, y) == x[2] = y[2] /\ x[3] = y[3]

Tomorrow(x) == CASE x[3] < DaysIn(x[1], x[2]) -> <<x[1], x[2], x[3] + 1>>
                 [] x[3] = DaysIn(x[1], x[2]) /\ x[2] < 12 -> <<x[1], x[2] + 1, 1>>
                 [] OTHER -> <<x[1] + 1, 1, 1>>

\* Days since the first of the first year; weeks are counted from there
DayNumber(x) ==
    (x[1] - 1) * 12 * MonthDays + Cardinality({y \in LeapYears : y < x[1]})
    + (x[2] - 1) * MonthDays + (x[3] - 1)
    + (IF x[1] \in LeapYears /\ x[2] > LeapMonth THEN 1 ELSE 0)
LastDay == CHOOSE x \in Dates : Tomorrow(x) \notin Dates
DateAt(n) == IF n > DayNumber(LastDay) THEN LastDay
             ELSE CHOOSE x \in Dates : DayNumber(x) = n
WeekStart(x) == DateAt(Week * (DayNumber(x) \div Week))
WeekEnd(x)   == DateAt(Week * (DayNumber(x) \div Week) + Week - 1)
SameWeek(x, y) == DayNumber(x) \div Week = DayNumber(y) \div Week

-----------------------------------------------------------------------------
(* Birthdays and anniversaries *)

\* findTodaysBirthdays, findTodaysAnniversary: the same month and day
Celebrates(x, now) == SameDayOfYear(x, now)

\* getThisWeekBirthdays: TO_CHAR(.., 'MM-DD') BETWEEN :start AND :end
ThisWeek(x, now) == /\ ~EarlierInYear(x, WeekStart(now))
                    /\ ~EarlierInYear(WeekEnd(now), x)

\* getThisMonthBirthdays, findThisMonthAnniversary
ThisMonth(x, now) == x[2] = now[2]

\* getQuarterlyAnniversaries, getStats
Quarter(x) == (x[2] + 2) \div 3
ThisQuarter(x, now) == Quarter(x) = Quarter(now)

\* getUpcomingBirthdays, getUpcomingAnniversaries: this year's, or the next
\* one's when it has passed
NextOccurrence(x, now) ==
    LET this == JsDate(now[1], x[2], x[3]) IN
    IF EarlierInYear(this, now) THEN SetFullYear(this, now[1] + 1) ELSE this

\* getRecentAnniversaries: this year's, or the last one's when it is to come
LastOccurrence(x, now) ==
    LET this == JsDate(now[1], x[2], x[3]) IN
    IF EarlierInYear(now, this) THEN SetFullYear(this, now[1] - 1) ELSE this

\* yearsCompleted of the upcoming list counts this year's anniversary already
YearsUpcoming(x, now) == now[1] - x[1]
YearsRecent(x, now) == LastOccurrence(x, now)[1] - x[1]

-----------------------------------------------------------------------------
(* The directory with task completion *)

RangeOf(range) == CASE range = "0-25" -> 0..25 [] range = "26-50" -> 26..50
                    [] range = "51-75" -> 51..75 [] range = "76-100" -> 76..100
Ranges == {"0-25", "26-50", "51-75", "76-100"}

CompletionRate(r) == Percent(r.done, r.total)

\* taskPerformance.performance.level
Level(r) == CASE r.total = 0 -> "PINK"
              [] r.total > 0 /\ CompletionRate(r) >= 86 -> "GREEN"
              [] r.total > 0 /\ CompletionRate(r) \in 50..85 -> "YELLOW"
              [] OTHER -> "RED"

\* The rows of the query, in its order; a range is applied in memory, before
\* the page is cut, and the total counted after it
InRange(u, range) == CompletionRate(roll[u]) \in RangeOf(range)
Listed(order, range) ==
    LET kept[n \in 0..Len(order)] ==   \* of the first n rows
            IF n = 0 THEN <<>>
            ELSE IF InRange(order[n], range) THEN Append(kept[n - 1], order[n])
            ELSE kept[n - 1]
    IN IF range = "all" THEN order ELSE kept[Len(order)]
DirectoryPage(order, range, page, limit) ==
    LET rows == Listed(order, range) IN
    [data |-> Page(rows, page, limit), total |-> Len(rows),
     totalPages |-> TotalPages(Len(rows), limit)]

\* getNewHireStaffs: hired on or after the day that was so many days ago
NewHire(x, now, days) == DayNumber(now) - DayNumber(x) <= days
DaysOnBoard(x, now) == DayNumber(now) - DayNumber(x)

-----------------------------------------------------------------------------

Idler == [total |-> 0, done |-> 0]
DirectoryInit ==
    \/ /\ date \in Dates /\ roll = [u \in Staff |-> Idler]
       /\ today = DateAt(0)
    \/ /\ roll \in [Staff -> {r \in [total : Workload, done : Workload] :
                                   r.done <= r.total}]
       /\ today = LastDay
       /\ date = today

NextDay == /\ Tomorrow(today) \in Dates
           /\ today' = Tomorrow(today)
           /\ UNCHANGED <<date, roll>>

DirectoryNext == NextDay
DirectorySpec == DirectoryInit /\ [][DirectoryNext]_directoryVars

-----------------------------------------------------------------------------
(* Properties *)

DirectoryTypeOK ==
    /\ today \in Dates /\ date \in Dates
    /\ roll \in [Staff -> [total : Workload, done : Workload]]

\* The date an upcoming list shows is the first from today on which the list of
\* the day has the person, the recent one shows the last until today.  Left out:
\* who was born on a leap day, whom the lists of common years put on the 1st of
\* March and the list of the day on no day; and a date beyond the years of the
\* model.
OccurrencesAgree ==
    LET next == NextOccurrence(date, today)  last == LastOccurrence(date, today) IN
    ~LeapBorn(date) =>
        /\ next \in Dates =>
             /\ Celebrates(date, next) /\ ~Earlier(next, today)
             /\ \A x \in Dates : Celebrates(date, x) /\ ~Earlier(x, today)
                                 => ~Earlier(x, next)
        /\ last \in Dates =>
             /\ Celebrates(date, last) /\ ~Earlier(today, last)
             /\ \A x \in Dates : Celebrates(date, x) /\ ~Earlier(today, x)
                                 => ~Earlier(last, x)

\* The list of the week has those whose day is in it, but for leap days, and for
\* the week of New Year's Eve, for which BETWEEN finds nobody at all.
WeekAgrees ==
    ~LeapBorn(date) /\ WeekStart(today)[1] = WeekEnd(today)[1] =>
        (ThisWeek(date, today) <=>
            \E x \in Dates : SameWeek(x, today) /\ Celebrates(date, x))

\* What the lists promise is what the day brings.
ListsAgree == OccurrencesAgree /\ WeekAgrees

\* A page, a place on it and who is there, for all pages of a range
Shown(order, range, limit) ==
    LET at(p) == DirectoryPage(order, range, p, limit) IN
    UNION {{<<p, i, at(p).data[i]>> : i \in DOMAIN at(p).data} : p \in 1..at(1).totalPages}

\* The completion ranges divide the staff: whatever the page size, the pages of
\* the four ranges show everyone once, as many as their totals say.
EveryoneListedOnce ==
    LET staff == CHOOSE q \in [1..Cardinality(Staff) -> Staff] :
                    \A i, j \in DOMAIN q : q[i] = q[j] => i = j
    IN \A limit \in 1..3 :
        /\ \A u \in Staff : Cardinality(UNION {{x \in Shown(staff, range, limit) : x[3] = u} :
                                                   range \in Ranges}) = 1
        /\ \A range \in Ranges : Cardinality(Shown(staff, range, limit))
                                     = DirectoryPage(staff, range, 1, limit).total
================================================================================
