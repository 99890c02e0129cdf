------------------------------ MODULE ActivityLog ------------------------------
(***************************************************************************)
(* MemberActivityService: the rows of member_activity, one per thing a     *)
(* member of staff did, and the counts the directory and the statistics    *)
(* give of a day, a week (of so many days) and so on.  Time is counted in  *)
(* hours.                                                                  *)
(***************************************************************************)
EXTENDS Workplace, FiniteSetsExt

CONSTANTS
    DayHours,    \* hours of a day
    WeekDays,    \* days of a week
    LastHour,    \* when a behaviour ends
    MaxEntries   \* rows in a behaviour

ASSUME LogConstants ==
    /\ {DayHours, WeekDays} \subseteq Nat \ {0} /\ {LastHour, MaxEntries} \subseteq Nat

VARIABLES
    entries,   \* table member_activity, in the order of createdAt
    hour       \* now

logVars == <<entries, hour>>

Actions == {"Staff Logged In", "Login attempt failed", "Staff Logged Out",
            "Session Timed Out", "Staff Update Profile"}
Ends == {"Staff Logged Out", "Session Timed Out"}
Outcome(action) == CASE action = "Login attempt failed" -> "Failed"
                     [] action = "Session Timed Out" -> "Expired"
                     [] OTHER -> "Success"

Entry == [who : Staff, action : Actions, status : {"Success", "Failed", "Expired"},
          at : 0..LastHour, session : 0..LastHour \cup {None}]

LogInit == entries = <<>> /\ hour = 0

\* The last 'Staff Logged In' of u
Logins(u) == {i \in DOMAIN entries : entries[i].who = u
                                     /\ entries[i].action = "Staff Logged In"}
LastLogin(u) == CHOOSE i \in Logins(u) : \A j \in Logins(u) : j <= i

\* logActivity; the guards write the row of a session that timed out themselves
LogActivity(u, action) ==
    /\ Len(entries) < MaxEntries
    /\ entries' = Append(entries,
         [who |-> u, action |-> action, status |-> Outcome(action), at |-> hour,
          session |-> IF action \in Ends /\ Logins(u) # {}
                      THEN hour - entries[LastLogin(u)].at ELSE None])
    /\ UNCHANGED hour

Hour == hour < LastHour /\ hour' = hour + 1 /\ UNCHANGED entries

LogNext == Hour \/ \E u \in Staff, action \in Actions : LogActivity(u, action)
LogSpec == LogInit /\ [][LogNext]_logVars

-----------------------------------------------------------------------------
(* What the service answers *)

Units == {"day", "week"}
UnitHours(unit) == IF unit = "day" THEN DayHours ELSE DayHours * WeekDays

\* createdAt BETWEEN startOf(unit) AND endOf(unit), around the time asked for
Within(i, unit, now) == entries[i].at \div UnitHours(unit) = now \div UnitHours(unit)

\* fetchStaffActivityDirectory: a staff member or None, an action or None
Fetched(unit, now, u, action) ==
    {i \in DOMAIN entries : /\ Within(i, unit, now)
                            /\ u # None => entries[i].who = u
                            /\ action # None => entries[i].action = action}

\* getActivityStats: what did not succeed counts as failed
Stats(u) ==
    LET mine == {i \in DOMAIN entries : u = None \/ entries[i].who = u}
        good == {i \in mine : entries[i].status = "Success"}
    IN [total |-> Cardinality(mine), success |-> Cardinality(good),
        failed |-> Cardinality(mine) - Cardinality(good)]

\* getLoginStats, of the four actions about sessions
LoginStats(unit, now) ==
    LET these(A) == {i \in DOMAIN entries : Within(i, unit, now)
                                            /\ entries[i].action \in A}
    IN [totalLogins |-> Cardinality(these({"Staff Logged In"})),
        failedAttempts |-> Cardinality(these({"Login attempt failed"})),
        totalLogouts |-> Cardinality(these(Ends)),
        uniqueStaffCount |-> Cardinality({entries[i].who :
                                 i \in these(Actions \ {"Staff Update Profile"})})]

\* calculateTrends: of a day by the hour, of a week by the day
BucketOf(i, unit) == IF unit = "day" THEN entries[i].at ELSE entries[i].at \div DayHours
Trend(unit, now, bucket) ==
    Cardinality({i \in DOMAIN entries : Within(i, unit, now)
                    /\ entries[i].action # "Staff Update Profile"
                    /\ BucketOf(i, unit) = bucket})

-----------------------------------------------------------------------------

LogTypeOK == /\ entries \in Seq(Entry) /\ Len(entries) <= MaxEntries
             /\ hour \in 0..LastHour

\* A session that ended lasted no longer than since its login.
SessionsAgree ==
    \A i \in DOMAIN entries : entries[i].session # None =>
        \E j \in 1..(i - 1) : /\ entries[j].who = entries[i].who
                              /\ entries[j].action = "Staff Logged In"
                              /\ entries[j].at + entries[i].session = entries[i].at

\* The counts of one set of rows agree: every entry of a staff member is in the
\* total once, a week counts what its days count, a day what its hours do.
CountsAgree ==
    LET perUnit(unit, now) == LET r == LoginStats(unit, now) IN
            r.totalLogins + r.failedAttempts + r.totalLogouts
        start == DayHours * WeekDays * (hour \div (DayHours * WeekDays))
        days  == {start + d * DayHours : d \in 0..(WeekDays - 1)}
    IN /\ perUnit("week", hour) = MapThenSumSet(LAMBDA d : perUnit("day", d), days)
       /\ \A d \in days : Trend("week", hour, d \div DayHours) = perUnit("day", d)
       /\ MapThenSumSet(LAMBDA u : Stats(u).total, Staff) = Stats(None).total
       /\ \A u \in Staff : Stats(u).success + Stats(u).failed =
              Cardinality({i \in DOMAIN entries : entries[i].who = u})
       /\ SessionsAgree
================================================================================
