---------------------------- MODULE Calendar ----------------------------
(***************************************************************************)
(* When a schedule is due (app/core/schedules.py) and when the daily CLI   *)
(* update is (last_update_slot, cli_update_due in app/core/sessions.py).   *)
(* Schedules follow the server's local clock, which is put forward or back *)
(* by Hour once, not across midnight; the update follows UTC.  A day has   *)
(* few units and a week few days: the arithmetic is the same.              *)
(***************************************************************************)
EXTENDS Integers, FiniteSets

CONSTANTS Half,    \* units of half a day: the hours of a 12-hour clock
          Week,    \* days of a week
          Hour,    \* units the local clock is put forward or back by
          Horizon, \* bound: the last moment
          Changes  \* the moments the local clock may be changed at

DayLength == 2 * Half
Day(local) == local \div DayLength

(* Of the constants; the MC module assumes it, TLC evaluates it.  What a    *)
(* change makes ambiguous lies within a day: the times that are repeated,  *)
(* or the moments that stand for two times, and these times.               *)
CalendarAssumption ==
    /\ Half \in Nat \ {0} /\ Week \in Nat \ {0} /\ Hour \in Nat \ {0} /\ Horizon \in Nat
    /\ Changes \subseteq Nat
    /\ \A c \in Changes : Day(c - Hour) = Day(c - 1) /\ Day(c) = Day(c + 2 * Hour - 1)

VARIABLES
    shift,  \* when the local clock is changed, and by how much
    now,    \* the epoch time
    spec,   \* the schedule
    asked,  \* the moment next_run was computed from
    next,   \* next_run
    update, \* _cli_update_at
    check,  \* cli_last_check
    updating \* an update round is under way

vars == <<shift, now, spec, asked, next, update, check, updating>>

---------------------------------------------------------------------------
(* datetime.fromtimestamp and datetime.timestamp: the local time of a      *)
(* moment, whether it is the second pass of a repeated time, and back.  A  *)
(* skipped time is read with the offset before the change.                 *)
Local(e) == IF e >= shift.at THEN e + shift.by ELSE e
Fold(e) == shift.by < 0 /\ e \in shift.at .. shift.at - shift.by - 1
Moment(local, fold) ==
    LET before == local < shift.at
        after == local - shift.by >= shift.at
    IN CASE before /\ after -> IF fold THEN local - shift.by ELSE local
         [] before /\ ~after -> local
         [] ~before /\ after -> local - shift.by
         [] OTHER -> IF fold THEN local - shift.by ELSE local

(* _parse_time: an hour of the 12-hour clock.                              *)
ParseTime(hour, pm) == IF pm THEN (IF hour = Half THEN hour ELSE hour + Half)
                       ELSE (IF hour = Half THEN 0 ELSE hour)

(* next_run_after: replace() keeps the fold of the moment it starts from,  *)
(* adding days clears it.                                                  *)
NextRunAfter(s, after) ==
    LET today == Day(Local(after)) * DayLength + s.time
        ahead == (s.weekday - (Day(Local(after)) % Week)) % Week
        thatDay == today + ahead * DayLength
    IN CASE s.kind = "interval" -> after + s.seconds
         [] s.kind = "daily" ->
              IF Moment(today, Fold(after)) <= after THEN Moment(today + DayLength, FALSE)
              ELSE Moment(today, Fold(after))
         [] s.kind = "weekly" ->
              IF Moment(thatDay, FALSE) <= after THEN Moment(thatDay + Week * DayLength, FALSE)
              ELSE Moment(thatDay, FALSE)

(* last_update_slot: the latest daily time that is not after `e`.          *)
LastUpdateSlot(e, time) ==
    LET slot == (e \div DayLength) * DayLength + time
    IN IF slot > e THEN slot - DayLength ELSE slot

(* Mutant: an update made at its time is due again.                        *)
UpdateDueAgain == check <= LastUpdateSlot(now, update)

(* The daily update is due: the last one ended before its latest time.     *)
UpdateDue == check < LastUpdateSlot(now, update)

---------------------------------------------------------------------------
(* parse_phrase: what a phrase can mean; only a weekly one has a weekday.  *)
Phrases == [kind : {"interval"}, seconds : 1 .. DayLength, time : {0}, weekday : {0}]
           \cup [kind : {"daily"}, seconds : {0}, weekday : {0},
                 time : {ParseTime(hour, pm) : hour \in 1 .. Half, pm \in BOOLEAN}]
           \cup [kind : {"weekly"}, seconds : {0}, weekday : 0 .. Week - 1,
                 time : {ParseTime(hour, pm) : hour \in 1 .. Half, pm \in BOOLEAN}]

(* A schedule is made at any moment, by the handler.                       *)
Init ==
    /\ shift \in [at : Changes, by : {-Hour, 0, Hour}] /\ now \in 0 .. Week * DayLength /\ spec \in Phrases
    /\ asked = now /\ next = NextRunAfter(spec, now)
    /\ update \in 0 .. DayLength - 1 /\ check = now /\ updating = FALSE

(* Time passes; the loops may be late.                                     *)
Pass == /\ now < Horizon /\ now' = now + 1
        /\ UNCHANGED <<shift, spec, asked, next, update, check, updating>>

(* _fire_schedule: next_run moves on from the moment the poll saw it due.  *)
Fire == /\ now >= next
        /\ asked' = now /\ next' = NextRunAfter(spec, now)
        /\ UNCHANGED <<shift, now, spec, update, check, updating>>

(* _cli_updater_loop: a round is begun when due and stamped when it ends.  *)
UpdateStarts == /\ UpdateDue /\ ~updating /\ updating' = TRUE
                /\ UNCHANGED <<shift, now, spec, asked, next, update, check>>

UpdateEnds == /\ updating /\ updating' = FALSE /\ check' = now
              /\ UNCHANGED <<shift, now, spec, asked, next, update>>

Next == Pass \/ Fire \/ UpdateStarts \/ UpdateEnds

---------------------------------------------------------------------------
(* The local time a moment stands for: after the change to a later clock   *)
(* it also stands for the time that is skipped.                            *)
StandsFor(e) == {Local(e)} \cup
                (IF e \in shift.at .. shift.at + shift.by - 1 THEN {Local(e) - shift.by} ELSE {})

(* The moments a schedule names, each with its day: first passes of its    *)
(* time on its days.                                                       *)
Days(s, e) == {Day(local) : local \in {l \in StandsFor(e) :
                  /\ l % DayLength = s.time
                  /\ s.kind = "weekly" => Day(l) % Week = s.weekday}}
Named(s, e) == ~Fold(e) /\ Days(s, e) # {}

(* The next run is after the moment it was computed at, is a moment the    *)
(* schedule names, and no earlier one was passed over, on the days the     *)
(* clock changes too.  In the repeated hour a daily schedule may name its  *)
(* time a second time.                                                     *)
NextRunExact ==
    /\ next > asked
    /\ spec.kind # "interval" =>
         /\ Named(spec, next) \/ (spec.kind = "daily" /\ Fold(asked) /\ Fold(next))
         /\ \A e \in asked + 1 .. next - 1 : ~Named(spec, e)

(* A daily or weekly schedule runs once on each of its days, an update     *)
(* once for each of its times, however late the loops are, unless the      *)
(* schedule was polled in the repeated hour.                               *)
OncePerDay ==
    [][/\ (next' # next /\ spec.kind # "interval" /\ ~Fold(asked')
              => \E d \in Days(spec, next), e \in Days(spec, next') : d < e)
       /\ (check' # check => LastUpdateSlot(check, update) < LastUpdateSlot(check', update))]_vars

(* Schedules and updates run when they are due, and once.                  *)
RunsWhenDue == []NextRunExact /\ OncePerDay

=============================================================================
