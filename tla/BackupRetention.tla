---------------------------- MODULE BackupRetention ----------------------------
(***************************************************************************)
(* The grandfather-father-son rule of DatabaseBackupService: backups of    *)
(* the last DailyDays stay, of older ones the newest of each week, and of  *)
(* those that are not such a newest one the newest of each month.  The     *)
(* calendar has weeks and months of equal length.                          *)
(*                                                                         *)
(* Backups are numbered in the order they were made; day[i] is the day of  *)
(* the i-th.                                                               *)
(***************************************************************************)
EXTENDS Integers

CONSTANTS
    DailyDays,      \* 30 in the code
    WeeklyDays,     \* 84
    MonthlyDays,    \* 365
    DaysPerWeek,
    DaysPerMonth

ASSUME RetentionAssumption ==
    /\ DailyDays \in Nat /\ WeeklyDays \in Nat /\ MonthlyDays \in Nat
    /\ DailyDays <= WeeklyDays /\ WeeklyDays <= MonthlyDays
    /\ DaysPerWeek \in Nat \ {0} /\ DaysPerMonth \in Nat \ {0}

Week(d) == d \div DaysPerWeek

Month(d) == d \div DaysPerMonth

(* Of the backups of a set, those with which the walk through the history, newest
   first, meets their period for the first time. *)
LastMet(S, period) == {i \in S : \A j \in S : period[j] = period[i] => i <= j}
FirstMet(S, period) == {i \in S : \A j \in S : period[j] = period[i] => j <= i}

Aged(history, day, today, days) == {i \in history : today - day[i] <= days}

Kept(history, day, today) ==
    LET daily == Aged(history, day, today, DailyDays)
        weekly == FirstMet(Aged(history, day, today, WeeklyDays) \ daily,
                           [i \in history |-> Week(day[i])])
        monthly == FirstMet(Aged(history, day, today, MonthlyDays) \ (daily \cup weekly),
                            [i \in history |-> Month(day[i])])
    IN  daily \cup weekly \cup monthly
===============================================================================
