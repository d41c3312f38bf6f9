----------------------------- MODULE SntpClient -----------------------------
(***************************************************************************)
(* sntp.c and the program around it, wizchip_sntp.c: SNTP_run is called    *)
(* until it has the time or RECV_TIMEOUT is over.                          *)
(*                                                                         *)
(* A time stamp of 32 bits is the pair of its days and quarter hours: the  *)
(* zones are multiples of a quarter of an hour, and the seconds below it   *)
(* pass through the conversion untouched.                                  *)
(***************************************************************************)
EXTENDS Integers, Sequences, FiniteSetsExt

CONSTANTS
    RetryGap, RetryMax,   \* 0xFFF and 0xFFFF in SNTP_run
    TimeZones,            \* time zones SNTP_init is called with
    Stamps                \* <<day, quarter hour>> a server may answer

EPOCH  == 1900
PerDay == 96              \* SECS_PERDAY in quarter hours
LastDay == 49708          \* bound: two days before 2^32 seconds are over

\* Not the first day of 1900, from which a western zone would count below zero, and
\* not the last two of the 32 bits: for an eastern one changedatetime_to_seconds(),
\* whose product is of 32 bits, would begin again at zero.
ASSUME SntpAssumption ==
    /\ RetryGap \in Nat \ {0} /\ RetryMax \in Nat /\ RetryGap < RetryMax
    /\ TimeZones \subseteq 0 .. 49
    /\ Stamps \subseteq (1 .. LastDay) \X (0 .. PerDay - 1)

VARIABLES
    sntp_pc,        \* "run", "done", "halt"
    time_zone,
    ntp_retry_cnt,
    ntp_SR,         \* Sn_SR of NTP_SOCKET
    ntp_rx,         \* what it has received
    ntp_asked,      \* the request is on its way to the server
    ntp_said,       \* answers on their way to port 123
    ntp_time        \* what SNTP_run gave the program

sntpVars == <<sntp_pc, time_zone, ntp_retry_cnt, ntp_SR, ntp_rx, ntp_asked, ntp_said, ntp_time>>

NoTime == << >>

\* SNTP_init.
SntpInit ==
    /\ sntp_pc = "run" /\ time_zone \in TimeZones
    /\ ntp_retry_cnt = 0
    /\ ntp_SR = "CLOSED" /\ ntp_rx = << >> /\ ntp_asked = FALSE /\ ntp_said = {}
    /\ ntp_time = NoTime

----------------------------------------------------------------------------
(* get_seconds_from_ntp_server and calcdatetime.                           *)

\* What each case of the switch adds, in quarter hours, zones 0 to 49.
ZoneTable == << -48, -44, -40, -38, -36, -32, -32, -28, -28, -24,
                -24, -20, -20, -20, -18, -16, -16, -14, -12,  -8,
                 -4,   0,   0,   4,   4,   4,   8,   8,  12,  12,
                 14,  16,  18,  20,  22,  23,  24,  26,  28,  32,
                 36,  38,  40,  42,  44,  46,  48,  51,  52,  56 >>

get_seconds_from_ntp_server(stamp, tz) == stamp[1] * PerDay + stamp[2] + ZoneTable[tz + 1]

\* Mutant: every fourth year is a leap year.
Leap_Julian(y) == y % 4 = 0

Leap(y) == y % 400 = 0 \/ (y % 100 # 0 /\ y % 4 = 0)

DaysOfYear(y) == IF Leap(y) THEN 366 ELSE 365

DaysOfMonth(y, m) ==
    CASE m \in {1, 3, 5, 7, 8, 10, 12} -> 31
      [] m = 2                         -> IF Leap(y) THEN 29 ELSE 28
      [] OTHER                         -> 30

\* The loop over r, from <<year, days left>>: the year these days fall in.
YearFrom[at \in Nat \X Nat] ==
    LET days == DaysOfYear(at[1])
    IN  IF at[2] < days THEN at ELSE YearFrom[<<at[1] + 1, at[2] - days>>]

\* The loop over yf, from <<year, month, days left>>: below 28 days the month is
\* found, whatever its length.
MonthFrom[at \in Nat \X Nat \X Nat] ==
    LET days == DaysOfMonth(at[1], at[2])
    IN  IF at[3] < 28 \/ at[3] < days THEN at
                                      ELSE MonthFrom[<<at[1], at[2] + 1, at[3] - days>>]

calcdatetime(quarters) ==
    LET y == YearFrom[<<EPOCH, quarters \div PerDay>>]
        m == MonthFrom[<<y[1], 1, y[2]>>]
    IN  [yy |-> y[1], mo |-> m[2], dd |-> m[3] + 1, quarter |-> quarters % PerDay]

\* The other way: the two loops count the days before the year and the month.
changedatetime_to_seconds(t) ==
    LET leaps == {y \in EPOCH .. t.yy - 1 : Leap(y)}
        years == (t.yy - EPOCH) * 365 + Cardinality(leaps)
        month == FoldSet(LAMBDA m, n : n + DaysOfMonth(t.yy, m), 0, 1 .. t.mo - 1)
    IN  (years + month + t.dd - 1) * PerDay + t.quarter

----------------------------------------------------------------------------
(* The server.                                                             *)

NtpAnswers(stamp) ==
    /\ ntp_asked
    /\ ntp_said' = ntp_said \union {stamp}
    /\ ntp_asked' = FALSE
    /\ UNCHANGED <<sntp_pc, time_zone, ntp_retry_cnt, ntp_SR, ntp_rx, ntp_time>>

NtpLoses ==
    /\ ntp_asked
    /\ ntp_asked' = FALSE
    /\ UNCHANGED <<sntp_pc, time_zone, ntp_retry_cnt, ntp_SR, ntp_rx, ntp_said, ntp_time>>

NtpDelivers(stamp) ==
    /\ stamp \in ntp_said /\ ntp_SR = "UDP" /\ ntp_rx = << >>
    /\ ntp_rx' = <<stamp>>
    /\ UNCHANGED <<sntp_pc, time_zone, ntp_retry_cnt, ntp_SR, ntp_asked, ntp_said, ntp_time>>

----------------------------------------------------------------------------
(* SNTP_run, called by the do loop of main().                              *)

Runs(SR) == sntp_pc = "run" /\ ntp_SR = SR

NtpOpen ==
    /\ Runs("CLOSED")
    /\ ntp_SR' = "UDP"
    /\ UNCHANGED <<sntp_pc, time_zone, ntp_retry_cnt, ntp_rx, ntp_asked, ntp_said, ntp_time>>

NtpReceive ==
    /\ Runs("UDP") /\ ntp_rx # << >>
    /\ ntp_time' = calcdatetime(get_seconds_from_ntp_server(Head(ntp_rx), time_zone))
    /\ ntp_retry_cnt' = 0
    /\ ntp_SR' = "CLOSED" /\ ntp_rx' = << >>
    /\ sntp_pc' = "done"
    /\ UNCHANGED <<time_zone, ntp_asked, ntp_said>>

\* A request is due at once, and at each multiple of the gap.
Due == ntp_retry_cnt = 0 \/ ntp_retry_cnt % RetryGap = 0

\* Only a request is counted: between two requests the count stands still.  It
\* stays at 1, and the branch that gives up at RetryMax is never taken.
NtpRequest ==
    /\ Runs("UDP") /\ ntp_rx = << >> /\ ntp_retry_cnt < RetryMax /\ Due
    /\ ntp_asked' = TRUE
    /\ ntp_retry_cnt' = ntp_retry_cnt + 1
    /\ UNCHANGED <<sntp_pc, time_zone, ntp_SR, ntp_rx, ntp_said, ntp_time>>

NtpIdle ==
    /\ Runs("UDP") /\ ntp_rx = << >> /\ ntp_retry_cnt < RetryMax /\ ~Due
    /\ UNCHANGED sntpVars

\* RECV_TIMEOUT milliseconds are over.
NtpTimeout ==
    /\ sntp_pc = "run"
    /\ sntp_pc' = "halt"
    /\ UNCHANGED <<time_zone, ntp_retry_cnt, ntp_SR, ntp_rx, ntp_asked, ntp_said, ntp_time>>

SNTP_run == NtpOpen \/ NtpReceive \/ NtpRequest \/ NtpIdle

SntpNext ==
    \/ SNTP_run \/ NtpTimeout
    \/ \E stamp \in Stamps : NtpAnswers(stamp) \/ NtpDelivers(stamp)
    \/ NtpLoses

\* The program calls SNTP_run over and over.
SntpFair == WF_sntpVars(SNTP_run)
SntpSpec == SntpInit /\ [][SntpNext]_sntpVars /\ SntpFair

----------------------------------------------------------------------------
(* Properties.                                                             *)

SntpTypeOK ==
    /\ sntp_pc \in {"run", "done", "halt"} /\ time_zone \in TimeZones
    /\ ntp_retry_cnt \in 0 .. RetryMax
    /\ ntp_SR \in {"CLOSED", "UDP"} /\ (ntp_SR = "CLOSED" => ntp_rx = << >>)
    /\ (sntp_pc = "done" => ntp_SR = "CLOSED")
    /\ ntp_rx \in {<< >>} \union {<<s>> : s \in Stamps}
    /\ ntp_asked \in BOOLEAN /\ ntp_said \subseteq Stamps

\* Reference: days from 1 January 1900 to a date of the Gregorian calendar.
DayNumber(y, m, d) ==
    LET past    == y - 1
        before  == <<0, 31, 59, 90, 120, 151, 181, 212, 243, 273, 304, 334>>[m]
        leapDay == IF m > 2 /\ y % 4 = 0 /\ (y % 100 # 0 \/ y % 400 = 0) THEN 1 ELSE 0
    IN  365 * (y - 1900) + (past \div 4 - past \div 100 + past \div 400 - 460)
            + before + leapDay + d - 1

\* The date given is the local date of a stamp the server sent, across leap
\* years, ends of months and the shift of the zone over midnight, and sntp.c's own
\* way back, changedatetime_to_seconds(), finds the stamp again.
DateIsTheStamp ==
    ntp_time # NoTime =>
        /\ ntp_time.mo \in 1 .. 12 /\ ntp_time.dd \in 1 .. 31
        /\ \E s \in ntp_said :
               LET local == s[1] * PerDay + s[2] + ZoneTable[time_zone + 1]
               IN  /\ DayNumber(ntp_time.yy, ntp_time.mo, ntp_time.dd) * PerDay
                          + ntp_time.quarter = local
                   /\ changedatetime_to_seconds(ntp_time) = local
=============================================================================

