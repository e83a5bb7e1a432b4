--------------------------- MODULE LxafsDateProofs ---------------------------
(***************************************************************************)
(* Proofs about lxafs_date_unix2lx, for every second of every day from     *)
(* 1980 as far as an int of seconds goes, in every time zone.              *)
(***************************************************************************)
EXTENDS LxafsDate, TLAPS

\* The calendar begins where an FDATE does, and every time looked at fits in the
\* int that lxafs_date_unix2lx takes.
Range32 ==
  /\ FirstDay = 3652
  /\ 86400 * (LastDay + 1) + 60 * 720 <= 2147483648

-----------------------------------------------------------------------------
(* Tables.                                                                 *)

\* The entries of lxafs_day_n.
LEMMA DayTable ==
  /\ lxafs_day_n[0] = 0 /\ lxafs_day_n[1] = 31 /\ lxafs_day_n[2] = 59
  /\ lxafs_day_n[3] = 90 /\ lxafs_day_n[4] = 120 /\ lxafs_day_n[5] = 151
  /\ lxafs_day_n[6] = 181 /\ lxafs_day_n[7] = 212 /\ lxafs_day_n[8] = 243
  /\ lxafs_day_n[9] = 273 /\ lxafs_day_n[10] = 304 /\ lxafs_day_n[11] = 334
BY DEF lxafs_day_n

\* The lengths of the months.
LEMMA MonthTable ==
  ASSUME NEW y
  PROVE  /\ Length(y)[1] = 31 /\ Length(y)[3] = 31 /\ Length(y)[4] = 30
         /\ Length(y)[2] = IF LeapYear(y) THEN 29 ELSE 28
         /\ Length(y)[5] = 31 /\ Length(y)[6] = 30 /\ Length(y)[7] = 31
         /\ Length(y)[8] = 31 /\ Length(y)[9] = 30 /\ Length(y)[10] = 31
         /\ Length(y)[11] = 30 /\ Length(y)[12] = 31
BY DEF Length

\* A month has between 28 and 31 days.
LEMMA MonthLengths ==
  ASSUME NEW y, NEW m \in 1 .. 12
  PROVE  Length(y)[m] \in 28 .. 31 /\ (m = 12 => Length(y)[m] = 31)
<1>1. m = 1 \/ m = 2 \/ m = 3 \/ m = 4 \/ m = 5 \/ m = 6 \/ m = 7
      \/ m = 8 \/ m = 9 \/ m = 10 \/ m = 11 \/ m = 12
  OBVIOUS
<1> QED
  BY <1>1, MonthTable

\* Up to 2099 every fourth year is a leap year.
LEMMA LeapYears ==
  ASSUME NEW y \in 0 .. 100
  PROVE  LeapYear(y) <=> y % 4 = 0
BY SMTT(30) DEF LeapYear

\* The entries of lxafs_day_n before and after a month differ by its length.
MonthFacts(y, m) ==
  /\ lxafs_day_n[m - 1] \in 0 .. 334
  /\ Length(y)[m] \in 28 .. 31
  /\ m < 12 => lxafs_day_n[m] = lxafs_day_n[m - 1] + Length(y)[m]
                                - Bool(m = 2 /\ y % 4 = 0)
  /\ m = 12 => lxafs_day_n[m - 1] = 334 /\ Length(y)[m] = 31
  /\ (m = 1 => lxafs_day_n[m - 1] = 0) /\ (m = 2 => lxafs_day_n[m - 1] = 31)
  /\ m > 2 => lxafs_day_n[m - 1] >= 59

\* The months of lxafs_day_n are those of a common year.
LEMMA MonthsFollow ==
  ASSUME NEW y \in 0 .. 100, NEW m \in 1 .. 12
  PROVE  MonthFacts(y, m)
<1> USE DayTable, MonthTable, LeapYears DEF Bool, MonthFacts
<1>1. CASE m = 1
  BY <1>1
<1>2. CASE m = 2
  <2>1. Length(y)[2] = IF y % 4 = 0 THEN 29 ELSE 28
    <3>1. CASE y % 4 = 0
      <4>1. LeapYear(y)
        BY <3>1, LeapYears
      <4> QED
        BY <3>1, <4>1 DEF Length
    <3>2. CASE y % 4 # 0
      <4>1. ~LeapYear(y)
        BY <3>2, LeapYears
      <4> QED
        BY <3>2, <4>1 DEF Length
    <3> QED
      BY <3>1, <3>2
  <2>2. lxafs_day_n[1] = 31 /\ lxafs_day_n[2] = 59 /\ m - 1 = 1
    BY <1>2
  <2> QED
    BY <1>2, <2>1, <2>2
<1>3. CASE m = 3
  BY <1>3
<1>4. CASE m = 4
  BY <1>4
<1>5. CASE m = 5
  BY <1>5
<1>6. CASE m = 6
  BY <1>6
<1>7. CASE m = 7
  BY <1>7
<1>8. CASE m = 8
  BY <1>8
<1>9. CASE m = 9
  BY <1>9
<1>10. CASE m = 10
  BY <1>10
<1>11. CASE m = 11
  BY <1>11
<1>12. CASE m = 12
  BY <1>12
<1> QED
  BY <1>1, <1>2, <1>3, <1>4, <1>5, <1>6, <1>7, <1>8, <1>9, <1>10, <1>11, <1>12

-----------------------------------------------------------------------------
(* The calendar.                                                           *)

\* The day of the year, from 0, and the days before the year since 1980.
DayOfYear(d, m, y) == lxafs_day_n[m - 1] + Bool(m > 2 /\ y % 4 = 0) + d - 1
Before(y) == 365 * y + (y + 3) \div 4

\* The calendar's date is that of the day.
CalInv ==
  /\ days \in Nat /\ days <= LastDay
  /\ cal \in [day : Nat, month : 1 .. 12, year : Nat] /\ cal.day >= 1
  /\ cal.day \in 1 .. Length(cal.year)[cal.month]
  /\ days = 3652 + Before(cal.year) + DayOfYear(cal.day, cal.month, cal.year)

\* A year is 365 days longer than the number of leap years says.
LEMMA YearsFollow ==
  ASSUME NEW y \in Nat
  PROVE  /\ Before(y) \in Nat /\ Before(y) >= 365 * y
         /\ Before(y + 1) = Before(y) + 365 + Bool(y % 4 = 0)
         /\ Bool(y % 4 = 0) \in {0, 1}
<1>1. (y + 3) \div 4 \in Nat
  OBVIOUS
<1>2. (y + 1 + 3) \div 4 = (y + 3) \div 4 + Bool(y % 4 = 0)
  BY DEF Bool
<1>3. Bool(y % 4 = 0) \in {0, 1}
  BY DEF Bool
<1> QED
  BY <1>1, <1>2, <1>3 DEF Before

\* The day of the year by the calendar's date.
LEMMA DaysOfYear ==
  ASSUME NEW y \in 0 .. 100, NEW m \in 1 .. 12, NEW d \in 1 .. Length(y)[m]
  PROVE  /\ DayOfYear(d, m, y) \in 0 .. 364 + Bool(y % 4 = 0)
         /\ DayOfYear(d + 1, m, y) = DayOfYear(d, m, y) + 1
         /\ m < 12 /\ d = Length(y)[m] =>
              DayOfYear(1, m + 1, y) = DayOfYear(d, m, y) + 1
         /\ m = 12 /\ d = 31 => DayOfYear(d, m, y) = 364 + Bool(y % 4 = 0)
         /\ DayOfYear(1, 1, y) = 0
<1> DEFINE c == lxafs_day_n[m - 1]
           l == Length(y)[m]
           b == Bool(y % 4 = 0)
<1>1. /\ c \in 0 .. 334 /\ l \in 28 .. 31 /\ d \in Int /\ d >= 1 /\ d <= l
      /\ m < 12 => lxafs_day_n[m] = c + l - Bool(m = 2 /\ y % 4 = 0)
      /\ m = 12 => c = 334 /\ l = 31
      /\ m < 12 => c <= 304
  <2>1. m < 12 => c <= 304
    <3>1. m < 12 => m = 1 \/ m = 2 \/ m = 3 \/ m = 4 \/ m = 5 \/ m = 6 \/ m = 7
                    \/ m = 8 \/ m = 9 \/ m = 10 \/ m = 11
      OBVIOUS
    <3> QED
      BY <3>1, DayTable
  <2>2. /\ c \in 0 .. 334 /\ l \in 28 .. 31
        /\ m < 12 => lxafs_day_n[m] = c + l - Bool(m = 2 /\ y % 4 = 0)
        /\ m = 12 => c = 334 /\ l = 31
    <3>1. MonthFacts(y, m)
      BY MonthsFollow, Zenon
    <3> QED
      BY <3>1, Zenon DEF MonthFacts
  <2>3. d \in Int /\ d >= 1 /\ d <= l
    <3>1. d \in 1 .. l
      OBVIOUS
    <3> HIDE DEF l, c
    <3> QED
      BY <2>2, <3>1
  <2> QED
    BY <2>1, <2>2, <2>3
<1>2. b \in {0, 1} /\ Bool(m > 2 /\ y % 4 = 0) = (IF m > 2 THEN b ELSE 0)
      /\ Bool(m + 1 > 2 /\ y % 4 = 0) = (IF m + 1 > 2 THEN b ELSE 0)
      /\ Bool(m = 2 /\ y % 4 = 0) = (IF m = 2 THEN b ELSE 0)
  BY DEF Bool
<1> HIDE DEF c, l, b
<1>3. DayOfYear(d, m, y) = c + (IF m > 2 THEN b ELSE 0) + d - 1
  BY <1>2 DEF DayOfYear, c
<1>4. DayOfYear(d + 1, m, y) = c + (IF m > 2 THEN b ELSE 0) + d + 1 - 1
  BY <1>1, <1>2 DEF DayOfYear, c
<1>5. m < 12 => DayOfYear(1, m + 1, y) =
                  lxafs_day_n[m] + (IF m + 1 > 2 THEN b ELSE 0) + 1 - 1
  <2>1. m + 1 - 1 = m
    OBVIOUS
  <2> QED
    BY <1>2, <2>1 DEF DayOfYear
<1>6. DayOfYear(1, 1, y) = 0
  BY DayTable DEF DayOfYear, Bool
<1> QED
  BY <1>1, <1>2, <1>3, <1>4, <1>5, <1>6 DEF l, b

\* The years of the calendar while the seconds fit in an int.
LEMMA YearsFit ==
  ASSUME Range32, CalInv
  PROVE  cal.year \in 0 .. 58
<1> DEFINE y == cal.year
<1>1. /\ y \in Nat /\ cal.month \in 1 .. 12 /\ cal.day \in Nat /\ cal.day >= 1
      /\ days \in Nat /\ days <= LastDay /\ LastDay \in Nat
  <2>1. /\ cal \in [day : Nat, month : 1 .. 12, year : Nat] /\ cal.day >= 1
        /\ days \in Nat /\ days <= LastDay
    BY DEF CalInv
  <2> QED
    BY <2>1, DateAssumption
<1>2. LastDay <= 24854
  BY <1>1, SMTT(30) DEF Range32
<1>3. DayOfYear(cal.day, cal.month, y) >= 0
      /\ DayOfYear(cal.day, cal.month, y) \in Int
  <2>1. ASSUME NEW m \in 1 .. 12 PROVE lxafs_day_n[m - 1] \in 0 .. 334
    <3>1. m = 1 \/ m = 2 \/ m = 3 \/ m = 4 \/ m = 5 \/ m = 6 \/ m = 7
          \/ m = 8 \/ m = 9 \/ m = 10 \/ m = 11 \/ m = 12
      OBVIOUS
    <3> QED
      BY <3>1, DayTable
  <2>2. Bool(cal.month > 2 /\ y % 4 = 0) \in {0, 1}
    BY DEF Bool
  <2> DEFINE c == lxafs_day_n[cal.month - 1]
             b == Bool(cal.month > 2 /\ y % 4 = 0)
  <2>3. c \in 0 .. 334 /\ b \in {0, 1}
    BY <1>1, <2>1, <2>2
  <2> HIDE DEF c, b
  <2> QED
    BY <1>1, <2>3, SMTT(30) DEF DayOfYear, c, b
<1>4. Before(y) \in Nat /\ Before(y) >= 365 * y
  BY <1>1, YearsFollow
<1>5. days = 3652 + Before(y) + DayOfYear(cal.day, cal.month, y)
  BY DEF CalInv
<1> DEFINE f == DayOfYear(cal.day, cal.month, y)
           g == Before(y)
<1> HIDE DEF y, f, g
<1>6. g <= 21202
  BY <1>1, <1>2, <1>3, <1>4, <1>5 DEF f, g
<1>7. y <= 58
  BY <1>1, <1>4, <1>6 DEF g
<1> QED
  BY <1>1, <1>7 DEF y

\* 1 January 1980.
LEMMA CalInit == Range32 /\ Init => CalInv
<1> SUFFICES ASSUME Range32, Init PROVE CalInv
  OBVIOUS
<1>1. /\ days = 3652 /\ cal = [day |-> 1, month |-> 1, year |-> 0]
      /\ days \in Nat /\ days <= LastDay
  BY DateAssumption, SMTT(30) DEF Init, Range32
<1>2. cal \in [day : Nat, month : 1 .. 12, year : Nat]
  BY <1>1
<1>3. cal.day = 1 /\ cal.month = 1 /\ cal.year = 0
  BY <1>1
<1>4. 1 \in 1 .. Length(0)[1]
  <2>1. Length(0)[1] = 31
    BY MonthTable
  <2> QED
    BY <2>1
<1>5. Before(0) = 0 /\ DayOfYear(1, 1, 0) = 0
  BY DayTable DEF Before, DayOfYear, Bool
<1> QED
  BY <1>1, <1>2, <1>3, <1>4, <1>5 DEF CalInv

\* The date f/n/z is the calendar's and the count's next after d/m/y.
NextDate(d, m, y, f, n, z) ==
  /\ Tomorrow([day |-> d, month |-> m, year |-> y])
     = [day |-> f, month |-> n, year |-> z]
  /\ f \in 1 .. Length(z)[n] /\ f >= 1
  /\ Before(z) + DayOfYear(f, n, z) = Before(y) + DayOfYear(d, m, y) + 1
  /\ (f = d + 1 /\ n = m) \/ (f = 1 /\ n # m /\ d > 1)
  /\ z <= y + 1

\* The day after a date is the next day of the count.
LEMMA TomorrowFollows ==
  ASSUME NEW y \in 0 .. 100, NEW m \in 1 .. 12, NEW d \in 1 .. Length(y)[m]
  PROVE  \E f \in Nat, n \in 1 .. 12, z \in Nat : NextDate(d, m, y, f, n, z)
<1> DEFINE c == [day |-> d, month |-> m, year |-> y]
<1>1. y \in 0 .. 100 /\ y \in Nat /\ y + 1 \in Nat /\ y <= y + 1 /\ y + 1 <= y + 1
  OBVIOUS
<1>2. Length(y)[m] \in 28 .. 31 /\ (m = 12 => Length(y)[m] = 31) /\ d \in Nat
  <2>1. Length(y)[m] \in 28 .. 31 /\ (m = 12 => Length(y)[m] = 31)
    BY MonthLengths
  <2> QED
    BY <2>1
<1>3. /\ DayOfYear(d, m, y) \in 0 .. 364 + Bool(y % 4 = 0)
      /\ DayOfYear(d + 1, m, y) = DayOfYear(d, m, y) + 1
      /\ m < 12 /\ d = Length(y)[m] =>
           DayOfYear(1, m + 1, y) = DayOfYear(d, m, y) + 1
      /\ m = 12 /\ d = 31 => DayOfYear(d, m, y) = 364 + Bool(y % 4 = 0)
      /\ DayOfYear(1, 1, y) = 0
  BY DaysOfYear
<1>4. /\ Before(y) \in Nat
      /\ Before(y + 1) = Before(y) + 365 + Bool(y % 4 = 0)
      /\ Bool(y % 4 = 0) \in {0, 1}
  BY <1>1, YearsFollow
<1>5. DayOfYear(d, m, y) \in Int
  BY <1>3, <1>4
<1>6. c.day = d /\ c.month = m /\ c.year = y
  OBVIOUS
<1>7. CASE d < Length(y)[m]
  <2>1. Tomorrow(c) = [day |-> d + 1, month |-> m, year |-> y]
    BY <1>6, <1>7 DEF Tomorrow
  <2>2. d + 1 \in 1 .. Length(y)[m] /\ d + 1 \in Nat /\ d + 1 >= 1
    BY <1>2, <1>7
  <2>3. Before(y) + DayOfYear(d + 1, m, y) = Before(y) + DayOfYear(d, m, y) + 1
    BY <1>3, <1>4, <1>5
  <2>4. NextDate(d, m, y, d + 1, m, y)
    BY <1>1, <2>1, <2>2, <2>3 DEF NextDate
  <2> QED
    BY <1>1, <2>2, <2>4, Zenon
<1>8. CASE d = Length(y)[m] /\ m < 12
  <2>1. ~(d < Length(y)[m]) /\ d > 1
    BY <1>2, <1>8
  <2>2. Tomorrow(c) = [day |-> 1, month |-> m + 1, year |-> y]
    BY <1>6, <1>8, <2>1 DEF Tomorrow
  <2>3. m + 1 \in 1 .. 12 /\ 1 \in Nat /\ m + 1 # m /\ 1 >= 1
    BY <1>8
  <2>4. 1 \in 1 .. Length(y)[m + 1]
    <3>1. Length(y)[m + 1] \in 28 .. 31
      BY <2>3, MonthLengths
    <3> QED
      BY <3>1
  <2>5. Before(y) + DayOfYear(1, m + 1, y) = Before(y) + DayOfYear(d, m, y) + 1
    BY <1>3, <1>4, <1>5, <1>8
  <2>6. NextDate(d, m, y, 1, m + 1, y)
    BY <1>1, <2>1, <2>2, <2>3, <2>4, <2>5 DEF NextDate
  <2> QED
    BY <1>1, <2>3, <2>6, Zenon
<1>9. CASE d = Length(y)[m] /\ m = 12
  <2>1. ~(d < Length(y)[m]) /\ ~(m < 12) /\ d = 31 /\ d > 1 /\ 1 # m
    BY <1>2, <1>9
  <2>2. Tomorrow(c) = [day |-> 1, month |-> 1, year |-> y + 1]
    BY <1>6, <2>1 DEF Tomorrow
  <2>3. 1 \in 1 .. Length(y + 1)[1]
    <3>1. Length(y + 1)[1] = 31
      BY MonthTable
    <3> QED
      BY <3>1
  <2>4. DayOfYear(1, 1, y + 1) = 0
    BY DayTable DEF DayOfYear, Bool
  <2>5. Before(y + 1) + DayOfYear(1, 1, y + 1)
        = Before(y) + DayOfYear(d, m, y) + 1
    BY <1>3, <1>4, <1>9, <2>1, <2>4
  <2>6. 1 \in Nat /\ 1 \in 1 .. 12 /\ 1 >= 1
    OBVIOUS
  <2>7. NextDate(d, m, y, 1, 1, y + 1)
    BY <1>1, <2>1, <2>2, <2>3, <2>5, <2>6 DEF NextDate
  <2> QED
    BY <1>1, <2>6, <2>7, Zenon
<1>10. (d < Length(y)[m] \/ d = Length(y)[m]) /\ (m < 12 \/ m = 12)
  BY <1>2
<1> QED
  BY <1>7, <1>8, <1>9, <1>10

\* The calendar's date stays that of the day.
LEMMA CalNext == Range32 /\ CalInv /\ [NextDay]_vars => CalInv'
<1> SUFFICES ASSUME Range32, CalInv, [NextDay]_vars PROVE CalInv'
  OBVIOUS
<1>1. CASE UNCHANGED vars
  BY <1>1 DEF vars, CalInv
<1>2. CASE NextDay
  <2>1. /\ cal \in [day : Nat, month : 1 .. 12, year : Nat]
        /\ cal.day \in 1 .. Length(cal.year)[cal.month]
        /\ days = 3652 + Before(cal.year) + DayOfYear(cal.day, cal.month, cal.year)
        /\ days \in Nat
    BY DEF CalInv
  <2>2. cal.year \in 0 .. 100
    <3>1. cal.year \in 0 .. 58
      BY YearsFit
    <3> QED
      BY <3>1
  <2>3. PICK y \in 0 .. 100, m \in 1 .. 12 : y = cal.year /\ m = cal.month
    BY <2>1, <2>2
  <2>4. PICK d \in 1 .. Length(y)[m] : d = cal.day
    BY <2>1, <2>3
  <2>5. cal = [day |-> d, month |-> m, year |-> y]
    BY <2>1, <2>3, <2>4
  <2>6. PICK f \in Nat, n \in 1 .. 12, z \in Nat : NextDate(d, m, y, f, n, z)
    BY TomorrowFollows, Zenon
  <2> USE DEF NextDate
  <2>7. cal' = [day |-> f, month |-> n, year |-> z]
    BY <1>2, <2>5, <2>6 DEF NextDay
  <2>8. days' = days + 1 /\ days' \in Nat /\ days' <= LastDay
    <3>1. days < LastDay /\ days' = days + 1 /\ days \in Nat
      BY <1>2, <2>1 DEF NextDay
    <3>2. LastDay \in Nat
      BY DateAssumption
    <3>3. days + 1 \in Nat /\ days + 1 <= LastDay
      BY <3>1, <3>2
    <3> QED
      BY <3>1, <3>3
  <2>9. Before(y) \in Nat /\ DayOfYear(d, m, y) \in Int
    <3>1. /\ y \in Nat /\ Bool(y % 4 = 0) \in {0, 1}
      BY YearsFollow
    <3>2. /\ DayOfYear(d, m, y) \in 0 .. 364 + Bool(y % 4 = 0)
          /\ DayOfYear(d + 1, m, y) = DayOfYear(d, m, y) + 1
          /\ m < 12 /\ d = Length(y)[m] =>
               DayOfYear(1, m + 1, y) = DayOfYear(d, m, y) + 1
          /\ m = 12 /\ d = 31 => DayOfYear(d, m, y) = 364 + Bool(y % 4 = 0)
          /\ DayOfYear(1, 1, y) = 0
      BY DaysOfYear
    <3> QED
      BY <3>1, <3>2, YearsFollow, SMTT(30)
  <2>10. days = 3652 + Before(y) + DayOfYear(d, m, y)
    BY <2>1, <2>3, <2>4
  <2>11. Before(z) \in Nat
    BY YearsFollow
  <2>12. DayOfYear(f, n, z) \in Int
    <3>1. lxafs_day_n[n - 1] \in 0 .. 334
      <4>1. n = 1 \/ n = 2 \/ n = 3 \/ n = 4 \/ n = 5 \/ n = 6 \/ n = 7
            \/ n = 8 \/ n = 9 \/ n = 10 \/ n = 11 \/ n = 12
        OBVIOUS
      <4> QED
        BY <4>1, DayTable
    <3>2. Bool(n > 2 /\ z % 4 = 0) \in {0, 1}
      BY DEF Bool
    <3> QED
      BY <3>1, <3>2 DEF DayOfYear
  <2>13. days' = 3652 + Before(z) + DayOfYear(f, n, z)
    <3> DEFINE p == Before(y)
               q == DayOfYear(d, m, y)
               v == Before(z)
               w == DayOfYear(f, n, z)
    <3>1. /\ p \in Int /\ q \in Int /\ v \in Int /\ w \in Int
          /\ v + w = p + q + 1 /\ days' = 3652 + p + q + 1
      BY <2>6, <2>8, <2>9, <2>10, <2>11, <2>12
    <3> HIDE DEF p, q, v, w
    <3>2. days' = 3652 + v + w
      BY <3>1
    <3> QED
      BY <3>2 DEF v, w
  <2>14. /\ cal' \in [day : Nat, month : 1 .. 12, year : Nat]
         /\ cal'.day = f /\ cal'.month = n /\ cal'.year = z
    BY <2>7
  <2> QED
    BY <2>6, <2>8, <2>13, <2>14 DEF CalInv
<1> QED
  BY <1>1, <1>2

-----------------------------------------------------------------------------
(* lxafs_date_unix2lx.                                                     *)

\* The year of a day since 1980: a guess, less one when its days are too many.
YearOf(n) ==
  (n \div 365) - Bool((n \div 365 + 3) \div 4 + 365 * (n \div 365) > n)

\* The guess of the year is right or one too many.
LEMMA YearFound ==
  ASSUME NEW y \in 0 .. 100, NEW k \in 0 .. 364 + Bool(y % 4 = 0), NEW n \in Int,
         n = Before(y) + k
  PROVE  YearOf(n) = y
<1> DEFINE b == Bool(y % 4 = 0)
           q == (y + 3) \div 4
           g == n \div 365
<1>1. b \in {0, 1} /\ (y + 4) \div 4 = q + b /\ q \in 0 .. 25
  BY DEF Bool
<1>2. k \in Int /\ k >= 0 /\ k <= 364 + b
  BY <1>1
<1>3. n = 365 * y + q + k
  BY DEF Before
<1> HIDE DEF b, q
<1>4. n >= 365 * y /\ n < 365 * (y + 2)
  BY <1>1, <1>2, <1>3
<1>5. g = y \/ g = y + 1
  BY <1>4
<1> USE DEF YearOf
<1>6. CASE g = y
  <2>1. ~((g + 3) \div 4 + 365 * g > n)
    BY <1>1, <1>2, <1>3, <1>6 DEF q
  <2> QED
    BY <1>6, <2>1 DEF Bool
<1>7. CASE g = y + 1
  <2>1. (g + 3) \div 4 = q + b
    BY <1>1, <1>7
  <2>2. (g + 3) \div 4 + 365 * g > n
    BY <1>1, <1>2, <1>3, <1>7, <2>1
  <2> QED
    BY <1>7, <2>2 DEF Bool
<1> QED
  BY <1>5, <1>6, <1>7

\* The search of the month.
LEMMA MonthFound ==
  ASSUME NEW m \in 1 .. 12, NEW x \in Int, lxafs_day_n[m - 1] <= x,
         m < 12 => x < lxafs_day_n[m]
  PROVE  MonthOf(x) = m
<1>1. \A j \in 0 .. 11 : j = 0 \/ j = 1 \/ j = 2 \/ j = 3 \/ j = 4 \/ j = 5 \/ j = 6
        \/ j = 7 \/ j = 8 \/ j = 9 \/ j = 10 \/ j = 11
  OBVIOUS
<1>2. \A j \in 0 .. 11 : lxafs_day_n[j] \in 0 .. 334
  BY <1>1, DayTable
<1>3. \A j \in 0 .. 11 : j < m => lxafs_day_n[j] <= lxafs_day_n[m - 1]
  <2>1. m - 1 \in 0 .. 11
    OBVIOUS
  <2> QED
    BY <1>1, <2>1, DayTable
<1>4. ASSUME NEW j \in 0 .. 11, j < m
      PROVE  lxafs_day_n[j] <= x /\ ~(lxafs_day_n[j] > x)
  <2>1. m - 1 \in 0 .. 11
    OBVIOUS
  <2> DEFINE u == lxafs_day_n[j]
             v == lxafs_day_n[m - 1]
  <2>2. u \in 0 .. 334 /\ v \in 0 .. 334 /\ u <= v /\ v <= x
    BY <1>2, <1>3, <1>4, <2>1
  <2> HIDE DEF u, v
  <2>3. u <= x /\ ~(u > x)
    BY <2>2
  <2> QED
    BY <2>3 DEF u
<1>5. CASE m = 12
  <2>1. \A j \in 0 .. 11 : j < m
    BY <1>5
  <2>2. ~ \E j \in 0 .. 11 : lxafs_day_n[j] > x
    BY <1>4, <2>1
  <2> QED
    BY <1>5, <2>2 DEF MonthOf
<1>6. CASE m < 12
  <2>1. /\ m \in 0 .. 11 /\ lxafs_day_n[m] > x /\ ~(lxafs_day_n[m] <= x)
        /\ \A k \in 0 .. (m - 1) : lxafs_day_n[k] <= x
    <3>1. m \in 0 .. 11 /\ \A k \in 0 .. (m - 1) : k \in 0 .. 11 /\ k < m
      BY <1>6
    <3> DEFINE u == lxafs_day_n[m]
    <3>2. u \in 0 .. 334 /\ x < u
      BY <1>2, <1>6, <3>1
    <3> HIDE DEF u
    <3>3. u > x /\ ~(u <= x)
      BY <3>2
    <3> QED
      BY <1>4, <3>1, <3>3 DEF u
  <2>2. ASSUME NEW j \in 0 .. 11, lxafs_day_n[j] > x,
               \A k \in 0 .. (j - 1) : lxafs_day_n[k] <= x
        PROVE  j = m
    <3>1. ~(j < m)
      BY <1>4, <2>2
    <3>2. ~(m < j)
      <4>1. m < j => m \in 0 .. (j - 1)
        OBVIOUS
      <4> QED
        BY <2>1, <2>2, <4>1
    <3> QED
      BY <3>1, <3>2
  <2> DEFINE P(j) == /\ lxafs_day_n[j] > x
                     /\ \A k \in 0 .. (j - 1) : lxafs_day_n[k] <= x
  <2>3. (CHOOSE j \in 0 .. 11 : P(j)) = m
    BY <2>1, <2>2
  <2> QED
    BY <2>1, <2>3 DEF MonthOf
<1> QED
  BY <1>5, <1>6

\* The month and its day are found from the day of the year.
LEMMA MonthDayFound ==
  ASSUME NEW y \in 0 .. 100, NEW m \in 1 .. 12, NEW d \in 1 .. Length(y)[m],
         NEW k \in Int, k = DayOfYear(d, m, y)
  PROVE  /\ (IF LeapDay(k, y % 4 = 0) THEN 2 ELSE MonthOf(NlDay(k, y % 4 = 0))) = m
         /\ NlDay(k, y % 4 = 0) - lxafs_day_n[m - 1] = d - 1
<1>1. MonthFacts(y, m)
  BY MonthsFollow, Zenon
<1>2. m = 1 => Length(y)[m] = 31
  BY MonthTable
<1>3. m = 2 => lxafs_day_n[m] = 59
  BY DayTable
<1>4. k = lxafs_day_n[m - 1] + Bool(m > 2 /\ y % 4 = 0) + d - 1
  BY DEF DayOfYear
<1> DEFINE c == lxafs_day_n[m - 1]
           l == Length(y)[m]
           e == lxafs_day_n[m]
<1>5. /\ c \in Int /\ c >= 0 /\ l \in Int /\ l >= 28 /\ l <= 31
      /\ d \in Int /\ d >= 1 /\ d <= l
      /\ m < 12 => e = c + l - Bool(m = 2 /\ y % 4 = 0)
      /\ (m = 1 => c = 0 /\ l = 31) /\ (m = 2 => c = 31 /\ e = 59)
      /\ m > 2 => c >= 59
  <2>1. d \in 1 .. l
    OBVIOUS
  <2>2. c \in 0 .. 334 /\ l \in 28 .. 31
    BY <1>1, Zenon DEF MonthFacts
  <2>3. /\ m < 12 => e = c + l - Bool(m = 2 /\ y % 4 = 0)
        /\ (m = 1 => c = 0 /\ l = 31) /\ (m = 2 => c = 31 /\ e = 59)
        /\ m > 2 => c >= 59
    BY <1>1, <1>2, <1>3 DEF MonthFacts
  <2> HIDE DEF c, l, e
  <2>4. /\ c \in Int /\ c >= 0 /\ l \in Int /\ l >= 28 /\ l <= 31
        /\ d \in Int /\ d >= 1 /\ d <= l
    BY <2>1, <2>2
  <2> QED
    BY <2>3, <2>4
<1>6. k = c + Bool(m > 2 /\ y % 4 = 0) + d - 1
  BY <1>4
<1> HIDE DEF c, l, e
<1>7. CASE y % 4 = 0 /\ m = 2 /\ d = 29
  <2>1. k = 59 /\ c = 31
    <3>1. Bool(m > 2 /\ y % 4 = 0) = 0 /\ c = 31
      BY <1>5, <1>7 DEF Bool
    <3> QED
      BY <1>6, <1>7, <3>1
  <2>2. LeapDay(k, y % 4 = 0) /\ NlDay(k, y % 4 = 0) = 59
    BY <1>7, <2>1 DEF LeapDay, NlDay
  <2>3. NlDay(k, y % 4 = 0) - c = d - 1
    BY <1>7, <2>1, <2>2
  <2> QED
    BY <1>7, <2>2, <2>3 DEF c
<1>8. CASE ~(y % 4 = 0 /\ m = 2 /\ d = 29)
  <2>1. /\ ~LeapDay(k, y % 4 = 0) /\ NlDay(k, y % 4 = 0) = c + d - 1
        /\ m < 12 => c + d - 1 < e
    <3>1. CASE y % 4 = 0 /\ m > 2
      <4>1. Bool(m > 2 /\ y % 4 = 0) = 1 /\ Bool(m = 2 /\ y % 4 = 0) = 0
        BY <3>1 DEF Bool
      <4>2. k = c + d /\ k > 59 /\ k - 1 = c + d - 1 /\ k # 59
            /\ (m < 12 => c + d - 1 < e)
        BY <1>5, <1>6, <3>1, <4>1
      <4> QED
        BY <3>1, <4>2 DEF LeapDay, NlDay
    <3>2. CASE y % 4 = 0 /\ m = 1
      <4>1. Bool(m > 2 /\ y % 4 = 0) = 0 /\ Bool(m = 2 /\ y % 4 = 0) = 0
        BY <3>2 DEF Bool
      <4>2. k = c + d - 1 /\ ~(k > 59) /\ k # 59 /\ c + d - 1 < e
        BY <1>5, <1>6, <3>2, <4>1
      <4> QED
        BY <3>2, <4>2 DEF LeapDay, NlDay
    <3>3. CASE y % 4 = 0 /\ m = 2
      <4>1. Bool(m > 2 /\ y % 4 = 0) = 0 /\ Bool(m = 2 /\ y % 4 = 0) = 1
        BY <3>3 DEF Bool
      <4>2. k = c + d - 1 /\ d # 29 /\ c = 31 /\ e = 59 /\ e = c + l - 1
        BY <1>5, <1>6, <1>8, <3>3, <4>1
      <4>3. ~(k > 59) /\ k # 59 /\ c + d - 1 < e
        BY <1>5, <4>2
      <4> QED
        BY <3>3, <4>2, <4>3 DEF LeapDay, NlDay
    <3>4. CASE ~(y % 4 = 0)
      <4>1. Bool(m > 2 /\ y % 4 = 0) = 0 /\ Bool(m = 2 /\ y % 4 = 0) = 0
        BY <3>4 DEF Bool
      <4>2. k = c + d - 1 /\ (m < 12 => c + d - 1 < e)
        BY <1>5, <1>6, <4>1
      <4> QED
        BY <3>4, <4>2 DEF LeapDay, NlDay
    <3>5. m = 1 \/ m = 2 \/ m > 2
      OBVIOUS
    <3> QED
      BY <3>1, <3>2, <3>3, <3>4, <3>5
  <2> DEFINE x == c + d - 1
  <2>2. /\ x \in Int /\ c <= x /\ (m < 12 => x < e) /\ x - c = d - 1
        /\ NlDay(k, y % 4 = 0) = x
    BY <1>5, <2>1
  <2> HIDE DEF x
  <2>3. MonthOf(x) = m
    <3>1. lxafs_day_n[m - 1] <= x /\ (m < 12 => x < lxafs_day_n[m])
      BY <2>2 DEF c, e
    <3> QED
      BY <2>2, <3>1, MonthFound
  <2> QED
    BY <2>1, <2>2, <2>3 DEF c
<1> QED
  BY <1>7, <1>8

\* The first day an FDATE can name, and the days since then of a time.
Epoch == 3652
Since(secs) == Local(secs) \div 86400 - Epoch

\* The FDATE of a day of the count.
LEMMA DateFound ==
  ASSUME NEW y \in 0 .. 100, NEW m \in 1 .. 12, NEW d \in 1 .. Length(y)[m],
         NEW secs, NEW n \in Int, Since(secs) = n,
         n = Before(y) + DayOfYear(d, m, y)
  PROVE  Date(secs) = [day |-> d - 1, month |-> m, year |-> y]
<1>1. y \in Nat /\ Before(y) \in Nat /\ Bool(y % 4 = 0) \in {0, 1}
  BY YearsFollow
<1>2. /\ DayOfYear(d, m, y) \in 0 .. 364 + Bool(y % 4 = 0)
      /\ DayOfYear(d + 1, m, y) = DayOfYear(d, m, y) + 1
      /\ m < 12 /\ d = Length(y)[m] =>
           DayOfYear(1, m + 1, y) = DayOfYear(d, m, y) + 1
      /\ m = 12 /\ d = 31 => DayOfYear(d, m, y) = 364 + Bool(y % 4 = 0)
      /\ DayOfYear(1, 1, y) = 0
  BY DaysOfYear, Zenon
<1>3. PICK k \in 0 .. 364 + Bool(y % 4 = 0) : k = DayOfYear(d, m, y)
  BY <1>2
<1>4. k \in Int
  BY <1>1
<1>5. n = Before(y) + k
  BY <1>3
<1>6. YearOf(n) = y
  BY <1>3, <1>5, YearFound, Zenon
<1>7. n - ((y + 3) \div 4 + 365 * y) = k
  <2>1. Before(y) = 365 * y + (y + 3) \div 4 /\ (y + 3) \div 4 \in Int
    BY DEF Before
  <2> DEFINE q == (y + 3) \div 4
  <2>2. q \in Int /\ n = 365 * y + q + k
    BY <1>5, <2>1
  <2> HIDE DEF q
  <2>3. n - (q + 365 * y) = k
    BY <1>4, <2>2
  <2> QED
    BY <2>3 DEF q
<1>8. /\ (IF LeapDay(k, y % 4 = 0) THEN 2 ELSE MonthOf(NlDay(k, y % 4 = 0))) = m
      /\ NlDay(k, y % 4 = 0) - lxafs_day_n[m - 1] = d - 1
  BY <1>3, <1>4, MonthDayFound, Zenon
<1> QED
  BY <1>6, <1>7, <1>8, SMTT(30) DEF Date, Since, Epoch, YearOf

\* A second of the day, and its hours, minutes, pairs of seconds and the rest.
InDay(s) == s >= 0 /\ s < 86400
Reads(s, h, i, t, b) ==
  /\ h >= 0 /\ h <= 23 /\ i >= 0 /\ i <= 59 /\ t >= 0 /\ t <= 29
  /\ b >= 0 /\ b <= 1 /\ s = 3600 * h + 60 * i + 2 * t + b

\* Every second of the day can be read from a clock.
LEMMA Clock ==
  ASSUME NEW s \in Int, InDay(s)
  PROVE  \E h \in Int, i \in Int, t \in Int, b \in Int : Reads(s, h, i, t, b)
<1> USE DEF InDay
<1>1. PICK h \in Int, p \in Int :
        h >= 0 /\ h <= 23 /\ p >= 0 /\ p <= 3599 /\ s = 3600 * h + p
  <2>1. /\ s \div 3600 >= 0 /\ s \div 3600 <= 23 /\ s % 3600 >= 0
        /\ s % 3600 <= 3599 /\ s \div 3600 \in Int /\ s % 3600 \in Int
    BY SMTT(30)
  <2>2. s = 3600 * (s \div 3600) + (s % 3600)
    BY SMTT(30)
  <2> QED
    BY <2>1, <2>2, SMTT(30)
<1>2. PICK i \in Int, z \in Int :
        i >= 0 /\ i <= 59 /\ z >= 0 /\ z <= 59 /\ p = 60 * i + z
  <2>1. /\ p \div 60 >= 0 /\ p \div 60 <= 59 /\ p % 60 >= 0
        /\ p % 60 <= 59 /\ p \div 60 \in Int /\ p % 60 \in Int
    BY <1>1, SMTT(30)
  <2>2. p = 60 * (p \div 60) + (p % 60)
    BY SMTT(30)
  <2> QED
    BY <2>1, <2>2, SMTT(30)
<1>3. PICK t \in Int, b \in Int :
        t >= 0 /\ t <= 29 /\ b >= 0 /\ b <= 1 /\ z = 2 * t + b
  <2>1. /\ z \div 2 >= 0 /\ z \div 2 <= 29 /\ z % 2 >= 0
        /\ z % 2 <= 1 /\ z \div 2 \in Int /\ z % 2 \in Int
    BY <1>2, SMTT(30)
  <2>2. z = 2 * (z \div 2) + (z % 2)
    BY SMTT(30)
  <2> QED
    BY <2>1, <2>2, SMTT(30)
<1>4. s = 3600 * h + 60 * i + 2 * t + b
  BY <1>1, <1>2, <1>3, SMTT(30)
<1>5. Reads(s, h, i, t, b)
  BY <1>1, <1>2, <1>3, <1>4, SMTT(30) DEF Reads
<1> QED
  BY <1>5, SMTT(30)

\* The local time of a second of a day, and an FTIME that is right to two
\* seconds.
Clocked(n, s) == 86400 * n + s
TimeRight(t, s) == t.hours * 3600 + t.minutes * 60 + 2 * t.twosecs = s - (s % 2)

\* The day of the count and the FTIME of a local time.
LEMMA TimeFound ==
  ASSUME NEW n \in Nat, NEW s \in Int, InDay(s), NEW secs, Local(secs) = Clocked(n, s)
  PROVE  Since(secs) = n - Epoch /\ TimeRight(Time(secs), s)
<1>0. PICK x \in Int : x = 86400 * n + s /\ Local(secs) = x
  BY SMTT(30) DEF Clocked
<1>1. PICK h \in Int, i \in Int, t \in Int, b \in Int : Reads(s, h, i, t, b)
  BY Clock, SMTT(30)
<1> USE DEF Reads
<1>2. x = 86400 * n + 3600 * h + 60 * i + 2 * t + b
  BY <1>0, <1>1, SMTT(30)
<1>3. /\ x \div 86400 = n /\ (x \div 3600) % 24 = h /\ (x \div 60) % 60 = i
      /\ (x % 60) \div 2 = t
  <2>1. x \div 86400 = n
    BY <1>1, <1>2, SMTT(30)
  <2>2. (x \div 3600) % 24 = h
    <3>1. x \div 3600 = 24 * n + h
      BY <1>1, <1>2, SMTT(30)
    <3>2. (24 * n + h) % 24 = h
      BY <1>1, <1>2, SMTT(30)
    <3> QED
      BY <3>1, <3>2, SMTT(30)
  <2>3. (x \div 60) % 60 = i
    <3>1. x \div 60 = 60 * (24 * n + h) + i
      BY <1>1, <1>2, SMTT(30)
    <3>2. (60 * (24 * n + h) + i) % 60 = i
      BY <1>1, <1>2, SMTT(30)
    <3> QED
      BY <3>1, <3>2, SMTT(30)
  <2>4. (x % 60) \div 2 = t
    <3>1. x % 60 = 2 * t + b
      BY <1>1, <1>2, SMTT(30)
    <3>2. (2 * t + b) \div 2 = t
      BY <1>1, <1>2, SMTT(30)
    <3> QED
      BY <3>1, <3>2, SMTT(30)
  <2> QED
    BY <2>1, <2>2, <2>3, <2>4, SMTT(30)
<1>4. Since(secs) = n - Epoch
  BY <1>0, <1>3, SMTT(30) DEF Since, Epoch
<1>5. Time(secs).hours = h /\ Time(secs).minutes = i /\ Time(secs).twosecs = t
  BY <1>0, <1>3, SMTT(30) DEF Time
<1>6. s % 2 = b
  BY <1>1, SMTT(30)
<1>7. h * 3600 + i * 60 + 2 * t = s - b
  BY <1>1, SMTT(30)
<1> QED
  BY <1>4, <1>5, <1>6, <1>7, SMTT(30) DEF TimeRight

-----------------------------------------------------------------------------
(* The theorems.                                                           *)

\* The Unix time of a second of a day, and whether its FDATE and its FTIME are
\* right.
Stamp(k, s) == 86400 * k + s + TzMinutesWest * 60
Right(k, s, y, m, d) ==
  /\ Date(Stamp(k, s)) = [day |-> d - 1, month |-> m, year |-> y]
  /\ TimeRight(Time(Stamp(k, s)), s)

\* The calendar's date of a day of the count.
Dated(k, y, m, d) == k = Epoch + Before(y) + DayOfYear(d, m, y)

\* Every second of a day gets the day's date.
LEMMA StampFound ==
  ASSUME NEW y \in 0 .. 100, NEW m \in 1 .. 12, NEW d \in 1 .. Length(y)[m],
         NEW k \in Nat, Dated(k, y, m, d), NEW s \in Int, InDay(s)
  PROVE  Right(k, s, y, m, d)
<1>1. y \in Nat /\ Before(y) \in Nat /\ Bool(y % 4 = 0) \in {0, 1}
  BY YearsFollow
<1>2. /\ DayOfYear(d, m, y) \in 0 .. 364 + Bool(y % 4 = 0)
      /\ DayOfYear(d + 1, m, y) = DayOfYear(d, m, y) + 1
      /\ m < 12 /\ d = Length(y)[m] =>
           DayOfYear(1, m + 1, y) = DayOfYear(d, m, y) + 1
      /\ m = 12 /\ d = 31 => DayOfYear(d, m, y) = 364 + Bool(y % 4 = 0)
      /\ DayOfYear(1, 1, y) = 0
  BY DaysOfYear, Zenon
<1>3. PICK j \in 0 .. 364 + Bool(y % 4 = 0) : j = DayOfYear(d, m, y)
  BY <1>2, Zenon
<1>4. j \in Nat
  BY <1>1, SMTT(30)
<1>5. k >= Epoch /\ k - Epoch \in Int /\ k - Epoch = Before(y) + DayOfYear(d, m, y)
  <2> DEFINE p == Before(y)
  <2>1. p \in Nat /\ k = Epoch + p + j
    BY <1>1, <1>3, SMTT(30) DEF Dated
  <2> HIDE DEF p
  <2>2. k >= Epoch /\ k - Epoch \in Int /\ k - Epoch = p + j
    BY <1>4, <2>1, SMTT(30) DEF Epoch
  <2> QED
    BY <1>3, <2>2, SMTT(30) DEF p
<1>6. TzMinutesWest \in Int
  BY DateAssumption, SMTT(30)
<1>7. Local(Stamp(k, s)) = Clocked(k, s)
  BY <1>5, <1>6, SMTT(30) DEF InDay, Local, Stamp, Clocked, Epoch
<1>8. Since(Stamp(k, s)) = k - Epoch /\ TimeRight(Time(Stamp(k, s)), s)
  BY <1>7, TimeFound, Zenon
<1>9. Date(Stamp(k, s)) = [day |-> d - 1, month |-> m, year |-> y]
  BY <1>5, <1>8, DateFound, Zenon
<1> QED
  BY <1>8, <1>9, Zenon DEF Right

\* The times looked at are seconds of a day.
LEMMA Times ==
  ASSUME NEW s \in SecsOfDay
  PROVE  s \in Int /\ InDay(s)
BY DateAssumption, SMTT(30) DEF InDay

\* The calendar's date is one that lxafs_date_unix2lx can find.
LEMMA CalDated ==
  ASSUME Range32, CalInv
  PROVE  \E y \in 0 .. 100, m \in 1 .. 12 : \E d \in 1 .. Length(y)[m] :
           /\ cal = [day |-> d, month |-> m, year |-> y]
           /\ days \in Nat /\ Dated(days, y, m, d) /\ y <= 58
<1>1. /\ cal \in [day : Nat, month : 1 .. 12, year : Nat]
      /\ cal.day \in 1 .. Length(cal.year)[cal.month]
      /\ Dated(days, cal.year, cal.month, cal.day) /\ days \in Nat
  BY DEF CalInv, Dated, Epoch
<1>2. cal.year \in 0 .. 100 /\ cal.year <= 58
  <2>1. cal.year \in 0 .. 58
    BY YearsFit
  <2> QED
    BY <2>1
<1>3. cal = [day |-> cal.day, month |-> cal.month, year |-> cal.year]
      /\ cal.month \in 1 .. 12
  BY <1>1
<1> QED
  BY <1>1, <1>2, <1>3, Zenon

\* The fields of every second of the day are right.
LEMMA FieldsHold == Range32 /\ CalInv => FieldsRight
<1> SUFFICES ASSUME Range32, CalInv, NEW s \in SecsOfDay
             PROVE  /\ Date(At(s)).year = cal.year /\ Date(At(s)).month = cal.month
                    /\ TimeRight(Time(At(s)), s)
  BY SMTT(30) DEF FieldsRight, TimeRight
<1>1. PICK y \in 0 .. 100, m \in 1 .. 12 : \E d \in 1 .. Length(y)[m] :
        /\ cal = [day |-> d, month |-> m, year |-> y]
        /\ days \in Nat /\ Dated(days, y, m, d) /\ y <= 58
  BY CalDated, Zenon
<1>2. PICK d \in 1 .. Length(y)[m] :
        /\ cal = [day |-> d, month |-> m, year |-> y]
        /\ days \in Nat /\ Dated(days, y, m, d) /\ y <= 58
  BY <1>1, Zenon
<1>3. s \in Int /\ InDay(s)
  BY Times, Zenon
<1>4. Right(days, s, y, m, d)
  BY <1>2, <1>3, StampFound, Zenon
<1>5. At(s) = Stamp(days, s)
  BY SMTT(30) DEF At, Stamp
<1>6. Date(At(s)) = [day |-> d - 1, month |-> m, year |-> y] /\ TimeRight(Time(At(s)), s)
  BY <1>4, <1>5, Zenon DEF Right
<1>7. Date(At(s)).year = y /\ Date(At(s)).month = m /\ cal.year = y /\ cal.month = m
  BY <1>2, <1>6, SMTT(30)
<1> QED
  BY <1>6, <1>7, Zenon

\* From one day to the next.
LEMMA StepFollows ==
  ASSUME Range32, CalInv, NextDay, NEW s \in SecsOfDay
  PROVE  LET d == Date(Stamp(days, s))
             e == Date(Stamp(days', s))
         IN  e.day = d.day + 1 \/ (e.month # d.month /\ e.day < d.day)
<1>1. PICK y \in 0 .. 100, m \in 1 .. 12 : \E d \in 1 .. Length(y)[m] :
        /\ cal = [day |-> d, month |-> m, year |-> y]
        /\ days \in Nat /\ Dated(days, y, m, d) /\ y <= 58
  BY CalDated, Zenon
<1>2. PICK d \in 1 .. Length(y)[m] :
        /\ cal = [day |-> d, month |-> m, year |-> y]
        /\ days \in Nat /\ Dated(days, y, m, d) /\ y <= 58
  BY <1>1, Zenon
<1>3. s \in Int /\ InDay(s)
  BY Times, Zenon
<1>4. Right(days, s, y, m, d)
  BY <1>2, <1>3, StampFound, Zenon
<1>5. PICK f \in Nat, n \in 1 .. 12, z \in Nat : NextDate(d, m, y, f, n, z)
  BY TomorrowFollows, Zenon
<1>6. /\ f \in 1 .. Length(z)[n]
      /\ Before(z) + DayOfYear(f, n, z) = Before(y) + DayOfYear(d, m, y) + 1
      /\ (f = d + 1 /\ n = m) \/ (f = 1 /\ n # m /\ d > 1)
      /\ z <= y + 1
  BY <1>5, Zenon DEF NextDate
<1>7. z \in 0 .. 100
  BY <1>2, <1>6, SMTT(30)
<1>8. days' = days + 1 /\ days' \in Nat
  BY <1>2, SMTT(30) DEF NextDay
<1>9. Dated(days', z, n, f)
  <2> DEFINE a == Before(y)
             b == DayOfYear(d, m, y)
             v == Before(z)
             w == DayOfYear(f, n, z)
  <2>1. days = Epoch + a + b /\ v + w = a + b + 1
    BY <1>2, <1>6, Zenon DEF Dated
  <2>2. a \in Nat /\ v \in Nat
    <3>1. y \in Nat
      BY SMTT(30)
    <3> QED
      BY <3>1, YearsFollow, SMTT(30)
  <2>3. b \in Int /\ w \in Int
    <3>1. ASSUME NEW p \in Int, NEW q \in 1 .. 12, NEW u \in Nat
          PROVE  DayOfYear(p, q, u) \in Int
      <4>1. lxafs_day_n[q - 1] \in 0 .. 334
        <5>1. q = 1 \/ q = 2 \/ q = 3 \/ q = 4 \/ q = 5 \/ q = 6 \/ q = 7
              \/ q = 8 \/ q = 9 \/ q = 10 \/ q = 11 \/ q = 12
          OBVIOUS
        <5> QED
          BY <5>1, DayTable
      <4>2. Bool(q > 2 /\ u % 4 = 0) \in {0, 1}
        BY DEF Bool
      <4> QED
        BY <4>1, <4>2 DEF DayOfYear
    <3>2. d \in Int /\ f \in Int /\ y \in Nat
      BY SMTT(30)
    <3> QED
      BY <3>1, <3>2, Zenon
  <2> HIDE DEF a, b, v, w
  <2>4. days + 1 = Epoch + v + w
    BY <2>1, <2>2, <2>3, SMTT(30) DEF Epoch
  <2> QED
    BY <1>8, <2>4, SMTT(30) DEF Dated, v, w
<1>10. Right(days', s, z, n, f)
  BY <1>3, <1>6, <1>7, <1>8, <1>9, StampFound, Zenon
<1>11. /\ Date(Stamp(days, s)) = [day |-> d - 1, month |-> m, year |-> y]
       /\ Date(Stamp(days', s)) = [day |-> f - 1, month |-> n, year |-> z]
  BY <1>4, <1>10, Zenon DEF Right
<1>12. d \in Int /\ f \in Int
  BY SMTT(30)
<1>13. (f - 1 = d - 1 + 1) \/ (n # m /\ f - 1 < d - 1)
  BY <1>6, <1>12, SMTT(30)
<1>14. /\ Date(Stamp(days, s)).day = d - 1 /\ Date(Stamp(days', s)).day = f - 1
       /\ Date(Stamp(days, s)).month = m /\ Date(Stamp(days', s)).month = n
  BY <1>11, SMTT(30)
<1> QED
  BY <1>13, <1>14, Zenon

\* lxafs_date_unix2lx finds the year, the month and the time of day, to two
\* seconds, of every second from 1 January 1980 to the end of an int of seconds,
\* through leap days, ends of months and ends of years.
THEOREM FieldsAreRight ==
  ASSUME Range32
  PROVE  Spec => []FieldsRight
<1>1. Init => CalInv
  BY CalInit, Zenon
<1>2. CalInv /\ [NextDay]_vars => CalInv'
  BY CalNext, Zenon
<1>3. CalInv => FieldsRight
  BY FieldsHold, Zenon
<1> QED
  BY <1>1, <1>2, <1>3, PTL DEF Spec

\* From one day to the next, the day of the month that lxafs_date_unix2lx finds
\* grows by one, or the month changes and its days begin again.
THEOREM DatesFollow ==
  ASSUME Range32
  PROVE  Spec => DaysFollow
<1>1. Init => CalInv
  BY CalInit, Zenon
<1>2. CalInv /\ [NextDay]_vars => CalInv'
  BY CalNext, Zenon
<1> DEFINE A == \A s \in SecsOfDay :
                  LET d == Date(At(s))  e == Date(At(s))'
                  IN  e.day = d.day + 1 \/ (e.month # d.month /\ e.day < d.day)
<1>3. CalInv /\ [NextDay]_vars => [A]_vars
  <2> SUFFICES ASSUME CalInv, NextDay, NEW s \in SecsOfDay
               PROVE  LET d == Date(At(s))  e == Date(At(s))'
                      IN  e.day = d.day + 1 \/ (e.month # d.month /\ e.day < d.day)
    BY Zenon
  <2>1. At(s) = Stamp(days, s)
    BY SMTT(30) DEF At, Stamp
  <2>2. Date(At(s))' = Date(Stamp(days', s))
    BY SMTT(30) DEF At, Stamp, Date, Local
  <2>3. LET d == Date(Stamp(days, s))
            e == Date(Stamp(days', s))
        IN  e.day = d.day + 1 \/ (e.month # d.month /\ e.day < d.day)
    BY StepFollows, Zenon
  <2> QED
    BY <2>1, <2>2, <2>3, Zenon
<1>4. DaysFollow <=> [][A]_vars
  BY DEF DaysFollow
<1> QED
  BY <1>1, <1>2, <1>3, <1>4, PTL DEF Spec

=============================================================================
