----------------------------- MODULE ValueProofs -----------------------------
(***************************************************************************)
(* Proofs about the values that go to an engine: first of BindList, for    *)
(* any number of objects, values and positions, then of CivilDate, for any *)
(* range of years and any length of a minute.                              *)
(***************************************************************************)
EXTENDS BindList, CivilDate, TLAPS

-----------------------------------------------------------------------------
(* The list of bind values.                                                *)

(***************************************************************************)
(* Storing at a position: the sequence is long enough, the position holds  *)
(* the new element, a skipped one Null, and the others are as before.      *)
(***************************************************************************)
LEMMA ExtendedOps ==
  ASSUME NEW S, Null \in S, NEW s \in Seq(S), NEW i \in Nat \ {0}, NEW x \in S
  PROVE  /\ Extended(s, i, x) \in Seq(S)
         /\ Len(Extended(s, i, x)) = Longer(i, Len(s))
         /\ Extended(s, i, x)[i] = x
<1> DEFINE n == Longer(i, Len(s))
           e == Extended(s, i, x)
<1>1. n \in Nat /\ i \in 1..n
  BY DEF Longer
<1>2. \A k \in 1..n : (IF k = i THEN x ELSE IF k <= Len(s) THEN s[k] ELSE Null)
                        \in S
  BY <1>1
<1> HIDE DEF n
<1>3. e \in [1..n -> S]
  BY <1>2 DEF Extended, n
<1>4. e \in Seq(S) /\ Len(e) = n
  BY <1>1, <1>3
<1>5. e[i] = x
  BY <1>1 DEF Extended, n
<1> QED BY <1>4, <1>5 DEF n, e

(***************************************************************************)
(* The other positions.                                                    *)
(***************************************************************************)
LEMMA ExtendedAt ==
  ASSUME NEW S, NEW s \in Seq(S), NEW i \in Nat \ {0}, NEW x,
         NEW k \in 1..Longer(i, Len(s)), k # i
  PROVE  /\ k <= Len(s) => Extended(s, i, x)[k] = s[k]
         /\ k > Len(s) => Extended(s, i, x)[k] = Null
<1>1. Extended(s, i, x)[k] = IF k <= Len(s) THEN s[k] ELSE Null
  BY DEF Extended
<1>2. k \in Nat /\ Len(s) \in Nat
  BY DEF Longer
<1> QED BY <1>1, <1>2

(***************************************************************************)
(* clear() leaves a value of the type, which the engine takes for NULL.    *)
(***************************************************************************)
LEMMA ClearTakenAsNull ==
  ASSUME NEW v \in Value \cup {Null}
  PROVE  AfterClear(v) \in Value \cup {Null} /\ Taken(AfterClear(v)) = Null
BY ValueAssumption DEF AfterClear, Taken

(***************************************************************************)
(* NULL is NULL to the engine.                                             *)
(***************************************************************************)
LEMMA NullTakenAsNull == Taken(Null) = Null
BY DEF Taken

(***************************************************************************)
(* Binding o at position i, when the list does not hold o and o has the    *)
(* value v.                                                                *)
(***************************************************************************)
LEMMA BindStep ==
  ASSUME IndInv, NEW i \in Nat \ {0}, NEW o \in Object \cup {Null},
         NEW v \in Value \cup {Null},
         o # Null => o \notin Bound,
         BindValue(i, o),
         content' \in [Object -> Value \cup {Null}],
         \A p \in Object \ {o} : content'[p] = Replaced(i)[p],
         o = Null => v = Null, o # Null => content'[o] = v,
         asked' = Extended(asked, i, v)
  PROVE  IndInv'
<1> DEFINE n == Longer(i, Len(boundValues))
           R == Object \cup {Null}
           V == Value \cup {Null}
<1>1. /\ boundValues \in Seq(Object \cup {Null})
      /\ bindCount \in 0..Len(boundValues)
      /\ asked \in Seq(Value \cup {Null})
      /\ content \in [Object -> Value \cup {Null}]
      /\ Sent = [k \in DOMAIN asked |-> Taken(asked[k])]
  BY DEF IndInv, TypeOK, SentAsAsked
<1>2. /\ Len(asked) = bindCount
      /\ \A k \in 1..bindCount :
           Taken(asked[k]) = IF boundValues[k] = Null THEN Null
                             ELSE Taken(content[boundValues[k]])
  BY <1>1 DEF Sent
<1>3. /\ boundValues' \in Seq(Object \cup {Null})
      /\ Len(boundValues') = n
      /\ DOMAIN boundValues' = 1..n
      /\ boundValues'[i] = o
      /\ \A k \in 1..n : k # i /\ k <= Len(boundValues)
                           => boundValues'[k] = boundValues[k]
      /\ \A k \in 1..n : k # i /\ k > Len(boundValues) => boundValues'[k] = Null
  <2>1. boundValues \in Seq(R) /\ Null \in R /\ o \in R
    BY <1>1
  <2>2. boundValues' = Extended(boundValues, i, o)
    BY DEF BindValue
  <2> HIDE DEF R
  <2>3. boundValues' \in Seq(R)
    BY <2>1, <2>2, ExtendedOps
  <2>4. Len(boundValues') = n
    BY <2>1, <2>2, ExtendedOps
  <2>5. boundValues'[i] = o
    <3>1. Extended(boundValues, i, o)[i] = o
      BY <2>1, ExtendedOps
    <3> QED BY <2>2, <3>1
  <2>6. \A k \in 1..n : k # i =>
          /\ k <= Len(boundValues) => boundValues'[k] = boundValues[k]
          /\ k > Len(boundValues) => boundValues'[k] = Null
    BY <2>1, <2>2, ExtendedAt
  <2> HIDE DEF n
  <2> QED BY <2>3, <2>4, <2>5, <2>6 DEF R
<1>n. n \in Nat /\ i \in 1..n
  BY <1>1 DEF Longer
<1>4. /\ bindCount' = IF i > bindCount THEN i ELSE bindCount
      /\ bindCount' = Longer(i, bindCount)
      /\ bindCount' \in 0..n
  BY <1>1 DEF BindValue, BindCountAfter, Longer
<1>5. /\ asked' \in Seq(Value \cup {Null})
      /\ Len(asked') = bindCount'
      /\ DOMAIN asked' = 1..bindCount'
      /\ asked'[i] = v
      /\ \A k \in 1..bindCount' : k # i /\ k <= bindCount => asked'[k] = asked[k]
      /\ \A k \in 1..bindCount' : k # i /\ k > bindCount => asked'[k] = Null
  <2>1. asked \in Seq(V) /\ Null \in V /\ v \in V /\ Len(asked) = bindCount
    BY <1>1, <1>2
  <2> HIDE DEF V
  <2>2. /\ Extended(asked, i, v) \in Seq(V)
        /\ Len(Extended(asked, i, v)) = Longer(i, Len(asked))
        /\ Extended(asked, i, v)[i] = v
    BY <2>1, ExtendedOps
  <2>3. \A k \in 1..Longer(i, Len(asked)) : k # i =>
          /\ k <= Len(asked) => asked'[k] = asked[k]
          /\ k > Len(asked) => asked'[k] = Null
    BY <2>1, ExtendedAt
  <2> QED BY <1>4, <2>1, <2>2, <2>3 DEF V
<1>6. \A k \in 1..Len(boundValues) : boundValues[k] # Null => boundValues[k] # o
  BY <1>1 DEF Bound, Holds
<1>7. \A k \in 1..Len(boundValues) :
        k # i /\ boundValues[k] # Null
          => content'[boundValues[k]] = content[boundValues[k]]
  <2> SUFFICES ASSUME NEW k \in 1..Len(boundValues), k # i, boundValues[k] # Null
               PROVE  content'[boundValues[k]] = content[boundValues[k]]
    OBVIOUS
  <2>1. boundValues[k] \in Object \ {o}
    BY <1>1, <1>6
  <2>2. ~Holds(i, boundValues[k])
    BY <1>1 DEF IndInv, NoAlias, Holds
  <2> QED BY <2>1, <2>2 DEF Replaced
<1> HIDE DEF n
<1>8. TypeOK'
  BY <1>3, <1>4, <1>5 DEF TypeOK
<1>9. NoAlias'
  <2> SUFFICES ASSUME NEW j \in 1..n, NEW k \in 1..n,
                      boundValues'[j] = boundValues'[k], boundValues'[j] # Null
               PROVE  j = k
    BY <1>3 DEF NoAlias
  <2>1. CASE j = i \/ k = i
    <3>1. \A l \in 1..n : l # i => boundValues'[l] # o \/ boundValues'[l] = Null
      BY <1>1, <1>n, <1>3, <1>6
    <3> QED BY <1>3, <2>1, <3>1
  <2>2. CASE j # i /\ k # i
    <3>1. /\ j \in 1..Len(boundValues) /\ boundValues'[j] = boundValues[j]
          /\ k \in 1..Len(boundValues) /\ boundValues'[k] = boundValues[k]
      BY <1>1, <1>n, <1>3, <2>2
    <3>2. boundValues[j] = boundValues[k] /\ boundValues[j] # Null
      BY <3>1
    <3>3. NoAlias /\ DOMAIN boundValues = 1..Len(boundValues)
      BY <1>1 DEF IndInv
    <3> QED BY <3>1, <3>2, <3>3 DEF NoAlias
  <2> QED BY <2>1, <2>2
<1>10. TailIsNull'
  <2> SUFFICES ASSUME NEW k \in 1..n, k > bindCount', boundValues'[k] # Null
               PROVE  Taken(content'[boundValues'[k]]) = Null
    BY <1>3 DEF TailIsNull
  <2>1. k > bindCount /\ k # i
    BY <1>1, <1>4
  <2>2. k \in 1..Len(boundValues) /\ boundValues'[k] = boundValues[k]
    BY <1>1, <1>n, <1>3, <2>1
  <2> QED BY <1>1, <1>7, <2>1, <2>2 DEF IndInv, TailIsNull
<1>11. \A k \in 1..bindCount' :
         Taken(asked'[k]) = IF boundValues'[k] = Null THEN Null
                            ELSE Taken(content'[boundValues'[k]])
  <2> SUFFICES ASSUME NEW k \in 1..bindCount'
               PROVE  Taken(asked'[k]) = IF boundValues'[k] = Null THEN Null
                                         ELSE Taken(content'[boundValues'[k]])
    OBVIOUS
  <2>0. k \in 1..n
    BY <1>n, <1>4
  <2>1. CASE k = i
    BY <1>3, <1>5, <2>0, <2>1, NullTakenAsNull
  <2>2. CASE k # i /\ k <= bindCount
    <3>1. k \in 1..bindCount /\ k \in 1..Len(boundValues)
      BY <1>1, <2>2
    <3>2. asked'[k] = asked[k] /\ boundValues'[k] = boundValues[k]
      BY <1>3, <1>5, <2>0, <2>2, <3>1
    <3> QED BY <1>2, <1>7, <2>2, <3>1, <3>2
  <2>3. CASE k # i /\ k > bindCount
    <3>1. Taken(asked'[k]) = Null
      BY <1>1, <1>5, <2>3, NullTakenAsNull
    <3>2. CASE k <= Len(boundValues)
      <4>1. k \in 1..Len(boundValues) /\ boundValues'[k] = boundValues[k]
        BY <1>1, <1>3, <2>0, <2>3, <3>2
      <4> QED BY <1>1, <1>7, <2>3, <3>1, <4>1 DEF IndInv, TailIsNull
    <3>3. CASE k > Len(boundValues)
      BY <1>1, <1>3, <2>0, <2>3, <3>1, <3>3
    <3> QED BY <1>1, <3>2, <3>3
  <2> QED BY <1>1, <2>1, <2>2, <2>3
<1>12. SentAsAsked'
  BY <1>5, <1>11 DEF SentAsAsked, Sent
<1> QED BY <1>8, <1>9, <1>10, <1>12 DEF IndInv

(***************************************************************************)
(* clearBindValues empties the list and leaves nothing in it but NULLs to  *)
(* the engine.                                                             *)
(***************************************************************************)
LEMMA ClearStep ==
  ASSUME IndInv, ClearBindValues
  PROVE  IndInv'
<1>1. /\ boundValues \in Seq(Object \cup {Null})
      /\ content \in [Object -> Value \cup {Null}]
      /\ boundValues' = boundValues
      /\ bindCount' = 0
      /\ asked' = <<>>
      /\ content' = Cleared
  BY DEF IndInv, TypeOK, ClearBindValues
<1>c. \A o \in Object : /\ AfterClear(content[o]) \in Value \cup {Null}
                        /\ Taken(AfterClear(content[o])) = Null
  BY <1>1, ClearTakenAsNull
<1>2. content' \in [Object -> Value \cup {Null}]
  BY <1>1, <1>c DEF Cleared
<1>3. \A k \in DOMAIN boundValues :
        boundValues[k] # Null => Taken(content'[boundValues[k]]) = Null
  BY <1>1, <1>c DEF Cleared, Bound, Holds
<1>4. TypeOK' /\ TailIsNull' /\ NoAlias'
  BY <1>1, <1>2, <1>3 DEF IndInv, TypeOK, TailIsNull, NoAlias
<1>5. SentAsAsked'
  BY <1>1 DEF SentAsAsked, Sent
<1> QED BY <1>4, <1>5 DEF IndInv

(***************************************************************************)
(* Giving a value to an object the list does not hold.                     *)
(***************************************************************************)
LEMMA SetOwnStep ==
  ASSUME IndInv, NEW o \in Object, NEW v \in Value, SetOwn(o, v)
  PROVE  IndInv'
<1>1. /\ boundValues \in Seq(Object \cup {Null})
      /\ bindCount \in 0..Len(boundValues)
      /\ content' \in [Object -> Value \cup {Null}]
      /\ boundValues' = boundValues
      /\ bindCount' = bindCount
      /\ asked' = asked
  BY DEF IndInv, TypeOK, SetOwn
<1>2. \A k \in 1..Len(boundValues) :
        boundValues[k] # Null => content'[boundValues[k]] = content[boundValues[k]]
  BY <1>1 DEF SetOwn, Bound, Holds, IndInv, TypeOK
<1>3. TypeOK' /\ NoAlias' /\ TailIsNull'
  BY <1>1, <1>2 DEF IndInv, TypeOK, NoAlias, TailIsNull
<1>4. Sent' = Sent
  BY <1>1, <1>2 DEF Sent
<1> QED BY <1>1, <1>3, <1>4 DEF IndInv, SentAsAsked

(***************************************************************************)
(* The invariant is inductive when no object is shared.                    *)
(***************************************************************************)
LEMMA NextInv ==
  ASSUME Unshared
  PROVE  IndInv /\ [Next]_vars => IndInv'
<1> SUFFICES ASSUME IndInv, [Next]_vars PROVE IndInv'
  OBVIOUS
<1>0. /\ 1..MaxBinds \subseteq Nat \ {0}
      /\ content \in [Object -> Value \cup {Null}]
  BY SizeAssumption DEF IndInv, TypeOK
<1>1. \A i \in 1..MaxBinds : Replaced(i) \in [Object -> Value \cup {Null}]
  <2>1. \A o \in Object : AfterClear(content[o]) \in Value \cup {Null}
    BY <1>0, ClearTakenAsNull
  <2> QED BY <1>0, <2>1 DEF Replaced
<1>2. ASSUME NEW i \in 1..MaxBinds, BindNull(i)
      PROVE  IndInv'
  BY <1>0, <1>1, <1>2, BindStep, ObjectAssumption DEF BindNull
<1>3. ASSUME NEW i \in 1..MaxBinds, NEW o \in Object, BindOwn(i, o)
      PROVE  IndInv'
  <2>1. Replaced(i)[o] = content[o]
    BY <1>3 DEF BindOwn, Bound, Holds, Replaced
  <2> QED BY <1>0, <1>1, <1>3, <2>1, BindStep, ObjectAssumption DEF BindOwn
<1>4. ASSUME NEW i \in 1..MaxBinds, NEW o \in Object, NEW v \in Value \ NoData,
             BindNew(i, o, v)
      PROVE  IndInv'
  <2>1. /\ content' \in [Object -> Value \cup {Null}]
        /\ \A p \in Object \ {o} : content'[p] = Replaced(i)[p]
        /\ content'[o] = v
    BY <1>1, <1>4 DEF BindNew
  <2> QED BY <1>0, <1>4, <2>1, BindStep, ObjectAssumption DEF BindNew
<1>5. CASE UNCHANGED vars
  BY <1>5 DEF vars, IndInv, TypeOK, NoAlias, TailIsNull, SentAsAsked, Sent
<1> QED BY <1>2, <1>3, <1>4, <1>5, ClearStep, SetOwnStep DEF Next

(***************************************************************************)
(* With objects that are not shared, the invariant holds however positions *)
(* are bound by bindValue, skipped, replaced and cleared.                  *)
(***************************************************************************)
THEOREM BindInvariance == Unshared /\ Spec => []IndInv
<1> SUFFICES ASSUME Unshared PROVE Spec => []IndInv
  OBVIOUS
<1>1. Init => IndInv
  BY DEF Init, IndInv, TypeOK, NoAlias, TailIsNull, SentAsAsked, Sent
<1>2. IndInv /\ [Next]_vars => IndInv'
  BY NextInv
<1> QED BY <1>1, <1>2, PTL DEF Spec

(***************************************************************************)
(* With objects that are not shared, every execution sends the values that *)
(* were asked for, however positions are skipped, replaced and cleared.    *)
(***************************************************************************)
THEOREM BindsAsAsked == Unshared /\ Spec => []SentAsAsked
<1>1. IndInv => SentAsAsked
  BY DEF IndInv
<1> QED BY <1>1, BindInvariance, PTL

-----------------------------------------------------------------------------
(* Dates and times.                                                        *)

(***************************************************************************)
(* The days of glue.c, counted from the first of March of the year 0:      *)
(* those before the k-th year that begins in March, and in it those before *)
(* its p-th month. Offset is the day 1970-01-01.                           *)
(***************************************************************************)
YearDays(k) == 365 * k + k \div 4 - k \div 100 + k \div 400
MonthDays(p) == (153 * p + 2) \div 5
Offset == 719468

(***************************************************************************)
(* The two rules for leap years agree, and the year that ends with the     *)
(* February of a leap year has 366 days.                                   *)
(***************************************************************************)
LEMMA LeapYears ==
  ASSUME NEW k \in Int
  PROVE  /\ LeapYear(k) <=> dbIsLeapYear(k)
         /\ YearDays(k) - YearDays(k - 1) = IF LeapYear(k) THEN 366 ELSE 365
BY DEF LeapYear, Divides, dbIsLeapYear, YearDays

(***************************************************************************)
(* The length of a month is what dbDaysInMonth says.                       *)
(***************************************************************************)
LEMMA MonthLengths ==
  ASSUME NEW k \in Int, NEW p \in 1..12
  PROVE  /\ MonthLength(k, p) \in 28..31
         /\ MonthLength(k, p) = dbDaysInMonth(k, p)
         /\ p # 2 => MonthLength(k, p) = MonthLength(0, p)
         /\ MonthLength(k, 2) = IF LeapYear(k) THEN 29 ELSE 28
<1>1. p = 1 \/ p = 2 \/ p = 3 \/ p = 4 \/ p = 5 \/ p = 6 \/ p = 7 \/ p = 8 \/ p = 9
      \/ p = 10 \/ p = 11 \/ p = 12
  OBVIOUS
<1> QED BY <1>1, LeapYears DEF MonthLength, dbDaysInMonth

(***************************************************************************)
(* db_days_from_civil, without its eras: rounding the era down makes the   *)
(* year in it a number from 0 to 399 also for negative years.              *)
(***************************************************************************)
LEMMA DaysFrom ==
  ASSUME NEW yr \in Int, NEW mo \in 1..12, NEW d \in Int,
         NEW k \in Int, mo <= 2 => k = yr - 1, mo > 2 => k = yr,
         NEW p \in 0..11, mo <= 2 => p = mo + 9, mo > 2 => p = mo - 3
  PROVE  db_days_from_civil(yr, mo, d) = YearDays(k) + MonthDays(p) + d - 1 - Offset
<1> DEFINE x == IF k >= 0 THEN k ELSE k - 399
           era == Quot(x, 400)
           yoe == k - era * 400
<1>1. era = k \div 400
  BY SMT DEF Quot
<1>2. YearDays(k) = era * 146097 + yoe * 365 + yoe \div 4 - yoe \div 100
  <2>1. yoe = k - era * 400
    OBVIOUS
  <2> HIDE DEF era, yoe
  <2> QED BY <1>1, <2>1, SMT DEF YearDays
<1>3. db_days_from_civil(yr, mo, d)
        = era * 146097 + (yoe * 365 + yoe \div 4 - yoe \div 100
            + ((153 * (mo + (IF mo > 2 THEN -3 ELSE 9)) + 2) \div 5 + d - 1)) - 719468
  BY SMT DEF db_days_from_civil
<1>4. MonthDays(p) = (153 * (mo + (IF mo > 2 THEN -3 ELSE 9)) + 2) \div 5
  BY SMT DEF MonthDays
<1>5. MonthDays(p) \in Int /\ era \in Int /\ yoe \div 4 \in Int /\ yoe \div 100 \in Int
  BY <1>1, SMT DEF MonthDays
<1> HIDE DEF era
<1> QED BY <1>2, <1>3, <1>4, <1>5, SMT DEF Offset

(***************************************************************************)
(* A day of an era of 400 years, as glue.c takes it back to the year: by a *)
(* hundreds, b fours and c years.                                          *)
(***************************************************************************)
EraYear(doe) == (doe - doe \div 1460 + doe \div 36524 - doe \div 146096) \div 365
EraDay(a, b, c, doy) == 36524 * a + 1461 * b + 365 * c + doy
EraParts(a, b, c, doy) ==
  /\ a \in 0..3 /\ b \in 0..24 /\ c \in 0..3 /\ doy \in 0..365
  /\ doy = 365 => c = 3 /\ (b = 24 => a = 3)
InEra(doe) == doe \in Int /\ 0 <= doe /\ doe <= 146096

(***************************************************************************)
(* The three corrections in db_civil_from_days are exact, also on the last *)
(* day of an era and of a year of four.                                    *)
(***************************************************************************)
LEMMA EraQuotients ==
  ASSUME NEW a, NEW b, NEW c, NEW doy, EraParts(a, b, c, doy)
  PROVE  /\ InEra(EraDay(a, b, c, doy))
         /\ EraYear(EraDay(a, b, c, doy)) = 100 * a + 4 * b + c
<1> USE DEF EraParts
<1> DEFINE doe == EraDay(a, b, c, doy)
           r == 1461 * b + 365 * c + doy
           n == 100 * a + 4 * b + c
           q == doe - doe \div 1460 + doe \div 36524 - doe \div 146096
<1>1. r \in Int /\ 0 <= r /\ r <= 36524 /\ (r = 36524 => a = 3)
  BY SMT
<1>2. doe \in Int /\ doe = 36524 * a + r
  BY SMT DEF EraDay
<1>3. n \in Int /\ 365 * n <= doe - doe \div 1460 + a
      /\ doe - doe \div 1460 + a <= 365 * n + 364
  BY SMT DEF EraDay
<1> HIDE DEF doe, r, n
<1>4. 0 <= doe /\ doe <= 146096
  BY <1>1, <1>2, SMT
<1>5. doe \div 36524 - doe \div 146096 = a
  <2>1. CASE r = 36524
    BY <1>1, <1>2, <2>1, SMT
  <2>2. CASE r < 36524
    BY <1>1, <1>2, <2>2, SMT
  <2> QED BY <1>1, <2>1, <2>2, SMT
<1>6. q \in Int /\ 365 * n <= q /\ q <= 365 * n + 364
  BY <1>2, <1>3, <1>5, SMT
<1>7. q \div 365 = n
  <2> HIDE DEF q
  <2> QED BY <1>3, <1>6, SMT
<1> QED BY <1>2, <1>4, <1>7, SMT DEF doe, n, q, InEra, EraYear

(***************************************************************************)
(* A year of an era and a day of it, in the calendar.                      *)
(***************************************************************************)
YearAndDay(yoe, doy) ==
  yoe \in 0..399 /\ doy \in 0..365 /\ (doy = 365 => LeapYear(yoe + 1))
DayOfEra(yoe, doy) == yoe * 365 + yoe \div 4 - yoe \div 100 + doy

(***************************************************************************)
(* The year is found again from the day of the era.                        *)
(***************************************************************************)
LEMMA YearOfEra ==
  ASSUME NEW yoe, NEW doy, YearAndDay(yoe, doy)
  PROVE  InEra(DayOfEra(yoe, doy)) /\ EraYear(DayOfEra(yoe, doy)) = yoe
<1> DEFINE a == yoe \div 100
           b == (yoe % 100) \div 4
           c == yoe % 4
<1>1. a \in 0..3 /\ b \in 0..24 /\ c \in 0..3 /\ yoe = 100 * a + 4 * b + c
  BY SMT DEF YearAndDay
<1>2. DayOfEra(yoe, doy) = EraDay(a, b, c, doy)
  BY <1>1, SMT DEF YearAndDay, DayOfEra, EraDay
<1>3. doy = 365 => c = 3 /\ (b = 24 => a = 3)
  BY <1>1, SMT DEF YearAndDay, LeapYear, Divides
<1> HIDE DEF a, b, c
<1>4. EraParts(a, b, c, doy)
  BY <1>1, <1>3 DEF YearAndDay, EraParts
<1>5. /\ InEra(EraDay(a, b, c, doy))
      /\ EraYear(EraDay(a, b, c, doy)) = 100 * a + 4 * b + c
  BY <1>4, EraQuotients, SMT
<1> QED BY <1>1, <1>2, <1>5, SMT

(***************************************************************************)
(* The months from March, and a day of one.                                *)
(***************************************************************************)
Lengths == <<31, 30, 31, 30, 31, 31, 30, 31, 30, 31, 31, 29>>
MonthAndDay(p, d) == p \in 0..11 /\ d \in 1..Lengths[p + 1]
DayOfYear(p, d) == MonthDays(p) + d - 1

(***************************************************************************)
(* The month is found again from the day of the year.                      *)
(***************************************************************************)
LEMMA MonthOfYear ==
  ASSUME NEW p, NEW d, MonthAndDay(p, d)
  PROVE  /\ DayOfYear(p, d) \in 0..365
         /\ DayOfYear(p, d) = 365 => p = 11 /\ d = 29
         /\ (5 * DayOfYear(p, d) + 2) \div 153 = p
         /\ DayOfYear(p, d) - MonthDays(p) + 1 = d
<1>1. p = 0 \/ p = 1 \/ p = 2 \/ p = 3 \/ p = 4 \/ p = 5 \/ p = 6 \/ p = 7 \/ p = 8
      \/ p = 9 \/ p = 10 \/ p = 11
  BY DEF MonthAndDay
<1> QED BY <1>1, SMT DEF MonthAndDay, DayOfYear, MonthDays, Lengths

(***************************************************************************)
(* A date of the calendar, told by the year from March, and its day in     *)
(* days.                                                                   *)
(***************************************************************************)
MarchDate(k, p, d) ==
  k \in Int /\ MonthAndDay(p, d) /\ (p = 11 /\ d = 29 => LeapYear(k + 1))

DayNumber(k, p, d) == YearDays(k) + DayOfYear(p, d) - Offset

EraOf(z) == Quot(IF z >= 0 THEN z ELSE z - 146096, 146097)

(***************************************************************************)
(* Rounding the era down, which the division of C does not do by itself,   *)
(* makes the day in it a number from 0 to 146096 also before the year 0.   *)
(***************************************************************************)
LEMMA EraRounding ==
  ASSUME NEW era \in Int, NEW doe, InEra(doe)
  PROVE  EraOf(era * 146097 + doe) = era
<1>1. doe \in Int /\ 0 <= doe /\ doe <= 146096
  BY DEF InEra
<1> DEFINE z == era * 146097 + doe
<1>2. z \in Int /\ z >= era * 146097 /\ z <= era * 146097 + 146096
  BY <1>1, SMT
<1> HIDE DEF z
<1>3. CASE z >= 0
  <2>1. EraOf(z) = z \div 146097
    BY <1>2, <1>3, SMT DEF EraOf, Quot
  <2> QED BY <1>2, <1>3, <2>1, SMT DEF z
<1>4. CASE z < 0
  <2>1. EraOf(z) = -((-(z - 146096)) \div 146097)
    BY <1>2, <1>4, SMT DEF EraOf, Quot
  <2> QED BY <1>2, <1>4, <2>1, SMT DEF z
<1> QED BY <1>2, <1>3, <1>4, SMT DEF z

(***************************************************************************)
(* The steps of db_civil_from_days on the day of a date.                   *)
(***************************************************************************)
LEMMA EraOfDay ==
  ASSUME NEW k, NEW p, NEW d, MarchDate(k, p, d),
         NEW era, era = k \div 400, NEW yoe, yoe = k - era * 400
  PROVE  LET doy == DayOfYear(p, d)
             doe == DayOfEra(yoe, doy)
             z == DayNumber(k, p, d) + Offset
         IN  /\ era \in Int /\ YearAndDay(yoe, doy)
             /\ EraOf(z) = era
             /\ z - era * 146097 = doe
             /\ EraYear(doe) = yoe
             /\ doe - (365 * yoe + yoe \div 4 - yoe \div 100) = doy
<1> DEFINE doy == DayOfYear(p, d)
           doe == DayOfEra(yoe, doy)
           z == DayNumber(k, p, d) + Offset
<1>1. k \in Int /\ MonthAndDay(p, d)
  BY DEF MarchDate
<1>2. /\ doy \in 0..365
      /\ doy = 365 => p = 11 /\ d = 29
  BY <1>1, MonthOfYear, SMT
<1>3. era \in Int /\ yoe \in 0..399
  BY <1>1, SMT
<1>4. YearDays(k) = era * 146097 + yoe * 365 + yoe \div 4 - yoe \div 100
  BY <1>1, SMT DEF YearDays
<1>5. doy = 365 => LeapYear(yoe + 1)
  <2>1. doy = 365 => LeapYear(k + 1)
    BY <1>2 DEF MarchDate
  <2>2. LeapYear(k + 1) => LeapYear(yoe + 1)
    BY <1>1, SMT DEF LeapYear, Divides
  <2> QED BY <2>1, <2>2
<1> HIDE DEF doy
<1>6. YearAndDay(yoe, doy)
  BY <1>2, <1>3, <1>5 DEF YearAndDay
<1>7. InEra(doe) /\ EraYear(doe) = yoe
  BY <1>6, YearOfEra
<1>8. yoe \div 4 \in Int /\ yoe \div 100 \in Int /\ YearDays(k) \in Int
  BY <1>1, <1>3, <1>4, SMT
<1>9. z = YearDays(k) + doy
  BY <1>2, <1>8, SMT DEF DayNumber, Offset, doy
<1>10. z = era * 146097 + doe
  BY <1>2, <1>3, <1>4, <1>8, <1>9, SMT DEF DayOfEra
<1>11. doe - (365 * yoe + yoe \div 4 - yoe \div 100) = doy
  BY <1>2, <1>3, <1>8, SMT DEF DayOfEra
<1> HIDE DEF z, doe
<1>12. EraOf(z) = era
  BY <1>3, <1>7, <1>10, EraRounding, SMT
<1>13. z - era * 146097 = doe
  BY <1>3, <1>7, <1>10, SMT DEF InEra
<1> QED BY <1>3, <1>6, <1>7, <1>11, <1>12, <1>13 DEF z, doe, doy

(***************************************************************************)
(* db_civil_from_days finds the year, the month and the day of every date. *)
(***************************************************************************)
LEMMA CivilFrom ==
  ASSUME NEW k, NEW p, NEW d, MarchDate(k, p, d)
  PROVE  db_civil_from_days(DayNumber(k, p, d))
           = <<IF p < 10 THEN k ELSE k + 1, IF p < 10 THEN p + 3 ELSE p - 9, d>>
<1> DEFINE era == k \div 400
           yoe == k - era * 400
           doy == DayOfYear(p, d)
           doe == DayOfEra(yoe, doy)
           n == DayNumber(k, p, d)
           z == n + 719468
           mo == p + (IF p < 10 THEN 3 ELSE -9)
<1>0. k \in Int /\ MonthAndDay(p, d) /\ p \in 0..11
  BY DEF MarchDate, MonthAndDay
<1>1. /\ era \in Int /\ YearAndDay(yoe, doy)
      /\ EraOf(z) = era
      /\ z - era * 146097 = doe
      /\ EraYear(doe) = yoe
      /\ doe - (365 * yoe + yoe \div 4 - yoe \div 100) = doy
  <2>1. yoe = k - era * 400
    OBVIOUS
  <2> HIDE DEF yoe
  <2> QED BY <2>1, EraOfDay, SMT DEF Offset
<1>2. (5 * doy + 2) \div 153 = p /\ doy - (153 * p + 2) \div 5 + 1 = d
  BY <1>0, MonthOfYear, SMT DEF MonthDays
<1>3. k = yoe + era * 400
  BY <1>0, SMT
<1> HIDE DEF era, yoe, doy, doe, n
<1>4. db_civil_from_days(n)
        = <<yoe + era * 400 + (IF mo <= 2 THEN 1 ELSE 0), mo,
            doy - (153 * p + 2) \div 5 + 1>>
  BY <1>1, <1>2, SMT DEF db_civil_from_days, EraOf, EraYear
<1>5. IF p < 10 THEN mo = p + 3 /\ mo > 2 ELSE mo = p - 9 /\ mo <= 2
  BY <1>0, SMT
<1>6. mo \in Int
  BY <1>0, SMT
<1> HIDE DEF mo
<1> QED BY <1>0, <1>2, <1>3, <1>4, <1>5, <1>6, SMT DEF n

(***************************************************************************)
(* The year and the month, counted from March.                             *)
(***************************************************************************)
FromMarch(yr, mo) == IF mo <= 2 THEN yr - 1 ELSE yr
MonthFromMarch(mo) == IF mo <= 2 THEN mo + 9 ELSE mo - 3

(***************************************************************************)
(* db_days_from_civil is the day of the date that is told from March.      *)
(***************************************************************************)
LEMMA DaysFromCivil ==
  ASSUME NEW yr \in Int, NEW mo \in 1..12, NEW d \in Int
  PROVE  /\ FromMarch(yr, mo) \in Int /\ MonthFromMarch(mo) \in 0..11
         /\ db_days_from_civil(yr, mo, d)
              = DayNumber(FromMarch(yr, mo), MonthFromMarch(mo), d)
<1> DEFINE k == FromMarch(yr, mo)
           p == MonthFromMarch(mo)
<1>1. /\ k \in Int /\ (mo <= 2 => k = yr - 1) /\ (mo > 2 => k = yr)
      /\ p \in 0..11 /\ (mo <= 2 => p = mo + 9) /\ (mo > 2 => p = mo - 3)
  BY SMT DEF FromMarch, MonthFromMarch
<1> HIDE DEF k, p
<1>2. db_days_from_civil(yr, mo, d) = YearDays(k) + MonthDays(p) + d - 1 - Offset
  BY <1>1, DaysFrom, SMT
<1>3. YearDays(k) \in Int /\ MonthDays(p) \in Int
  BY <1>1, SMT DEF YearDays, MonthDays
<1>4. db_days_from_civil(yr, mo, d) = DayNumber(k, p, d)
  BY <1>2, <1>3, SMT DEF DayNumber, DayOfYear, Offset
<1> QED BY <1>1, <1>4 DEF k, p

(***************************************************************************)
(* Every date of the calendar can be told from March.                      *)
(***************************************************************************)
LEMMA MarchDates ==
  ASSUME NEW yr \in Int, NEW mo \in 1..12, NEW d \in 1..MonthLength(yr, mo)
  PROVE  MarchDate(FromMarch(yr, mo), MonthFromMarch(mo), d)
<1>1. mo = 1 \/ mo = 2 \/ mo = 3 \/ mo = 4 \/ mo = 5 \/ mo = 6 \/ mo = 7 \/ mo = 8
      \/ mo = 9 \/ mo = 10 \/ mo = 11 \/ mo = 12
  OBVIOUS
<1>2. MonthAndDay(MonthFromMarch(mo), d)
  BY <1>1, SMT DEF MonthAndDay, MonthFromMarch, Lengths, MonthLength
<1>3. FromMarch(yr, mo) \in Int
  BY SMT DEF FromMarch
<1>4. MonthFromMarch(mo) = 11 /\ d = 29 => LeapYear(FromMarch(yr, mo) + 1)
  <2>1. SUFFICES ASSUME MonthFromMarch(mo) = 11, d = 29
                 PROVE  LeapYear(FromMarch(yr, mo) + 1)
    OBVIOUS
  <2>2. mo = 2
    BY <2>1, SMT DEF MonthFromMarch
  <2>3. FromMarch(yr, mo) + 1 = yr
    BY <2>2, SMT DEF FromMarch
  <2>4. LeapYear(yr)
    BY <2>1, <2>2, SMT DEF MonthLength
  <2> QED BY <2>3, <2>4, Zenon
<1> QED BY <1>2, <1>3, <1>4 DEF MarchDate

(***************************************************************************)
(* db_civil_from_days inverts db_days_from_civil on every date of the      *)
(* calendar, in every year, negative ones too.                             *)
(***************************************************************************)
THEOREM RoundTrip ==
  ASSUME NEW yr \in Int, NEW mo \in 1..12, NEW d \in 1..MonthLength(yr, mo)
  PROVE  db_civil_from_days(db_days_from_civil(yr, mo, d)) = <<yr, mo, d>>
<1> DEFINE k == FromMarch(yr, mo)
           p == MonthFromMarch(mo)
<1>0. d \in Int
  BY MonthLengths
<1>1. db_days_from_civil(yr, mo, d) = DayNumber(k, p, d)
  BY <1>0, DaysFromCivil
<1>2. db_civil_from_days(DayNumber(k, p, d))
        = <<IF p < 10 THEN k ELSE k + 1, IF p < 10 THEN p + 3 ELSE p - 9, d>>
  BY MarchDates, CivilFrom
<1>3. /\ (IF p < 10 THEN k ELSE k + 1) = yr
      /\ (IF p < 10 THEN p + 3 ELSE p - 9) = mo
  BY SMT DEF FromMarch, MonthFromMarch
<1> QED BY <1>1, <1>2, <1>3, Zenon

(***************************************************************************)
(* Within a month db_days_from_civil counts one by one.                    *)
(***************************************************************************)
LEMMA DayInMonth ==
  ASSUME NEW yr \in Int, NEW mo \in 1..12, NEW d \in Int
  PROVE  /\ db_days_from_civil(yr, mo, 1) \in Int
         /\ db_days_from_civil(yr, mo, d) = db_days_from_civil(yr, mo, 1) + d - 1
<1> DEFINE k == FromMarch(yr, mo)
           p == MonthFromMarch(mo)
<1>1. /\ k \in Int /\ p \in 0..11
      /\ \A n \in Int : db_days_from_civil(yr, mo, n) = DayNumber(k, p, n)
  BY DaysFromCivil
<1> HIDE DEF k, p
<1>2. YearDays(k) \in Int /\ MonthDays(p) \in Int
  BY <1>1, SMT DEF YearDays, MonthDays
<1> QED BY <1>1, <1>2, SMT DEF DayNumber, DayOfYear, Offset

(***************************************************************************)
(* It counts from one month to the next by the length of the month; from   *)
(* February to March the year changes in glue.c.                           *)
(***************************************************************************)
LEMMA MonthStep ==
  ASSUME NEW yr \in Int, NEW mo \in 1..12
  PROVE  db_days_from_civil(yr, mo, 1) + MonthLength(yr, mo)
           = db_days_from_civil(IF mo = 12 THEN yr + 1 ELSE yr,
                                IF mo = 12 THEN 1 ELSE mo + 1, 1)
<1> DEFINE k == FromMarch(yr, mo)
           p == MonthFromMarch(mo)
           yn == IF mo = 12 THEN yr + 1 ELSE yr
           mn == IF mo = 12 THEN 1 ELSE mo + 1
           kn == FromMarch(yn, mn)
           pn == MonthFromMarch(mn)
<1>1. yn \in Int /\ mn \in 1..12
  OBVIOUS
<1>2. /\ k \in Int /\ p \in 0..11
      /\ \A n \in Int : db_days_from_civil(yr, mo, n) = DayNumber(k, p, n)
  BY DaysFromCivil
<1>3. /\ kn \in Int /\ pn \in 0..11
      /\ \A n \in Int : db_days_from_civil(yn, mn, n) = DayNumber(kn, pn, n)
  <2> HIDE DEF yn, mn
  <2> QED BY <1>1, DaysFromCivil
<1>4. MonthLength(yr, mo) \in 28..31
  BY MonthLengths
<1>5. YearDays(k) \in Int /\ MonthDays(p) \in Int /\ MonthDays(pn) \in Int
  BY <1>2, <1>3, SMT DEF YearDays, MonthDays
<1>6. CASE mo # 2
  <2>1. kn = k
    BY <1>6, SMT DEF FromMarch
  <2>2. MonthDays(pn) = MonthDays(p) + MonthLength(yr, mo)
    <3>1. mo = 1 \/ mo = 3 \/ mo = 4 \/ mo = 5 \/ mo = 6 \/ mo = 7 \/ mo = 8
          \/ mo = 9 \/ mo = 10 \/ mo = 11 \/ mo = 12
      BY <1>6
    <3> QED BY <3>1, SMT DEF MonthDays, MonthFromMarch, MonthLength
  <2>3. DayNumber(kn, pn, 1) = DayNumber(k, p, 1) + MonthLength(yr, mo)
    <3> HIDE DEF kn, pn, k, p
    <3> QED BY <1>4, <1>5, <2>1, <2>2, SMT DEF DayNumber, DayOfYear, Offset
  <2> QED BY <1>2, <1>3, <2>3
<1>7. CASE mo = 2
  <2>1. kn = yr /\ k = yr - 1 /\ p = 11 /\ pn = 0
    BY <1>7, SMT DEF FromMarch, MonthFromMarch
  <2>2. MonthDays(11) = 337 /\ MonthDays(0) = 0
    BY SMT DEF MonthDays
  <2>3. YearDays(yr) - YearDays(yr - 1) = IF LeapYear(yr) THEN 366 ELSE 365
    BY LeapYears
  <2>4. MonthLength(yr, mo) = IF LeapYear(yr) THEN 29 ELSE 28
    BY <1>7, MonthLengths
  <2>5. YearDays(yr) \in Int /\ YearDays(yr - 1) \in Int
    BY SMT DEF YearDays
  <2>6. DayNumber(yr, 0, 1) = DayNumber(yr - 1, 11, 1) + MonthLength(yr, mo)
    BY <2>2, <2>3, <2>4, <2>5, SMT DEF DayNumber, DayOfYear, Offset
  <2>7. 1 \in Int
    OBVIOUS
  <2>8. /\ db_days_from_civil(yr, mo, 1) = DayNumber(yr - 1, 11, 1)
        /\ db_days_from_civil(yn, mn, 1) = DayNumber(yr, 0, 1)
    <3> HIDE DEF yn, mn, k, p, kn, pn
    <3> QED BY <1>2, <1>3, <2>1, <2>7, Zenon
  <2> QED BY <2>6, <2>8, Zenon
<1> QED BY <1>6, <1>7

(***************************************************************************)
(* The count starts in 1970.                                               *)
(***************************************************************************)
LEMMA Epoch == db_days_from_civil(1970, 1, 1) = 0
BY SMT DEF db_days_from_civil, Quot

(***************************************************************************)
(* Quotient and remainder are determined by the range of the remainder.    *)
(***************************************************************************)
LEMMA Division ==
  ASSUME NEW q \in Int, NEW b \in Nat \ {0}, NEW r \in Int, 0 <= r, r < b
  PROVE  (q * b + r) \div b = q /\ (q * b + r) % b = r
OBVIOUS

(***************************************************************************)
(* v is n times b, and r.                                                  *)
(***************************************************************************)
Splits(v, b, n, r) ==
  n \in Int /\ b \in Nat \ {0} /\ r \in Int /\ 0 <= r /\ r < b /\ v = n * b + r

(***************************************************************************)
(* The division of C goes toward zero: _splitDateValue corrects a negative *)
(* rest by one unit.                                                       *)
(***************************************************************************)
LEMMA DivisionInC ==
  ASSUME NEW v, NEW b, NEW n, NEW r, Splits(v, b, n, r)
  PROVE  /\ v \in Int /\ v \div b = n /\ v % b = r
         /\ Quot(v, b) \in Int /\ Rest(v, b) \in Int
         /\ Rest(v, b) < 0 => Rest(v, b) + b = r /\ Quot(v, b) - 1 = n
         /\ Rest(v, b) >= 0 => Rest(v, b) = r /\ Quot(v, b) = n
<1> n \in Int /\ b \in Nat \ {0} /\ r \in Int /\ 0 <= r /\ r < b /\ v = n * b + r
  BY DEF Splits
<1>0. v \in Int /\ n * b \in Int
  BY SMT
<1>4. v \div b = n /\ v % b = r
  BY Division
<1>1. CASE v >= 0
  <2>1. v \div b = n
    BY Division
  <2>2. Quot(v, b) = n
    BY <1>1, <2>1 DEF Quot
  <2>3. Rest(v, b) = r
    BY <2>2, SMT DEF Rest
  <2> QED BY <2>2, <2>3
<1>2. CASE v < 0 /\ r = 0
  <2>1. -v = (-n) * b + 0
    BY <1>2, SMT
  <2>2. (-v) \div b = -n
    BY <1>2, <2>1, Division
  <2>3. Quot(v, b) = n
    BY <1>0, <1>2, <2>2 DEF Quot
  <2>4. Rest(v, b) = r
    BY <2>3, SMT DEF Rest
  <2> QED BY <2>3, <2>4
<1>3. CASE v < 0 /\ r > 0
  <2>1. -v = (-n - 1) * b + (b - r)
    BY <1>3, SMT
  <2>2. (-v) \div b = -n - 1
    <3>1. -n - 1 \in Int /\ b - r \in Int /\ 0 <= b - r /\ b - r < b
      BY <1>3
    <3>2. ((-n - 1) * b + (b - r)) \div b = -n - 1
      BY <3>1, Division
    <3> QED BY <2>1, <3>2
  <2>3. Quot(v, b) = n + 1
    BY <1>0, <1>3, <2>2 DEF Quot
  <2>4. Rest(v, b) = r - b
    BY <2>3, SMT DEF Rest
  <2> QED BY <1>3, <2>3, <2>4
<1> QED BY <1>0, <1>1, <1>2, <1>3, <1>4

(***************************************************************************)
(* The seconds of a time of the day.                                       *)
(***************************************************************************)
TimeOfDay(time) == time[1] * Hour + time[2] * Minute + time[3]

(***************************************************************************)
(* The time is found again from its seconds, for any length of a minute.   *)
(***************************************************************************)
LEMMA TimeParts ==
  ASSUME NEW time \in DayTime
  PROVE  /\ Day \in Nat \ {0} /\ Hour \in Nat \ {0}
         /\ TimeOfDay(time) \in Int /\ 0 <= TimeOfDay(time) /\ TimeOfDay(time) < Day
         /\ TimeOfDay(time) \div Hour = time[1]
         /\ (TimeOfDay(time) % Hour) \div Minute = time[2]
         /\ TimeOfDay(time) % Minute = time[3]
<1> DEFINE h == time[1]
           i == time[2]
           s == time[3]
<1>0. Minute \in Nat \ {0}
  BY RangeAssumption
<1>1. h \in 0..23 /\ i \in 0..59 /\ s \in 0..(Minute - 1)
  BY DEF DayTime
<1>2. TimeOfDay(time) = h * (60 * Minute) + i * Minute + s
  BY DEF TimeOfDay, Hour
<1> HIDE DEF h, i, s
<1>3. Hour = 60 * Minute /\ Day = 24 * (60 * Minute)
  BY DEF Hour, Day
<1>4. i * Minute + s \in Int /\ 0 <= i * Minute + s /\ i * Minute + s < 60 * Minute
  BY <1>0, <1>1, SMT
<1> DEFINE H == 60 * Minute
           r == i * Minute + s
<1>5. H \in Nat \ {0} /\ 24 * H \in Nat \ {0}
  BY <1>0, SMT
<1>6. (h * H + r) \div H = h /\ (h * H + r) % H = r
  <2>1. h \in Int /\ r \in Int /\ 0 <= r /\ r < H
    BY <1>1, <1>4
  <2> HIDE DEF H, r
  <2> QED BY <1>5, <2>1, Division
<1>7. r \div Minute = i
  BY <1>0, <1>1, Division
<1>8. ((60 * h + i) * Minute + s) % Minute = s
  <2>1. 60 * h + i \in Int /\ s \in Int /\ 0 <= s /\ s < Minute
    BY <1>0, <1>1, SMT
  <2> QED BY <1>0, <2>1, Division
<1>9. TimeOfDay(time) = (60 * h + i) * Minute + s
  BY <1>0, <1>1, <1>2, SMT
<1>10. 0 <= h * H + r /\ h * H + r < 24 * H /\ h * H + r \in Int
  <2> HIDE DEF H, r
  <2> QED BY <1>1, <1>4, <1>5, SMT DEF H, r
<1>11. TimeOfDay(time) = h * H + r
  BY <1>0, <1>1, <1>2, SMT
<1> HIDE DEF H, r
<1>12. /\ TimeOfDay(time) \div H = h
       /\ (TimeOfDay(time) % H) \div Minute = i
       /\ TimeOfDay(time) % Minute = s
  BY <1>6, <1>7, <1>8, <1>9, <1>11
<1> QED BY <1>3, <1>5, <1>10, <1>11, <1>12 DEF H, h, i, s

(***************************************************************************)
(* _splitDateValue takes a value to its day and its time, before 1970 too. *)
(***************************************************************************)
LEMMA SplitValue ==
  ASSUME NEW n \in Int, NEW time \in DayTime,
         NEW v, v = n * Day + TimeOfDay(time)
  PROVE  /\ v \in Int /\ v \div Day = n /\ v % Day = TimeOfDay(time)
         /\ _splitDateValue(v).date = db_civil_from_days(n)
         /\ _splitDateValue(v).time = time
<1> DEFINE t == TimeOfDay(time)
<1>1. /\ Day \in Nat \ {0} /\ t \in Int /\ 0 <= t /\ t < Day
      /\ t \div Hour = time[1] /\ (t % Hour) \div Minute = time[2]
      /\ t % Minute = time[3]
  BY TimeParts
<1>2. v = n * Day + t
  OBVIOUS
<1> HIDE DEF t
<1>3. Splits(v, Day, n, t)
  BY <1>1, <1>2 DEF Splits
<1>4. v \in Int /\ v \div Day = n /\ v % Day = t
  BY <1>3, DivisionInC
<1> DEFINE r == Rest(v, Day)
           q == Quot(v, Day)
           rem == IF r < 0 THEN r + Day ELSE r
           days == IF r < 0 THEN q - 1 ELSE q
<1>5. /\ q \in Int /\ r \in Int
      /\ r < 0 => r + Day = t /\ q - 1 = n
      /\ r >= 0 => r = t /\ q = n
  BY <1>3, DivisionInC
<1>6. _splitDateValue(v)
        = [date |-> db_civil_from_days(days),
           time |-> <<rem \div Hour, (rem % Hour) \div Minute, rem % Minute>>]
  BY DEF _splitDateValue
<1> HIDE DEF r, q
<1>7. rem = t /\ days = n
  BY <1>5
<1> HIDE DEF rem, days
<1>8. /\ _splitDateValue(v).date = db_civil_from_days(n)
      /\ _splitDateValue(v).time = <<time[1], time[2], time[3]>>
  BY <1>1, <1>6, <1>7
<1>9. time = <<time[1], time[2], time[3]>>
  BY DEF DayTime
<1> QED BY <1>4, <1>8, <1>9 DEF t

(***************************************************************************)
(* From the first day of a month the days of it are counted right, and     *)
(* back.                                                                   *)
(***************************************************************************)
LEMMA Counting ==
  ASSUME NEW yr \in Int, NEW mo \in 1..12, NEW d \in 1..MonthLength(yr, mo),
         NEW f, f = db_days_from_civil(yr, mo, 1)
  PROVE  /\ db_days_from_civil(yr, mo, d) = f + d - 1
         /\ db_civil_from_days(f + d - 1) = <<yr, mo, d>>
<1>1. d \in Int
  BY MonthLengths
<1>2. db_days_from_civil(yr, mo, d) = f + d - 1
  BY <1>1, DayInMonth
<1>3. db_civil_from_days(db_days_from_civil(yr, mo, d)) = <<yr, mo, d>>
  BY RoundTrip
<1> QED BY <1>2, <1>3

(***************************************************************************)
(* What the walk has come to, in the terms of glue.c.                      *)
(***************************************************************************)
LEMMA Walk ==
  ASSUME DateTypeOK, DaysCountedRight
  PROVE  /\ y \in Int /\ m \in 1..12
         /\ first \in Int
         /\ first = db_days_from_civil(y, m, 1)
<1>1. y \in Int /\ m \in 1..12 /\ first \in Int
  BY RangeAssumption DEF DateTypeOK, MinYear
<1>2. MonthLength(y, m) \in 28..31
  BY <1>1, MonthLengths
<1>3. 1 \in 1..MonthLength(y, m)
  BY <1>2
<1>4. db_days_from_civil(y, m, 1) = first + 1 - 1
  BY <1>3 DEF DaysCountedRight
<1> QED BY <1>1, <1>4

(***************************************************************************)
(* A month whose first day is counted right.                               *)
(***************************************************************************)
LEMMA NewMonth ==
  ASSUME y' \in MinYear..MaxYear, m' \in 1..12,
         first' = db_days_from_civil(y', m', 1),
         obj' = NoObject, meant' = <<1, Midnight>>
  PROVE  DateInv'
<1>1. y' \in Int /\ first' \in Int
  <2>1. y' \in Int
    BY RangeAssumption DEF MinYear
  <2> QED BY <2>1, DayInMonth
<1>2. DaysCountedRight'
  BY <1>1, Counting DEF DaysCountedRight
<1>3. <<1, Midnight>> \in Days' \X Times'
  BY DEF Days, Times
<1>4. obj' \in DateObject
  BY RangeAssumption DEF NoObject, Midnight, DateObject, DayTime
<1>5. DateTypeOK'
  BY <1>1, <1>3, <1>4 DEF DateTypeOK, MinYear
<1>6. obj'.isNull /\ obj'.kind = "none"
  BY DEF NoObject
<1>7. BothFormsRight'
  BY <1>6 DEF BothFormsRight
<1> QED BY <1>2, <1>5, <1>7 DEF DateInv

(***************************************************************************)
(* One month on.                                                           *)
(***************************************************************************)
LEMMA ForwardStep ==
  ASSUME DateInv, Forward
  PROVE  DateInv'
<1>1. /\ y \in Int /\ m \in 1..12 /\ first = db_days_from_civil(y, m, 1)
      /\ y \in MinYear..MaxYear
  BY Walk DEF DateInv, DateTypeOK
<1>2. /\ y' = IF m = 12 THEN y + 1 ELSE y
      /\ m' = IF m = 12 THEN 1 ELSE m + 1
      /\ y' <= MaxYear
  BY DEF Forward, NextMonth
<1>3. y' \in MinYear..MaxYear /\ m' \in 1..12
  BY <1>1, <1>2, RangeAssumption DEF MinYear
<1>4. first' = db_days_from_civil(y', m', 1)
  BY <1>1, <1>2, MonthStep DEF Forward
<1> QED BY <1>3, <1>4, NewMonth DEF Forward

(***************************************************************************)
(* One month back.                                                         *)
(***************************************************************************)
LEMMA BackStep ==
  ASSUME DateInv, Back
  PROVE  DateInv'
<1>1. /\ y \in Int /\ m \in 1..12 /\ first = db_days_from_civil(y, m, 1)
      /\ y \in MinYear..MaxYear /\ first \in Int
  BY Walk DEF DateInv, DateTypeOK
<1>2. /\ y' = IF m = 1 THEN y - 1 ELSE y
      /\ m' = IF m = 1 THEN 12 ELSE m - 1
      /\ y' >= MinYear
      /\ first' = first - MonthLength(y', m')
  BY DEF Back, PreviousMonth
<1>3. y' \in MinYear..MaxYear /\ m' \in 1..12 /\ y' \in Int
  BY <1>1, <1>2, RangeAssumption DEF MinYear
<1>4. /\ y = IF m' = 12 THEN y' + 1 ELSE y'
      /\ m = IF m' = 12 THEN 1 ELSE m' + 1
  BY <1>1, <1>2
<1>5. db_days_from_civil(y', m', 1) + MonthLength(y', m') = first
  <2> DEFINE yn == IF m' = 12 THEN y' + 1 ELSE y'
             mn == IF m' = 12 THEN 1 ELSE m' + 1
  <2>1. db_days_from_civil(y', m', 1) + MonthLength(y', m') = db_days_from_civil(yn, mn, 1)
    BY <1>3, MonthStep
  <2> QED BY <1>1, <1>4, <2>1
<1>6. db_days_from_civil(y', m', 1) \in Int /\ MonthLength(y', m') \in Int
  <2>1. MonthLength(y', m') \in 28..31
    BY <1>3, MonthLengths
  <2>2. \A n \in Int : db_days_from_civil(y', m', 1) \in Int
    BY <1>3, DayInMonth
  <2> QED BY <2>1, <2>2
<1>7. first' = db_days_from_civil(y', m', 1)
  BY <1>2, <1>5, <1>6
<1> QED BY <1>3, <1>7, NewMonth DEF Back

(***************************************************************************)
(* dbIsValidDate accepts the dates of the calendar from the year 1 on.     *)
(***************************************************************************)
LEMMA ValidDates ==
  ASSUME NEW yr \in Int, NEW mo \in 1..12, NEW d \in Int
  PROVE  dbIsValidDate(<<yr, mo, d>>) <=> (yr >= 1 /\ d \in 1..MonthLength(yr, mo))
<1>1. dbDaysInMonth(yr, mo) = MonthLength(yr, mo)
  BY MonthLengths
<1> QED BY <1>1 DEF dbIsValidDate

(***************************************************************************)
(* An object with all its fields set, but the kind.                        *)
(***************************************************************************)
WithFields(o, n, v, d, t) ==
  [[o EXCEPT !.date = d, !.time = t] EXCEPT !.isNull = n, !.value = v]

(***************************************************************************)
(* Setting fields of a record.                                             *)
(***************************************************************************)
LEMMA RecordsSet ==
  ASSUME NEW K, NEW N, NEW V, NEW D, NEW T,
         NEW o \in [kind : K, isNull : N, value : V, date : D, time : T],
         NEW n \in N, NEW v \in V, NEW d \in D, NEW t \in T
  PROVE  LET o2 == [[o EXCEPT !.date = d, !.time = t] EXCEPT !.isNull = n, !.value = v]
         IN  /\ o2 \in [kind : K, isNull : N, value : V, date : D, time : T]
             /\ o2.kind = o.kind /\ o2.isNull = n /\ o2.value = v
             /\ o2.date = d /\ o2.time = t
OBVIOUS

(***************************************************************************)
(* The same of a date object.                                              *)
(***************************************************************************)
LEMMA FieldsSet ==
  ASSUME NEW o \in DateObject, NEW n \in BOOLEAN, NEW v \in Int,
         NEW d \in Int \X (1..12) \X (1..31), NEW t \in DayTime
  PROVE  LET o2 == WithFields(o, n, v, d, t)
         IN  /\ o2 \in DateObject
             /\ o2.kind = o.kind /\ o2.isNull = n /\ o2.value = v
             /\ o2.date = d /\ o2.time = t
BY RecordsSet, Zenon DEF DateObject, WithFields

(***************************************************************************)
(* The fields of a date object.                                            *)
(***************************************************************************)
LEMMA Fields ==
  ASSUME NEW o \in DateObject
  PROVE  /\ o.kind \in Kinds \cup {"none"} /\ o.isNull \in BOOLEAN /\ o.value \in Int
         /\ o.date \in Int \X (1..12) \X (1..31) /\ o.time \in DayTime
BY DEF DateObject

(***************************************************************************)
(* What clear() leaves of an object.                                       *)
(***************************************************************************)
LEMMA ClearedFields ==
  ASSUME NEW o \in DateObject
  PROVE  /\ ClearedDate(o) \in DateObject
         /\ ClearedDate(o).kind = o.kind /\ ClearedDate(o).isNull = TRUE
         /\ ClearedDate(o).date = o.date
         /\ ClearedDate(o).time = IF o.kind = "time" THEN Midnight ELSE o.time
<1> DEFINE t == IF o.kind = "time" THEN Midnight ELSE o.time
           n == TRUE
           o2 == ClearedDate(o)
<1>1. o2 = [o EXCEPT !.value = 0, !.isNull = n, !.time = t]
  BY DEF ClearedDate
<1>2. t \in DayTime /\ o.date \in Int \X (1..12) \X (1..31)
  <2>1. Midnight \in DayTime
    BY RangeAssumption DEF Midnight, DayTime
  <2> QED BY <2>1, Fields
<1>3. 0 \in Int /\ n \in BOOLEAN
  OBVIOUS
<1> HIDE DEF t, n, o2
<1>4. o2 = WithFields(o, n, 0, o.date, t)
  BY <1>1 DEF WithFields, DateObject
<1>5. /\ o2 \in DateObject /\ o2.kind = o.kind /\ o2.isNull = n
      /\ o2.date = o.date /\ o2.time = t
  <2> DEFINE w == WithFields(o, n, 0, o.date, t)
             z == 0
  <2>1. z \in Int /\ w = WithFields(o, n, z, o.date, t)
    OBVIOUS
  <2> HIDE DEF w, z
  <2>2. /\ w \in DateObject /\ w.kind = o.kind /\ w.isNull = n
        /\ w.date = o.date /\ w.time = t
    BY <1>2, <1>3, <2>1, FieldsSet
  <2>3. o2 = w
    BY <1>4 DEF w
  <2> QED BY <2>2, <2>3
<1> QED BY <1>5, Zenon DEF t, n, o2

(***************************************************************************)
(* clear(), and setFromParts with parts that are refused.                  *)
(***************************************************************************)
LEMMA ClearedStep ==
  ASSUME DateInv, obj.kind # "none", obj' = ClearedDate(obj),
         UNCHANGED <<y, m, first>>, meant' \in Days \X Times
  PROVE  DateInv'
<1>1. /\ obj \in DateObject
      /\ y \in MinYear..MaxYear /\ m \in 1..12 /\ first \in Int
  BY DEF DateInv, DateTypeOK
<1>3. /\ obj'.kind = obj.kind /\ obj'.isNull = TRUE /\ obj'.date = obj.date
      /\ obj'.time = IF obj.kind = "time" THEN Midnight ELSE obj.time
  BY <1>1, ClearedFields
<1>4. obj' \in DateObject
  BY <1>1, ClearedFields
<1>5. meant' \in Days' \X Times'
  BY DEF Days, Times
<1>6. DateTypeOK'
  BY <1>1, <1>4, <1>5 DEF DateTypeOK, MinYear
<1>7. DaysCountedRight'
  BY DEF DateInv, DaysCountedRight
<1>8. BothFormsRight'
  BY <1>3 DEF BothFormsRight
<1> QED BY <1>6, <1>7, <1>8 DEF DateInv

(***************************************************************************)
(* The instant of a day and a time.                                        *)
(***************************************************************************)
LEMMA InstantOf ==
  ASSUME NEW d \in Int, NEW time \in Nat \X Nat \X Nat, first \in Int
  PROVE  Instant(d, time) = (first + d - 1) * Day + TimeOfDay(time)
<1>1. Minute \in Nat \ {0} /\ Hour = 60 * Minute /\ Day = 24 * (60 * Minute)
  BY RangeAssumption DEF Hour, Day
<1>2. time[1] \in Nat /\ time[2] \in Nat /\ time[3] \in Nat
  OBVIOUS
<1> QED BY <1>1, <1>2, SMT DEF Instant, TimeOfDay

(***************************************************************************)
(* The value that _calcDateValue makes of a date and a time.               *)
(***************************************************************************)
LEMMA CalcOf ==
  ASSUME NEW yr \in Int, NEW mo \in 1..12, NEW d \in Int, NEW time \in Nat \X Nat \X Nat
  PROVE  _calcDateValue(<<yr, mo, d>>, time)
           = db_days_from_civil(yr, mo, d) * Day + TimeOfDay(time)
<1>1. Minute \in Nat \ {0} /\ Hour \in Nat /\ Day \in Nat
  BY RangeAssumption DEF Hour, Day
<1>2. time[1] \in Nat /\ time[2] \in Nat /\ time[3] \in Nat
  OBVIOUS
<1>3. db_days_from_civil(yr, mo, d) \in Int
  <2>1. /\ db_days_from_civil(yr, mo, 1) \in Int
        /\ db_days_from_civil(yr, mo, d) = db_days_from_civil(yr, mo, 1) + d - 1
    BY DayInMonth
  <2> QED BY <2>1
<1> DEFINE a == db_days_from_civil(yr, mo, d)
<1>4. _calcDateValue(<<yr, mo, d>>, time)
        = a * Day + time[1] * Hour + time[2] * Minute + time[3]
  BY DEF _calcDateValue
<1> HIDE DEF a
<1> QED BY <1>1, <1>2, <1>3, <1>4, SMT DEF TimeOfDay, a

(***************************************************************************)
(* The days and the times that objects are set to.                         *)
(***************************************************************************)
LEMMA Calendar ==
  ASSUME y \in Int, m \in 1..12
  PROVE  /\ Times \subseteq Nat \X Nat \X Nat /\ Days \subseteq Int
         /\ MonthLength(y, m) \in 28..31
         /\ \A time \in Times : dbIsValidTime(time) => time \in DayTime
         /\ \A time \in DayTime : time \in Nat \X Nat \X Nat
         /\ \A d \in 1..MonthLength(y, m), time \in DayTime : InCalendar(d, time)
         /\ \A d \in Days, time \in Times :
              InCalendar(d, time) => d \in 1..MonthLength(y, m) /\ time \in DayTime
<1>0. Minute \in Nat \ {0}
  BY RangeAssumption
<1>1. MonthLength(y, m) \in 28..31
  BY MonthLengths
<1>2. Times \subseteq Nat \X Nat \X Nat
  BY <1>0 DEF Times, Midnight
<1>3. Days \subseteq Int
  BY <1>1 DEF Days
<1>4. \A time \in Times : dbIsValidTime(time) => time \in DayTime
  BY <1>0, <1>2 DEF dbIsValidTime, DayTime
<1>5. \A time \in DayTime : time \in Nat \X Nat \X Nat
  BY <1>0 DEF DayTime
<1>6. \A d \in 1..MonthLength(y, m), time \in DayTime : InCalendar(d, time)
  BY <1>0 DEF DayTime, InCalendar
<1>7. \A d \in Days, time \in Times :
        InCalendar(d, time) => d \in 1..MonthLength(y, m) /\ time \in DayTime
  BY <1>0, <1>2 DEF DayTime, InCalendar
<1> QED BY <1>1, <1>2, <1>3, <1>4, <1>5, <1>6, <1>7

(***************************************************************************)
(* An object is given the parts that its kind keeps, and a value of the    *)
(* right day, if it keeps the day, and of the right time, if it keeps the  *)
(* time.                                                                   *)
(***************************************************************************)
LEMMA SetStep ==
  ASSUME DateInv, obj.kind # "none", NEW d \in Days, NEW time \in Times,
         NEW n \in Int, NEW t \in DayTime,
         obj.kind # "time" => d \in 1..MonthLength(y, m) /\ n = first + d - 1,
         obj.kind # "date" => time \in DayTime /\ t = time,
         obj' = WithFields(obj, FALSE, n * Day + TimeOfDay(t),
                           IF obj.kind = "time" THEN obj.date ELSE <<y, m, d>>,
                           IF obj.kind = "date" THEN obj.time ELSE time),
         meant' = <<d, time>>, UNCHANGED <<y, m, first>>
  PROVE  DateInv'
<1>1. /\ obj \in DateObject
      /\ y \in MinYear..MaxYear /\ m \in 1..12 /\ first \in Int /\ y \in Int
      /\ DaysCountedRight
  BY Walk DEF DateInv, DateTypeOK
<1>2. /\ obj.kind \in Kinds /\ obj.date \in Int \X (1..12) \X (1..31)
      /\ obj.time \in DayTime
  BY <1>1, Fields
<1> DEFINE v == n * Day + TimeOfDay(t)
           dd == IF obj.kind = "time" THEN obj.date ELSE <<y, m, d>>
           tt == IF obj.kind = "date" THEN obj.time ELSE time
           no == FALSE
<1>3. v \in Int /\ v \div Day = n /\ v % Day = TimeOfDay(t)
  <2> HIDE DEF v
  <2> QED BY SplitValue DEF v
<1>4. MonthLength(y, m) \in 28..31
  BY <1>1, MonthLengths
<1>5. dd \in Int \X (1..12) \X (1..31) /\ tt \in DayTime /\ no \in BOOLEAN
  BY <1>1, <1>2, <1>4
<1> HIDE DEF v, no
<1>6. /\ obj' \in DateObject
      /\ obj'.kind = obj.kind /\ obj'.isNull = no /\ obj'.value = v
      /\ obj'.date = dd /\ obj'.time = tt
  <2>1. obj' = WithFields(obj, no, v, dd, tt)
    BY DEF v, no
  <2> HIDE DEF dd, tt
  <2> DEFINE o2 == WithFields(obj, no, v, dd, tt)
  <2>2. /\ o2 \in DateObject
        /\ o2.kind = obj.kind /\ o2.isNull = no /\ o2.value = v
        /\ o2.date = dd /\ o2.time = tt
    BY <1>1, <1>3, <1>5, FieldsSet
  <2> HIDE DEF o2
  <2>3. obj' = o2
    BY <2>1 DEF o2
  <2> QED BY <2>2, <2>3
<1>7. DateTypeOK'
  <2>1. <<d, time>> \in Days' \X Times'
    BY DEF Days, Times
  <2> QED BY <1>1, <1>6, <2>1 DEF DateTypeOK, MinYear
<1>8. DaysCountedRight'
  BY <1>1 DEF DaysCountedRight
<1>10. d \in Int /\ time \in Nat \X Nat \X Nat
  BY <1>1, Calendar
<1>11. Instant(d, time) = (first + d - 1) * Day + TimeOfDay(time)
  BY <1>1, <1>10, InstantOf
<1>12. ASSUME obj.kind = "date" PROVE BothFormsRight'
  <2>1. v \div Day = first + d - 1
    BY <1>3, <1>12
  <2>2. InCalendar(d, Midnight)
    <3>1. Midnight \in DayTime
      BY RangeAssumption DEF Midnight, DayTime
    <3> QED BY <1>1, <1>12, <3>1, Calendar
  <2>3. InCalendar(d, Midnight)'
    BY <2>2 DEF InCalendar, Midnight
  <2> QED BY <1>6, <1>12, <2>1, <2>3 DEF BothFormsRight
<1>13. ASSUME obj.kind = "datetime" PROVE BothFormsRight'
  <2>1. v = Instant(d, time)
    BY <1>11, <1>13 DEF v
  <2>2. InCalendar(d, time)
    BY <1>1, <1>13, Calendar
  <2>3. InCalendar(d, time)' /\ Instant(d, time)' = Instant(d, time)
    BY <2>2 DEF InCalendar, Instant
  <2> QED BY <1>6, <1>13, <2>1, <2>3 DEF BothFormsRight
<1>14. ASSUME obj.kind = "time" PROVE BothFormsRight'
  <2>1. v % Day = Instant(d, time) % Day
    BY <1>1, <1>3, <1>10, <1>11, <1>14, SplitValue
  <2>2. InCalendar(1, time)
    BY <1>1, <1>4, <1>14, Calendar
  <2>3. InCalendar(1, time)' /\ Instant(d, time)' = Instant(d, time)
    BY <2>2 DEF InCalendar, Instant
  <2> QED BY <1>6, <1>14, <2>1, <2>3 DEF BothFormsRight
<1>15. BothFormsRight'
  BY <1>2, <1>12, <1>13, <1>14 DEF Kinds
<1> QED BY <1>7, <1>8, <1>15 DEF DateInv

(***************************************************************************)
(* setFromParts: the value is calculated from the parts the object has,    *)
(* one of which may be the one it was created with.                        *)
(***************************************************************************)
LEMMA SetFromPartsStep ==
  ASSUME DateInv, NEW d \in Days, NEW time \in Times, SetFromParts(d, time)
  PROVE  DateInv'
<1> DEFINE date == <<y, m, d>>
           dd == IF obj.kind = "time" THEN obj.date ELSE date
           tt == IF obj.kind = "date" THEN obj.time ELSE time
           ok == /\ obj.kind = "time" \/ dbIsValidDate(date)
                 /\ obj.kind = "date" \/ dbIsValidTime(time)
<1>1. /\ obj.kind # "none" /\ meant' = <<d, time>> /\ UNCHANGED <<y, m, first>>
      /\ obj' = setFromParts(obj, date, time)
  BY DEF SetFromParts
<1>2. /\ y \in Int /\ m \in 1..12 /\ first \in Int /\ obj \in DateObject
      /\ first = db_days_from_civil(y, m, 1)
      /\ d \in Int /\ time \in Nat \X Nat \X Nat
      /\ obj.date \in Int \X (1..12) \X (1..31) /\ obj.time \in DayTime
  BY Walk, Calendar, Fields DEF DateInv, DateTypeOK
<1>3. CASE ~ok
  <2>1. obj' = ClearedDate(obj)
    BY <1>1, <1>3 DEF setFromParts
  <2>2. meant' \in Days \X Times
    BY <1>1
  <2> QED BY <1>1, <2>1, <2>2, ClearedStep
<1>4. CASE ok
  <2>1. obj.kind # "time" => d \in 1..MonthLength(y, m)
    BY <1>2, <1>4, ValidDates
  <2>2. obj.kind # "date" => time \in DayTime
    BY <1>2, <1>4, Calendar
  <2>3. tt \in DayTime /\ tt \in Nat \X Nat \X Nat
    BY <1>2, <2>2, Calendar
  <2> DEFINE n == db_days_from_civil(dd[1], dd[2], dd[3])
  <2>4. /\ dd = <<dd[1], dd[2], dd[3]>>
        /\ dd[1] \in Int /\ dd[2] \in 1..12 /\ dd[3] \in Int
    BY <1>2
  <2>5. n \in Int /\ _calcDateValue(dd, tt) = n * Day + TimeOfDay(tt)
    <3> HIDE DEF dd, tt
    <3>1. /\ db_days_from_civil(dd[1], dd[2], 1) \in Int
          /\ n = db_days_from_civil(dd[1], dd[2], 1) + dd[3] - 1
      BY <2>4, DayInMonth
    <3>2. _calcDateValue(<<dd[1], dd[2], dd[3]>>, tt) = n * Day + TimeOfDay(tt)
      BY <2>3, <2>4, CalcOf
    <3> QED BY <2>4, <3>1, <3>2
  <2>6. obj.kind # "time" => n = first + d - 1
    <3> SUFFICES ASSUME obj.kind # "time" PROVE n = first + d - 1
      OBVIOUS
    <3>1. dd[1] = y /\ dd[2] = m /\ dd[3] = d
      OBVIOUS
    <3>2. db_days_from_civil(y, m, d) = first + d - 1
      BY <1>2, DayInMonth
    <3> QED BY <3>1, <3>2
  <2>7. obj' = WithFields(obj, FALSE, n * Day + TimeOfDay(tt), dd, tt)
    <3>1. obj' = [[obj EXCEPT !.date = dd, !.time = tt]
                    EXCEPT !.isNull = FALSE,
                           !.value = _calcDateValue([obj EXCEPT !.date = dd, !.time = tt].date,
                                                    [obj EXCEPT !.date = dd, !.time = tt].time)]
      BY <1>1, <1>4 DEF setFromParts, Parts
    <3> HIDE DEF dd, tt
    <3>2. /\ [obj EXCEPT !.date = dd, !.time = tt].date = dd
          /\ [obj EXCEPT !.date = dd, !.time = tt].time = tt
      BY <1>2 DEF DateObject
    <3> QED BY <2>5, <3>1, <3>2 DEF WithFields
  <2> HIDE DEF n
  <2> QED BY <1>1, <2>1, <2>2, <2>3, <2>5, <2>6, <2>7, SetStep
<1> QED BY <1>3, <1>4

(***************************************************************************)
(* setDate: the parts are split from the value.                            *)
(***************************************************************************)
LEMMA SetDateStep ==
  ASSUME DateInv, NEW d \in Days, NEW time \in Times, SetDate(d, time)
  PROVE  DateInv'
<1> DEFINE n == first + d - 1
           v == Instant(d, time)
           date == <<y, m, d>>
           dd == IF obj.kind = "time" THEN obj.date ELSE date
           tt == IF obj.kind = "date" THEN obj.time ELSE time
<1>1. /\ obj.kind # "none" /\ meant' = <<d, time>> /\ UNCHANGED <<y, m, first>>
      /\ InCalendar(d, time) /\ obj' = setDate(obj, v)
  BY DEF SetDate
<1>2. /\ y \in Int /\ m \in 1..12 /\ first \in Int /\ obj \in DateObject
      /\ first = db_days_from_civil(y, m, 1)
      /\ d \in Int /\ time \in Nat \X Nat \X Nat
  BY Walk, Calendar DEF DateInv, DateTypeOK
<1>3. d \in 1..MonthLength(y, m) /\ time \in DayTime
  BY <1>1, <1>2, Calendar
<1>4. v = n * Day + TimeOfDay(time) /\ n \in Int
  BY <1>2, InstantOf
<1>5. db_civil_from_days(n) = date
  BY <1>2, <1>3, Counting
<1>6. _splitDateValue(v).date = date /\ _splitDateValue(v).time = time
  <2> HIDE DEF v, n
  <2> QED BY <1>3, <1>4, <1>5, SplitValue
<1>7. obj' = WithFields(obj, FALSE, n * Day + TimeOfDay(time), dd, tt)
  <2>1. obj' = [[obj EXCEPT !.date = dd, !.time = tt] EXCEPT !.isNull = FALSE, !.value = v]
    <3> HIDE DEF v
    <3> QED BY <1>1, <1>6 DEF setDate, Parts
  <2> HIDE DEF dd, tt, v
  <2> QED BY <1>4, <2>1 DEF WithFields
<1> HIDE DEF n, v
<1> QED BY <1>1, <1>3, <1>4, <1>7, SetStep DEF n

(***************************************************************************)
(* A new object is null.                                                   *)
(***************************************************************************)
LEMMA CreateStep ==
  ASSUME DateInv, NEW kind \in Kinds, Create(kind)
  PROVE  DateInv'
<1>1. obj' = [NoObject EXCEPT !.kind = kind] /\ UNCHANGED <<y, m, first, meant>>
  BY DEF Create
<1>2. /\ obj'.kind = kind /\ obj'.isNull = TRUE
      /\ obj'.date = NoObject.date /\ obj'.time = Midnight
  BY <1>1 DEF NoObject
<1>3. obj' \in DateObject
  <2>1. NoObject \in DateObject
    BY RangeAssumption DEF NoObject, DateObject, Midnight, DayTime
  <2> HIDE DEF NoObject
  <2> QED BY <1>1, <2>1 DEF DateObject
<1>4. DateTypeOK'
  BY <1>1, <1>3 DEF DateInv, DateTypeOK, MinYear, Days, Times
<1>5. DaysCountedRight'
  BY <1>1 DEF DateInv, DaysCountedRight
<1>6. BothFormsRight'
  BY <1>2 DEF BothFormsRight
<1> QED BY <1>4, <1>5, <1>6 DEF DateInv

(***************************************************************************)
(* The invariant is inductive.                                             *)
(***************************************************************************)
LEMMA DateStep == DateInv /\ [DateNext]_dateVars => DateInv'
<1> SUFFICES ASSUME DateInv, [DateNext]_dateVars PROVE DateInv'
  OBVIOUS
<1>1. CASE Clear
  <2>1. obj.kind # "none" /\ obj' = ClearedDate(obj) /\ UNCHANGED <<y, m, first>>
    BY <1>1 DEF Clear
  <2>2. meant' \in Days \X Times
    BY <1>1 DEF Clear, DateInv, DateTypeOK
  <2> QED BY <2>1, <2>2, ClearedStep
<1>2. CASE UNCHANGED dateVars
  <2>1. y' = y /\ m' = m /\ first' = first /\ obj' = obj /\ meant' = meant
    BY <1>2 DEF dateVars
  <2>2. DateTypeOK' /\ DaysCountedRight'
    BY <2>1 DEF DateInv, DateTypeOK, DaysCountedRight, Days, Times, MinYear
  <2>3. BothFormsRight' <=> BothFormsRight
    BY <2>1, Zenon DEF BothFormsRight, InCalendar, Instant
  <2> QED BY <2>2, <2>3 DEF DateInv
<1> QED BY <1>1, <1>2, ForwardStep, BackStep, CreateStep, SetFromPartsStep, SetDateStep
        DEF DateNext

(***************************************************************************)
(* However months are walked and objects set and cleared, days are counted *)
(* right and an object that is not null holds what it was set to in both   *)
(* its forms.                                                              *)
(***************************************************************************)
THEOREM DateInvariance == DateSpec => []DateInv
<1>1. DateInit => DateInv
  <2> SUFFICES ASSUME DateInit PROVE DateInv
    OBVIOUS
  <2>1. /\ y = 1970 /\ m = 1 /\ first = 0 /\ obj = NoObject /\ meant = <<1, Midnight>>
    BY DEF DateInit
  <2>2. y \in MinYear..MaxYear
    BY <2>1, RangeAssumption DEF MinYear
  <2>3. first = db_days_from_civil(y, m, 1)
    BY <2>1, Epoch
  <2>4. DateTypeOK
    <3>1. obj \in DateObject
      BY <2>1, RangeAssumption DEF NoObject, DateObject, Midnight, DayTime
    <3>2. meant \in Days \X Times
      BY <2>1 DEF Days, Times
    <3> QED BY <2>1, <2>2, <3>1, <3>2 DEF DateTypeOK
  <2>5. DaysCountedRight
    BY <2>1, <2>3, Counting DEF DaysCountedRight
  <2>6. BothFormsRight
    BY <2>1 DEF BothFormsRight, NoObject
  <2> QED BY <2>4, <2>5, <2>6 DEF DateInv
<1> QED BY <1>1, DateStep, PTL DEF DateSpec

(***************************************************************************)
(* db_days_from_civil and db_civil_from_days agree with the calendar in    *)
(* every month of the walk, however far it goes.                           *)
(***************************************************************************)
THEOREM DaysAreCountedRight == DateSpec => []DaysCountedRight
<1>1. DateInv => DaysCountedRight
  BY DEF DateInv
<1> QED BY <1>1, DateInvariance, PTL

(***************************************************************************)
(* dbIsValidDate accepts the dates of the calendar from the year 1 on, in  *)
(* every month of the walk, and no others.                                 *)
(***************************************************************************)
THEOREM ValidatorsAreRight == DateSpec => []ValidatorsAgree
<1>1. DateInv => ValidatorsAgree
  <2> SUFFICES ASSUME DateInv PROVE ValidatorsAgree
    OBVIOUS
  <2>1. y \in Int /\ m \in 1..12
    BY Walk DEF DateInv
  <2> QED BY <2>1, ValidDates DEF ValidatorsAgree
<1> QED BY <1>1, DateInvariance, PTL

(***************************************************************************)
(* After setFromParts, setDate and clear in any order an object that is    *)
(* not null holds in both forms the day and the time it was last set to,   *)
(* for any length of a minute and any distance from 1970.                  *)
(***************************************************************************)
THEOREM FormsAreRight == DateSpec => []BothFormsRight
<1>1. DateInv => BothFormsRight
  BY DEF DateInv
<1> QED BY <1>1, DateInvariance, PTL

(***************************************************************************)
(* Every day of an era is one of a year of it.                             *)
(***************************************************************************)
LEMMA EraDays ==
  ASSUME NEW doe, InEra(doe)
  PROVE  \E a, b, c, doy : EraParts(a, b, c, doy) /\ doe = EraDay(a, b, c, doy)
<1>1. doe \in Int /\ 0 <= doe /\ doe <= 146096
  BY DEF InEra
<1> DEFINE a == IF doe = 146096 THEN 3 ELSE doe \div 36524
           r == doe - 36524 * a
<1>2. a \in 0..3 /\ r \in Int /\ 0 <= r /\ r <= 36524 /\ (r = 36524 => a = 3)
      /\ doe = 36524 * a + r
  BY <1>1, SMT
<1> HIDE DEF a, r
<1> DEFINE b == r \div 1461
           s == r - 1461 * b
<1>3. b \in 0..24 /\ s \in 0..1460 /\ r = 1461 * b + s
  BY <1>2, SMT
<1>4. b = 24 /\ s = 1460 => a = 3
  BY <1>2, SMT
<1> HIDE DEF b, s
<1> DEFINE c == IF s = 1460 THEN 3 ELSE s \div 365
           doy == s - 365 * c
<1>5. c \in 0..3 /\ doy \in 0..365 /\ s = 365 * c + doy /\ (doy = 365 => c = 3 /\ s = 1460)
  BY <1>3, SMT
<1> HIDE DEF c, doy
<1>6. EraParts(a, b, c, doy)
  BY <1>2, <1>3, <1>4, <1>5 DEF EraParts
<1>7. doe = EraDay(a, b, c, doy)
  BY <1>2, <1>3, <1>5, SMT DEF EraDay
<1> QED BY <1>6, <1>7

(***************************************************************************)
(* Every number is the day of a date.                                      *)
(***************************************************************************)
LEMMA DayNumbers ==
  ASSUME NEW n \in Int
  PROVE  \E k, p, d : MarchDate(k, p, d) /\ DayNumber(k, p, d) = n
<1> DEFINE z == n + 719468
           era == z \div 146097
           doe == z - era * 146097
<1>1. era \in Int /\ InEra(doe) /\ n = era * 146097 + doe - 719468
  BY SMT DEF InEra
<1> HIDE DEF era, doe
<1>2. PICK a, b, c, doy : EraParts(a, b, c, doy) /\ doe = EraDay(a, b, c, doy)
  BY <1>1, EraDays
<1>3. /\ a \in 0..3 /\ b \in 0..24 /\ c \in 0..3 /\ doy \in 0..365
      /\ doy = 365 => c = 3 /\ (b = 24 => a = 3)
      /\ doe = 36524 * a + 1461 * b + 365 * c + doy
  BY <1>2, SMT DEF EraParts, EraDay
<1> DEFINE yoe == 100 * a + 4 * b + c
           k == era * 400 + yoe
           p == (5 * doy + 2) \div 153
           d == doy - MonthDays(p) + 1
<1>4. /\ p \in 0..11 /\ MonthAndDay(p, d) /\ DayOfYear(p, d) = doy
      /\ (p = 11 /\ d = 29 => doy = 365)
  <2>1. p \in 0..11
    BY <1>3, SMT
  <2>2. /\ 153 * p <= 5 * doy + 2 /\ 5 * doy + 2 <= 153 * p + 152
    BY <1>3, SMT
  <2> HIDE DEF p
  <2>3. p = 0 \/ p = 1 \/ p = 2 \/ p = 3 \/ p = 4 \/ p = 5 \/ p = 6 \/ p = 7 \/ p = 8
        \/ p = 9 \/ p = 10 \/ p = 11
    BY <2>1
  <2>4. d \in 1..Lengths[p + 1] /\ (p = 11 /\ d = 29 => doy = 365)
    BY <1>3, <2>2, <2>3, SMT DEF MonthDays, Lengths
  <2>5. MonthDays(p) \in Int
    BY <2>1, SMT DEF MonthDays
  <2>6. DayOfYear(p, d) = doy
    BY <1>3, <2>5, SMT DEF DayOfYear
  <2> QED BY <2>1, <2>4, <2>6 DEF MonthAndDay
<1>5. k \in Int
  BY <1>1, <1>3, SMT
<1>6. doy = 365 => LeapYear(k + 1)
  BY <1>1, <1>3, SMT DEF LeapYear, Divides
<1>7. MarchDate(k, p, d)
  <2> HIDE DEF k, p, d
  <2> QED BY <1>4, <1>5, <1>6 DEF MarchDate
<1>8. YearDays(k) = era * 146097 + 36524 * a + 1461 * b + 365 * c
  <2>1. k \div 400 = era
    BY <1>1, <1>3, SMT
  <2>2. k \div 100 = 4 * era + a
    BY <1>1, <1>3, SMT
  <2>3. k \div 4 = 100 * era + 25 * a + b
    BY <1>1, <1>3, SMT
  <2> QED BY <1>1, <1>3, <2>1, <2>2, <2>3, SMT DEF YearDays
<1>9. DayNumber(k, p, d) = n
  <2> HIDE DEF k, p, d
  <2> QED BY <1>1, <1>3, <1>4, <1>8, SMT DEF DayNumber, Offset
<1> QED BY <1>7, <1>9

(***************************************************************************)
(* A date told from January and from March.                                *)
(***************************************************************************)
CivilOfMarch(k, p, d, yr, mo) ==
  /\ yr \in Int /\ mo \in 1..12 /\ d \in 1..MonthLength(yr, mo)
  /\ FromMarch(yr, mo) = k /\ MonthFromMarch(mo) = p

(***************************************************************************)
(* Every date told from March is one of the calendar.                      *)
(***************************************************************************)
LEMMA MarchToCivil ==
  ASSUME NEW k, NEW p, NEW d, MarchDate(k, p, d)
  PROVE  \E yr, mo : CivilOfMarch(k, p, d, yr, mo)
<1> DEFINE yr == IF p < 10 THEN k ELSE k + 1
           mo == IF p < 10 THEN p + 3 ELSE p - 9
<1>1. k \in Int /\ p \in 0..11 /\ d \in 1..Lengths[p + 1]
      /\ (p = 11 /\ d = 29 => LeapYear(k + 1))
  BY DEF MarchDate, MonthAndDay
<1>2. /\ yr \in Int /\ mo \in 1..12
      /\ FromMarch(yr, mo) = k /\ MonthFromMarch(mo) = p
  BY <1>1, SMT DEF FromMarch, MonthFromMarch
<1>3. d \in 1..MonthLength(yr, mo)
  <2>1. p = 0 \/ p = 1 \/ p = 2 \/ p = 3 \/ p = 4 \/ p = 5 \/ p = 6 \/ p = 7 \/ p = 8
        \/ p = 9 \/ p = 10 \/ p = 11
    BY <1>1
  <2>2. CASE p # 11
    BY <1>1, <2>1, <2>2, SMT DEF MonthLength, Lengths
  <2>3. CASE p = 11
    <3>1. yr = k + 1 /\ mo = 2 /\ d \in 1..29 /\ (d = 29 => LeapYear(k + 1))
      BY <1>1, <2>3, SMT DEF Lengths
    <3>2. MonthLength(k + 1, 2) = IF LeapYear(k + 1) THEN 29 ELSE 28
      BY DEF MonthLength
    <3>3. d \in 1..MonthLength(k + 1, 2)
      BY <3>1, <3>2
    <3> QED BY <3>1, <3>3, Zenon
  <2> QED BY <2>2, <2>3
<1> QED BY <1>2, <1>3 DEF CivilOfMarch

(***************************************************************************)
(* For every number of days, db_civil_from_days gives a date of the        *)
(* calendar, the one whose number db_days_from_civil says it is.           *)
(***************************************************************************)
THEOREM EveryDayIsADate ==
  ASSUME NEW n \in Int
  PROVE  \E yr \in Int, mo \in 1..12 : \E d \in 1..MonthLength(yr, mo) :
           db_civil_from_days(n) = <<yr, mo, d>> /\ db_days_from_civil(yr, mo, d) = n
<1>1. PICK k, p, d : MarchDate(k, p, d) /\ DayNumber(k, p, d) = n
  BY DayNumbers
<1>2. PICK yr, mo : CivilOfMarch(k, p, d, yr, mo)
  BY <1>1, MarchToCivil
<1>3. /\ yr \in Int /\ mo \in 1..12 /\ d \in 1..MonthLength(yr, mo) /\ d \in Int
      /\ FromMarch(yr, mo) = k /\ MonthFromMarch(mo) = p
  BY <1>2, MonthLengths DEF CivilOfMarch
<1>4. db_days_from_civil(yr, mo, d) = n
  BY <1>1, <1>3, DaysFromCivil
<1>5. db_civil_from_days(n) = <<yr, mo, d>>
  BY <1>3, <1>4, RoundTrip
<1> QED BY <1>3, <1>4, <1>5

(***************************************************************************)
(* Quotient and remainder.                                                 *)
(***************************************************************************)
LEMMA Euclid ==
  ASSUME NEW a \in Int, NEW b \in Nat \ {0}
  PROVE  /\ a \div b \in Int /\ a % b \in Int /\ 0 <= a % b /\ a % b < b
         /\ a = (a \div b) * b + (a % b)
OBVIOUS

(***************************************************************************)
(* _splitDateValue makes of any value, and setDate accepts any, a date of  *)
(* the calendar and a time of the day, and _calcDateValue makes the value  *)
(* of them again (in the code, as far as the year fits an Int).            *)
(***************************************************************************)
THEOREM SplitAndCalc ==
  ASSUME NEW v \in Int
  PROVE  LET s == _splitDateValue(v)
         IN  /\ s.date[1] \in Int /\ s.date[2] \in 1..12
             /\ s.date[3] \in 1..MonthLength(s.date[1], s.date[2])
             /\ s.time \in DayTime
             /\ _calcDateValue(s.date, s.time) = v
<1> DEFINE n == v \div Day
           rem == v % Day
           h == rem \div Hour
           q == rem % Hour
           time == <<h, q \div Minute, rem % Minute>>
<1>0. /\ Minute \in Nat \ {0} /\ Hour = 60 * Minute /\ Day = 24 * Hour
      /\ Hour \in Nat \ {0} /\ Day \in Nat \ {0}
  BY RangeAssumption, SMT DEF Hour, Day
<1>1. n \in Int /\ rem \in Int /\ 0 <= rem /\ rem < Day /\ v = n * Day + rem
  <2>1. Day \in Nat \ {0}
    BY <1>0
  <2> QED BY <2>1, Euclid
<1> HIDE DEF n, rem
<1>2. h \in Int /\ q \in Int /\ 0 <= q /\ q < Hour /\ rem = h * Hour + q
  <2>1. Hour \in Nat \ {0} /\ rem \in Int
    BY <1>0, <1>1
  <2> QED BY <2>1, Euclid
<1>3. h \in 0..23
  <2> HIDE DEF h, q
  <2> QED BY <1>0, <1>1, <1>2, SMT
<1> HIDE DEF h, q
<1> DEFINE i == q \div Minute
           s == q % Minute
<1>4. i \in Int /\ s \in 0..(Minute - 1) /\ q = i * Minute + s
  BY <1>0, <1>2, SMT
<1> HIDE DEF i, s
<1>5. i \in 0..59
  BY <1>0, <1>2, <1>4, SMT
<1> DEFINE t == <<h, i, s>>
<1>6. t \in DayTime /\ TimeOfDay(t) = rem
  BY <1>0, <1>2, <1>3, <1>4, <1>5, SMT DEF DayTime, TimeOfDay
<1> HIDE DEF t
<1>7. v = n * Day + TimeOfDay(t)
  BY <1>1, <1>6
<1>8. _splitDateValue(v).date = db_civil_from_days(n) /\ _splitDateValue(v).time = t
  BY <1>1, <1>6, <1>7, SplitValue
<1>9. PICK yr \in Int, mo \in 1..12 : \E d \in 1..MonthLength(yr, mo) :
        db_civil_from_days(n) = <<yr, mo, d>> /\ db_days_from_civil(yr, mo, d) = n
  BY <1>1, EveryDayIsADate
<1>10. PICK d \in 1..MonthLength(yr, mo) :
         db_civil_from_days(n) = <<yr, mo, d>> /\ db_days_from_civil(yr, mo, d) = n
  BY <1>9
<1>11. d \in Int
  BY MonthLengths
<1>12. t \in Nat \X Nat \X Nat
  BY <1>0, <1>6, SMT DEF DayTime
<1>13. _calcDateValue(<<yr, mo, d>>, t) = v
  BY <1>7, <1>10, <1>11, <1>12, CalcOf
<1> QED BY <1>6, <1>8, <1>10, <1>13
=============================================================================
