-------------------------- MODULE Calendar_proofs --------------------------
(***************************************************************************)
(* Proofs about Calendar: its types, and what the list under the calendar  *)
(* shows, for any number of months, days, entries and requests.            *)
(***************************************************************************)
EXTENDS Calendar, SequenceTheorems, WellFoundedInduction, TLAPS

(* The entries loaded, and those of the cell, are none or the month's.     *)
(* While the month is asked for nothing is loaded and nothing shown.       *)
MonthLoading ==
    ~crossed =>
        /\ copy \in {<<>>, MonthRows(MONTH)} /\ OBJ_SOSIK \in {<<>>, MonthRows(MONTH)}
        /\ \A r \in inflight :
              /\ r.month = MONTH /\ OBJ_SOSIK = <<>> /\ OBJ_CALENDAR = <<>>
              /\ inflight = {r}

(* No answer comes after a day that was chosen with none under way.        *)
ChosenIsQuiet == chosen => inflight = {}

IInv ==
    /\ TypeOK /\ ShownHasDot /\ MonthShown /\ DayShown
    /\ MonthLoading /\ ChosenIsQuiet

-----------------------------------------------------------------------------
(* Induction.  A set of naturals that is not empty has a least element,    *)
(* and so a set that holds 0 and, with a number below N, the next one,     *)
(* holds all numbers up to N.                                              *)
LEMMA LeastNatural ==
    ASSUME NEW T \in SUBSET Nat, T # {}
    PROVE  \E n \in T : \A m \in T : ~(m < n)
<1>1. PICK n \in T : \A m \in T : <<m, n>> \notin OpToRel(<, Nat)
  BY NatLessThanWellFounded, WFMin, Zenon
<1>2. ASSUME NEW m \in T, m < n PROVE FALSE
  <2>1. m \in Nat /\ n \in Nat
    OBVIOUS
  <2>2. <<m, n>> \in Nat \X Nat /\ <<m, n>>[1] = m /\ <<m, n>>[2] = n
    BY <2>1
  <2>3. <<m, n>> \in OpToRel(<, Nat)
    BY <1>2, <2>2, Zenon DEF OpToRel
  <2> QED BY <1>1, <2>3, Zenon
<1> QED BY <1>1, <1>2

LEMMA UpTo ==
    ASSUME NEW N \in Nat, NEW T, 0 \in T, \A n \in 0 .. N : n \in T /\ n < N => n + 1 \in T
    PROVE  \A n \in 0 .. N : n \in T
<1> SUFFICES ASSUME NEW k \in 0 .. N, k \notin T PROVE FALSE
  OBVIOUS
<1>1. (0 .. N) \ T # {} /\ (0 .. N) \ T \in SUBSET Nat
  OBVIOUS
<1>2. PICK n \in (0 .. N) \ T : \A m \in (0 .. N) \ T : ~(m < n)
  BY <1>1, LeastNatural
<1>3. n - 1 \in 0 .. N /\ n - 1 < n /\ n - 1 < N /\ n - 1 + 1 = n
  BY <1>2
<1>4. n - 1 \in T
  BY <1>2, <1>3
<1> QED BY <1>2, <1>3, <1>4

-----------------------------------------------------------------------------
(* f is the function by which RowsOfDay looks at the first n rows.         *)
Loop(f, n, rows, month, day) ==
    f = [k \in 0 .. n |->
            IF k = 0 THEN <<>>
            ELSE IF rows[k].month = month /\ rows[k].day = day
            THEN Append(f[k - 1], rows[k])
            ELSE f[k - 1]]

(* There is such a function ...                                            *)
LEMMA LoopExists ==
    ASSUME NEW rows, Len(rows) \in Nat, NEW month, NEW day
    PROVE  \E f : Loop(f, Len(rows), rows, month, day)
<1> DEFINE N == Len(rows)
           T == {n \in 0 .. N : \E f : Loop(f, n, rows, month, day)}
<1>1. 0 \in T
  <2> DEFINE f == [k \in 0 .. 0 |-> <<>>]
  <2>1. Loop(f, 0, rows, month, day)
    BY DEF Loop
  <2> QED BY <2>1
<1>2. ASSUME NEW n \in 0 .. N, n \in T, n < N PROVE n + 1 \in T
  <2>1. PICK f : Loop(f, n, rows, month, day)
    BY <1>2
  <2> DEFINE On(k) == rows[k].month = month /\ rows[k].day = day
             g == [k \in 0 .. n + 1 |->
                     IF k = 0 THEN <<>>
                     ELSE IF On(k) THEN Append(f[k - 1], rows[k]) ELSE f[k - 1]]
  <2>2. \A k \in 0 .. n : f[k] = IF k = 0 THEN <<>>
                     ELSE IF On(k) THEN Append(f[k - 1], rows[k]) ELSE f[k - 1]
    BY <2>1, Zenon DEF Loop
  <2>3. \A k \in 0 .. n + 1 : g[k] = IF k = 0 THEN <<>>
                     ELSE IF On(k) THEN Append(f[k - 1], rows[k]) ELSE f[k - 1]
    BY Zenon
  <2>4. \A k \in 0 .. n : g[k] = f[k] /\ k \in 0 .. n + 1
    BY <2>2, <2>3
  <2>5. \A k \in 0 .. n + 1 : k # 0 => k - 1 \in 0 .. n
    OBVIOUS
  <2>6. \A k \in 0 .. n + 1 : 
            (IF k = 0 THEN <<>>
                     ELSE IF On(k) THEN Append(f[k - 1], rows[k]) ELSE f[k - 1]) =
            (IF k = 0 THEN <<>>
                     ELSE IF On(k) THEN Append(g[k - 1], rows[k]) ELSE g[k - 1])
    <3> HIDE DEF g, On
    <3> QED BY <2>4, <2>5, Zenon
  <2>7. Loop(g, n + 1, rows, month, day)
    BY <2>6 DEF Loop
  <2> QED BY <1>2, <2>7
<1>3. N \in T
  <2> HIDE DEF T
  <2>1. \A n \in 0 .. N : n \in T /\ n < N => n + 1 \in T
    BY <1>2
  <2>2. \A n \in 0 .. N : n \in T
    BY <1>1, <2>1, UpTo
  <2> QED BY <2>2
<1> QED BY <1>3

(* ... and RowsOfDay is its last value ...                                 *)
LEMMA RowsOfDayLoop ==
    ASSUME NEW rows, Len(rows) \in Nat, NEW month, NEW day
    PROVE  \E f : Loop(f, Len(rows), rows, month, day) /\ RowsOfDay(rows, month, day) = f[Len(rows)]
<1> DEFINE F == CHOOSE f : Loop(f, Len(rows), rows, month, day)
<1>1. Loop(F, Len(rows), rows, month, day)
  BY LoopExists
<1>2. RowsOfDay(rows, month, day) = F[Len(rows)]
  BY DEF RowsOfDay, Loop
<1> QED BY <1>1, <1>2

LEMMA AppendToSet ==
    ASSUME NEW S, NEW s \in Seq(S), NEW e \in S
    PROVE  /\ Append(s, e) \in Seq(S)
           /\ ToSet(Append(s, e)) = ToSet(s) \cup {e}
<1> DEFINE t == Append(s, e)
<1>1. /\ t \in Seq(S) /\ Len(t) = Len(s) + 1 /\ t[Len(s) + 1] = e
      /\ \A k \in 1 .. Len(s) : t[k] = s[k]
  BY AppendProperties
<1>2. Len(s) \in Nat /\ DOMAIN s = 1 .. Len(s) /\ DOMAIN t = 1 .. Len(t)
  BY <1>1, LenProperties
<1> HIDE DEF t
<1>3. ToSet(t) = ToSet(s) \cup {e}
  BY <1>1, <1>2 DEF ToSet
<1> QED BY <1>1, <1>3 DEF t

(* ... so that RowsOfDay keeps the rows of the day and no others.          *)
LEMMA RowsOfDayIsTrue ==
    ASSUME NEW S, NEW rows \in Seq(S), NEW month, NEW day
    PROVE  /\ RowsOfDay(rows, month, day) \in Seq(S)
           /\ ToSet(RowsOfDay(rows, month, day)) =
                {row \in ToSet(rows) : row.month = month /\ row.day = day}
<1>0. Len(rows) \in Nat /\ \A k \in 1 .. Len(rows) : rows[k] \in S
  BY LenProperties, ElementOfSeq
<1>1. PICK f : /\ Loop(f, Len(rows), rows, month, day)
               /\ RowsOfDay(rows, month, day) = f[Len(rows)]
  BY <1>0, RowsOfDayLoop
<1> DEFINE N == Len(rows)
           On(k) == rows[k].month = month /\ rows[k].day = day
           Shown(n) == {rows[k] : k \in {j \in 1 .. n : On(j)}}
           T == {n \in 0 .. N : f[n] \in Seq(S) /\ ToSet(f[n]) = Shown(n)}
<1>2. f[0] = <<>> /\ \A n \in 1 .. N :
          f[n] = IF On(n) THEN Append(f[n - 1], rows[n]) ELSE f[n - 1]
  <2>1. \A n \in 0 .. N : f[n] = IF n = 0 THEN <<>>
            ELSE IF On(n) THEN Append(f[n - 1], rows[n]) ELSE f[n - 1]
    BY <1>1, Zenon DEF Loop
  <2> QED BY <1>0, <2>1
<1>3. 0 \in T
  <2>1. ToSet(<<>>) = {} /\ <<>> \in Seq(S) /\ Shown(0) = {}
    BY DEF ToSet
  <2>2. f[0] \in Seq(S) /\ ToSet(f[0]) = Shown(0)
    <3> HIDE DEF Shown
    <3> QED BY <1>2, <2>1
  <2> QED BY <1>0, <2>2
<1>4. ASSUME NEW n \in 0 .. N, n \in T, n < N PROVE n + 1 \in T
  <2>1. n + 1 \in 1 .. N /\ n + 1 - 1 = n /\ n + 1 \in 0 .. N
    BY <1>0, <1>4
  <2>2. f[n] \in Seq(S) /\ ToSet(f[n]) = Shown(n)
    BY <1>4
  <2>3. CASE On(n + 1)
    <3>1. f[n + 1] = Append(f[n], rows[n + 1])
      <4> HIDE DEF On
      <4>1. f[n + 1] = IF On(n + 1) THEN Append(f[n + 1 - 1], rows[n + 1]) ELSE f[n + 1 - 1]
        BY <1>2, <2>1
      <4>2. f[n + 1] = Append(f[n + 1 - 1], rows[n + 1])
        BY <2>3, <4>1, Zenon
      <4> QED BY <2>1, <4>2
    <3>2. Shown(n + 1) = Shown(n) \cup {rows[n + 1]}
      <4>1. {j \in 1 .. n + 1 : On(j)} = {j \in 1 .. n : On(j)} \cup {n + 1}
        BY <2>1, <2>3
      <4> HIDE DEF On
      <4> QED BY <4>1
    <3>3. f[n + 1] \in Seq(S) /\ ToSet(f[n + 1]) = ToSet(f[n]) \cup {rows[n + 1]}
      BY <1>0, <2>1, <2>2, <3>1, AppendToSet
    <3> QED BY <2>1, <2>2, <3>2, <3>3
  <2>4. CASE ~On(n + 1)
    <3>1. f[n + 1] = f[n]
      BY <1>2, <2>1, <2>4
    <3>2. Shown(n + 1) = Shown(n)
      <4>1. {j \in 1 .. n + 1 : On(j)} = {j \in 1 .. n : On(j)}
        BY <2>1, <2>4
      <4> HIDE DEF On
      <4> QED BY <4>1
    <3> QED BY <2>1, <2>2, <3>1, <3>2
  <2> QED BY <2>3, <2>4
<1>5. N \in T
  <2> HIDE DEF T
  <2>1. \A n \in 0 .. N : n \in T /\ n < N => n + 1 \in T
    BY <1>4
  <2>2. \A n \in 0 .. N : n \in T
    BY <1>0, <1>3, <2>1, UpTo
  <2> QED BY <1>0, <2>2
<1>6. Shown(N) = {row \in ToSet(rows) : row.month = month /\ row.day = day}
  BY <1>0 DEF ToSet
<1> QED BY <1>1, <1>5, <1>6

-----------------------------------------------------------------------------
(* Prefixes, elements and reversals.                                       *)
LEMMA EmptyList == /\ Len(<<>>) = 0 /\ ToSet(<<>>) = {} /\ Reverse(<<>>) = <<>>
                   /\ \A month, day : RowsOfDay(<<>>, month, day) = <<>>
<1>1. Len(<<>>) = 0 /\ DOMAIN <<>> = {}
  OBVIOUS
<1>2. ToSet(<<>>) = {} /\ Reverse(<<>>) = <<>>
  BY <1>1 DEF ToSet, Reverse
<1>3. ASSUME NEW month, NEW day PROVE RowsOfDay(<<>>, month, day) = <<>>
  <2>1. Len(<<>>) \in Nat
    BY <1>1
  <2>2. PICK f : Loop(f, 0, <<>>, month, day) /\ RowsOfDay(<<>>, month, day) = f[0]
    BY <1>1, <2>1, RowsOfDayLoop
  <2> QED BY <2>2 DEF Loop
<1> QED BY <1>1, <1>2, <1>3

LEMMA PrefixOfSame ==
    ASSUME NEW S, NEW s \in Seq(S)
    PROVE  IsPrefix(s, s) /\ IsPrefix(<<>>, s)
<1>1. Len(s) \in Nat /\ Len(<<>>) = 0
  BY LenProperties
<1>2. SubSeq(<<>>, 1, 0) = SubSeq(s, 1, 0)
  OBVIOUS
<1> QED BY <1>1, <1>2 DEF IsPrefix

LEMMA PrefixOfLonger ==
    ASSUME NEW S, NEW s \in Seq(S), NEW t \in Seq(S), NEW u \in Seq(S), IsPrefix(s, t)
    PROVE  IsPrefix(s, t \o u)
<1> DEFINE w == t \o u
<1>1. /\ w \in Seq(S) /\ Len(w) = Len(t) + Len(u)
      /\ \A k \in 1 .. Len(t) : w[k] = t[k]
  BY ConcatProperties
<1>2. Len(s) \in Nat /\ Len(t) \in Nat /\ Len(u) \in Nat /\ Len(s) <= Len(t)
  BY LenProperties DEF IsPrefix
<1> HIDE DEF w
<1>3. SubSeq(w, 1, Len(s)) = SubSeq(t, 1, Len(s))
  <2>1. \A k \in 1 .. Len(s) : k \in 1 .. Len(t) /\ w[k] = t[k]
    BY <1>1, <1>2
  <2> DEFINE n == Len(s)
             a == SubSeq(w, 1, n)
             b == SubSeq(t, 1, n)
  <2>2. \A k \in 1 .. n : w[k] \in S /\ t[k] \in S
    BY <1>1, <1>2, <2>1, ElementOfSeq
  <2>3. n \in Nat
    BY <1>2
  <2>4. /\ a \in Seq(S) /\ Len(a) = (IF 1 <= n THEN n - 1 + 1 ELSE 0)
        /\ \A k \in 1 .. n - 1 + 1 : a[k] = w[1 + k - 1]
    BY <2>2, <2>3, SubSeqProperties
  <2>5. /\ b \in Seq(S) /\ Len(b) = (IF 1 <= n THEN n - 1 + 1 ELSE 0)
        /\ \A k \in 1 .. n - 1 + 1 : b[k] = t[1 + k - 1]
    BY <2>2, <2>3, SubSeqProperties
  <2>6. Len(a) = n /\ Len(b) = n /\ \A k \in 1 .. n : a[k] = w[k] /\ b[k] = t[k]
    BY <2>3, <2>4, <2>5
  <2> QED BY <2>1, <2>4, <2>5, <2>6, SeqEqual
<1> QED BY <1>1, <1>2, <1>3 DEF IsPrefix

LEMMA ReverseConcat ==
    ASSUME NEW S, NEW s \in Seq(S), NEW t \in Seq(S)
    PROVE  /\ s \o t \in Seq(S) /\ Reverse(s \o t) \in Seq(S)
           /\ ToSet(s \o t) = ToSet(s) \cup ToSet(t)
           /\ ToSet(Reverse(s \o t)) = ToSet(s) \cup ToSet(t)
<1> DEFINE u == s \o t
<1>1. /\ u \in Seq(S) /\ Len(u) = Len(s) + Len(t)
      /\ \A k \in 1 .. Len(s) : u[k] = s[k]
      /\ \A k \in Len(s) + 1 .. Len(u) : u[k] = t[k - Len(s)]
  BY ConcatProperties
<1>2. /\ Len(s) \in Nat /\ Len(t) \in Nat
      /\ DOMAIN s = 1 .. Len(s) /\ DOMAIN t = 1 .. Len(t) /\ DOMAIN u = 1 .. Len(u)
  BY <1>1, LenProperties
<1> HIDE DEF u
<1>3. ToSet(u) = ToSet(s) \cup ToSet(t)
  <2>1. \A k \in DOMAIN u : u[k] \in ToSet(s) \cup ToSet(t)
    <3>1. \A k \in 1 .. Len(u) : k \notin 1 .. Len(s) =>
              k \in Len(s) + 1 .. Len(u) /\ k - Len(s) \in 1 .. Len(t)
      BY <1>1, <1>2
    <3> QED BY <1>1, <1>2, <3>1 DEF ToSet
  <2>2. \A k \in DOMAIN s : s[k] \in ToSet(u)
    BY <1>1, <1>2 DEF ToSet
  <2>3. \A k \in DOMAIN t : t[k] \in ToSet(u)
    <3>1. \A k \in 1 .. Len(t) : /\ k + Len(s) \in Len(s) + 1 .. Len(u)
                                 /\ k + Len(s) \in 1 .. Len(u) /\ k + Len(s) - Len(s) = k
      BY <1>1, <1>2
    <3>2. \A k \in 1 .. Len(t) : u[k + Len(s)] = t[k]
      BY <1>1, <3>1
    <3> QED BY <1>2, <3>1, <3>2 DEF ToSet
  <2> QED BY <2>1, <2>2, <2>3 DEF ToSet
<1>4. Reverse(u) \in Seq(S) /\ ToSet(Reverse(u)) = ToSet(u)
  <2> DEFINE v == Reverse(u)
             n == Len(u)
  <2>1. n \in Nat /\ v = [k \in 1 .. n |-> u[(n - k) + 1]]
    BY <1>1, <1>2 DEF Reverse
  <2>2. \A k \in 1 .. n : u[k] \in S
    BY <1>1, ElementOfSeq
  <2> HIDE DEF v, n
  <2>3. \A k \in 1 .. n : (n - k) + 1 \in 1 .. n /\ (n - ((n - k) + 1)) + 1 = k
    BY <2>1
  <2>4. DOMAIN v = 1 .. n /\ \A k \in 1 .. n : v[k] = u[(n - k) + 1] /\ v[k] \in S
    BY <2>1, <2>2, <2>3
  <2>5. v \in Seq(S)
    <3>1. v \in [1 .. n -> S]
      BY <2>1, <2>4
    <3> QED BY <2>1, <3>1, SeqDef
  <2>6. DOMAIN u = 1 .. n
    BY <1>2 DEF n
  <2>7. ToSet(v) = ToSet(u)
    <3>1. \A k \in 1 .. n : v[k] \in ToSet(u)
      BY <2>3, <2>4, <2>6 DEF ToSet
    <3>2. \A k \in 1 .. n : u[k] = v[(n - k) + 1]
      BY <2>3, <2>4
    <3>3. \A k \in 1 .. n : u[k] \in ToSet(v)
      BY <2>3, <2>4, <3>2 DEF ToSet
    <3> QED BY <2>4, <2>6, <3>1, <3>3 DEF ToSet
  <2> QED BY <2>5, <2>7 DEF v
<1> QED BY <1>1, <1>3, <1>4 DEF u

LEMMA PrefixElements ==
    ASSUME NEW S, NEW s \in Seq(S), NEW t \in Seq(S), IsPrefix(s, t)
    PROVE  ToSet(s) \subseteq ToSet(t)
<1>1. /\ Len(s) \in Nat /\ DOMAIN s = 1 .. Len(s) /\ \A k \in 1 .. Len(s) : s[k] \in S
      /\ Len(t) \in Nat /\ DOMAIN t = 1 .. Len(t) /\ \A k \in 1 .. Len(t) : t[k] \in S
  BY LenProperties, ElementOfSeq
<1> DEFINE n == Len(s)
<1>2. n \in Nat /\ n <= Len(t) /\ SubSeq(s, 1, n) = SubSeq(t, 1, n)
  BY <1>1 DEF IsPrefix
<1>3. \A k \in 1 .. n : s[k] \in S /\ t[k] \in S
  BY <1>1, <1>2
<1>4. \A k \in 1 .. n - 1 + 1 : SubSeq(s, 1, n)[k] = s[1 + k - 1]
  BY <1>2, <1>3, SubSeqProperties
<1>5. \A k \in 1 .. n - 1 + 1 : SubSeq(t, 1, n)[k] = t[1 + k - 1]
  BY <1>2, <1>3, SubSeqProperties
<1>6. \A k \in 1 .. n : s[k] = t[k] /\ k \in 1 .. Len(t)
  BY <1>2, <1>4, <1>5
<1> QED BY <1>1, <1>6 DEF ToSet

LEMMA PrefixOfEmpty ==
    ASSUME NEW S, NEW s \in Seq(S), IsPrefix(s, <<>>)
    PROVE  s = <<>>
<1>1. Len(s) \in Nat /\ Len(s) <= 0
  BY LenProperties DEF IsPrefix
<1> QED BY <1>1, EmptySeq

-----------------------------------------------------------------------------
(* The server's lists, and the day the calendar selects by itself.         *)
LEMMA MonthRowsType ==
    ASSUME NEW month \in Months
    PROVE  MonthRows(month) \in Seq(Row)
<1> DEFINE s == Entries[month]
<1>1. s \in Seq(Days)
  BY CalendarAssumption
<1>2. Len(s) \in Nat /\ \A i \in 1 .. Len(s) : s[i] \in Days
  BY <1>1, LenProperties, ElementOfSeq
<1>3. \A i \in 1 .. Len(s) : [month |-> month, pos |-> i, day |-> s[i]] \in Row
  BY <1>2 DEF Row
<1>4. MonthRows(month) \in [1 .. Len(s) -> Row]
  BY <1>3 DEF MonthRows
<1> QED BY <1>2, <1>4, SeqDef

LEMMA AutoDayType == \A month : AutoDay(month) \in Days
BY CalendarAssumption DEF AutoDay, Days

(* The rows of a day are rows of the list.                                 *)
LEMMA RowsOfDayType ==
    ASSUME NEW rows \in Seq(Row), NEW month, NEW day
    PROVE  /\ RowsOfDay(rows, month, day) \in Seq(Row)
           /\ ToSet(RowsOfDay(rows, month, day)) \subseteq ToSet(rows)
BY RowsOfDayIsTrue

-----------------------------------------------------------------------------
LEMMA InitIInv == Init => IInv
<1> SUFFICES ASSUME Init PROVE IInv
  OBVIOUS
<1>1. TypeOK
  <2>1. <<>> \in Seq(Row)
    OBVIOUS
  <2>2. ThisMonth \in Months /\ Today \in Days
    BY CalendarAssumption
  <2>3. inflight \subseteq Request /\ sent \in Nat
    BY <2>2 DEF Init, Request
  <2> QED BY <2>1, <2>2, <2>3 DEF Init, TypeOK
<1>2. ShownHasDot
  BY EmptyList, PrefixOfSame, <1>1 DEF Init, ShownHasDot, TypeOK
<1>3. MonthShown /\ DayShown /\ MonthLoading /\ ChosenIsQuiet
  BY DEF Init, MonthShown, DayShown, MonthLoading, ChosenIsQuiet
<1> QED BY <1>1, <1>2, <1>3 DEF IInv

(* The screen presents another month: both copies of the entries and the   *)
(* list are empty, whatever day is selected.                               *)
LEMMA PresentInv ==
    ASSUME IInv, NEW month \in Months, NEW day \in Days, NEW online \in BOOLEAN,
           presentedDateUpdated(month, online), didSelectDayView(month, day, copy'),
           chosen' = FALSE, settling' \in BOOLEAN
    PROVE  IInv'
<1>1. copy' = <<>> /\ OBJ_SOSIK' = <<>> /\ OBJ_CALENDAR' = <<>>
  BY EmptyList DEF presentedDateUpdated, didSelectDayView
<1>2. <<>> \in Seq(Row)
  OBVIOUS
<1>3. TypeOK'
  <2>1. [id |-> sent, month |-> month] \in Request
    BY DEF IInv, TypeOK, Request
  <2>2. inflight' \subseteq Request /\ sent' \in Nat
    BY <2>1 DEF IInv, TypeOK, presentedDateUpdated
  <2>3. dirty' = TRUE /\ MONTH' = month /\ selected' = day /\ crossed' \in BOOLEAN
    BY DEF presentedDateUpdated, didSelectDayView
  <2> QED BY <1>1, <1>2, <2>2, <2>3 DEF TypeOK
<1>4. ShownHasDot'
  BY <1>1, <1>2, EmptyList, PrefixOfSame DEF presentedDateUpdated, ShownHasDot
<1>5. MonthShown' /\ DayShown' /\ ChosenIsQuiet'
  BY <1>1 DEF MonthShown, DayShown, ChosenIsQuiet
<1>6. MonthLoading'
  <2> DEFINE q == [id |-> sent, month |-> month]
  <2>1. ~crossed' => inflight' \in {{}, {q}}
    BY DEF presentedDateUpdated
  <2>2. MONTH' = month /\ q.month = month
    BY DEF presentedDateUpdated
  <2> HIDE DEF q
  <2> QED BY <1>1, <2>1, <2>2 DEF MonthLoading
<1> QED BY <1>3, <1>4, <1>5, <1>6 DEF IInv

(* A day of the month shown is selected and looked up in the cell's copy.  *)
LEMMA SelectInv ==
    ASSUME IInv, NEW day \in Days, didSelectDayView(MONTH, day, copy), dirty' = TRUE,
           chosen' = (inflight = {} /\ ~dirty), settling' \in BOOLEAN,
           UNCHANGED <<OBJ_SOSIK, copy, MONTH, inflight, sent, crossed>>
    PROVE  IInv'
<1> DEFINE rows == RowsOfDay(copy, MONTH, day)
<1>1. copy \in Seq(Row) /\ OBJ_SOSIK \in Seq(Row) /\ MONTH \in Months
  BY DEF IInv, TypeOK
<1>2. OBJ_CALENDAR' = rows /\ selected' = day
  BY DEF didSelectDayView
<1>3. rows \in Seq(Row) /\ ToSet(rows) \subseteq ToSet(copy)
  BY <1>1, RowsOfDayType
<1>4. TypeOK'
  BY <1>2, <1>3 DEF IInv, TypeOK
<1>5. ShownHasDot'
  <2>1. ToSet(copy) \subseteq ToSet(OBJ_SOSIK)
    BY <1>1, PrefixElements DEF IInv, ShownHasDot
  <2> QED BY <1>2, <1>3, <2>1 DEF IInv, ShownHasDot
<1>6. MonthShown'
  <2> SUFFICES ASSUME ~crossed PROVE MonthShown'
    BY DEF MonthShown
  <2>1. copy = <<>> \/ copy = MonthRows(MONTH)
    BY DEF IInv, MonthLoading
  <2>2. rows = <<>> \/ rows = RowsOfDay(MonthRows(MONTH), MONTH, day)
    BY <2>1, EmptyList
  <2> QED BY <1>2, <2>2 DEF MonthShown
<1>7. DayShown' /\ ChosenIsQuiet'
  <2> SUFFICES ASSUME chosen' PROVE DayShown' /\ ChosenIsQuiet'
    BY DEF DayShown, ChosenIsQuiet
  <2>1. inflight = {} /\ ~dirty
    OBVIOUS
  <2>2. copy = OBJ_SOSIK
    BY <2>1 DEF IInv, ShownHasDot
  <2> QED BY <1>2, <2>1, <2>2 DEF DayShown, ChosenIsQuiet
<1>8. MonthLoading'
  <2> SUFFICES ASSUME ~crossed, NEW r \in inflight
               PROVE  /\ r.month = MONTH /\ OBJ_SOSIK = <<>> /\ OBJ_CALENDAR' = <<>>
                      /\ inflight = {r}
    BY DEF IInv, MonthLoading
  <2>1. r.month = MONTH /\ OBJ_SOSIK = <<>> /\ inflight = {r}
    BY DEF IInv, MonthLoading
  <2>2. copy = <<>>
    BY <1>1, <2>1, PrefixOfEmpty DEF IInv, ShownHasDot
  <2> QED BY <1>2, <2>1, <2>2, EmptyList
<1> QED BY <1>4, <1>5, <1>6, <1>7, <1>8 DEF IInv

(* The cell is drawn.                                                      *)
LEMMA DrawInv ==
    ASSUME IInv, Draw
    PROVE  IInv'
<1>1. TypeOK'
  BY DEF IInv, TypeOK, Draw
<1>2. ShownHasDot'
  BY PrefixOfSame DEF IInv, TypeOK, ShownHasDot, Draw
<1>3. MonthShown' /\ DayShown' /\ ChosenIsQuiet' /\ MonthLoading'
  BY DEF IInv, Draw, MonthShown, DayShown, ChosenIsQuiet, MonthLoading
<1> QED BY <1>1, <1>2, <1>3 DEF IInv

(* An answer comes: of the month shown, unless crossed, to empty lists.    *)
LEMMA CompleteInv ==
    ASSUME IInv, NEW r \in inflight, NEW rows \in {<<>>, MonthRows(r.month)}, Complete(r, rows)
    PROVE  IInv'
<1>1. /\ r.month \in Months /\ OBJ_SOSIK \in Seq(Row) /\ OBJ_CALENDAR \in Seq(Row)
      /\ copy \in Seq(Row)
  BY DEF IInv, TypeOK, Request
<1>2. rows \in Seq(Row)
  <2>1. <<>> \in Seq(Row)
    OBVIOUS
  <2> QED BY <1>1, <2>1, MonthRowsType
<1>3. /\ OBJ_SOSIK' = OBJ_SOSIK \o rows /\ OBJ_CALENDAR' = Reverse(OBJ_CALENDAR \o rows)
      /\ inflight' = inflight \ {r} /\ dirty' = TRUE
      /\ UNCHANGED <<copy, MONTH, selected, settling, sent, crossed, chosen>>
  BY DEF Complete
<1>4. /\ OBJ_SOSIK' \in Seq(Row) /\ OBJ_CALENDAR' \in Seq(Row)
      /\ ToSet(OBJ_SOSIK') = ToSet(OBJ_SOSIK) \cup ToSet(rows)
      /\ ToSet(OBJ_CALENDAR') = ToSet(OBJ_CALENDAR) \cup ToSet(rows)
  BY <1>1, <1>2, <1>3, ReverseConcat
<1>5. TypeOK'
  BY <1>3, <1>4 DEF IInv, TypeOK
<1>6. ShownHasDot'
  <2>1. IsPrefix(copy, OBJ_SOSIK')
    BY <1>1, <1>2, <1>3, PrefixOfLonger DEF IInv, ShownHasDot
  <2> QED BY <1>3, <1>4, <2>1 DEF IInv, ShownHasDot
<1>7. ~chosen'
  BY <1>3 DEF IInv, ChosenIsQuiet
<1>8. DayShown' /\ ChosenIsQuiet'
  BY <1>7 DEF DayShown, ChosenIsQuiet
<1>9. ASSUME ~crossed
      PROVE  /\ OBJ_SOSIK' = rows /\ OBJ_CALENDAR' = Reverse(rows) /\ inflight' = {}
             /\ rows \in {<<>>, MonthRows(MONTH)}
  <2>1. /\ r.month = MONTH /\ OBJ_SOSIK = <<>> /\ OBJ_CALENDAR = <<>> /\ inflight = {r}
    BY <1>9 DEF IInv, MonthLoading
  <2>2. <<>> \o rows = rows
    BY <1>2, ConcatEmptySeq
  <2> QED BY <1>3, <2>1, <2>2
<1>10. MonthShown'
  BY <1>3, <1>9, EmptyList DEF MonthShown
<1>11. MonthLoading'
  BY <1>3, <1>9 DEF IInv, MonthLoading
<1> QED BY <1>5, <1>6, <1>8, <1>10, <1>11 DEF IInv

LEMMA NextInv == IInv /\ [Next]_vars => IInv'
<1> SUFFICES ASSUME IInv, [Next]_vars PROVE IInv'
  OBVIOUS
<1>1. CASE SwipeToMonth
  BY <1>1, PresentInv, AutoDayType DEF SwipeToMonth, Neighbours, IInv, TypeOK
<1>2. CASE TapDay
  BY <1>2, SelectInv DEF TapDay, IInv, TypeOK
<1>3. CASE TapOutDay
  BY <1>3, PresentInv DEF TapOutDay, Neighbours
<1>4. CASE Settle
  BY <1>4, SelectInv, AutoDayType DEF Settle
<1>5. CASE Draw
  BY <1>5, DrawInv
<1>6. ASSUME NEW r \in inflight, AnswerMonth(r) \/ AnswerFailure(r) PROVE IInv'
  BY <1>6, CompleteInv DEF AnswerMonth, AnswerFailure
<1>7. CASE UNCHANGED vars
  BY <1>7 DEF vars, IInv, TypeOK, ShownHasDot, MonthShown, DayShown, MonthLoading, ChosenIsQuiet
<1> QED BY <1>1, <1>2, <1>3, <1>4, <1>5, <1>6, <1>7 DEF Next

LEMMA IInvHolds == Spec => []IInv
<1> QED BY InitIInv, NextInv, PTL DEF Spec

-----------------------------------------------------------------------------
(* The variables keep their types: every list holds entries of the         *)
(* server's, in particular the rows of a day.                              *)
THEOREM CalendarTypeCorrect == Spec => []TypeOK
<1>1. IInv => TypeOK
  BY DEF IInv
<1> QED BY <1>1, IInvHolds, PTL

(* An entry shown under the calendar is an entry loaded, and the cell's    *)
(* copy is at most behind it: S_CALENDAR 92 and P_SOSIK 16 empty the three *)
(* lists in one handler.                                                   *)
THEOREM EntriesShownAreLoaded == Spec => []ShownHasDot
<1>1. IInv => ShownHasDot
  BY DEF IInv
<1> QED BY <1>1, IInvHolds, PTL

(* The list is the month's or the day's unless months were asked for       *)
(* across one another, since a late answer is appended whatever month it   *)
(* is of (P_SOSIK 87, 98).                                                 *)
THEOREM ListIsOfTheMonth == Spec => []MonthShown
<1>1. IInv => MonthShown
  BY DEF IInv
<1> QED BY <1>1, IInvHolds, PTL

(* A day chosen with nothing under way shows its entries from then on      *)
(* (S_CALENDAR 103), however many and in whatever months they are.         *)
THEOREM DayChosenIsShown == Spec => []DayShown
<1>1. IInv => DayShown
  BY DEF IInv
<1> QED BY <1>1, IInvHolds, PTL

=============================================================================
