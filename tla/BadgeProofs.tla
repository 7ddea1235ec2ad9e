---------------------------- MODULE BadgeProofs ----------------------------
(***************************************************************************)
(* Theorems about the badges.                                              *)
(*                                                                         *)
(* The first half is about CodeqlBadge, for every size of a page, every    *)
(* set of critical alerts, and any number of alerts and runs.  Alerts move *)
(* between the pages while these are fetched; what does not change is      *)
(* where the listing stands: what has been fetched is as long as the part  *)
(* of the list that the url skips (Standing), and while none is closed,    *)
(* every alert of the start is fetched or lies behind the url (Pending).   *)
(*                                                                         *)
(* The second half is about the quantiles of the performance badges, the   *)
(* module Quantiles, for any latencies and any number of samples.          *)
(***************************************************************************)
EXTENDS CodeqlBadge, Quantiles,
        SequenceTheorems, FiniteSetTheorems, WellFoundedInduction, TLAPS

TypeInv == /\ open \in Seq(Nat)
           /\ opened \in Nat
           /\ url \in Nat
           /\ alerts \in Seq(Nat)
           /\ count \in Nat
           /\ failed \in BOOLEAN
           /\ calm \in BOOLEAN

(* While the list is fetched, as much has been fetched as the url skips;   *)
(* an error leaves nothing.                                                *)
Standing == /\ pc = "fetch" => ~failed /\ Len(alerts) = url
            /\ pc \in {"write", "commit"} =>
                 Len(alerts) = IF failed THEN 0 ELSE Max({count, url})

(* The file that will be committed is the badge of what was fetched. *)
Committing == pc = "commit" => file = Badge

(* An alert is still to come when it lies behind the url. *)
Ahead == {open[i] : i \in {j \in DOMAIN open : j > url}}

Pending == /\ pc = "fetch" /\ calm => before \subseteq ToSet(alerts) \union Ahead
           /\ Fetched /\ calm => before \subseteq ToSet(alerts)

IInv == TypeInv /\ Standing /\ Committing /\ Pending
-----------------------------------------------------------------------------
(* The lesser and the greater of two numbers. *)
LEMMA MinOfTwo ==
  ASSUME NEW a \in Nat, NEW b \in Nat
  PROVE  Min({a, b}) = IF a <= b THEN a ELSE b
  BY DEF Min

LEMMA MaxOfTwo ==
  ASSUME NEW a \in Nat, NEW b \in Nat
  PROVE  Max({a, b}) = IF a >= b THEN a ELSE b
  BY DEF Max

(* A page is the slice of the list from the url on; what it holds and the  *)
(* list keeps behind it is all that was ahead.                             *)
LEMMA PageIsSlice ==
  ASSUME TypeInv
  PROVE  LET page == SubSeq(open, url + 1, PageEnd) IN
         /\ page \in Seq(Nat)
         /\ HasNext => PageEnd = url + PerPage /\ Len(page) = PerPage
         /\ ~HasNext => PageEnd = Len(open)
         /\ ~HasNext => url + Len(page) = Max({Len(open), url})
         /\ \A i \in DOMAIN open :
              i > url /\ i <= PageEnd => open[i] \in ToSet(page)
  <1> DEFINE page == SubSeq(open, url + 1, PageEnd)
  <1>1. /\ Len(open) \in Nat /\ DOMAIN open = 1..Len(open)
        /\ \A i \in 1..Len(open) : open[i] \in Nat
    BY LenProperties, ElementOfSeq DEF TypeInv
  <1>0. url \in Nat /\ PerPage \in Nat /\ PerPage > 0 /\ Len(open) \in Nat
    BY <1>1, BadgeAssumption DEF TypeInv
  <1> HIDE DEF page
  <1>2. PageEnd = IF url + PerPage <= Len(open) THEN url + PerPage ELSE Len(open)
    BY <1>0, MinOfTwo DEF PageEnd
  <1>3. PageEnd \in Nat /\ PageEnd <= Len(open)
    BY <1>0, <1>2
  <1>4. \A i \in url + 1..PageEnd : open[i] \in Nat
    BY <1>0, <1>1, <1>3
  <1>5. /\ page \in Seq(Nat)
        /\ Len(page) = IF url + 1 <= PageEnd THEN PageEnd - (url + 1) + 1 ELSE 0
        /\ \A k \in 1..PageEnd - (url + 1) + 1 : page[k] = open[url + 1 + k - 1]
    <2>1. url + 1 \in Int /\ PageEnd \in Int
      BY <1>0, <1>3
    <2>2. QED
      BY <1>4, <2>1, SubSeqProperties DEF page
  <1>6. HasNext => PageEnd = url + PerPage /\ Len(page) = PerPage
    BY <1>0, <1>2, <1>5 DEF HasNext
  <1>7. ~HasNext => PageEnd = Len(open)
    BY <1>0, <1>2 DEF HasNext
  <1>8. ~HasNext => url + Len(page) = Max({Len(open), url})
    <2>1. Max({Len(open), url}) = IF Len(open) >= url THEN Len(open) ELSE url
      BY <1>0, MaxOfTwo
    <2>2. SUFFICES ASSUME ~HasNext PROVE url + Len(page) = Max({Len(open), url})
      OBVIOUS
    <2>3. Len(page) = IF url + 1 <= Len(open) THEN Len(open) - url ELSE 0
      BY <1>0, <1>5, <1>7, <2>2
    <2>4. QED
      BY <1>0, <2>1, <2>3
  <1>9. ASSUME NEW i \in DOMAIN open, i > url, i <= PageEnd
        PROVE  open[i] \in ToSet(page)
    <2>1. /\ i \in Nat /\ i - url \in 1..PageEnd - (url + 1) + 1
          /\ url + 1 <= PageEnd /\ url + 1 + (i - url) - 1 = i
      BY <1>0, <1>1, <1>3, <1>9
    <2>2. page[i - url] = open[i]
      BY <1>5, <2>1
    <2>3. i - url \in DOMAIN page
      BY <1>1, <1>3, <1>5, <2>1, LenProperties
    <2>4. QED
      BY <2>2, <2>3 DEF ToSet
  <1>10. QED
    BY <1>5, <1>6, <1>7, <1>8, <1>9 DEF page

(* What two sequences hold together. *)
LEMMA ConcatHolds ==
  ASSUME NEW s \in Seq(Nat), NEW t \in Seq(Nat)
  PROVE  ToSet(s \o t) = ToSet(s) \union ToSet(t)
  <1>1. /\ Len(s) \in Nat /\ DOMAIN s = 1..Len(s)
        /\ Len(t) \in Nat /\ DOMAIN t = 1..Len(t)
    BY LenProperties
  <1>2. /\ s \o t \in Seq(Nat) /\ Len(s \o t) = Len(s) + Len(t)
        /\ \A i \in 1..Len(s) + Len(t) :
             (s \o t)[i] = IF i <= Len(s) THEN s[i] ELSE t[i - Len(s)]
    BY ConcatProperties
  <1>3. DOMAIN (s \o t) = 1..Len(s) + Len(t)
    BY <1>2, LenProperties
  <1>4. ASSUME NEW i \in 1..Len(s) + Len(t)
        PROVE  (s \o t)[i] \in ToSet(s) \union ToSet(t)
    <2>1. CASE i <= Len(s)
      BY <1>1, <1>2, <2>1 DEF ToSet
    <2>2. CASE i > Len(s)
      <3>1. i - Len(s) \in 1..Len(t) /\ (s \o t)[i] = t[i - Len(s)]
        BY <1>1, <1>2, <2>2
      <3>2. t[i - Len(s)] \in ToSet(t)
        BY <1>1, <3>1 DEF ToSet
      <3>3. QED
        BY <3>1, <3>2
    <2>3. QED
      BY <1>1, <2>1, <2>2
  <1>5. ASSUME NEW i \in 1..Len(s)
        PROVE  s[i] \in ToSet(s \o t)
    <2>1. i \in 1..Len(s) + Len(t) /\ (s \o t)[i] = s[i]
      BY <1>1, <1>2
    <2>2. QED
      BY <1>3, <2>1 DEF ToSet
  <1>6. ASSUME NEW i \in 1..Len(t)
        PROVE  t[i] \in ToSet(s \o t)
    <2>1. /\ i + Len(s) \in 1..Len(s) + Len(t) /\ (s \o t)[i + Len(s)] = t[i]
      BY <1>1, <1>2
    <2>2. QED
      BY <1>3, <2>1 DEF ToSet
  <1>7. QED
    BY <1>1, <1>3, <1>4, <1>5, <1>6 DEF ToSet
-----------------------------------------------------------------------------
LEMMA InitIInv == Init => IInv
  <1> SUFFICES ASSUME Init PROVE IInv
    OBVIOUS
  <1>1. TypeInv
    BY EmptySeq DEF Init, TypeInv
  <1>2. Standing /\ Committing /\ Pending
    BY DEF Init, Standing, Committing, Pending, Fetched
  <1>3. QED
    BY <1>1, <1>2 DEF IInv

(* A new alert moves the others one place back; none comes before the url. *)
LEMMA OpensIInv == IInv /\ alert_opens => IInv'
  <1> SUFFICES ASSUME IInv, alert_opens PROVE IInv'
    OBVIOUS
  <1>1. /\ opened' = opened + 1 /\ open' = <<opened'>> \o open
        /\ UNCHANGED <<pc, url, alerts, file, failed, count, before, calm>>
    BY DEF alert_opens, history
  <1>2. /\ open \in Seq(Nat) /\ opened' \in Nat /\ url \in Nat
        /\ <<opened'>> \in Seq(Nat) /\ Len(<<opened'>>) = 1
    BY <1>1 DEF IInv, TypeInv
  <1>3. /\ open' \in Seq(Nat) /\ Len(open') = 1 + Len(open)
        /\ \A i \in 1..1 + Len(open) :
             open'[i] = IF i <= 1 THEN <<opened'>>[i] ELSE open[i - 1]
    BY <1>1, <1>2, ConcatProperties
  <1>4. /\ Len(open) \in Nat /\ DOMAIN open = 1..Len(open)
        /\ DOMAIN open' = 1..1 + Len(open)
    BY <1>2, <1>3, LenProperties
  <1>5. Ahead \subseteq Ahead'
    <2>1. ASSUME NEW j \in DOMAIN open, j > url
          PROVE  j + 1 \in DOMAIN open' /\ j + 1 > url' /\ open'[j + 1] = open[j]
      BY <1>1, <1>2, <1>3, <1>4, <2>1
    <2>2. QED
      BY <2>1 DEF Ahead
  <1>6. TypeInv'
    BY <1>1, <1>2, <1>3 DEF IInv, TypeInv
  <1>7. Standing'
    BY <1>1 DEF IInv, Standing
  <1>8. Committing'
    BY <1>1 DEF IInv, Committing, Badge, summarize
  <1>9. Pending'
    BY <1>1, <1>5 DEF IInv, Pending, Fetched
  <1>10. QED
    BY <1>6, <1>7, <1>8, <1>9 DEF IInv

(* An alert closes: from here on the run is not calm. *)
LEMMA ClosesIInv == IInv /\ alert_closes => IInv'
  <1> SUFFICES ASSUME IInv, alert_closes PROVE IInv'
    OBVIOUS
  <1>1. PICK i \in DOMAIN open : open' = RemoveAt(open, i)
    BY DEF alert_closes
  <1>2. /\ ~calm' /\ UNCHANGED <<opened, pc, url, alerts, file, failed, count, before>>
        /\ calm' \in BOOLEAN
    BY DEF alert_closes
  <1>3. /\ open \in Seq(Nat) /\ Len(open) \in Nat /\ i \in 1..Len(open)
        /\ \A j \in 1..Len(open) : open[j] \in Nat
    BY LenProperties, ElementOfSeq DEF IInv, TypeInv
  <1>4. SubSeq(open, 1, i - 1) \in Seq(Nat)
    <2>1. /\ 1 \in Int /\ i - 1 \in Int
          /\ \A j \in 1..i - 1 : open[j] \in Nat
      BY <1>3
    <2>2. QED
      BY <2>1, SubSeqProperties
  <1>5. SubSeq(open, i + 1, Len(open)) \in Seq(Nat)
    <2>1. /\ i + 1 \in Int /\ Len(open) \in Int
          /\ \A j \in i + 1..Len(open) : open[j] \in Nat
      BY <1>3
    <2>2. QED
      BY <2>1, SubSeqProperties
  <1>6. open' \in Seq(Nat)
    BY <1>1, <1>4, <1>5, ConcatProperties DEF RemoveAt
  <1>7. TypeInv'
    BY <1>2, <1>6 DEF IInv, TypeInv
  <1>8. Standing' /\ Pending'
    BY <1>2 DEF IInv, Standing, Pending, Fetched
  <1>9. Committing'
    BY <1>2 DEF IInv, Committing, Badge, summarize
  <1>10. QED
    BY <1>7, <1>8, <1>9 DEF IInv

(* A run starts in front of the list, with everything ahead of it. *)
LEMMA StartIInv == IInv /\ start => IInv'
  <1> SUFFICES ASSUME IInv, start PROVE IInv'
    OBVIOUS
  <1>1. /\ pc' = "fetch" /\ url' = 0 /\ alerts' = <<>> /\ failed' = FALSE
        /\ count' = 0 /\ before' = ToSet(open) /\ calm' = TRUE
        /\ open' = open /\ opened' = opened
    BY DEF start, server
  <1>2. <<>> \in Seq(Nat) /\ Len(<<>>) = 0
    BY EmptySeq
  <1>3. /\ open \in Seq(Nat) /\ opened \in Nat /\ DOMAIN open = 1..Len(open)
    BY LenProperties DEF IInv, TypeInv
  <1>4. TypeInv'
    BY <1>1, <1>2, <1>3 DEF TypeInv
  <1>5. Standing' /\ Committing'
    BY <1>1, <1>2 DEF Standing, Committing
  <1>6. before' \subseteq Ahead'
    <2>1. ASSUME NEW j \in DOMAIN open
          PROVE  j \in DOMAIN open' /\ j > url' /\ open'[j] = open[j]
      BY <1>1, <1>3, <2>1
    <2>2. QED
      BY <1>1, <2>1 DEF Ahead, ToSet
  <1>7. Pending'
    BY <1>1, <1>6 DEF Pending, Fetched
  <1>8. QED
    BY <1>4, <1>5, <1>7 DEF IInv

(* A page is appended: what was ahead of the url is now fetched, or ahead  *)
(* of the next page's url.                                                 *)
LEMMA PageIInv == IInv /\ fetch_page => IInv'
  <1> SUFFICES ASSUME IInv, fetch_page PROVE IInv'
    OBVIOUS
  <1> DEFINE page == SubSeq(open, url + 1, PageEnd)
  <1>1. /\ pc = "fetch" /\ alerts' = alerts \o page /\ count' = Len(open)
        /\ \/ HasNext /\ url' = url + PerPage /\ pc' = pc
           \/ ~HasNext /\ pc' = "write" /\ url' = url
        /\ UNCHANGED <<open, opened, file, failed, before, calm>>
    BY DEF fetch_page, server
  <1>2. /\ page \in Seq(Nat)
        /\ HasNext => PageEnd = url + PerPage /\ Len(page) = PerPage
        /\ ~HasNext => PageEnd = Len(open)
        /\ ~HasNext => url + Len(page) = Max({Len(open), url})
        /\ \A i \in DOMAIN open :
             i > url /\ i <= PageEnd => open[i] \in ToSet(page)
    BY PageIsSlice DEF IInv
  <1> HIDE DEF page
  <1>3. /\ open \in Seq(Nat) /\ Len(open) \in Nat /\ DOMAIN open = 1..Len(open)
        /\ opened \in Nat /\ url \in Nat /\ PerPage \in Nat
        /\ alerts \in Seq(Nat) /\ failed \in BOOLEAN /\ calm \in BOOLEAN
    BY BadgeAssumption, LenProperties DEF IInv, TypeInv
  <1>4. ~failed /\ Len(alerts) = url
    BY <1>1 DEF IInv, Standing
  <1>5. alerts' \in Seq(Nat) /\ Len(alerts') = url + Len(page)
    BY <1>1, <1>2, <1>3, <1>4, ConcatProperties
  <1>6. ToSet(alerts') = ToSet(alerts) \union ToSet(page)
    BY <1>1, <1>2, <1>3, ConcatHolds
  <1>7. url' \in Nat
    BY <1>1, <1>3
  <1>8. TypeInv'
    BY <1>1, <1>3, <1>5, <1>7 DEF TypeInv
  <1>9. Standing'
    <2>1. CASE HasNext
      BY <1>1, <1>2, <1>4, <1>5, <2>1 DEF Standing
    <2>2. CASE ~HasNext
      BY <1>1, <1>2, <1>4, <1>5, <2>2 DEF Standing
    <2>3. QED
      BY <2>1, <2>2
  <1>10. Committing'
    BY <1>1 DEF Committing
  <1>11. ASSUME NEW i \in DOMAIN open, i > url, i > PageEnd
         PROVE  HasNext /\ open[i] \in Ahead'
    BY <1>1, <1>2, <1>3, <1>11 DEF Ahead
  <1>12. calm => before \subseteq ToSet(alerts') \union Ahead'
    <2>1. SUFFICES ASSUME calm, NEW b \in before
                   PROVE  b \in ToSet(alerts') \union Ahead'
      OBVIOUS
    <2>2. CASE b \in ToSet(alerts)
      BY <1>6, <2>2
    <2>3. CASE b \in Ahead
      <3>1. PICK i \in DOMAIN open : i > url /\ b = open[i]
        BY <2>3 DEF Ahead
      <3>2. CASE i <= PageEnd
        BY <1>2, <1>6, <3>1, <3>2
      <3>3. CASE ~(i <= PageEnd)
        <4>1. PageEnd \in Nat
          BY <1>2, <1>3
        <4>2. i > PageEnd
          BY <1>3, <3>3, <4>1
        <4>3. QED
          BY <1>11, <3>1, <4>2
      <3>4. QED
        BY <3>2, <3>3
    <2>4. QED
      BY <1>1, <2>1, <2>2, <2>3 DEF IInv, Pending
  <1>13. ~HasNext => Ahead' \subseteq ToSet(page)
    <2>1. ASSUME ~HasNext, NEW i \in DOMAIN open', i > url'
          PROVE  open'[i] \in ToSet(page)
      <3>1. i \in DOMAIN open /\ i > url /\ i <= PageEnd /\ open'[i] = open[i]
        BY <1>1, <1>2, <1>3, <2>1
      <3>2. QED
        BY <1>2, <3>1
    <2>2. QED
      BY <2>1 DEF Ahead
  <1>14. Pending'
    <2>1. CASE HasNext
      BY <1>1, <1>12, <2>1 DEF Pending, Fetched
    <2>2. CASE ~HasNext
      <3>1. calm => before \subseteq ToSet(alerts')
        BY <1>6, <1>12, <1>13, <2>2
      <3>2. QED
        BY <1>1, <2>2, <3>1 DEF Pending, Fetched
    <2>3. QED
      BY <2>1, <2>2
  <1>15. QED
    BY <1>8, <1>9, <1>10, <1>14 DEF IInv

(* The steps that leave the list and what was fetched alone, or drop it. *)
LEMMA ErrorIInv == IInv /\ fetch_error => IInv'
  <1> SUFFICES ASSUME IInv, fetch_error PROVE IInv'
    OBVIOUS
  <1>1. /\ failed' = TRUE /\ alerts' = <<>> /\ pc' = "write"
        /\ UNCHANGED <<open, opened, url, file, count, before, calm>>
    BY DEF fetch_error, server
  <1>2. <<>> \in Seq(Nat) /\ Len(<<>>) = 0
    BY EmptySeq
  <1>3. TypeInv'
    BY <1>1, <1>2 DEF IInv, TypeInv
  <1>4. Standing' /\ Committing' /\ Pending'
    BY <1>1, <1>2 DEF Standing, Committing, Pending, Fetched
  <1>5. QED
    BY <1>3, <1>4 DEF IInv

LEMMA BreaksIInv == IInv /\ fetch_breaks => IInv'
  <1> SUFFICES ASSUME IInv, fetch_breaks PROVE IInv'
    OBVIOUS
  <1>1. /\ pc' = "done"
        /\ UNCHANGED <<open, opened, url, alerts, failed, count, calm>>
    BY DEF fetch_breaks, server, history
  <1>2. TypeInv'
    BY <1>1 DEF IInv, TypeInv
  <1>3. Standing' /\ Committing' /\ Pending'
    BY <1>1 DEF Standing, Committing, Pending, Fetched
  <1>4. QED
    BY <1>2, <1>3 DEF IInv

LEMMA WriteIInv == IInv /\ write_badge => IInv'
  <1> SUFFICES ASSUME IInv, write_badge PROVE IInv'
    OBVIOUS
  <1>1. /\ pc = "write"
        /\ \/ file' = Badge /\ pc' = "commit"
           \/ pc' = "done"
        /\ UNCHANGED <<open, opened, url, alerts, failed, count, before, calm>>
    BY DEF write_badge, server, history
  <1>2. TypeInv'
    BY <1>1 DEF IInv, TypeInv
  <1>3. Standing' /\ Pending'
    BY <1>1 DEF IInv, Standing, Pending, Fetched
  <1>4. Committing'
    BY <1>1 DEF Committing, Badge, summarize
  <1>5. QED
    BY <1>2, <1>3, <1>4 DEF IInv

LEMMA CommitIInv == IInv /\ commit => IInv'
  <1> SUFFICES ASSUME IInv, commit PROVE IInv'
    OBVIOUS
  <1>1. /\ pc' = "done"
        /\ UNCHANGED <<open, opened, url, alerts, failed, count, calm>>
    BY DEF commit, server, history
  <1>2. TypeInv'
    BY <1>1 DEF IInv, TypeInv
  <1>3. Standing' /\ Committing' /\ Pending'
    BY <1>1 DEF Standing, Committing, Pending, Fetched
  <1>4. QED
    BY <1>2, <1>3 DEF IInv

LEMMA NextIInv == IInv /\ [Next]_vars => IInv'
  <1>1. IInv /\ UNCHANGED vars => IInv'
    <2> SUFFICES ASSUME IInv, UNCHANGED vars PROVE IInv'
      OBVIOUS
    <2>1. UNCHANGED <<open, opened, pc, url, alerts, file, failed, count, before, calm>>
      BY DEF vars, server, history
    <2>2. TypeInv' /\ Standing'
      BY <2>1 DEF IInv, TypeInv, Standing
    <2>3. Committing'
      BY <2>1 DEF IInv, Committing, Badge, summarize
    <2>4. Pending'
      BY <2>1 DEF IInv, Pending, Fetched, Ahead
    <2>5. QED
      BY <2>2, <2>3, <2>4 DEF IInv
  <1>2. QED
    BY <1>1, OpensIInv, ClosesIInv, StartIInv, PageIInv, ErrorIInv, BreaksIInv,
       WriteIInv, CommitIInv DEF Next
-----------------------------------------------------------------------------
(* The inductive invariant holds in every reachable state. *)
THEOREM Invariance == Spec => []IInv
  BY InitIInv, NextIInv, PTL DEF Spec

(***************************************************************************)
(* However alerts open and close between the pages, the total is how many  *)
(* were open when the last page was answered, or what the url skips.       *)
(***************************************************************************)
THEOREM TotalOfLastPage == Spec => []TotalIsLastCount
  <1>1. IInv => TotalIsLastCount
    BY DEF IInv, Standing, TotalIsLastCount, Fetched
  <1>2. QED
    BY <1>1, Invariance, PTL

(* A sequence with a critical alert has a positive count of them. *)
LEMMA CriticalCounted ==
  ASSUME alerts \in Seq(Nat), ToSet(alerts) \cap Critical # {}
  PROVE  summarize.total # 0 /\ summarize.critical \in Nat /\ summarize.critical > 0
  <1> DEFINE C == {i \in DOMAIN alerts : alerts[i] \in Critical}
  <1>1. Len(alerts) \in Nat /\ DOMAIN alerts = 1..Len(alerts)
    BY LenProperties
  <1>2. PICK i \in DOMAIN alerts : alerts[i] \in Critical
    BY DEF ToSet
  <1>3. IsFiniteSet(C)
    <2>1. IsFiniteSet(1..Len(alerts)) /\ C \subseteq 1..Len(alerts)
      BY <1>1, FS_Interval
    <2>2. QED
      BY <2>1, FS_Subset
  <1>4. Cardinality(C) \in Nat /\ Cardinality(C) # 0
    <2>1. C # {}
      BY <1>2
    <2>2. QED
      BY <1>3, <2>1, FS_CardinalityType, FS_EmptySet
  <1>5. Len(alerts) # 0
    BY <1>1, <1>2
  <1>6. summarize.total = Len(alerts) /\ summarize.critical = Cardinality(C)
    BY DEF summarize
  <1> HIDE DEF C
  <1>7. QED
    BY <1>4, <1>5, <1>6

(***************************************************************************)
(* While no alert closes, none is overlooked, and a critical one of the    *)
(* start makes the badge critical.                                         *)
(***************************************************************************)
THEOREM CalmMissesNone == Spec => []NoneOverlooked
  <1>1. IInv => NoneOverlooked
    <2> SUFFICES ASSUME IInv, Fetched, calm
                 PROVE  /\ before \subseteq ToSet(alerts)
                        /\ before \cap Critical # {} => Badge.color = "critical"
      BY DEF NoneOverlooked
    <2>1. before \subseteq ToSet(alerts)
      BY DEF IInv, Pending
    <2>2. ASSUME before \cap Critical # {}
          PROVE  Badge.color = "critical"
      <3>1. summarize.total # 0 /\ summarize.critical \in Nat /\ summarize.critical > 0
        <4>1. alerts \in Seq(Nat) /\ ToSet(alerts) \cap Critical # {}
          BY <2>1, <2>2 DEF IInv, TypeInv
        <4>2. QED
          BY <4>1, CriticalCounted
      <3>2. Badge.color = pick_color(summarize.total, summarize.critical)
        BY DEF Badge
      <3>3. QED
        BY <3>1, <3>2 DEF pick_color
    <2>3. QED
      BY <2>1, <2>2
  <1>2. QED
    BY <1>1, Invariance, PTL

(***************************************************************************)
(* What is committed is a whole listing or, after an error, the empty one. *)
(***************************************************************************)
THEOREM WholeCommits == Spec => CommitsAreWhole
  <1>1. IInv /\ [Next]_vars =>
          [badge'.total = IF failed THEN 0 ELSE Max({count, url})]_badge
    <2> SUFFICES ASSUME IInv, [Next]_vars, badge' # badge
                 PROVE  badge'.total = IF failed THEN 0 ELSE Max({count, url})
      OBVIOUS
    <2>1. commit
      BY DEF Next, vars, start, fetch_page, fetch_error, fetch_breaks, write_badge,
             alert_opens, alert_closes
    <2>2. pc = "commit" /\ badge' = file
      BY <2>1 DEF commit
    <2>3. badge'.total = Len(alerts)
      BY <2>2 DEF IInv, Committing, Badge, summarize
    <2>4. QED
      BY <2>2, <2>3 DEF IInv, Standing
  <1>2. QED
    BY <1>1, Invariance, PTL DEF Spec, CommitsAreWhole
-----------------------------------------------------------------------------
(* Where each quantile falls among n samples: between the last sample at   *)
(* or below it and the first at or above, which is the one bench.sh picks. *)
LEMMA Falls ==
  ASSUME NEW n \in Nat, n > 0, NEW p \in Quantile
  PROVE  /\ Pos(n, p) \in Nat /\ Lower(n, p) \in Nat /\ Upper(n, p) \in Nat
         /\ Upper(n, p) < n
         /\ Index(n, p) = Upper(n, p)
         /\ 100 * Lower(n, p) <= Pos(n, p) /\ Pos(n, p) < 100 * Lower(n, p) + 100
         /\ Upper(n, p) = IF Pos(n, p) = 100 * Lower(n, p) THEN Lower(n, p)
                                                           ELSE Lower(n, p) + 1
  <1>1. CASE p = 50
    BY <1>1 DEF Pos, Lower, Upper, Index, Clamp
  <1>2. CASE p = 95
    BY <1>2 DEF Pos, Lower, Upper, Index, Clamp
  <1>3. CASE p = 99
    BY <1>3 DEF Pos, Lower, Upper, Index, Clamp
  <1>4. QED
    BY <1>1, <1>2, <1>3 DEF Quantile

(* Between two samples, interpolation can be written from either end. *)
LEMMA EitherEnd ==
  ASSUME NEW a \in Int, NEW b \in Int, NEW f \in Int
  PROVE  100 * a + (b - a) * f = a * (100 - f) + b * f
  OBVIOUS

(* What is interpolated lies between its two samples. *)
LEMMA Between ==
  ASSUME NEW a \in Int, NEW b \in Int, NEW f \in Int, a <= b, 0 <= f, f <= 100
  PROVE  /\ 100 * a <= 100 * a + (b - a) * f
         /\ 100 * a + (b - a) * f <= 100 * b
  OBVIOUS

(* A worse quantile never has a better colour. *)
LEMMA WorseColour ==
  ASSUME NEW x \in Int, NEW y \in Int, x <= y
  PROVE  Rank[latency_color(x)] <= Rank[latency_color(y)]
  <1>1. Rank["green"] = 0 /\ Rank["yellow"] = 1 /\ Rank["red"] = 2
    BY DEF Rank
  <1>2. QED
    BY <1>1 DEF latency_color

(* A set of naturals that is not empty has a least member. *)
LEMMA LeastMember ==
  ASSUME NEW T, T \subseteq Nat, T # {}
  PROVE  \E x \in T : \A y \in T : x <= y
  <1> DEFINE R == OpToRel(<, Nat)
  <1>1. IsWellFoundedOn(R, Nat)
    BY NatLessThanWellFounded
  <1>2. \A x, y \in Nat : y < x => <<y, x>> \in R
    BY DEF OpToRel
  <1> HIDE DEF R
  <1>3. PICK x \in T : \A y \in T : ~(<<y, x>> \in R)
    BY <1>1, WFMin
  <1>4. ASSUME NEW y \in T PROVE x <= y
    <2>1. x \in Nat /\ y \in Nat
      OBVIOUS
    <2>2. ~(y < x)
      BY <1>2, <1>3, <2>1
    <2>3. QED
      BY <2>1, <2>2
  <1>5. QED
    BY <1>4
-----------------------------------------------------------------------------
(* The samples: at least one, each a latency, in order. *)
Ordered(s) == /\ s \in Seq(Nat) /\ Len(s) > 0
              /\ \A i, j \in 1..Len(s) : i <= j => s[i] <= s[j]

(* A sorted sequence has a place for every latency. *)
LEMMA PlaceExists ==
  ASSUME Ordered(sorted), NEW t \in Nat
  PROVE  /\ Position(t) \in 0..Len(sorted)
         /\ \A m \in 1..Position(t) : sorted[m] <= t
         /\ \A m \in Position(t) + 1..Len(sorted) : t < sorted[m]
  <1> DEFINE N == Len(sorted)
             T == {m \in 1..N + 1 : m = N + 1 \/ t < sorted[m]}
  <1>1. N \in Nat /\ \A m \in 1..N : sorted[m] \in Nat
    BY LenProperties, ElementOfSeq DEF Ordered
  <1>2. \A i, j \in 1..N : i <= j => sorted[i] <= sorted[j]
    BY DEF Ordered
  <1> HIDE DEF N
  <1>3. N + 1 \in T /\ T \subseteq Nat
    BY <1>1
  <1>4. PICK x \in T : \A y \in T : x <= y
    BY <1>3, LeastMember
  <1>5. x \in 1..N + 1 /\ x - 1 \in 0..N
    BY <1>1, <1>4
  <1>6. ASSUME NEW m \in 1..x - 1
        PROVE  sorted[m] <= t
    <2>1. m \in 1..N /\ m < x
      BY <1>1, <1>5
    <2>2. ~(t < sorted[m])
      BY <1>1, <1>4, <1>5, <2>1
    <2>3. QED
      BY <1>1, <2>1, <2>2
  <1>7. ASSUME NEW m \in (x - 1) + 1..N
        PROVE  t < sorted[m]
    <2>1. m \in 1..N /\ x <= m /\ x \in 1..N /\ x # N + 1
      BY <1>1, <1>5, <1>7
    <2>2. t < sorted[x]
      BY <1>4, <2>1
    <2>3. QED
      BY <1>1, <1>2, <2>1, <2>2
  <1> DEFINE Place(k) == /\ \A m \in 1..k : sorted[m] <= t
                         /\ \A m \in k + 1..N : t < sorted[m]
  <1>8. Place(x - 1)
    BY <1>6, <1>7
  <1>9. \E k \in 0..N : Place(k)
    BY <1>5, <1>8
  <1>10. Position(t) = CHOOSE k \in 0..N : Place(k)
    BY DEF Position, N
  <1> HIDE DEF Place
  <1>11. Position(t) \in 0..N /\ Place(Position(t))
    BY <1>9, <1>10
  <1>12. QED
    BY <1>11 DEF Place, N

(* What record(t) makes of the samples: those up to the place stay, t      *)
(* comes next, the others move up by one.                                  *)
LEMMA Recorded ==
  ASSUME Ordered(sorted), NEW t \in Nat, record(t)
  PROVE  /\ sorted' \in Seq(Nat) /\ Len(sorted') = Len(sorted) + 1
         /\ \A i \in 1..Position(t) : sorted'[i] = sorted[i]
         /\ sorted'[Position(t) + 1] = t
         /\ \A i \in Position(t) + 2..Len(sorted) + 1 : sorted'[i] = sorted[i - 1]
  <1> DEFINE N == Len(sorted)
             k == Position(t)
             front == SubSeq(sorted, 1, k)
             back == SubSeq(sorted, k + 1, N)
  <1>1. N \in Nat /\ k \in 0..N /\ \A m \in 1..N : sorted[m] \in Nat
    BY PlaceExists, LenProperties, ElementOfSeq DEF Ordered
  <1>2. sorted' = front \o <<t>> \o back
    BY DEF record
  <1> HIDE DEF N, k
  <1>3. /\ front \in Seq(Nat) /\ Len(front) = k
        /\ \A i \in 1..k : front[i] = sorted[i]
    <2>1. 1 \in Int /\ k \in Int /\ \A i \in 1..k : sorted[i] \in Nat
      BY <1>1
    <2>2. /\ front \in Seq(Nat)
          /\ Len(front) = IF 1 <= k THEN k - 1 + 1 ELSE 0
          /\ \A i \in 1..k - 1 + 1 : front[i] = sorted[1 + i - 1]
      BY <2>1, SubSeqProperties
    <2> HIDE DEF front
    <2>3. QED
      BY <1>1, <2>2
  <1>4. /\ back \in Seq(Nat) /\ Len(back) = N - k
        /\ \A i \in 1..N - k : back[i] = sorted[k + i]
    <2>1. k + 1 \in Int /\ N \in Int /\ \A i \in k + 1..N : sorted[i] \in Nat
      BY <1>1
    <2>2. /\ back \in Seq(Nat)
          /\ Len(back) = IF k + 1 <= N THEN N - (k + 1) + 1 ELSE 0
          /\ \A i \in 1..N - (k + 1) + 1 : back[i] = sorted[(k + 1) + i - 1]
      BY <2>1, SubSeqProperties
    <2> HIDE DEF back
    <2>3. \A i \in 1..N - k : i \in 1..N - (k + 1) + 1 /\ (k + 1) + i - 1 = k + i
      BY <1>1
    <2>4. \A i \in 1..N - k : back[i] = sorted[k + i]
      BY <2>2, <2>3
    <2>5. QED
      BY <1>1, <2>2, <2>4
  <1> HIDE DEF front, back
  <1>5. /\ front \o <<t>> \in Seq(Nat) /\ Len(front \o <<t>>) = k + 1
        /\ \A i \in 1..k + 1 : (front \o <<t>>)[i] = IF i <= k THEN sorted[i] ELSE t
    <2>1. <<t>> \in Seq(Nat) /\ Len(<<t>>) = 1 /\ <<t>>[1] = t
      OBVIOUS
    <2>2. /\ front \o <<t>> \in Seq(Nat)
          /\ Len(front \o <<t>>) = k + 1
          /\ \A i \in 1..k + 1 :
               (front \o <<t>>)[i] = IF i <= k THEN front[i] ELSE <<t>>[i - k]
      BY <1>3, <2>1, ConcatProperties
    <2>3. ASSUME NEW i \in 1..k + 1
          PROVE  (front \o <<t>>)[i] = IF i <= k THEN sorted[i] ELSE t
      <3>1. CASE i <= k
        BY <1>1, <1>3, <2>2, <3>1
      <3>2. CASE ~(i <= k)
        <4>1. i - k = 1
          BY <1>1, <3>2
        <4>2. QED
          BY <2>1, <2>2, <3>2, <4>1
      <3>3. QED
        BY <3>1, <3>2
    <2>4. QED
      BY <2>2, <2>3
  <1> DEFINE head == front \o <<t>>
  <1>6. /\ sorted' \in Seq(Nat) /\ Len(sorted') = k + 1 + (N - k)
        /\ \A i \in 1..k + 1 + (N - k) :
             sorted'[i] = IF i <= k + 1 THEN head[i] ELSE back[i - (k + 1)]
    <2>1. head \in Seq(Nat) /\ Len(head) = k + 1 /\ sorted' = head \o back
      BY <1>2, <1>5
    <2> HIDE DEF head
    <2>2. /\ head \o back \in Seq(Nat)
          /\ Len(head \o back) = Len(head) + Len(back)
          /\ \A i \in 1..Len(head) + Len(back) :
               (head \o back)[i] = IF i <= Len(head) THEN head[i]
                                                     ELSE back[i - Len(head)]
      BY <1>4, <2>1, ConcatProperties
    <2>3. QED
      BY <1>4, <2>1, <2>2
  <1>7. \A i \in 1..k + 1 : head[i] = IF i <= k THEN sorted[i] ELSE t
    BY <1>5
  <1> HIDE DEF head
  <1>8. Len(sorted') = N + 1
    BY <1>1, <1>6
  <1>9. \A i \in 1..k : sorted'[i] = sorted[i]
    BY <1>1, <1>6, <1>7
  <1>10. sorted'[k + 1] = t
    BY <1>1, <1>6, <1>7
  <1>11. ASSUME NEW i \in k + 2..N + 1
         PROVE  sorted'[i] = sorted[i - 1]
    <2>1. /\ i \in 1..k + 1 + (N - k) /\ ~(i <= k + 1)
          /\ i - (k + 1) \in 1..N - k /\ k + (i - (k + 1)) = i - 1
      BY <1>1
    <2>2. QED
      BY <1>4, <1>6, <2>1
  <1>12. QED
    BY <1>6, <1>8, <1>9, <1>10, <1>11 DEF N, k

(* Recording keeps the samples in order. *)
LEMMA StaysSorted ==
  ASSUME Ordered(sorted), NEW t \in Nat, record(t)
  PROVE  Ordered(sorted')
  <1> DEFINE N == Len(sorted)
             k == Position(t)
  <1>1. /\ N \in Nat /\ k \in 0..N
        /\ \A m \in 1..N : sorted[m] \in Nat
        /\ \A m \in 1..k : sorted[m] <= t
        /\ \A m \in k + 1..N : t < sorted[m]
        /\ \A i, j \in 1..N : i <= j => sorted[i] <= sorted[j]
    BY PlaceExists, LenProperties, ElementOfSeq DEF Ordered
  <1>2. /\ sorted' \in Seq(Nat) /\ Len(sorted') = N + 1
        /\ \A i \in 1..k : sorted'[i] = sorted[i]
        /\ sorted'[k + 1] = t
        /\ \A i \in k + 2..N + 1 : sorted'[i] = sorted[i - 1]
    BY Recorded
  <1> HIDE DEF N, k
  <1>3. ASSUME NEW i \in 1..N + 1, NEW j \in 1..N + 1, i < j
        PROVE  sorted'[i] <= sorted'[j]
    <2>1. CASE i <= k /\ j <= k
      BY <1>1, <1>2, <1>3, <2>1
    <2>2. CASE i <= k /\ j = k + 1
      BY <1>1, <1>2, <2>2
    <2>3. CASE i <= k /\ j > k + 1
      <3>1. /\ i \in 1..k /\ i \in 1..N /\ j \in k + 2..N + 1
            /\ j - 1 \in 1..N /\ i <= j - 1
        BY <1>1, <1>3, <2>3
      <3>2. QED
        BY <1>1, <1>2, <3>1
    <2>4. CASE i = k + 1
      <3>1. j \in k + 2..N + 1 /\ j - 1 \in k + 1..N /\ j - 1 \in 1..N
        BY <1>1, <1>3, <2>4
      <3>2. QED
        BY <1>1, <1>2, <2>4, <3>1
    <2>5. CASE i > k + 1
      <3>1. /\ i \in k + 2..N + 1 /\ j \in k + 2..N + 1
            /\ i - 1 \in 1..N /\ j - 1 \in 1..N /\ i - 1 <= j - 1
        BY <1>1, <1>3, <2>5
      <3>2. QED
        BY <1>1, <1>2, <3>1
    <2>6. QED
      BY <1>1, <1>3, <2>1, <2>2, <2>3, <2>4, <2>5
  <1>4. \A i \in 1..N + 1 : sorted'[i] \in Nat
    BY <1>2, ElementOfSeq
  <1>5. \A i, j \in 1..N + 1 : i <= j => sorted'[i] <= sorted'[j]
    <2>1. SUFFICES ASSUME NEW i \in 1..N + 1, NEW j \in 1..N + 1, i <= j
                   PROVE  sorted'[i] <= sorted'[j]
      OBVIOUS
    <2>2. CASE i = j
      BY <1>4, <2>2
    <2>3. CASE i # j
      BY <1>1, <1>3, <2>1, <2>3
    <2>4. QED
      BY <2>2, <2>3
  <1>6. QED
    BY <1>1, <1>2, <1>5 DEF Ordered
-----------------------------------------------------------------------------
(* The next sample moves every quantile to where its upper one was, or on. *)
LEMMA MovesOn ==
  ASSUME NEW n \in Nat, n > 0, NEW p \in Quantile
  PROVE  Upper(n, p) <= Lower(n + 1, p)
  <1>1. CASE p = 50
    BY <1>1 DEF Pos, Lower, Upper
  <1>2. CASE p = 95
    BY <1>2 DEF Pos, Lower, Upper
  <1>3. CASE p = 99
    BY <1>3 DEF Pos, Lower, Upper
  <1>4. QED
    BY <1>1, <1>2, <1>3 DEF Quantile

(* Interpolation, the badges' and the engine's, stays between its samples. *)
LEMMA Interpolated ==
  ASSUME NEW s, Ordered(s), NEW p \in Quantile
  PROVE  LET l == Lower(Len(s), p) + 1  u == Upper(Len(s), p) + 1 IN
         /\ l \in 1..Len(s) /\ u \in 1..Len(s)
         /\ s[l] \in Nat /\ s[u] \in Nat
         /\ percentile(s, p) \in Int
         /\ replay_percentile(s, p) = percentile(s, p)
         /\ 100 * s[l] <= percentile(s, p) /\ percentile(s, p) <= 100 * s[u]
  <1> DEFINE n == Len(s)
             L == Lower(n, p)
             U == Upper(n, p)
             a == s[L + 1]
             b == s[U + 1]
             f == Pos(n, p) - 100 * L
  <1>1. /\ n \in Nat /\ n > 0 /\ \A i \in 1..n : s[i] \in Nat
        /\ \A i, j \in 1..n : i <= j => s[i] <= s[j]
    BY LenProperties, ElementOfSeq DEF Ordered
  <1>2. /\ Pos(n, p) \in Nat /\ L \in Nat /\ U \in Nat /\ U < n
        /\ 100 * L <= Pos(n, p) /\ Pos(n, p) < 100 * L + 100
        /\ U = IF Pos(n, p) = 100 * L THEN L ELSE L + 1
    BY <1>1, Falls
  <1>3. percentile(s, p) = 100 * a + (b - a) * f
    BY DEF percentile
  <1>4. replay_percentile(s, p) =
          s[(Pos(n, p) \div 100) + 1] * (100 - (Pos(n, p) - 100 * (Pos(n, p) \div 100)))
          + s[(IF (Pos(n, p) \div 100) + 1 < n THEN (Pos(n, p) \div 100) + 1
                                               ELSE Pos(n, p) \div 100) + 1]
            * (Pos(n, p) - 100 * (Pos(n, p) \div 100))
    BY DEF replay_percentile
  <1>5. Pos(n, p) \div 100 = L
    BY DEF Lower
  <1>6. replay_percentile(s, p) =
          a * (100 - f) + s[(IF L + 1 < n THEN L + 1 ELSE L) + 1] * f
    BY <1>4, <1>5
  <1> HIDE DEF n, L, U
  <1>7. /\ L + 1 \in 1..n /\ U + 1 \in 1..n /\ L + 1 <= U + 1
        /\ f \in Nat /\ f < 100
    BY <1>1, <1>2
  <1>8. a \in Nat /\ b \in Nat /\ a <= b
    BY <1>1, <1>7
  <1>9. s[(IF L + 1 < n THEN L + 1 ELSE L) + 1] * f = b * f
    <2>1. CASE f = 0
      <3>1. /\ U = L /\ L < n /\ (IF L + 1 < n THEN L + 1 ELSE L) + 1 \in 1..n
        BY <1>1, <1>2, <2>1
      <3>2. s[(IF L + 1 < n THEN L + 1 ELSE L) + 1] \in Nat
        BY <1>1, <3>1
      <3>3. QED
        BY <1>8, <2>1, <3>2
    <2>2. CASE f # 0
      <3>1. U = L + 1 /\ L + 1 < n
        BY <1>1, <1>2, <2>2
      <3>2. QED
        BY <3>1
    <2>3. QED
      BY <2>1, <2>2
  <1> HIDE DEF a, b, f
  <1>10. replay_percentile(s, p) = percentile(s, p)
    BY <1>3, <1>6, <1>7, <1>8, <1>9, EitherEnd
  <1>11. /\ 100 * a <= percentile(s, p) /\ percentile(s, p) <= 100 * b
         /\ percentile(s, p) \in Int
    <2>1. a \in Int /\ b \in Int /\ f \in Int /\ a <= b /\ 0 <= f /\ f <= 100
      BY <1>7, <1>8
    <2>2. (b - a) * f \in Int
      BY <2>1
    <2>3. QED
      BY <1>3, <2>1, <2>2, Between
  <1>12. QED
    BY <1>7, <1>8, <1>10, <1>11 DEF n, L, U, a, b

(* The median is the p50 of the engine's interpolation. *)
LEMMA MedianIsP50 ==
  ASSUME NEW s, Ordered(s)
  PROVE  median(s) = replay_percentile(s, 50)
  <1> DEFINE n == Len(s)
             h == n \div 2
  <1>1. n \in Nat /\ n > 0 /\ \A i \in 1..n : s[i] \in Nat
    BY LenProperties, ElementOfSeq DEF Ordered
  <1>2. median(s) = IF n % 2 = 1 THEN 100 * s[h + 1] ELSE 50 * (s[h] + s[h + 1])
    BY DEF median
  <1> DEFINE P == (n - 1) * 50
             q == P \div 100
  <1>3. replay_percentile(s, 50) =
          s[q + 1] * (100 - (P - 100 * q))
          + s[(IF q + 1 < n THEN q + 1 ELSE q) + 1] * (P - 100 * q)
    BY DEF replay_percentile, Pos
  <1>4. CASE n % 2 = 1
    <2>1. /\ q = h /\ P - 100 * q = 0
          /\ h + 1 \in 1..n /\ (IF h + 1 < n THEN h + 1 ELSE h) + 1 \in 1..n
      <3>1. h \in Nat /\ n = 2 * h + 1
        BY <1>1, <1>4
      <3> HIDE DEF n, h
      <3>2. P = 100 * h
        BY <3>1
      <3>3. q = h
        BY <3>1, <3>2
      <3>4. QED
        BY <3>1, <3>2, <3>3
    <2>2. /\ s[h + 1] \in Nat
          /\ s[(IF h + 1 < n THEN h + 1 ELSE h) + 1] \in Nat
      BY <1>1, <2>1
    <2> HIDE DEF n, h, P, q
    <2>3. QED
      BY <1>2, <1>3, <1>4, <2>1, <2>2
  <1>5. CASE ~(n % 2 = 1)
    <2>1. /\ q + 1 = h /\ P - 100 * q = 50 /\ q + 1 < n
          /\ h \in 1..n /\ h + 1 \in 1..n
      BY <1>1, <1>5
    <2>2. s[h] \in Nat /\ s[h + 1] \in Nat
      BY <1>1, <2>1
    <2> HIDE DEF n, h, P, q
    <2>3. QED
      BY <1>2, <1>3, <1>5, <2>1, <2>2
  <1>6. QED
    BY <1>4, <1>5
-----------------------------------------------------------------------------
(* The inductive invariant of Quantiles. *)
InOrder == Ordered(sorted)

LEMMA InitSorted == SamplesInit => InOrder
  <1> SUFFICES ASSUME SamplesInit PROVE Ordered(sorted)
    BY DEF InOrder
  <1>1. PICK t \in Nat : sorted = <<t>>
    BY QuantilesAssumption DEF SamplesInit
  <1>2. sorted \in Seq(Nat) /\ Len(sorted) = 1 /\ sorted[1] = t
    BY <1>1
  <1>3. QED
    BY <1>2 DEF Ordered

LEMMA NextSorted == InOrder /\ [SamplesNext]_sorted => InOrder'
  BY QuantilesAssumption, StaysSorted DEF SamplesNext, InOrder

(* The samples are in order in every reachable state. *)
THEOREM AlwaysSorted == SamplesSpec => []InOrder
  BY InitSorted, NextSorted, PTL DEF SamplesSpec

(***************************************************************************)
(* The three formulas fit each other for every number of samples: median   *)
(* and both interpolations agree, bench.sh picks the sample at or above,   *)
(* and a badge made with its summary is never better.                      *)
(***************************************************************************)
THEOREM OneQuantile == SamplesSpec => []FormulasAgree
  <1>1. InOrder => FormulasAgree
    <2> SUFFICES ASSUME Ordered(sorted) PROVE FormulasAgree
      BY DEF InOrder
    <2>1. median(sorted) = replay_percentile(sorted, 50)
      BY MedianIsP50
    <2>2. ASSUME NEW p \in Quantile
          PROVE  /\ percentile(sorted, p) = replay_percentile(sorted, p)
                 /\ Index(Len(sorted), p) = Upper(Len(sorted), p)
                 /\ FromSamples[p] <= FromSummary[p]
                 /\ Rank[latency_color(FromSamples[p])] <= Rank[latency_color(FromSummary[p])]
      <3> DEFINE u == Upper(Len(sorted), p) + 1
      <3>1. /\ sorted[u] \in Nat /\ percentile(sorted, p) \in Int
            /\ percentile(sorted, p) <= 100 * sorted[u]
            /\ replay_percentile(sorted, p) = percentile(sorted, p)
        BY Interpolated
      <3>2. Index(Len(sorted), p) = Upper(Len(sorted), p)
        BY Falls, LenProperties DEF Ordered
      <3>3. FromSummary[p] = 100 * sorted[u]
        BY <3>2 DEF FromSummary, bench_quantile
      <3>4. FromSamples[p] = percentile(sorted, p)
        BY <2>1, <3>1 DEF FromSamples
      <3> HIDE DEF u
      <3>5. /\ FromSamples[p] \in Int /\ FromSummary[p] \in Int
            /\ FromSamples[p] <= FromSummary[p]
        BY <3>1, <3>3, <3>4
      <3>6. QED
        BY <3>1, <3>2, <3>5, WorseColour
    <2>3. QED
      BY <2>1, <2>2 DEF FormulasAgree
  <1>2. QED
    BY <1>1, AlwaysSorted, PTL

(* After a sample as slow as a quantile, the one below the place where the *)
(* quantile falls next is as slow as the quantile was.                     *)
LEMMA AfterRecording ==
  ASSUME Ordered(sorted), NEW t \in Nat, record(t), NEW p \in Quantile,
         100 * t >= percentile(sorted, p)
  PROVE  100 * sorted'[Lower(Len(sorted'), p) + 1] >= percentile(sorted, p)
  <1> DEFINE n == Len(sorted)
             k == Position(t)
             l == Lower(n, p) + 1
             u == Upper(n, p) + 1
             m == Lower(n + 1, p) + 1
             v == percentile(sorted, p)
  <1>1. /\ n \in Nat /\ n > 0 /\ k \in 0..n
        /\ \A i \in 1..n : sorted[i] \in Nat
        /\ \A i \in 1..k : sorted[i] <= t
        /\ \A i \in k + 1..n : t < sorted[i]
    BY PlaceExists, LenProperties, ElementOfSeq DEF Ordered
  <1>2. /\ Len(sorted') = n + 1
        /\ \A i \in 1..k : sorted'[i] = sorted[i]
        /\ sorted'[k + 1] = t
    BY Recorded
  <1>3. /\ \A i \in 1..n + 1 : sorted'[i] \in Nat
        /\ \A i, j \in 1..n + 1 : i <= j => sorted'[i] <= sorted'[j]
    BY <1>2, StaysSorted, ElementOfSeq DEF Ordered
  <1>4. /\ l \in 1..n /\ u \in 1..n /\ v \in Int
        /\ 100 * sorted[l] <= v /\ v <= 100 * sorted[u]
    BY Interpolated
  <1>5. u = l \/ u = l + 1
    BY <1>1, Falls
  <1>6. m \in 1..n + 1 /\ u <= m
    <2>1. Upper(n, p) <= Lower(n + 1, p)
      BY <1>1, MovesOn
    <2>2. n + 1 \in Nat /\ n + 1 > 0
      BY <1>1
    <2>3. /\ Lower(n + 1, p) \in Nat
          /\ Upper(n + 1, p) \in {Lower(n + 1, p), Lower(n + 1, p) + 1}
          /\ Upper(n + 1, p) < n + 1
      <3>1. PICK w \in Nat : w = n + 1 /\ w > 0
        BY <2>2
      <3>2. /\ Lower(w, p) \in Nat /\ Upper(w, p) < w
            /\ Upper(w, p) \in {Lower(w, p), Lower(w, p) + 1}
        BY <3>1, Falls
      <3>3. QED
        BY <3>1, <3>2
    <2>4. Upper(n, p) \in Nat
      BY <1>1, Falls
    <2>5. QED
      BY <1>1, <2>1, <2>3, <2>4
  <1> HIDE DEF n, k, l, u, m, v
  <1>7. CASE u <= k
    <2>1. u \in 1..k /\ u \in 1..n + 1
      BY <1>1, <1>4, <1>7
    <2>2. sorted'[u] = sorted[u] /\ sorted'[u] <= sorted'[m]
      BY <1>2, <1>3, <1>6, <2>1
    <2>3. sorted[u] \in Nat /\ sorted'[m] \in Nat
      BY <1>1, <1>3, <1>4, <1>6
    <2>4. QED
      BY <1>2, <1>4, <2>2, <2>3 DEF m, v, n
  <1>8. CASE ~(u <= k)
    <2>1. u = k + 1
      <3>1. sorted[l] <= t
        BY <1>1, <1>4 DEF v
      <3>2. l <= k
        <4>1. SUFFICES ASSUME ~(l <= k) PROVE FALSE
          OBVIOUS
        <4>2. l \in k + 1..n
          BY <1>1, <1>4, <4>1
        <4>3. QED
          BY <1>1, <1>4, <3>1, <4>2
      <3>3. QED
        BY <1>1, <1>4, <1>5, <1>8, <3>2
    <2>2. k + 1 \in 1..n + 1 /\ k + 1 <= m
      BY <1>1, <1>6, <2>1
    <2>3. t <= sorted'[m] /\ sorted'[m] \in Nat
      BY <1>2, <1>3, <1>6, <2>2
    <2>4. QED
      BY <1>2, <1>4, <2>3 DEF m, v, n
  <1>9. QED
    BY <1>7, <1>8

(* The two quantiles of a badge after a run as slow or slower. *)
LEMMA SlowerSample ==
  ASSUME Ordered(sorted), NEW t \in Nat, record(t), NEW p \in Quantile
  PROVE  /\ 100 * t >= FromSummary[p] => FromSummary'[p] >= FromSummary[p]
         /\ 100 * t >= FromSamples[p] => FromSamples'[p] >= FromSamples[p]
  <1> DEFINE n == Len(sorted)
             k == Position(t)
             u == Upper(n, p) + 1
             w == Upper(Len(sorted'), p) + 1
             l == Lower(Len(sorted'), p) + 1
  <1>1. /\ n \in Nat /\ n > 0 /\ k \in 0..n
        /\ \A i \in 1..n : sorted[i] \in Nat
        /\ \A i \in k + 1..n : t < sorted[i]
    BY PlaceExists, LenProperties, ElementOfSeq DEF Ordered
  <1>2. /\ Len(sorted') = n + 1
        /\ \A i \in 1..k : sorted'[i] = sorted[i]
    BY Recorded
  <1>3. Ordered(sorted')
    BY StaysSorted
  <1>4. \A i, j \in 1..n + 1 : i <= j => sorted'[i] <= sorted'[j]
    BY <1>2, <1>3 DEF Ordered
  <1>5. /\ u \in 1..n /\ sorted[u] \in Nat
        /\ percentile(sorted, p) \in Int
        /\ replay_percentile(sorted, p) = percentile(sorted, p)
    BY Interpolated
  <1>6. /\ w \in 1..n + 1 /\ l \in 1..n + 1
        /\ sorted'[w] \in Nat /\ sorted'[l] \in Nat
        /\ percentile(sorted', p) \in Int
        /\ replay_percentile(sorted', p) = percentile(sorted', p)
        /\ 100 * sorted'[l] <= percentile(sorted', p)
    BY <1>2, <1>3, Interpolated
  <1>7. FromSummary[p] = 100 * sorted[u] /\ FromSummary'[p] = 100 * sorted'[w]
    <2>1. Index(n, p) = Upper(n, p)
      BY <1>1, Falls
    <2>2. Index(Len(sorted'), p) = Upper(Len(sorted'), p)
      <3>1. Len(sorted') \in Nat /\ Len(sorted') > 0
        BY <1>1, <1>2
      <3>2. QED
        BY <3>1, Falls
    <2>3. QED
      BY <2>1, <2>2 DEF FromSummary, bench_quantile
  <1>8. /\ FromSamples[p] = percentile(sorted, p)
        /\ FromSamples'[p] = percentile(sorted', p)
    <2>1. median(sorted) = replay_percentile(sorted, 50)
      BY MedianIsP50
    <2>2. median(sorted') = replay_percentile(sorted', 50)
      BY <1>3, MedianIsP50
    <2>3. QED
      BY <1>5, <1>6, <2>1, <2>2 DEF FromSamples
  <1>9. u <= w
    <2>1. /\ Upper(n, p) \in Nat /\ Upper(n, p) <= Lower(n + 1, p)
      BY <1>1, MovesOn, Falls
    <2>2. PICK z \in Nat : z = n + 1 /\ z > 0
      BY <1>1
    <2>3. /\ Lower(z, p) \in Nat
          /\ Upper(z, p) \in {Lower(z, p), Lower(z, p) + 1}
      BY <2>2, Falls
    <2>4. QED
      BY <1>2, <2>1, <2>2, <2>3
  <1>10. ASSUME 100 * t >= percentile(sorted, p)
         PROVE  percentile(sorted', p) >= percentile(sorted, p)
    <2>1. 100 * sorted'[l] >= percentile(sorted, p)
      BY <1>10, AfterRecording
    <2> HIDE DEF l
    <2>2. QED
      BY <1>5, <1>6, <2>1
  <1> HIDE DEF n, k, u, w, l
  <1>11. ASSUME 100 * t >= 100 * sorted[u]
         PROVE  100 * sorted'[w] >= 100 * sorted[u]
    <2>1. u <= k
      <3>1. SUFFICES ASSUME ~(u <= k) PROVE FALSE
        OBVIOUS
      <3>2. u \in k + 1..n
        BY <1>1, <1>5, <3>1
      <3>3. QED
        BY <1>1, <1>5, <1>11, <3>2
    <2>2. u \in 1..k /\ u \in 1..n + 1
      BY <1>1, <1>5, <2>1
    <2>3. sorted'[u] = sorted[u] /\ sorted'[u] <= sorted'[w]
      BY <1>2, <1>4, <1>6, <1>9, <2>2
    <2>4. QED
      BY <1>5, <1>6, <2>3
  <1>12. QED
    BY <1>7, <1>8, <1>10, <1>11

(***************************************************************************)
(* No badge gets better by measuring something worse, for any samples.     *)
(***************************************************************************)
THEOREM SlowerNeverHelps == SamplesSpec => SlowerRunNeverHelps
  <1>1. InOrder /\ [SamplesNext]_sorted =>
          [\A t \in Latencies, p \in Quantile : record(t) =>
             /\ 100 * t >= FromSummary[p] => FromSummary'[p] >= FromSummary[p]
             /\ 100 * t >= FromSamples[p] => FromSamples'[p] >= FromSamples[p]]_sorted
    BY QuantilesAssumption, SlowerSample DEF InOrder
  <1>2. QED
    BY <1>1, AlwaysSorted, PTL DEF SamplesSpec, SlowerRunNeverHelps
=============================================================================
