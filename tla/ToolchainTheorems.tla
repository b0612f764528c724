-------------------------- MODULE ToolchainTheorems --------------------------
(***************************************************************************)
(* The generator, and what csim makes of a dataset, the user's own or the  *)
(* generator's.                                                            *)
(***************************************************************************)
EXTENDS Toolchain, DataTheorems

(***************************************************************************)
(* What one call of cluster_add_job_moment does to the list of moments,    *)
(* for lists of every length.  The list need not be sorted: GapsClosed is  *)
(* what is left of order, and what the scan of the code relies on.         *)
(***************************************************************************)
MomentType == [time : Nat, jobs : Seq(Nat)]

Distinct(ms) ==
  \A p, q \in DOMAIN ms : ms[p].time = ms[q].time => p = q

\* No moment further on would fit between two neighbours that are in order.
GapsClosed(ms) ==
  \A i, k \in DOMAIN ms :
    1 < i /\ i < k => ~(ms[i - 1].time < ms[k].time /\ ms[k].time < ms[i].time)

Ascending(ms) ==
  \A p, q \in DOMAIN ms : p < q => ms[p].time < ms[q].time

-----------------------------------------------------------------------------
LEMMA ListTypes ==
  ASSUME NEW ms \in Seq(MomentType)
  PROVE  /\ DOMAIN ms = 1..Len(ms) /\ Len(ms) \in Nat
         /\ \A i \in DOMAIN ms : /\ ms[i] \in MomentType
                               /\ ms[i].time \in Nat
                               /\ ms[i].jobs \in Seq(Nat)
<1>1. DOMAIN ms = 1..Len(ms) /\ Len(ms) \in Nat /\ \A i \in DOMAIN ms : ms[i] \in MomentType
  OBVIOUS
<1> QED
  BY <1>1 DEF MomentType

\* Where the scan of _get_less_equal_moment ends.
LEMMA LessEqualMomentFound ==
  ASSUME NEW ms \in Seq(MomentType), ms # <<>>, NEW m \in Nat
  PROVE  LET p == LessEqualMoment(ms, m)
         IN  /\ p \in DOMAIN ms
             /\ \/ ms[p].time = m
                \/ /\ p = Len(ms)
                   /\ \A i \in DOMAIN ms : ~StopsAt(ms, m, i)
                \/ /\ p + 1 \in DOMAIN ms
                   /\ ms[p].time < m /\ m < ms[p + 1].time
                   /\ \A k \in 1..p : ~StopsAt(ms, m, k)
<1> DEFINE p == LessEqualMoment(ms, m)
<1>0. DOMAIN ms = 1..Len(ms) /\ Len(ms) \in Nat \ {0}
  OBVIOUS
<1>1. CASE \A i \in DOMAIN ms : ~StopsAt(ms, m, i)
  <2>1. p = Len(ms)
    BY <1>1 DEF LessEqualMoment
  <2> QED
    BY <1>0, <1>1, <2>1
<1>2. CASE \E i \in DOMAIN ms : StopsAt(ms, m, i)
  <2> DEFINE First(i) == StopsAt(ms, m, i) /\ \A k \in 1..(i - 1) : ~StopsAt(ms, m, k)
             stops == {i \in DOMAIN ms : StopsAt(ms, m, i)}
             c == CHOOSE i \in DOMAIN ms : First(i)
  <2>1. \E i \in DOMAIN ms : First(i)
    <3>1. stops \in SUBSET Nat /\ stops # {}
      BY <1>0, <1>2
    <3>2. PICK i \in stops : \A k \in stops : i <= k
      BY <3>1, LeastNatural
    <3>3. \A k \in 1..(i - 1) : ~StopsAt(ms, m, k)
      BY <1>0, <3>2
    <3> QED
      BY <3>2, <3>3
  <2>2. c \in DOMAIN ms /\ First(c)
    BY <2>1
  <2>3. p = IF ms[c].time = m THEN c ELSE c - 1
    BY <1>2 DEF LessEqualMoment
  <2> HIDE DEF c
  <2>4. CASE ms[c].time = m
    BY <2>2, <2>3, <2>4
  <2>5. CASE ms[c].time # m
    <3>1. c > 1 /\ ms[c - 1].time < m /\ m < ms[c].time
      BY <2>2, <2>5 DEF StopsAt
    <3>2. p = c - 1 /\ p \in DOMAIN ms /\ p + 1 = c
      BY <1>0, <2>2, <2>3, <2>5, <3>1
    <3> QED
      BY <2>2, <3>1, <3>2
  <2> QED
    BY <2>4, <2>5
<1> QED
  BY <1>1, <1>2

-----------------------------------------------------------------------------
(***************************************************************************)
(* The three ways of cluster_add_job_moment.  In the third the new moment  *)
(* goes to place p + 1, behind the last one or into a gap.                 *)
(***************************************************************************)
StartsList(ms, new, j, m) ==
  ms = <<>> /\ new = <<NewMoment(j, m)>>

JoinsMoment(ms, new, j, m, p) ==
  /\ ms[p].time = m
  /\ Len(new) = Len(ms)
  /\ new[p].time = m
  /\ new[p].jobs = Append(ms[p].jobs, j)
  /\ \A k \in DOMAIN ms : k # p => new[k] = ms[k]

MakesMoment(ms, new, j, m, p) ==
  /\ Len(new) = Len(ms) + 1
  /\ \A k \in 1..(Len(ms) + 1) :
       new[k] = IF k < p + 1 THEN ms[k]
                ELSE IF k = p + 1 THEN NewMoment(j, m) ELSE ms[k - 1]
  /\ \A k \in 1..p : ~StopsAt(ms, m, k)
  /\ p = Len(ms) \/ (ms[p].time < m /\ m < ms[p + 1].time)

LEMMA LongerMoment ==
  ASSUME NEW moment \in MomentType, NEW j \in Nat
  PROVE  LET longer == [moment EXCEPT !.jobs = Append(@, j)]
         IN  /\ longer \in MomentType
             /\ longer.time = moment.time
             /\ longer.jobs = Append(moment.jobs, j)
<1>1. moment.time \in Nat /\ moment.jobs \in Seq(Nat) /\ moment \in [time : Nat, jobs : Seq(Nat)]
  BY DEF MomentType
<1>2. Append(moment.jobs, j) \in Seq(Nat)
  BY <1>1
<1> DEFINE longer == [moment EXCEPT !.jobs = Append(moment.jobs, j)]
<1>3. longer \in [time : Nat, jobs : Seq(Nat)]
  BY <1>1, <1>2
<1>4. longer.time = moment.time /\ longer.jobs = Append(moment.jobs, j)
  BY <1>1
<1> QED
  BY <1>3, <1>4 DEF MomentType

LEMMA AddJobMomentWays ==
  ASSUME NEW ms \in Seq(MomentType), NEW m \in Nat, NEW j \in Nat
  PROVE  LET new == AddJobMoment(ms, j, m)
         IN  /\ new \in Seq(MomentType)
             /\ \/ StartsList(ms, new, j, m)
                \/ \E p \in DOMAIN ms : JoinsMoment(ms, new, j, m, p)
                \/ \E p \in DOMAIN ms : MakesMoment(ms, new, j, m, p)
<1> DEFINE new == AddJobMoment(ms, j, m)
<1> SUFFICES /\ new \in Seq(MomentType)
             /\ \/ StartsList(ms, new, j, m)
                \/ \E k \in DOMAIN ms : JoinsMoment(ms, new, j, m, k)
                \/ \E k \in DOMAIN ms : MakesMoment(ms, new, j, m, k)
  OBVIOUS
<1>1. NewMoment(j, m) \in MomentType
  BY DEF NewMoment, MomentType
<1>2. CASE ms = <<>>
  <2>1. new = <<NewMoment(j, m)>>
    BY <1>2 DEF AddJobMoment
  <2>2. new \in Seq(MomentType)
    BY <1>1, <2>1
  <2> QED
    BY <1>2, <2>1, <2>2 DEF StartsList
<1>3. CASE ms # <<>>
  <2>1. PICK p \in DOMAIN ms :
        /\ p = LessEqualMoment(ms, m)
        /\ \/ ms[p].time = m
           \/ /\ p = Len(ms)
              /\ \A i \in DOMAIN ms : ~StopsAt(ms, m, i)
           \/ /\ p + 1 \in DOMAIN ms
              /\ ms[p].time < m /\ m < ms[p + 1].time
              /\ \A k \in 1..p : ~StopsAt(ms, m, k)
    BY <1>3, LessEqualMomentFound
  <2>2. new = IF ms[p].time = m
                THEN [ms EXCEPT ![p].jobs = Append(@, j)]
                ELSE InsertAt(ms, p + 1, NewMoment(j, m))
    BY <1>3, <2>1 DEF AddJobMoment
  <2> HIDE DEF new
  <2>3. DOMAIN ms = 1..Len(ms) /\ Len(ms) \in Nat
    OBVIOUS
  <2>4. CASE ms[p].time = m
    <3>1. ms[p] \in MomentType
      BY <2>1
    <3> DEFINE longer == [ms[p] EXCEPT !.jobs = Append(@, j)]
    <3>2. /\ longer \in MomentType
          /\ longer.time = m
          /\ longer.jobs = Append(ms[p].jobs, j)
      BY <2>4, <3>1, LongerMoment
    <3>3. new = [ms EXCEPT ![p] = longer]
      BY <2>2, <2>4
    <3> HIDE DEF longer
    <3>4. new \in Seq(MomentType) /\ Len(new) = Len(ms)
      BY <2>1, <3>2, <3>3
    <3>5. \A k \in DOMAIN ms : new[k] = IF k = p THEN longer ELSE ms[k]
      BY <2>1, <3>3
    <3> QED
      BY <2>1, <2>4, <3>2, <3>4, <3>5 DEF JoinsMoment
  <2>5. CASE ms[p].time # m
    <3>1. p + 1 \in 1..(Len(ms) + 1)
      BY <2>1, <2>3
    <3>2. new = InsertAt(ms, p + 1, NewMoment(j, m))
      BY <2>2, <2>5
    <3>3. /\ new \in Seq(MomentType) /\ Len(new) = Len(ms) + 1
          /\ \A k \in 1..(Len(ms) + 1) :
               new[k] = IF k < p + 1 THEN ms[k]
                        ELSE IF k = p + 1 THEN NewMoment(j, m) ELSE ms[k - 1]
      <4> DEFINE i == p + 1
                 e == NewMoment(j, m)
      <4>1. i \in 1..(Len(ms) + 1) /\ e \in MomentType /\ new = InsertAt(ms, i, e)
        BY <1>1, <3>1, <3>2
      <4> HIDE DEF i, e
      <4>2. /\ InsertAt(ms, i, e) \in Seq(MomentType)
            /\ Len(InsertAt(ms, i, e)) = Len(ms) + 1
            /\ \A k \in 1..(Len(ms) + 1) :
                 InsertAt(ms, i, e)[k] = IF k < i THEN ms[k] ELSE IF k = i THEN e ELSE ms[k - 1]
        BY <4>1, InsertAtProperties
      <4> QED
        BY <4>1, <4>2 DEF i, e
    <3>4. \A k \in 1..p : ~StopsAt(ms, m, k)
      BY <2>1, <2>3, <2>5
    <3>5. p = Len(ms) \/ (ms[p].time < m /\ m < ms[p + 1].time)
      BY <2>1, <2>5
    <3> QED
      BY <2>1, <3>3, <3>4, <3>5 DEF MakesMoment
  <2> QED
    BY <2>4, <2>5 DEF new
<1> QED
  BY <1>2, <1>3

\* A new moment is new: no other has its time.
LEMMA MomentIsNew ==
  ASSUME NEW ms \in Seq(MomentType), NEW m \in Nat, NEW j, NEW new,
         NEW p \in DOMAIN ms, GapsClosed(ms), MakesMoment(ms, new, j, m, p)
  PROVE  \A k \in DOMAIN ms : ms[k].time # m
<1> SUFFICES ASSUME NEW k \in DOMAIN ms, ms[k].time = m
             PROVE  FALSE
  OBVIOUS
<1>1. DOMAIN ms = 1..Len(ms) /\ Len(ms) \in Nat
  BY ListTypes
<1>2. \A i \in DOMAIN ms : ms[i].time \in Nat
  BY ListTypes
<1>3. StopsAt(ms, m, k)
  BY DEF StopsAt
<1>4. k > p
  BY <1>1, <1>3 DEF MakesMoment
<1>5. p + 1 \in DOMAIN ms /\ ms[p].time < m /\ m < ms[p + 1].time
  BY <1>1, <1>4 DEF MakesMoment
<1>6. k > p + 1
  BY <1>1, <1>2, <1>4, <1>5
<1>7. p + 1 > 1 /\ (p + 1) - 1 = p
  BY <1>1
<1> QED
  BY <1>5, <1>6, <1>7 DEF GapsClosed

-----------------------------------------------------------------------------
(***************************************************************************)
(* A list in which a job joined its moment has the times it had; one in    *)
(* which a moment was made has the old moments, those behind it shifted.   *)
(***************************************************************************)
Shifted(p, k) == IF k <= p THEN k ELSE k + 1

LEMMA JoinsKeepsTimes ==
  ASSUME NEW ms \in Seq(MomentType), NEW new \in Seq(MomentType), NEW j, NEW m \in Nat,
         NEW p \in DOMAIN ms, JoinsMoment(ms, new, j, m, p)
  PROVE  DOMAIN new = DOMAIN ms /\ \A k \in DOMAIN ms : new[k].time = ms[k].time
<1>1. DOMAIN new = DOMAIN ms
  BY ListTypes DEF JoinsMoment
<1>2. ASSUME NEW k \in DOMAIN ms
      PROVE  new[k].time = ms[k].time
  <2>1. CASE k = p
    BY <2>1 DEF JoinsMoment
  <2>2. CASE k # p
    BY <2>2 DEF JoinsMoment
  <2> QED
    BY <2>1, <2>2
<1> QED
  BY <1>1, <1>2

HasOld(ms, new, p) ==
  /\ \A k \in DOMAIN ms : /\ Shifted(p, k) \in DOMAIN new
                          /\ Shifted(p, k) # p + 1
                          /\ new[Shifted(p, k)] = ms[k]
  /\ \A r \in DOMAIN new : r = p + 1 \/ \E k \in DOMAIN ms : r = Shifted(p, k)

LEMMA MakesShifts ==
  ASSUME NEW ms \in Seq(MomentType), NEW new \in Seq(MomentType), NEW j, NEW m \in Nat,
         NEW p \in DOMAIN ms, MakesMoment(ms, new, j, m, p)
  PROVE  /\ p + 1 \in DOMAIN new /\ new[p + 1] = NewMoment(j, m)
         /\ HasOld(ms, new, p)
<1>1. /\ DOMAIN ms = 1..Len(ms) /\ Len(ms) \in Nat /\ p \in 1..Len(ms)
      /\ DOMAIN new = 1..(Len(ms) + 1)
  BY ListTypes DEF MakesMoment
<1>2. p + 1 \in DOMAIN new /\ new[p + 1] = NewMoment(j, m)
  BY <1>1 DEF MakesMoment
<1>3. ASSUME NEW k \in DOMAIN ms
      PROVE  /\ Shifted(p, k) \in DOMAIN new
             /\ Shifted(p, k) # p + 1
             /\ new[Shifted(p, k)] = ms[k]
  <2>1. CASE k <= p
    BY <1>1, <2>1 DEF Shifted, MakesMoment
  <2>2. CASE k > p
    <3>1. Shifted(p, k) = k + 1 /\ (k + 1) - 1 = k
      BY <1>1, <2>2 DEF Shifted
    <3> QED
      BY <1>1, <2>2, <3>1 DEF MakesMoment
  <2> QED
    BY <1>1, <2>1, <2>2
<1>4. ASSUME NEW r \in DOMAIN new, r # p + 1
      PROVE  \E k \in DOMAIN ms : r = Shifted(p, k)
  <2>1. CASE r <= p
    BY <1>1, <2>1 DEF Shifted
  <2>2. CASE r > p
    <3>1. r - 1 \in DOMAIN ms /\ r = Shifted(p, r - 1)
      BY <1>1, <1>4, <2>2 DEF Shifted
    <3> QED
      BY <3>1
  <2> QED
    BY <1>1, <2>1, <2>2
<1> QED
  BY <1>2, <1>3, <1>4 DEF HasOld

LEMMA StartsHasOne ==
  ASSUME NEW ms, NEW new \in Seq(MomentType), NEW j, NEW m, StartsList(ms, new, j, m)
  PROVE  DOMAIN new = {1}
<1>1. new = <<NewMoment(j, m)>>
  BY DEF StartsList
<1>2. Len(new) = 1
  BY <1>1
<1>3. DOMAIN new = 1..1
  BY <1>2, ListTypes
<1> QED
  BY <1>3

\* No step of the loader makes two moments of one time, and the gaps stay shut.
LEMMA AddKeepsDistinct ==
  ASSUME NEW ms \in Seq(MomentType), NEW m \in Nat, NEW j \in Nat,
         Distinct(ms), GapsClosed(ms)
  PROVE  Distinct(AddJobMoment(ms, j, m))
<1> DEFINE new == AddJobMoment(ms, j, m)
<1>1. /\ new \in Seq(MomentType)
      /\ \/ StartsList(ms, new, j, m)
         \/ \E p \in DOMAIN ms : JoinsMoment(ms, new, j, m, p)
         \/ \E p \in DOMAIN ms : MakesMoment(ms, new, j, m, p)
  BY AddJobMomentWays
<1> SUFFICES Distinct(new)
  OBVIOUS
<1> HIDE DEF new
<1>2. CASE StartsList(ms, new, j, m)
  BY <1>1, <1>2, StartsHasOne DEF Distinct
<1>3. ASSUME NEW p \in DOMAIN ms, JoinsMoment(ms, new, j, m, p)
      PROVE  Distinct(new)
  BY <1>1, <1>3, JoinsKeepsTimes DEF Distinct
<1>4. ASSUME NEW p \in DOMAIN ms, MakesMoment(ms, new, j, m, p)
      PROVE  Distinct(new)
  <2> SUFFICES ASSUME NEW r \in DOMAIN new, NEW s \in DOMAIN new, new[r].time = new[s].time
               PROVE  r = s
    BY DEF Distinct
  <2>1. /\ new[p + 1].time = m
        /\ \A k \in DOMAIN ms : new[Shifted(p, k)] = ms[k] /\ Shifted(p, k) # p + 1
        /\ \A q \in DOMAIN new : q = p + 1 \/ \E k \in DOMAIN ms : q = Shifted(p, k)
    <3>1. new[p + 1] = NewMoment(j, m)
      BY <1>1, <1>4, MakesShifts
    <3>2. NewMoment(j, m).time = m
      BY DEF NewMoment
    <3>3. HasOld(ms, new, p)
      BY <1>1, <1>4, MakesShifts
    <3> QED
      BY <3>1, <3>2, <3>3 DEF HasOld
  <2>2. \A k \in DOMAIN ms : ms[k].time # m
    BY <1>4, MomentIsNew
  <2>3. CASE r = p + 1 \/ s = p + 1
    BY <2>1, <2>2, <2>3
  <2>4. CASE r # p + 1 /\ s # p + 1
    BY <2>1, <2>4 DEF Distinct
  <2> QED
    BY <2>3, <2>4
<1> QED
  BY <1>1, <1>2, <1>3, <1>4

LEMMA AddKeepsGapsClosed ==
  ASSUME NEW ms \in Seq(MomentType), NEW m \in Nat, NEW j \in Nat, GapsClosed(ms)
  PROVE  GapsClosed(AddJobMoment(ms, j, m))
<1> DEFINE new == AddJobMoment(ms, j, m)
<1>1. /\ new \in Seq(MomentType)
      /\ \/ StartsList(ms, new, j, m)
         \/ \E p \in DOMAIN ms : JoinsMoment(ms, new, j, m, p)
         \/ \E p \in DOMAIN ms : MakesMoment(ms, new, j, m, p)
  BY AddJobMomentWays
<1> SUFFICES GapsClosed(new)
  OBVIOUS
<1> HIDE DEF new
<1>2. CASE StartsList(ms, new, j, m)
  <2>1. DOMAIN new = {1}
    BY <1>1, <1>2, StartsHasOne
  <2> QED
    BY <2>1 DEF GapsClosed
<1>3. ASSUME NEW p \in DOMAIN ms, JoinsMoment(ms, new, j, m, p)
      PROVE  GapsClosed(new)
  <2> SUFFICES ASSUME NEW i \in DOMAIN new, NEW k \in DOMAIN new, 1 < i, i < k,
                      new[i - 1].time < new[k].time, new[k].time < new[i].time
               PROVE  FALSE
    BY DEF GapsClosed
  <2>1. DOMAIN new = DOMAIN ms /\ \A q \in DOMAIN ms : new[q].time = ms[q].time
    BY <1>1, <1>3, JoinsKeepsTimes
  <2>2. i - 1 \in DOMAIN ms
    BY <2>1, ListTypes
  <2> QED
    BY <2>1, <2>2 DEF GapsClosed
<1>4. ASSUME NEW p \in DOMAIN ms, MakesMoment(ms, new, j, m, p)
      PROVE  GapsClosed(new)
  <2> SUFFICES ASSUME NEW i \in DOMAIN new, NEW k \in DOMAIN new, 1 < i, i < k,
                      new[i - 1].time < new[k].time, new[k].time < new[i].time
               PROVE  FALSE
    BY DEF GapsClosed
  <2>1. /\ DOMAIN ms = 1..Len(ms) /\ Len(ms) \in Nat /\ p \in 1..Len(ms)
        /\ DOMAIN new = 1..(Len(ms) + 1)
        /\ i \in 2..(Len(ms) + 1) /\ k \in 3..(Len(ms) + 1)
        /\ \A q \in DOMAIN ms : ms[q].time \in Nat
    BY <1>1, <1>4, ListTypes DEF MakesMoment
  <2>2. /\ \A q \in 1..p : new[q] = ms[q]
        /\ new[p + 1].time = m
        /\ \A q \in (p + 2)..(Len(ms) + 1) : new[q] = ms[q - 1]
    <3>1. \A q \in 1..(Len(ms) + 1) :
            new[q] = IF q < p + 1 THEN ms[q]
                     ELSE IF q = p + 1 THEN NewMoment(j, m) ELSE ms[q - 1]
      BY <1>4 DEF MakesMoment
    <3>2. \A q \in 1..p : q \in 1..(Len(ms) + 1) /\ q < p + 1
      BY <2>1
    <3>3. p + 1 \in 1..(Len(ms) + 1) /\ ~(p + 1 < p + 1)
      BY <2>1
    <3>4. \A q \in (p + 2)..(Len(ms) + 1) :
            q \in 1..(Len(ms) + 1) /\ ~(q < p + 1) /\ q # p + 1
      BY <2>1
    <3>5. new[p + 1] = NewMoment(j, m) /\ NewMoment(j, m).time = m
      BY <3>1, <3>3 DEF NewMoment
    <3> QED
      BY <3>1, <3>2, <3>4, <3>5
  <2>3. CASE k <= p
    <3>1. i \in 1..p /\ i - 1 \in 1..p /\ k \in 1..p
      BY <2>1, <2>3
    <3>2. i \in DOMAIN ms /\ k \in DOMAIN ms
      BY <2>1, <3>1
    <3> QED
      BY <2>2, <3>1, <3>2 DEF GapsClosed
  <2>4. CASE k = p + 1
    <3>1. i \in 1..p /\ i - 1 \in 1..p
      BY <2>1, <2>4
    <3>2. StopsAt(ms, m, i)
      BY <2>1, <2>2, <2>4, <3>1 DEF StopsAt
    <3> QED
      BY <1>4, <3>1, <3>2 DEF MakesMoment
  <2>5. CASE k > p + 1
    <3>1. k - 1 \in DOMAIN ms /\ new[k] = ms[k - 1]
      <4>1. k \in (p + 2)..(Len(ms) + 1) /\ k - 1 \in 1..Len(ms)
        BY <2>1, <2>5
      <4>2. new[k] = ms[k - 1]
        BY <2>2, <4>1
      <4> QED
        BY <2>1, <4>1, <4>2
    <3>2. p + 1 \in DOMAIN ms /\ ms[p].time < m /\ m < ms[p + 1].time
      BY <1>4, <2>1, <2>5 DEF MakesMoment
    <3>3. CASE i <= p
      <4>1. i \in DOMAIN ms /\ i - 1 \in DOMAIN ms /\ new[i] = ms[i] /\ new[i - 1] = ms[i - 1]
        BY <2>1, <2>2, <3>3
      <4>2. i < k - 1
        BY <2>1, <2>5, <3>3
      <4> QED
        BY <3>1, <4>1, <4>2 DEF GapsClosed
    <3>4. CASE i = p + 1
      <4>1. new[i - 1] = ms[p] /\ new[i].time = m
        BY <2>1, <2>2, <3>4
      <4>2. ms[p].time < ms[k - 1].time /\ ms[k - 1].time < ms[p + 1].time
        <5>1. ms[p].time < ms[k - 1].time /\ ms[k - 1].time < m
          BY <3>1, <4>1
        <5>2. ms[k - 1].time \in Nat /\ ms[p + 1].time \in Nat
          BY <2>1, <3>1, <3>2
        <5> QED
          BY <3>2, <5>1, <5>2
      <4>3. k - 1 > p + 1
        BY <2>1, <2>5, <4>2
      <4>4. 1 < p + 1 /\ (p + 1) - 1 = p
        BY <2>1
      <4> QED
        BY <3>1, <3>2, <4>2, <4>3, <4>4 DEF GapsClosed
    <3>5. CASE i = p + 2
      <4>1. new[i - 1].time = m /\ new[i] = ms[p + 1]
        <5>1. i - 1 = p + 1 /\ i \in (p + 2)..(Len(ms) + 1)
          BY <2>1, <3>5
        <5>2. new[i] = ms[i - 1]
          BY <2>2, <5>1
        <5> QED
          BY <2>2, <5>1, <5>2
      <4>2. ms[p].time < ms[k - 1].time /\ ms[k - 1].time < ms[p + 1].time
        BY <2>1, <3>1, <3>2, <4>1
      <4>3. k - 1 > p + 1 /\ 1 < p + 1 /\ (p + 1) - 1 = p
        BY <2>1, <3>5
      <4> QED
        BY <3>1, <3>2, <4>2, <4>3 DEF GapsClosed
    <3>6. CASE i > p + 2
      <4>1. /\ i - 1 \in DOMAIN ms /\ new[i] = ms[i - 1]
            /\ (i - 1) - 1 \in DOMAIN ms /\ new[i - 1] = ms[(i - 1) - 1]
        <5> DEFINE h == i - 1
        <5>1. /\ i \in (p + 2)..(Len(ms) + 1) /\ h \in (p + 2)..(Len(ms) + 1)
              /\ h \in 1..Len(ms) /\ h - 1 \in 1..Len(ms)
          BY <2>1, <3>6
        <5> HIDE DEF h
        <5>2. new[i] = ms[i - 1] /\ new[h] = ms[h - 1]
          BY <2>2, <5>1
        <5> QED
          BY <2>1, <5>1, <5>2 DEF h
      <4>2. 1 < i - 1 /\ i - 1 < k - 1
        BY <2>1, <3>6
      <4> QED
        BY <3>1, <4>1, <4>2 DEF GapsClosed
    <3>7. i <= p \/ i = p + 1 \/ i = p + 2 \/ i > p + 2
      BY <2>1
    <3> QED
      BY <3>3, <3>4, <3>5, <3>6, <3>7
  <2>6. k <= p \/ k = p + 1 \/ k > p + 1
    BY <2>1
  <2> QED
    BY <2>3, <2>4, <2>5, <2>6
<1> QED
  BY <1>1, <1>2, <1>3, <1>4

-----------------------------------------------------------------------------
(***************************************************************************)
(* The jobs of a moment: in ascending order, none above n.                 *)
(***************************************************************************)
Ordered(jobs, n) ==
  \A i, k \in DOMAIN jobs : jobs[i] <= n /\ (i < k => jobs[i] < jobs[k])

JobsOrdered(ms, n) == \A p \in DOMAIN ms : Ordered(ms[p].jobs, n)

LEMMA OrderedGrows ==
  ASSUME NEW jobs \in Seq(Nat), NEW n \in Nat, Ordered(jobs, n)
  PROVE  Ordered(jobs, n + 1)
<1>1. \A i \in DOMAIN jobs : jobs[i] \in Nat
  OBVIOUS
<1> QED
  BY <1>1 DEF Ordered

LEMMA OrderedAppend ==
  ASSUME NEW jobs \in Seq(Nat), NEW n \in Nat, Ordered(jobs, n)
  PROVE  Ordered(Append(jobs, n + 1), n + 1)
<1> DEFINE longer == Append(jobs, n + 1)
<1>1. /\ DOMAIN longer = 1..(Len(jobs) + 1) /\ Len(jobs) \in Nat
      /\ longer[Len(jobs) + 1] = n + 1
      /\ \A i \in 1..Len(jobs) : longer[i] = jobs[i] /\ i \in DOMAIN jobs /\ jobs[i] \in Nat
  OBVIOUS
<1> HIDE DEF longer
<1> SUFFICES ASSUME NEW i \in DOMAIN longer, NEW k \in DOMAIN longer
             PROVE  longer[i] <= n + 1 /\ (i < k => longer[i] < longer[k])
  BY DEF Ordered, longer
<1>2. CASE i = Len(jobs) + 1
  BY <1>1, <1>2
<1>3. CASE i # Len(jobs) + 1
  <2>1. i \in 1..Len(jobs)
    BY <1>1, <1>3
  <2>2. longer[i] = jobs[i] /\ jobs[i] \in Nat /\ jobs[i] <= n
    BY <1>1, <2>1 DEF Ordered
  <2>3. CASE k = Len(jobs) + 1
    BY <1>1, <2>2, <2>3
  <2>4. CASE k # Len(jobs) + 1
    <3>1. k \in 1..Len(jobs)
      BY <1>1, <2>4
    <3>2. longer[k] = jobs[k] /\ k \in DOMAIN jobs /\ i \in DOMAIN jobs
      BY <1>1, <2>1, <3>1
    <3> QED
      BY <2>2, <3>2 DEF Ordered
  <2> QED
    BY <2>3, <2>4
<1> QED
  BY <1>2, <1>3

LEMMA OrderedOne ==
  ASSUME NEW n \in Nat, NEW m
  PROVE  Ordered(NewMoment(n, m).jobs, n)
<1> DEFINE one == <<n>>
<1>1. NewMoment(n, m).jobs = one
  BY DEF NewMoment
<1>2. one \in Seq(Nat) /\ Len(one) = 1 /\ one[1] = n
  OBVIOUS
<1>3. DOMAIN one = {1}
  <2>1. DOMAIN one = 1..Len(one)
    BY <1>2
  <2> QED
    BY <1>2, <2>1
<1> HIDE DEF one
<1> QED
  BY <1>1, <1>2, <1>3 DEF Ordered

\* Lines that are added in their order stay in it within every moment.
LEMMA AddKeepsOrdered ==
  ASSUME NEW ms \in Seq(MomentType), NEW m \in Nat, NEW n \in Nat, JobsOrdered(ms, n)
  PROVE  JobsOrdered(AddJobMoment(ms, n + 1, m), n + 1)
<1> DEFINE j   == n + 1
           new == AddJobMoment(ms, j, m)
<1>0. j \in Nat
  OBVIOUS
<1>1. /\ new \in Seq(MomentType)
      /\ \/ StartsList(ms, new, j, m)
         \/ \E p \in DOMAIN ms : JoinsMoment(ms, new, j, m, p)
         \/ \E p \in DOMAIN ms : MakesMoment(ms, new, j, m, p)
  BY <1>0, AddJobMomentWays
<1> SUFFICES ASSUME NEW r \in DOMAIN new
             PROVE  Ordered(new[r].jobs, j)
  BY DEF JobsOrdered
<1> HIDE DEF new
<1>2. \A k \in DOMAIN ms : ms[k].jobs \in Seq(Nat) /\ Ordered(ms[k].jobs, n)
  BY ListTypes DEF JobsOrdered
<1>3. \A k \in DOMAIN ms : Ordered(ms[k].jobs, j)
  BY <1>2, OrderedGrows
<1>4. Ordered(NewMoment(j, m).jobs, j)
  BY <1>0, OrderedOne
<1>5. CASE StartsList(ms, new, j, m)
  <2>1. DOMAIN new = {1}
    BY <1>1, <1>5, StartsHasOne
  <2>2. new[r] = NewMoment(j, m)
    BY <1>5, <2>1 DEF StartsList
  <2> QED
    BY <1>4, <2>2
<1>6. ASSUME NEW p \in DOMAIN ms, JoinsMoment(ms, new, j, m, p)
      PROVE  Ordered(new[r].jobs, j)
  <2>1. DOMAIN new = DOMAIN ms
    BY <1>1, <1>6, JoinsKeepsTimes
  <2>2. CASE r = p
    <3>1. new[r].jobs = Append(ms[p].jobs, n + 1)
      BY <1>6, <2>2 DEF JoinsMoment
    <3> QED
      BY <1>2, <3>1, OrderedAppend
  <2>3. CASE r # p
    BY <1>3, <1>6, <2>1, <2>3 DEF JoinsMoment
  <2> QED
    BY <2>2, <2>3
<1>7. ASSUME NEW p \in DOMAIN ms, MakesMoment(ms, new, j, m, p)
      PROVE  Ordered(new[r].jobs, j)
  <2>1. new[p + 1] = NewMoment(j, m) /\ HasOld(ms, new, p)
    BY <1>1, <1>7, MakesShifts
  <2>2. r = p + 1 \/ \E k \in DOMAIN ms : new[r] = ms[k]
    BY <2>1 DEF HasOld
  <2> QED
    BY <1>3, <1>4, <2>1, <2>2
<1> QED
  BY <1>1, <1>5, <1>6, <1>7

-----------------------------------------------------------------------------
(***************************************************************************)
(* The head stays, moments are never swapped, and a list in order stays in *)
(* order as long as nothing comes that is earlier than its head.           *)
(***************************************************************************)
SameOrder(ms, new) ==
  \A p, q \in DOMAIN ms : p < q =>
    \E r, s \in DOMAIN new :
      r < s /\ new[r].time = ms[p].time /\ new[s].time = ms[q].time

LEMMA AddKeepsHead ==
  ASSUME NEW ms \in Seq(MomentType), NEW m \in Nat, NEW j \in Nat
  PROVE  LET new == AddJobMoment(ms, j, m)
         IN  new # <<>> /\ new[1].time = IF ms = <<>> THEN m ELSE ms[1].time
<1> DEFINE new == AddJobMoment(ms, j, m)
<1>1. /\ new \in Seq(MomentType)
      /\ \/ StartsList(ms, new, j, m)
         \/ \E p \in DOMAIN ms : JoinsMoment(ms, new, j, m, p)
         \/ \E p \in DOMAIN ms : MakesMoment(ms, new, j, m, p)
  BY AddJobMomentWays
<1> SUFFICES new # <<>> /\ new[1].time = IF ms = <<>> THEN m ELSE ms[1].time
  OBVIOUS
<1> HIDE DEF new
<1>2. CASE StartsList(ms, new, j, m)
  BY <1>2 DEF StartsList, NewMoment
<1>3. ASSUME NEW p \in DOMAIN ms
      PROVE  DOMAIN ms = 1..Len(ms) /\ Len(ms) \in Nat /\ p \in 1..Len(ms) /\ ms # <<>>
  BY ListTypes
<1>4. ASSUME NEW p \in DOMAIN ms, JoinsMoment(ms, new, j, m, p)
      PROVE  new # <<>> /\ new[1].time = ms[1].time /\ ms # <<>>
  <2>1. 1 \in DOMAIN ms /\ ms # <<>>
    BY <1>3
  <2>2. DOMAIN new = DOMAIN ms /\ \A k \in DOMAIN ms : new[k].time = ms[k].time
    BY <1>1, <1>4, JoinsKeepsTimes
  <2>3. new # <<>>
    BY <2>1, <2>2
  <2> QED
    BY <2>1, <2>2, <2>3
<1>5. ASSUME NEW p \in DOMAIN ms, MakesMoment(ms, new, j, m, p)
      PROVE  new # <<>> /\ new[1].time = ms[1].time /\ ms # <<>>
  <2>1. p + 1 \in DOMAIN new /\ HasOld(ms, new, p)
    BY <1>1, <1>5, MakesShifts
  <2>2. 1 \in DOMAIN ms /\ Shifted(p, 1) = 1 /\ ms # <<>>
    BY <1>3 DEF Shifted
  <2>3. new # <<>>
    BY <2>1
  <2> QED
    BY <2>1, <2>2, <2>3 DEF HasOld
<1> QED
  BY <1>1, <1>2, <1>4, <1>5 DEF StartsList

LEMMA AddKeepsOrder ==
  ASSUME NEW ms \in Seq(MomentType), NEW m \in Nat, NEW j \in Nat
  PROVE  SameOrder(ms, AddJobMoment(ms, j, m))
<1> DEFINE new == AddJobMoment(ms, j, m)
<1>1. /\ new \in Seq(MomentType)
      /\ \/ StartsList(ms, new, j, m)
         \/ \E k \in DOMAIN ms : JoinsMoment(ms, new, j, m, k)
         \/ \E k \in DOMAIN ms : MakesMoment(ms, new, j, m, k)
  BY AddJobMomentWays
<1> SUFFICES ASSUME NEW p \in DOMAIN ms, NEW q \in DOMAIN ms, p < q
             PROVE  \E r, s \in DOMAIN new :
                      r < s /\ new[r].time = ms[p].time /\ new[s].time = ms[q].time
  BY DEF SameOrder
<1> HIDE DEF new
<1>2. ~StartsList(ms, new, j, m)
  BY DEF StartsList
<1>3. ASSUME NEW k \in DOMAIN ms, JoinsMoment(ms, new, j, m, k)
      PROVE  \E r, s \in DOMAIN new :
               r < s /\ new[r].time = ms[p].time /\ new[s].time = ms[q].time
  BY <1>1, <1>3, JoinsKeepsTimes
<1>4. ASSUME NEW k \in DOMAIN ms, MakesMoment(ms, new, j, m, k)
      PROVE  \E r, s \in DOMAIN new :
               r < s /\ new[r].time = ms[p].time /\ new[s].time = ms[q].time
  <2>1. HasOld(ms, new, k)
    BY <1>1, <1>4, MakesShifts
  <2>2. Shifted(k, p) < Shifted(k, q)
    <3>1. p \in Nat /\ q \in Nat /\ k \in Nat
      BY ListTypes
    <3> QED
      BY <3>1 DEF Shifted
  <2>3. /\ Shifted(k, p) \in DOMAIN new /\ new[Shifted(k, p)] = ms[p]
        /\ Shifted(k, q) \in DOMAIN new /\ new[Shifted(k, q)] = ms[q]
    BY <2>1 DEF HasOld
  <2> QED
    BY <2>2, <2>3
<1> QED
  BY <1>1, <1>2, <1>3, <1>4

\* In a list in order a new moment goes between the earlier and the later ones.
LEMMA MakesInPlace ==
  ASSUME NEW ms \in Seq(MomentType), NEW m \in Nat, NEW j, NEW new,
         NEW p \in DOMAIN ms, MakesMoment(ms, new, j, m, p),
         Ascending(ms), ms[1].time <= m
  PROVE  \A k \in DOMAIN ms : IF k <= p THEN ms[k].time < m ELSE m < ms[k].time
<1>1. DOMAIN ms = 1..Len(ms) /\ Len(ms) \in Nat /\ p \in 1..Len(ms)
  BY ListTypes
<1>2. \A k \in DOMAIN ms : ms[k].time \in Nat
  BY ListTypes
<1>3. CASE p = Len(ms)
  <2> SUFFICES ASSUME NEW l \in DOMAIN ms, ~(ms[l].time < m)
               PROVE  FALSE
    BY <1>1, <1>3
  <2> DEFINE late == {k \in DOMAIN ms : m <= ms[k].time}
  <2>1. late \in SUBSET Nat /\ late # {}
    BY <1>1, <1>2
  <2>2. PICK k \in late : \A i \in late : k <= i
    BY <2>1, LeastNatural
  <2>3. k \in 1..p /\ k \in DOMAIN ms /\ m <= ms[k].time
    BY <1>1, <1>3, <2>2
  <2>4. ms[k].time # m
    BY <2>3 DEF MakesMoment, StopsAt
  <2>5. 1 < k
    BY <1>1, <1>2, <2>3, <2>4
  <2>6. k - 1 \in DOMAIN ms /\ k - 1 < k
    BY <1>1, <2>3, <2>5
  <2>7. ms[k - 1].time < m
    <3>1. k - 1 \notin late
      BY <2>2, <2>3, <2>6, <1>1
    <3> QED
      BY <3>1, <2>6, <1>2
  <2>8. StopsAt(ms, m, k)
    BY <1>2, <2>3, <2>4, <2>5, <2>7 DEF StopsAt
  <2> QED
    BY <2>3, <2>8 DEF MakesMoment
<1>4. CASE p # Len(ms)
  <2>1. p + 1 \in DOMAIN ms /\ ms[p].time < m /\ m < ms[p + 1].time
    BY <1>1, <1>4 DEF MakesMoment
  <2> TAKE k \in DOMAIN ms
  <2>2. CASE k <= p
    <3>1. k = p \/ ms[k].time < ms[p].time
      BY <1>1, <2>2 DEF Ascending
    <3> QED
      BY <1>2, <2>1, <2>2, <3>1
  <2>3. CASE k > p
    <3>1. k = p + 1 \/ ms[p + 1].time < ms[k].time
      BY <1>1, <2>1, <2>3 DEF Ascending
    <3> QED
      BY <1>1, <1>2, <2>1, <2>3, <3>1
  <2> QED
    BY <1>1, <2>2, <2>3
<1> QED
  BY <1>3, <1>4

LEMMA AddKeepsAscending ==
  ASSUME NEW ms \in Seq(MomentType), NEW m \in Nat, NEW j \in Nat,
         Ascending(ms), ms # <<>> => ms[1].time <= m
  PROVE  Ascending(AddJobMoment(ms, j, m))
<1> DEFINE new == AddJobMoment(ms, j, m)
<1>1. /\ new \in Seq(MomentType)
      /\ \/ StartsList(ms, new, j, m)
         \/ \E k \in DOMAIN ms : JoinsMoment(ms, new, j, m, k)
         \/ \E k \in DOMAIN ms : MakesMoment(ms, new, j, m, k)
  BY AddJobMomentWays
<1> SUFFICES ASSUME NEW r \in DOMAIN new, NEW s \in DOMAIN new, r < s
             PROVE  new[r].time < new[s].time
  BY DEF Ascending
<1> HIDE DEF new
<1>2. CASE StartsList(ms, new, j, m)
  <2>1. DOMAIN new = {1}
    BY <1>1, <1>2, StartsHasOne
  <2> QED
    BY <2>1
<1>3. ASSUME NEW p \in DOMAIN ms, JoinsMoment(ms, new, j, m, p)
      PROVE  new[r].time < new[s].time
  BY <1>1, <1>3, JoinsKeepsTimes DEF Ascending
<1>4. ASSUME NEW p \in DOMAIN ms, MakesMoment(ms, new, j, m, p)
      PROVE  new[r].time < new[s].time
  <2>0. p \in Nat /\ \A k \in DOMAIN ms : k \in Nat /\ ms[k].time \in Nat
    BY ListTypes
  <2>1. \A k \in DOMAIN ms : IF k <= p THEN ms[k].time < m ELSE m < ms[k].time
    <3>1. ms # <<>>
      BY <1>4
    <3> QED
      BY <1>4, <3>1, MakesInPlace
  <2>2. new[p + 1].time = m /\ HasOld(ms, new, p)
    <3>1. new[p + 1] = NewMoment(j, m) /\ HasOld(ms, new, p)
      BY <1>1, <1>4, MakesShifts
    <3> QED
      BY <3>1 DEF NewMoment
  <2>3. CASE r = p + 1
    <3>1. PICK k \in DOMAIN ms : s = Shifted(p, k) /\ new[s] = ms[k]
      BY <2>0, <2>2, <2>3 DEF HasOld
    <3>2. ~(k <= p)
      BY <2>0, <2>3, <3>1 DEF Shifted
    <3> QED
      BY <2>1, <2>2, <2>3, <3>1, <3>2
  <2>4. CASE s = p + 1
    <3>1. PICK k \in DOMAIN ms : r = Shifted(p, k) /\ new[r] = ms[k]
      BY <2>0, <2>2, <2>4 DEF HasOld
    <3>2. k <= p
      BY <2>0, <2>4, <3>1 DEF Shifted
    <3> QED
      BY <2>1, <2>2, <2>4, <3>1, <3>2
  <2>5. CASE r # p + 1 /\ s # p + 1
    <3>1. PICK k \in DOMAIN ms : r = Shifted(p, k) /\ new[r] = ms[k]
      BY <2>2, <2>5 DEF HasOld
    <3>2. PICK l \in DOMAIN ms : s = Shifted(p, l) /\ new[s] = ms[l]
      BY <2>2, <2>5 DEF HasOld
    <3>3. k < l
      BY <2>0, <3>1, <3>2 DEF Shifted
    <3> QED
      BY <3>1, <3>2, <3>3 DEF Ascending
  <2> QED
    BY <2>3, <2>4, <2>5
<1> QED
  BY <1>1, <1>2, <1>3, <1>4

-----------------------------------------------------------------------------
(***************************************************************************)
(* What the list holds: a job under a moment.  Adding one adds just that.  *)
(***************************************************************************)
HasJob(jobs, j) == \E i \in DOMAIN jobs : jobs[i] = j

Holds(ms, j, m) ==
  \E p \in DOMAIN ms : ms[p].time = m /\ HasJob(ms[p].jobs, j)

LEMMA AppendHasJob ==
  ASSUME NEW jobs \in Seq(Nat), NEW j \in Nat, NEW k
  PROVE  HasJob(Append(jobs, j), k) <=> k = j \/ HasJob(jobs, k)
<1> DEFINE longer == Append(jobs, j)
<1>1. /\ DOMAIN longer = 1..(Len(jobs) + 1) /\ DOMAIN jobs = 1..Len(jobs) /\ Len(jobs) \in Nat
      /\ longer[Len(jobs) + 1] = j
      /\ \A i \in 1..Len(jobs) : longer[i] = jobs[i]
  OBVIOUS
<1> HIDE DEF longer
<1>2. \A i \in DOMAIN longer : i \in DOMAIN jobs \/ i = Len(jobs) + 1
  BY <1>1
<1>3. Len(jobs) + 1 \in DOMAIN longer /\ \A i \in DOMAIN jobs : i \in DOMAIN longer
  BY <1>1
<1>4. HasJob(longer, k) <=> k = j \/ HasJob(jobs, k)
  BY <1>1, <1>2, <1>3 DEF HasJob
<1> QED
  BY <1>4 DEF longer

LEMMA NewMomentHasJob ==
  ASSUME NEW j, NEW m, NEW k
  PROVE  HasJob(NewMoment(j, m).jobs, k) <=> k = j
<1>1. NewMoment(j, m).jobs = <<j>>
  BY DEF NewMoment
<1>2. DOMAIN <<j>> = {1} /\ <<j>>[1] = j
  <2>1. <<j>> \in Seq({j}) /\ Len(<<j>>) = 1
    OBVIOUS
  <2>2. DOMAIN <<j>> = 1..1
    BY <2>1
  <2> QED
    BY <2>2
<1> QED
  BY <1>1, <1>2 DEF HasJob

\* However the line is placed, what the list holds is what it held and the
\* line's job under the line's moment.
LEMMA AddHolds ==
  ASSUME NEW ms \in Seq(MomentType), NEW m \in Nat, NEW j \in Nat, NEW k, NEW time
  PROVE  Holds(AddJobMoment(ms, j, m), k, time)
           <=> Holds(ms, k, time) \/ (k = j /\ time = m)
<1> DEFINE new == AddJobMoment(ms, j, m)
           In(moment) == moment.time = time /\ HasJob(moment.jobs, k)
<1>1. /\ new \in Seq(MomentType)
      /\ \/ StartsList(ms, new, j, m)
         \/ \E p \in DOMAIN ms : JoinsMoment(ms, new, j, m, p)
         \/ \E p \in DOMAIN ms : MakesMoment(ms, new, j, m, p)
  BY AddJobMomentWays
<1> HIDE DEF new
<1> SUFFICES (\E p \in DOMAIN new : In(new[p]))
               <=> (\E p \in DOMAIN ms : In(ms[p])) \/ (k = j /\ time = m)
  BY DEF Holds, new
<1>2. In(NewMoment(j, m)) <=> k = j /\ time = m
  <2>1. NewMoment(j, m).time = m
    BY DEF NewMoment
  <2> QED
    BY <2>1, NewMomentHasJob
<1>3. CASE StartsList(ms, new, j, m)
  <2>1. DOMAIN new = {1} /\ new[1] = NewMoment(j, m) /\ DOMAIN ms = {}
    <3>1. DOMAIN new = {1}
      BY <1>1, <1>3, StartsHasOne
    <3>2. DOMAIN <<>> = {}
      OBVIOUS
    <3> QED
      BY <1>3, <3>1, <3>2 DEF StartsList
  <2> HIDE DEF In
  <2> QED
    BY <1>2, <2>1
<1>4. ASSUME NEW p \in DOMAIN ms, JoinsMoment(ms, new, j, m, p)
      PROVE  (\E r \in DOMAIN new : In(new[r]))
               <=> (\E r \in DOMAIN ms : In(ms[r])) \/ (k = j /\ time = m)
  <2>1. DOMAIN new = DOMAIN ms /\ \A r \in DOMAIN ms : r # p => new[r] = ms[r]
    BY <1>1, <1>4, JoinsKeepsTimes DEF JoinsMoment
  <2>2. /\ new[p].time = m /\ ms[p].time = m
        /\ new[p].jobs = Append(ms[p].jobs, j) /\ ms[p].jobs \in Seq(Nat)
    BY <1>4, ListTypes DEF JoinsMoment
  <2>3. In(new[p]) <=> In(ms[p]) \/ (k = j /\ time = m)
    BY <2>2, AppendHasJob
  <2> HIDE DEF In
  <2> QED
    BY <2>1, <2>3
<1>5. ASSUME NEW p \in DOMAIN ms, MakesMoment(ms, new, j, m, p)
      PROVE  (\E r \in DOMAIN new : In(new[r]))
               <=> (\E r \in DOMAIN ms : In(ms[r])) \/ (k = j /\ time = m)
  <2>1. p + 1 \in DOMAIN new /\ new[p + 1] = NewMoment(j, m) /\ HasOld(ms, new, p)
    BY <1>1, <1>5, MakesShifts
  <2> HIDE DEF In
  <2> QED
    BY <1>2, <2>1 DEF HasOld
<1> QED
  BY <1>1, <1>3, <1>4, <1>5

-----------------------------------------------------------------------------
(***************************************************************************)
(* What the generator writes lies between the bounds it was given, for     *)
(* every option list, every width of the unsigned types and whatever rand  *)
(* answers.  The invariant adds to the property that the bounds fit their  *)
(* types and that no line is written before they are final.                *)
(***************************************************************************)
BoundsFit ==
  /\ number \in [NumberOptions -> Nat]
  /\ range \in [RangeOptions -> [min : Nat, max : Nat]]
  /\ \A o \in RangeOptions : range[o].min < Width(o) /\ range[o].max < Width(o)

LineType == [moment : Nat, field : [RangeOptions -> Nat], time_var : Nat,
             features : SUBSET (FeatureFlags \cup {"--fcpu"})]

LineInBounds(ln) ==
  /\ ln.moment < number["-t"]
  /\ \A o \in RangeOptions :
       Base(o) < Top(o) /\ Top(o) <= W32
         => Base(o) <= ln.field[o] /\ ln.field[o] < Top(o)
  /\ "--fcpu" \in ln.features
  /\ ln.features \subseteq Allowed
  /\ "--fnot-rand" \in flags => ln.features = Allowed

GeneratorInv ==
  /\ argv \in Seq(Word)
  /\ word \in Nat \ {0}
  /\ flags \subseteq Flags
  /\ BoundsFit
  /\ lines \in Seq(LineType)
  /\ gpc = "args" => lines = <<>>
  /\ LinesInBounds

-----------------------------------------------------------------------------
LEMMA ModInRange ==
  ASSUME NEW x \in Int, NEW m \in Nat \ {0}
  PROVE  x % m \in 0..(m - 1)
OBVIOUS

LEMMA NatModInRange ==
  ASSUME NEW x \in Nat, NEW m \in Nat \ {0}
  PROVE  x % m \in 0..(m - 1) /\ x % m \in Nat
OBVIOUS

LEMMA ModOfSmall ==
  ASSUME NEW m \in Nat \ {0}, NEW x \in 0..(m - 1)
  PROVE  x % m = x
OBVIOUS

LEMMA WidthFits ==
  ASSUME NEW o \in RangeOptions
  PROVE  Width(o) \in Nat \ {0} /\ W32 <= Width(o)
BY GeneratorAssumption DEF Width

LEMMA DefaultsFit ==
  ASSUME NEW o \in RangeOptions
  PROVE  /\ DefaultRange(o) \in [min : Nat, max : Nat]
         /\ DefaultRange(o).min < Width(o)
         /\ DefaultRange(o).max < Width(o)
<1>1. /\ DefaultRange(o) \in [min : Nat, max : Nat]
      /\ DefaultRange(o).min < 1025 /\ DefaultRange(o).max < 1025
  BY DEF DefaultRange
<1> QED
  BY <1>1, WidthFits, GeneratorAssumption

LEMMA GeneratorStarts ==
  ASSUME Init
  PROVE  GeneratorInv
<1>1. argv \in Seq(Word)
  <2>1. \/ argv = <<>>
        \/ \E w \in PipelineWorlds : argv = w.argv
    BY DEF Init
  <2>2. <<>> \in Seq(Word)
    OBVIOUS
  <2> QED
    BY <2>1, <2>2, WorldsAssumption
<1>2. /\ word \in Nat \ {0} /\ flags \subseteq Flags /\ lines = <<>>
      /\ number = [o \in NumberOptions |-> DefaultNumber(o)]
      /\ range = [o \in RangeOptions |-> DefaultRange(o)]
  BY DEF Init, GeneratorInit
<1>3. BoundsFit
  BY <1>2, DefaultsFit DEF BoundsFit, DefaultNumber
<1> QED
  BY <1>1, <1>2, <1>3 DEF GeneratorInv, LinesInBounds

\* What is drawn for an option lies between its bounds.
LEMMA DrawnInBounds ==
  ASSUME NEW o \in RangeOptions, NEW rand \in Nat, BoundsFit,
         Base(o) < Top(o), Top(o) <= W32
  PROVE  Base(o) <= Drawn(o, rand) /\ Drawn(o, rand) < Top(o)
<1> DEFINE w == Width(o)
<1>1. Base(o) \in Nat /\ Top(o) \in Nat /\ Base(o) < w /\ Top(o) < w
  BY DEF BoundsFit, Base, Top
<1>2. w \in Nat \ {0} /\ W32 \in Nat \ {0} /\ W32 <= w
  BY WidthFits, GeneratorAssumption
<1>3. Modulus(o) = Top(o) - Base(o)
  <2>1. Top(o) - Base(o) \in 0..(w - 1)
    BY <1>1, <1>2
  <2> QED
    BY <2>1, <1>2, ModOfSmall DEF Modulus
<1>4. rand % Modulus(o) \in 0..(Top(o) - Base(o) - 1)
  <2>1. Modulus(o) \in Nat \ {0} /\ Modulus(o) = Top(o) - Base(o)
    BY <1>1, <1>3
  <2> QED
    BY <2>1, NatModInRange
<1> DEFINE v == (rand % Modulus(o)) + Base(o)
<1>5. v \in Base(o)..(Top(o) - 1)
  BY <1>1, <1>4
<1>6. v % w = v
  BY <1>1, <1>2, <1>5, ModOfSmall
<1>7. v % W32 = v
  BY <1>1, <1>2, <1>5, ModOfSmall
<1> QED
  BY <1>1, <1>5, <1>6, <1>7 DEF Drawn

LEMMA LineFits ==
  ASSUME BoundsFit, lines \in Seq(LineType), ~DividesByZero,
         NEW draw \in Draws, NEW features \in FeatureSets, flags \subseteq Flags
  PROVE  Line(draw, features) \in LineType /\ LineInBounds(Line(draw, features))
<1> DEFINE ln == Line(draw, features)
<1>1. draw \in [DrawnFields -> Nat]
  BY GeneratorAssumption
<1>2. \A o \in RangeOptions : draw[o] \in Nat
  BY <1>1 DEF DrawnFields
<1>3. draw["-t"] \in Nat /\ draw["--time-var"] \in Nat
  BY <1>1 DEF DrawnFields
<1>4. number["-t"] \in Nat \ {0} /\ number["--time-var"] \in Nat \ {0}
  BY DEF BoundsFit, DividesByZero, NumberOptions
<1>5. W32 \in Nat \ {0}
  BY GeneratorAssumption
<1>6. ln.moment \in Nat /\ ln.moment < number["-t"]
  <2> DEFINE m == draw["-t"] % number["-t"]
  <2>1. m \in 0..(number["-t"] - 1)
    BY <1>3, <1>4, NatModInRange
  <2>2. m % W32 \in Nat /\ m % W32 <= m
    BY <2>1, <1>5, <1>4
  <2> QED
    BY <2>1, <2>2, <1>4 DEF Line
<1>7. ln.time_var \in Nat
  <2>1. draw["--time-var"] % number["--time-var"] \in Nat
    BY <1>3, <1>4, NatModInRange
  <2> QED
    BY <2>1, <1>5, ModInRange DEF Line
<1>8. \A o \in RangeOptions : Drawn(o, draw[o]) \in Nat
  <2> TAKE o \in RangeOptions
  <2>1. Modulus(o) \in Nat \ {0}
    <3>1. Top(o) - Base(o) \in Int
      BY DEF BoundsFit, Top, Base
    <3>2. Modulus(o) \in Nat
      BY <3>1, WidthFits, ModInRange DEF Modulus
    <3> QED
      BY <3>2 DEF DividesByZero
  <2>2. (draw[o] % Modulus(o)) + Base(o) \in Nat
    <3>1. draw[o] % Modulus(o) \in Nat
      BY <2>1, <1>2, NatModInRange
    <3> QED
      BY <3>1 DEF BoundsFit, Base
  <2>3. ((draw[o] % Modulus(o)) + Base(o)) % Width(o) \in Nat
    BY <2>2, WidthFits, ModInRange
  <2> QED
    BY <2>3, <1>5, ModInRange DEF Drawn
<1>9. features \subseteq FeatureFlags \cup {"--fcpu"}
  BY DEF FeatureSets, Allowed
<1>10. /\ ln.features = features
       /\ "--fcpu" \in features /\ features \subseteq Allowed
       /\ "--fnot-rand" \in flags => features = Allowed
  BY DEF Line, FeatureSets, Allowed
<1>11. ln \in LineType
  BY <1>6, <1>7, <1>8, <1>9 DEF Line, LineType
<1>12. \A o \in RangeOptions : ln.field[o] = Drawn(o, draw[o])
  BY DEF Line
<1> QED
  BY <1>2, <1>6, <1>10, <1>11, <1>12, DrawnInBounds DEF LineInBounds

-----------------------------------------------------------------------------
LEMMA InterpretKeeps ==
  ASSUME GeneratorInv, Interpret
  PROVE  GeneratorInv'
<1>1. gpc = "args" /\ lines = <<>> /\ lines' = <<>> /\ argv' = argv /\ word \in 1..Len(argv)
  BY DEF GeneratorInv, Interpret, ArgsFrame
<1>2. ASSUME NEW n \in {1, 2}, Has(n)
      PROVE  Operand(n).value \in Int
  <2>1. word + n \in 1..Len(argv)
    BY <1>1, <1>2 DEF Has, GeneratorInv
  <2>2. argv[word + n] \in Word
    BY <2>1 DEF GeneratorInv
  <2> QED
    BY <2>2 DEF Operand, Word
<1>3. word' \in Nat \ {0} /\ flags' \subseteq Flags /\ BoundsFit'
  <2>1. CASE TakeFlag
    BY <2>1 DEF TakeFlag, GeneratorInv, BoundsFit
  <2>2. CASE TakeFileName
    BY <2>2 DEF TakeFileName, GeneratorInv, BoundsFit
  <2>3. CASE TakeNumber
    <3>1. Operand(1).value % W64 \in Nat
      BY <2>3, <1>2, ModInRange, GeneratorAssumption DEF TakeNumber
    <3> QED
      BY <2>3, <3>1 DEF TakeNumber, GeneratorInv, BoundsFit
  <2>4. CASE TakeRange
    <3> DEFINE w == Width(Option)
    <3>1. Option \in RangeOptions
      BY <2>4 DEF TakeRange
    <3>2. w \in Nat \ {0}
      BY <3>1, WidthFits
    <3>3. Has(1) /\ Has(2)
      BY <2>4, <1>1 DEF TakeRange, Has, GeneratorInv
    <3>4. Operand(1).value % w \in 0..(w - 1) /\ Operand(2).value % w \in 0..(w - 1)
      BY <3>2, <3>3, <1>2, ModInRange
    <3> DEFINE b == [min |-> Operand(1).value % w, max |-> Operand(2).value % w]
    <3>5. b \in [min : Nat, max : Nat] /\ b.min < w /\ b.max < w
      BY <3>2, <3>4
    <3> HIDE DEF b
    <3>6. range' = [range EXCEPT ![Option] = b]
      BY <2>4 DEF TakeRange, b
    <3>7. range' \in [RangeOptions -> [min : Nat, max : Nat]]
      BY <3>5, <3>6 DEF GeneratorInv, BoundsFit
    <3>8. \A o \in RangeOptions : range'[o].min < Width(o) /\ range'[o].max < Width(o)
      BY <3>1, <3>5, <3>6 DEF GeneratorInv, BoundsFit
    <3> QED
      BY <2>4, <3>7, <3>8 DEF TakeRange, GeneratorInv, BoundsFit, Width
  <2>5. CASE SecondBoundMissing \/ Misunderstood
    BY <2>5 DEF SecondBoundMissing, Misunderstood, optionVars, GeneratorInv, BoundsFit
  <2> QED
    BY <2>1, <2>2, <2>3, <2>4, <2>5 DEF Interpret
<1> QED
  BY <1>1, <1>3 DEF GeneratorInv, LinesInBounds

LEMMA InBoundsByLine ==
  LinesInBounds <=> \A k \in DOMAIN lines : LineInBounds(lines[k])
BY DEF LinesInBounds, LineInBounds

LEMMA WriteLineKeeps ==
  ASSUME GeneratorInv, WriteLine
  PROVE  GeneratorInv'
<1>1. PICK draw \in Draws, features \in FeatureSets :
        lines' = Append(lines, Line(draw, features))
  BY DEF WriteLine
<1> DEFINE ln == Line(draw, features)
<1>2. ln \in LineType /\ LineInBounds(ln)
  BY LineFits DEF GeneratorInv, WriteLine
<1> HIDE DEF ln
<1>3. gpc = "write" /\ UNCHANGED <<argv, word, flags, number, range, gpc>>
  BY DEF WriteLine, optionVars
<1>4. BoundsFit'
  BY <1>3 DEF GeneratorInv, BoundsFit, Width
<1>5. lines' \in Seq(LineType)
  BY <1>1, <1>2 DEF GeneratorInv, ln
<1>6. \A k \in DOMAIN lines' : LineInBounds(lines'[k])
  <2> TAKE k \in DOMAIN lines'
  <2>1. (k \in DOMAIN lines /\ lines'[k] = lines[k]) \/ lines'[k] = ln
    BY <1>1, <1>2 DEF GeneratorInv, ln
  <2> QED
    BY <2>1, <1>2, InBoundsByLine DEF GeneratorInv
<1>7. LinesInBounds'
  BY <1>3, <1>6 DEF LinesInBounds, LineInBounds, Base, Top, Allowed
<1> QED
  BY <1>3, <1>4, <1>5, <1>7 DEF GeneratorInv

LEMMA GeneratorStepKeeps ==
  ASSUME GeneratorInv, [Next]_vars
  PROVE  GeneratorInv'
<1>1. CASE GeneratorNext
  <2>1. CASE Interpret
    BY <2>1, InterpretKeeps
  <2>2. CASE WriteLine
    BY <2>2, WriteLineKeeps
  <2>3. CASE OpenOutput \/ EmptyRange \/ CloseOutput
    <3>1. UNCHANGED <<argv, word, flags, number, range, lines>> /\ gpc' # "args"
      BY <2>3 DEF OpenOutput, OpenFrame, EmptyRange, CloseOutput, optionVars
    <3> QED
      BY <3>1 DEF GeneratorInv, BoundsFit, LinesInBounds, Base, Top, Width, Allowed
  <2> QED
    BY <1>1, <2>1, <2>2, <2>3 DEF GeneratorNext
<1>2. CASE UNCHANGED generatorVars
  BY <1>2 DEF generatorVars, optionVars, GeneratorInv, BoundsFit, LinesInBounds,
              Base, Top, Width, Allowed
<1> QED
  BY <1>1, <1>2 DEF Next, Ended, vars

\* Whatever is typed and drawn, LinesInBounds holds of the output
\* of the generator (main.c:83-91).
THEOREM GeneratorStaysInBounds == Spec => []LinesInBounds
<1>1. Init => GeneratorInv
  BY GeneratorStarts
<1>2. GeneratorInv /\ [Next]_vars => GeneratorInv'
  BY GeneratorStepKeeps
<1>3. GeneratorInv => LinesInBounds
  BY DEF GeneratorInv
<1> QED
  BY <1>1, <1>2, <1>3, PTL DEF Spec

-----------------------------------------------------------------------------
(***************************************************************************)
(* Which files the generator touches.  That it empties none unasked is     *)
(* decided when the options are over, by flags that were typed earlier: so *)
(* the invariant remembers where each of them comes from.                  *)
(***************************************************************************)
NamedFile(name) ==
  \/ name = "jobs"
  \/ \E k \in 2..Len(argv) : argv[k].text = name /\ argv[k - 1].text = "-o"

ReplaceTyped == \E k \in DOMAIN argv : argv[k].text = "-r"

FilesAsked ==
  /\ argv \in Seq(Word) /\ word \in Nat \ {0}
  /\ NamedFile(out_file_name)
  /\ "-r" \in flags => ReplaceTyped
  /\ gpc = "write" /\ "--stdout" \notin flags /\ out_file_name \in DOMAIN disk
       => disk[out_file_name] # "old"

TouchesAsked ==
  \A name \in DOMAIN disk : disk'[name] # disk[name] =>
    (disk[name] = "old" => ReplaceTyped) /\ NamedFile(name)

LEMMA InterpretAsks ==
  ASSUME FilesAsked, Interpret
  PROVE  FilesAsked' /\ TouchesAsked
<1>1. gpc = "args" /\ UNCHANGED <<argv, disk>> /\ word \in 1..Len(argv)
  BY DEF FilesAsked, Interpret, ArgsFrame
<1>2. TouchesAsked
  BY <1>1 DEF TouchesAsked
<1>3. /\ gpc' # "write" /\ word' \in Nat \ {0}
      /\ NamedFile(out_file_name')
      /\ "-r" \in flags' => ReplaceTyped
  <2>1. CASE TakeFlag
    <3>1. "-r" \in flags' => "-r" \in flags \/ argv[word].text = "-r"
      BY <2>1 DEF TakeFlag, Option
    <3>2. word \in DOMAIN argv
      BY <1>1 DEF FilesAsked
    <3> QED
      BY <2>1, <1>1, <3>1, <3>2 DEF TakeFlag, FilesAsked, ReplaceTyped
  <2>2. CASE TakeFileName
    <3> DEFINE k == word + 1
    <3>1. k \in 2..Len(argv) /\ k - 1 = word
      BY <2>2, <1>1 DEF TakeFileName, Has, FilesAsked
    <3>2. out_file_name' = argv[k].text /\ argv[word].text = "-o"
      BY <2>2 DEF TakeFileName, Option, Operand
    <3> HIDE DEF k
    <3>3. NamedFile(out_file_name')
      BY <3>1, <3>2 DEF NamedFile
    <3> QED
      BY <2>2, <3>3, <1>1 DEF TakeFileName, FilesAsked
  <2>3. CASE TakeNumber \/ TakeRange
    BY <2>3, <1>1 DEF TakeNumber, TakeRange, FilesAsked
  <2>4. CASE SecondBoundMissing \/ Misunderstood
    BY <2>4 DEF SecondBoundMissing, Misunderstood, optionVars, FilesAsked
  <2> QED
    BY <2>1, <2>2, <2>3, <2>4 DEF Interpret
<1> QED
  BY <1>1, <1>2, <1>3 DEF FilesAsked, NamedFile, ReplaceTyped

LEMMA OpenOutputAsks ==
  ASSUME FilesAsked, OpenOutput
  PROVE  FilesAsked' /\ TouchesAsked
<1>1. UNCHANGED <<argv, word, flags, out_file_name>>
  BY DEF OpenOutput, OpenFrame, optionVars
<1>2. CASE UNCHANGED disk /\ (gpc' = "write" => "--stdout" \in flags)
  BY <1>1, <1>2 DEF FilesAsked, NamedFile, ReplaceTyped, TouchesAsked
<1>3. CASE /\ disk' = [disk EXCEPT ![out_file_name] = "truncated"]
           /\ disk[out_file_name] # "absent" => "-r" \in flags
  <2>1. DOMAIN disk' = DOMAIN disk
    BY <1>3
  <2>2. out_file_name \in DOMAIN disk => disk'[out_file_name] # "old"
    BY <1>3
  <2>3. \A name \in DOMAIN disk : disk'[name] # disk[name] => name = out_file_name
    BY <1>3
  <2>4. TouchesAsked
    BY <1>3, <2>3 DEF TouchesAsked, FilesAsked
  <2> QED
    BY <1>1, <2>1, <2>2, <2>4 DEF FilesAsked, NamedFile, ReplaceTyped
<1> QED
  BY <1>2, <1>3 DEF OpenOutput

LEMMA CloseOutputAsks ==
  ASSUME FilesAsked, CloseOutput
  PROVE  FilesAsked' /\ TouchesAsked
<1>1. UNCHANGED <<argv, word, flags, out_file_name>> /\ gpc = "write" /\ gpc' = "done"
  BY DEF CloseOutput, optionVars
<1>2. TouchesAsked
  <2>1. CASE "--stdout" \in flags
    BY <2>1 DEF CloseOutput, TouchesAsked
  <2>2. CASE "--stdout" \notin flags
    <3>1. \A name \in DOMAIN disk : disk'[name] # disk[name] => name = out_file_name
      BY <2>2 DEF CloseOutput
    <3> QED
      BY <1>1, <2>2, <3>1 DEF TouchesAsked, FilesAsked
  <2> QED
    BY <2>1, <2>2
<1> QED
  BY <1>1, <1>2 DEF FilesAsked, NamedFile, ReplaceTyped

LEMMA FilesAskedKept ==
  ASSUME FilesAsked, [Next]_vars
  PROVE  FilesAsked' /\ [TouchesAsked]_generatorVars
<1>1. CASE GeneratorNext
  <2>1. CASE WriteLine \/ EmptyRange
    <3>1. UNCHANGED <<argv, word, flags, out_file_name, disk>> /\ (gpc' = "write" => gpc = "write")
      BY <2>1 DEF WriteLine, EmptyRange, optionVars
    <3> QED
      BY <3>1 DEF FilesAsked, NamedFile, ReplaceTyped, TouchesAsked
  <2> QED
    BY <1>1, <2>1, InterpretAsks, OpenOutputAsks, CloseOutputAsks DEF GeneratorNext
<1>2. CASE UNCHANGED generatorVars
  BY <1>2 DEF generatorVars, optionVars, FilesAsked, NamedFile, ReplaceTyped
<1> QED
  BY <1>1, <1>2 DEF Next, Ended, vars

\* The generator empties a file that was there only after a -r, and touches
\* none but the default one and those that an -o names, for every command line
\* and disk (main.c:67-69, 258).
THEOREM GeneratorTouchesAskedFiles == Spec => OnlyAskedFileTouched
<1>1. Init => FilesAsked
  BY GeneratorStarts DEF GeneratorInv, FilesAsked, Init, GeneratorInit, NamedFile
<1>2. FilesAsked /\ [Next]_vars => FilesAsked' /\ [TouchesAsked]_generatorVars
  BY FilesAskedKept
<1>3. TouchesAsked =>
        \A name \in DOMAIN disk : disk'[name] # disk[name] =>
          /\ disk[name] = "old" => \E k \in DOMAIN argv : argv[k].text = "-r"
          /\ \/ name = "jobs"
             \/ \E k \in 2..Len(argv) : argv[k].text = name /\ argv[k - 1].text = "-o"
  BY DEF TouchesAsked, ReplaceTyped, NamedFile
<1> QED
  BY <1>1, <1>2, <1>3, PTL DEF Spec, OnlyAskedFileTouched

-----------------------------------------------------------------------------
(***************************************************************************)
(* The list of moments, for datasets of every length and in every order.   *)
(* TimesDistinct is not inductive by itself: in a list that is not sorted  *)
(* the scan could stop before it meets the moment it looks for.            *)
(* GapsClosed says that it does not: no gap between two moments in order   *)
(* would take a moment from further on.  That the list is sorted needs its *)
(* head to be the first line's moment.                                     *)
(***************************************************************************)

\* Before the list is there, and while the dataset can still change.
Early == {"shell", "main", "open_jobs"}

FirstIsEarliest == \A j \in 1..job_count : Moment(1) <= Moment(j)

\* The list holds the lines read so far, each under its moment, and no more.
LinesHeld ==
  \A j, m :
    Holds(job_sequence, j, m) <=> j \in 1..job_count /\ m = Moment(j)

ListInv ==
  /\ LinesHeld
  /\ job_count \in Nat
  /\ job_sequence \in Seq(MomentType)
  /\ Distinct(job_sequence)
  /\ GapsClosed(job_sequence)
  /\ JobsOrdered(job_sequence, job_count)
  /\ job_sequence = <<>> <=> job_count = 0
  /\ job_sequence # <<>> => job_sequence[1].time = Moment(1)
  /\ FirstIsEarliest => Ascending(job_sequence)

SequencerInv ==
  /\ GeneratorInv
  /\ job_file.lines \in Seq(JobLine)
  /\ pc \in Early => job_sequence = <<>>
  /\ ListInv

LEMMA EmptyListIsFine ==
  ASSUME job_sequence = <<>>, job_count = 0
  PROVE  ListInv
<1>1. /\ <<>> \in Seq(MomentType)
      /\ Distinct(<<>>) /\ GapsClosed(<<>>) /\ JobsOrdered(<<>>, 0) /\ Ascending(<<>>)
  BY DEF Distinct, GapsClosed, JobsOrdered, Ascending
<1>2. 1..0 = {} /\ DOMAIN <<>> = {}
  OBVIOUS
<1>3. LinesHeld
  BY <1>2 DEF LinesHeld, Holds
<1> QED
  BY <1>1, <1>3 DEF ListInv

LEMMA SequencerStarts ==
  ASSUME Init
  PROVE  SequencerInv
<1>1. job_file.lines \in Seq(JobLine)
  <2>1. \/ \E w \in CsimWorlds : job_file = w.job_file
        \/ job_file = [openable |-> FALSE, lines |-> <<>>]
    BY DEF Init
  <2>2. CASE \E w \in CsimWorlds : job_file = w.job_file
    BY <2>2, WorldsAssumption
  <2>3. CASE job_file = [openable |-> FALSE, lines |-> <<>>]
    <3>1. job_file.lines = <<>>
      BY <2>3
    <3>2. <<>> \in Seq(JobLine)
      OBVIOUS
    <3> QED
      BY <3>1, <3>2
  <2> QED
    BY <2>1, <2>2, <2>3
<1>2. job_count = 0 /\ job_sequence = <<>>
  BY DEF Init, ProgramInit
<1> QED
  BY <1>1, <1>2, GeneratorStarts, EmptyListIsFine DEF SequencerInv

LEMMA EmptyListIsFineNext ==
  ASSUME job_sequence' = <<>>, job_count' = 0
  PROVE  ListInv'
<1>1. /\ <<>> \in Seq(MomentType)
      /\ Distinct(<<>>) /\ GapsClosed(<<>>) /\ JobsOrdered(<<>>, 0) /\ Ascending(<<>>)
  BY DEF Distinct, GapsClosed, JobsOrdered, Ascending
<1>2. 1..0 = {} /\ DOMAIN <<>> = {}
  OBVIOUS
<1>3. LinesHeld'
  BY <1>2 DEF LinesHeld, Holds
<1> QED
  BY <1>1, <1>3 DEF ListInv

\* One line is added.
LEMMA ParseLineKeeps ==
  ASSUME SequencerInv, ParseLine
  PROVE  ListInv' /\ SameOrder(job_sequence, job_sequence')
<1> DEFINE n == job_count
           m == Moment(n + 1)
<1>1. /\ job_file' = job_file /\ job_count' = n + 1 /\ n \in Nat
      /\ job_sequence' = AddJobMoment(job_sequence, n + 1, m)
      /\ n < Len(job_file.lines)
  BY DEF ParseLine, SequencerInv, ListInv, Moment
<1>2. m \in Nat
  <2>1. n + 1 \in 1..Len(job_file.lines) /\ job_file.lines \in Seq(JobLine)
    BY <1>1 DEF SequencerInv
  <2>2. job_file.lines[n + 1] \in JobLine
    BY <2>1
  <2> QED
    BY <2>2 DEF Moment, JobLine
<1>3. /\ n + 1 \in Nat /\ n + 1 # 0
      /\ n = 0 => m = Moment(1)
      /\ FirstIsEarliest' => FirstIsEarliest /\ Moment(1) <= m
  BY <1>1 DEF FirstIsEarliest, Moment
<1>4. /\ job_sequence \in Seq(MomentType) /\ Distinct(job_sequence) /\ GapsClosed(job_sequence)
      /\ JobsOrdered(job_sequence, n)
      /\ job_sequence = <<>> <=> n = 0
      /\ job_sequence # <<>> => job_sequence[1].time = Moment(1)
      /\ FirstIsEarliest => Ascending(job_sequence)
  BY DEF SequencerInv, ListInv
<1> HIDE DEF n, m
<1>5. job_sequence' \in Seq(MomentType)
  BY <1>1, <1>2, <1>3, <1>4, AddJobMomentWays
<1>6. Distinct(job_sequence')
  BY <1>1, <1>2, <1>3, <1>4, AddKeepsDistinct
<1>7. GapsClosed(job_sequence')
  BY <1>1, <1>2, <1>3, <1>4, AddKeepsGapsClosed
<1>8. JobsOrdered(job_sequence', n + 1)
  BY <1>1, <1>2, <1>4, AddKeepsOrdered
<1>9. job_sequence' # <<>> /\ job_sequence'[1].time = Moment(1)'
  <2>1. Moment(1)' = Moment(1)
    BY <1>1 DEF Moment
  <2>2. /\ job_sequence' # <<>>
        /\ job_sequence'[1].time = IF job_sequence = <<>> THEN m ELSE job_sequence[1].time
    BY <1>1, <1>2, <1>3, <1>4, AddKeepsHead
  <2> QED
    BY <1>3, <1>4, <2>1, <2>2
<1>10. FirstIsEarliest' => Ascending(job_sequence')
  <2> SUFFICES ASSUME FirstIsEarliest'
               PROVE  Ascending(job_sequence')
    OBVIOUS
  <2>1. Ascending(job_sequence) /\ (job_sequence # <<>> => job_sequence[1].time <= m)
    BY <1>3, <1>4
  <2> QED
    BY <1>1, <1>2, <1>3, <1>4, <2>1, AddKeepsAscending
<1>11. SameOrder(job_sequence, job_sequence')
  BY <1>1, <1>2, <1>3, <1>4, AddKeepsOrder
<1>12. job_count' \in Nat /\ job_count' # 0 /\ job_count' = n + 1
  BY <1>1, <1>3
<1>13. LinesHeld'
  <2> SUFFICES ASSUME NEW j, NEW time
               PROVE  Holds(job_sequence', j, time)
                        <=> j \in 1..(n + 1) /\ time = Moment(j)
    BY <1>1, <1>12 DEF LinesHeld, Moment
  <2>1. Holds(job_sequence', j, time)
          <=> Holds(job_sequence, j, time) \/ (j = n + 1 /\ time = m)
    BY <1>1, <1>2, <1>3, <1>4, AddHolds
  <2>2. Holds(job_sequence, j, time) <=> j \in 1..n /\ time = Moment(j)
    BY DEF SequencerInv, ListInv, LinesHeld, n
  <2>3. j \in 1..(n + 1) <=> j \in 1..n \/ j = n + 1
    BY <1>1
  <2> QED
    BY <1>1, <2>1, <2>2, <2>3 DEF m
<1> QED
  BY <1>13, <1>5, <1>6, <1>7, <1>8, <1>9, <1>10, <1>11, <1>12 DEF ListInv

\* What sort has made of the generator's output is a dataset.
LEMMA FeedKeeps ==
  ASSUME SequencerInv, Feed
  PROVE  job_file'.lines \in Seq(JobLine) /\ ListInv'
<1>1. PICK order \in [DOMAIN lines -> DOMAIN lines] :
        job_file' = [openable |-> TRUE, lines |-> JobLines(order)]
  BY DEF Feed, Orders
<1>2. JobLines(order) \in Seq(JobLine)
  <2>1. lines \in Seq(LineType) /\ DOMAIN lines = 1..Len(lines) /\ Len(lines) \in Nat
    BY DEF SequencerInv, GeneratorInv
  <2>2. ASSUME NEW i \in DOMAIN lines
        PROVE  [moment   |-> lines[order[i]].moment,
                priority |-> lines[order[i]].field["--priority"]] \in JobLine
    <3>1. lines[order[i]] \in LineType
      BY <2>1
    <3>2. /\ lines[order[i]].moment \in Nat
          /\ lines[order[i]].field \in [RangeOptions -> Nat]
      BY <3>1 DEF LineType
    <3>3. lines[order[i]].field["--priority"] \in Nat
      BY <3>2 DEF RangeOptions
    <3> QED
      BY <3>2, <3>3 DEF JobLine
  <2> QED
    BY <2>1, <2>2 DEF JobLines
<1>3. job_file'.lines = JobLines(order)
  BY <1>1
<1>4. job_sequence' = <<>> /\ job_count' = 0
  BY DEF Feed, sequenceVars, SequencerInv, ListInv, Early
<1> QED
  BY <1>2, <1>3, <1>4, EmptyListIsFineNext

\* The steps that the list or the dataset takes part in.
LEMMA SequencerSteps ==
  ASSUME [Next]_vars
  PROVE  \/ /\ UNCHANGED <<job_file, job_count, job_sequence>>
            /\ pc' \in Early => pc \in Early
         \/ OpenJobs \/ ParseLine \/ Feed
<1>1. CASE ProgramStep
  <2>1. CASE Main \/ InitScheduler \/ Simulate
    BY <2>1 DEF Main, InitScheduler, InitReturns, Simulate, Goto, Fail, Crash, inputVars,
                sequenceVars, Early
  <2>2. CASE LoadJobs
    BY <2>2 DEF LoadJobs, EndOfJobs, Goto, sequenceVars, Early
  <2>3. CASE LoadNetwork /\ UNCHANGED <<job_file, sequenceVars>>
    BY <2>3 DEF LoadNetwork, OpenNodes, NetworkLoaded, BareHeader, UnknownType, ReadP2P,
                ReadBus, MakeNode, NodeMissing, BusRead, Open, Goto, Fail, Crash,
                sequenceVars, Early
  <2>4. CASE PopulateNodeRegistry /\ UNCHANGED <<job_file, sequenceVars>>
    BY <2>4 DEF PopulateNodeRegistry, AllocateRegistry, RegisterNodes, AllRegistered, Goto,
                sequenceVars, Early
  <2>5. CASE RunRoundRobin
    BY <2>5 DEF RunRoundRobin, FirstTick, Distribute, Distributed, Schedule, Goto, Crash,
                RoundRobinFrame, sequenceVars, Early
  <2>6. CASE Destroy
    <3>1. UNCHANGED <<job_file, job_count, job_sequence>>
      BY <2>6 DEF Destroy, DestroyJobs, DestroyConnections, DestroyRegistry,
                  DestroyScheduler, DestroyFrame, inputVars, sequenceVars
    <3>2. pc' \in Early => pc \in Early
      BY <2>6 DEF Destroy, DestroyJobs, DestroyConnections, DestroyRegistry,
                  DestroyScheduler, Unset, Goto, Crash, Early
    <3> QED
      BY <3>1, <3>2
  <2> QED
    BY <1>1, <2>1, <2>2, <2>3, <2>4, <2>5, <2>6 DEF ProgramStep
<1>2. CASE UNCHANGED programVars
  BY <1>2 DEF programVars, inputVars, sequenceVars, processVars
<1>3. ProgramStep \/ UNCHANGED programVars \/ Feed
  BY DEF Next, Ended, vars
<1> QED
  BY <1>1, <1>2, <1>3

\* Moments never change places: NeverReorders is the same for one step.
LEMMA SequencerStepKeeps ==
  ASSUME SequencerInv, [Next]_vars
  PROVE  SequencerInv' /\ SameOrder(job_sequence, job_sequence')
<1>1. GeneratorInv'
  BY GeneratorStepKeeps DEF SequencerInv
<1>2. CASE UNCHANGED <<job_file, job_count, job_sequence>> /\ (pc' \in Early => pc \in Early)
  BY <1>1, <1>2 DEF SequencerInv, ListInv, LinesHeld, FirstIsEarliest, Moment, SameOrder
<1>3. CASE OpenJobs
  <2>1. job_sequence = <<>>
    BY <1>3 DEF OpenJobs, SequencerInv, Early
  <2>2. job_file' = job_file /\ job_sequence' = <<>> /\ job_count' = 0
    BY <1>3 DEF OpenJobs
  <2> QED
    BY <1>1, <2>1, <2>2, EmptyListIsFineNext DEF SequencerInv, SameOrder
<1>4. CASE ParseLine
  <2>1. job_file' = job_file /\ pc' \notin Early
    BY <1>4 DEF ParseLine, processVars, Early
  <2> QED
    BY <1>1, <1>4, <2>1, ParseLineKeeps DEF SequencerInv
<1>5. CASE Feed
  <2>1. job_sequence = <<>> /\ job_sequence' = <<>>
    BY <1>5 DEF Feed, SequencerInv, Early, sequenceVars
  <2> QED
    BY <1>1, <1>5, <2>1, FeedKeeps DEF SequencerInv, SameOrder
<1> QED
  BY <1>2, <1>3, <1>4, <1>5, SequencerSteps

THEOREM SequencerInvHolds == Spec => []SequencerInv
<1>1. Init => SequencerInv
  BY SequencerStarts
<1>2. SequencerInv /\ [Next]_vars => SequencerInv'
  BY SequencerStepKeeps
<1> QED
  BY <1>1, <1>2, PTL DEF Spec

\* Whatever the order of the lines, no two moments of the list have the same
\* time: simulate.c:40 will not pass over one of them.
THEOREM MomentsHaveTheirOwnTime == Spec => []TimesDistinct
<1>1. SequencerInv => TimesDistinct
  BY DEF SequencerInv, ListInv, Distinct, TimesDistinct, Position
<1> QED
  BY <1>1, SequencerInvHolds, PTL

\* Every line read is in one place of the list, under its own moment, however
\* the scan went that looked for it, and nothing else is in the list
\* (add_job_moment.c:33-90).
THEOREM EachLineIsPlacedOnce == Spec => []EachLineOnce
<1>1. SequencerInv => EachLineOnce
  <2> SUFFICES ASSUME SequencerInv PROVE EachLineOnce
    OBVIOUS
  <2> DEFINE ms == job_sequence
  <2>1. /\ job_count \in Nat /\ ms \in Seq(MomentType)
        /\ Distinct(ms) /\ JobsOrdered(ms, job_count)
        /\ \A j, m :
             Holds(ms, j, m) <=> j \in 1..job_count /\ m = Moment(j)
    BY DEF SequencerInv, ListInv, LinesHeld
  <2>2. \A p \in DOMAIN ms : ms[p].time \in Nat /\ ms[p].jobs \in Seq(Nat)
    BY <2>1, ListTypes
  <2> HIDE DEF ms
  <2>3. ASSUME NEW p \in DOMAIN ms, NEW i \in DOMAIN ms[p].jobs
        PROVE  /\ ms[p].jobs[i] \in 1..job_count
               /\ ms[p].time = Moment(ms[p].jobs[i])
    <3>1. Holds(ms, ms[p].jobs[i], ms[p].time)
      BY DEF Holds, HasJob
    <3> QED
      BY <2>1, <3>1
  <2>4. ASSUME NEW p \in DOMAIN ms, NEW i \in DOMAIN ms[p].jobs,
               NEW q \in DOMAIN ms, NEW k \in DOMAIN ms[q].jobs,
               ms[q].jobs[k] = ms[p].jobs[i]
        PROVE  q = p /\ k = i
    <3>1. q = p
      BY <2>1, <2>3, <2>4 DEF Distinct
    <3>2. Ordered(ms[p].jobs, job_count) /\ ms[p].jobs \in Seq(Nat)
      BY <2>1, <2>2 DEF JobsOrdered
    <3>3. i \in Nat /\ k \in Nat /\ ms[p].jobs[i] \in Nat /\ k \in DOMAIN ms[p].jobs
      BY <3>1, <3>2
    <3>4. ~(i < k) /\ ~(k < i)
      BY <2>4, <3>1, <3>2, <3>3 DEF Ordered
    <3> QED
      BY <3>1, <3>3, <3>4
  <2>5. ASSUME NEW j \in 1..job_count
        PROVE  \E p \in DOMAIN ms : \E i \in DOMAIN ms[p].jobs :
                 /\ ms[p].jobs[i] = j
                 /\ ms[p].time = Moment(j)
                 /\ \A q \in DOMAIN ms : \A k \in DOMAIN ms[q].jobs :
                      ms[q].jobs[k] = j => q = p /\ k = i
    <3>1. Holds(ms, j, Moment(j))
      BY <2>1
    <3>2. PICK p \in DOMAIN ms : ms[p].time = Moment(j) /\ HasJob(ms[p].jobs, j)
      BY <3>1 DEF Holds
    <3>3. PICK i \in DOMAIN ms[p].jobs : ms[p].jobs[i] = j
      BY <3>2 DEF HasJob
    <3> QED
      BY <2>4, <3>2, <3>3
  <2>6. \A p \in DOMAIN ms : ToSet(ms[p].jobs) \subseteq 1..job_count
    BY <2>3 DEF ToSet
  <2> QED
    BY <2>5, <2>6 DEF EachLineOnce, Position, ms
<1> QED
  BY <1>1, SequencerInvHolds, PTL

\* Whatever the order of the lines, the jobs of a moment stay in theirs: FIFO
\* queues them by it (add_job_moment.c:58, schedule_fifo.c:77).
THEOREM MomentsKeepTheLineOrder == Spec => []LineOrderKept
<1>1. SequencerInv => LineOrderKept
  BY DEF SequencerInv, ListInv, JobsOrdered, Ordered, LineOrderKept, Position
<1> QED
  BY <1>1, SequencerInvHolds, PTL

\* When no line is earlier than the first the list is sorted, whatever the
\* order of the others: the simulator meets every moment in its time
\* (add_job_moment.c:69, simulate.c:40).
THEOREM EarliestFirstSorts == Spec => []SortedAfterEarliestFirst
<1>1. SequencerInv => SortedAfterEarliestFirst
  BY DEF SequencerInv, ListInv, FirstIsEarliest, Ascending, SortedAfterEarliestFirst, Position
<1> QED
  BY <1>1, SequencerInvHolds, PTL

\* Lines read later never swap moments that are in the list.
THEOREM MomentsNeverSwap == Spec => NeverReorders
<1>1. SequencerInv /\ [Next]_vars =>
        [\A p, q \in Position : p < q =>
           \E r, s \in DOMAIN job_sequence' :
             /\ r < s
             /\ job_sequence'[r].time = job_sequence[p].time
             /\ job_sequence'[s].time = job_sequence[q].time]_sequenceVars
  BY SequencerStepKeeps DEF SameOrder, Position
<1> QED
  BY <1>1, SequencerInvHolds, PTL DEF Spec, NeverReorders

-----------------------------------------------------------------------------
(***************************************************************************)
(* The queue that round-robin is handed before its first call: an          *)
(* insertion sort in which the head is never moved.                        *)
(***************************************************************************)
NoTwice(q) == \A p, r \in DOMAIN q : q[p] = q[r] => p = r

TailInOrder(q) ==
  \A p, r \in 2..Len(q) : p < r =>
    \/ Priority(q[p]) < Priority(q[r])
    \/ Priority(q[p]) = Priority(q[r]) /\ q[p] > q[r]

WayBack(q, back) ==
  \A p \in DOMAIN q :
    \/ back[q[p]] = (IF p = 1 THEN 0 ELSE q[p - 1])
    \/ p = 2 /\ back[q[p]] = 0

\* A chain in order, with the pointers back.
InOrder(q, back) ==
  /\ q \in Seq(Nat)
  /\ \A p \in DOMAIN q : Priority(q[p]) \in Nat
  /\ NoTwice(q) /\ TailInOrder(q) /\ WayBack(q, back)
  /\ DOMAIN back = ToSet(q)

\* Job j has been placed at place p of q, behind what is more urgent.
PlacedAt(q, new, j, p) ==
  /\ p \in 2..(Len(q) + 1)
  /\ \A k \in 2..(p - 1) : Priority(q[k]) < Priority(j)
  /\ p <= Len(q) => Priority(j) <= Priority(q[p])
  /\ new \in Seq(Nat) /\ Len(new) = Len(q) + 1
  /\ \A k \in 1..(Len(q) + 1) :
       new[k] = IF k < p THEN q[k] ELSE IF k = p THEN j ELSE q[k - 1]

BackOf(q, back, new, j, p) ==
  new = [i \in DOMAIN back \cup {j} |->
           IF i = j THEN (IF p = 2 /\ p <= Len(q) THEN 0 ELSE q[p - 1])
           ELSE IF p <= Len(q) /\ i = q[p] THEN j ELSE back[i]]

LEMMA PlaceWays ==
  ASSUME NEW q \in Seq(Nat), q # <<>>, NEW back, NEW j \in Nat, Priority(j) \in Nat,
         \A p \in DOMAIN q : Priority(q[p]) \in Nat
  PROVE  \E p : /\ PlacedAt(q, PlaceByWaitTime(q, back, j).chain, j, p)
                /\ BackOf(q, back, PlaceByWaitTime(q, back, j).prev, j, p)
<1> DEFINE waits == {k \in 2..Len(q) : StopsAtPriority(j, q[k])}
           later == {k \in 2..Len(q) : WaitTime(Head(q)) <= WaitTime(q[k])}
           n     == Len(q)
<1>1. n \in Nat /\ n >= 1 /\ DOMAIN q = 1..n
  BY EmptySeq
<1>2. later = 2..n
  BY DEF WaitTime
<1>3. waits \subseteq 2..n /\ waits \in SUBSET Nat /\ later \in SUBSET Nat
  OBVIOUS
<1>4. ASSUME NEW p, p = (IF waits = {} THEN n + 1 ELSE Min(waits))
      PROVE  /\ p \in 2..(n + 1) /\ (p <= n <=> waits # {})
             /\ \A k \in 2..(p - 1) : Priority(q[k]) < Priority(j)
             /\ p <= n => Priority(j) <= Priority(q[p])
  <2>1. CASE waits = {}
    <3>1. \A k \in 2..n : ~(Priority(j) <= Priority(q[k]))
      BY <2>1 DEF StopsAtPriority
    <3>2. (n + 1) - 1 = n
      BY <1>1
    <3> QED
      BY <1>1, <1>4, <2>1, <3>1, <3>2
  <2>2. CASE waits # {}
    <3>1. p \in waits /\ \A k \in waits : p <= k
      <4> HIDE DEF waits
      <4> QED
        BY <1>3, <1>4, <2>2, MinIsLeast
    <3>2. p \in 2..n /\ Priority(j) <= Priority(q[p])
      BY <3>1 DEF StopsAtPriority
    <3>3. \A k \in 2..(p - 1) : k \in 2..n /\ k \notin waits
      BY <1>1, <3>1, <3>2
    <3>4. \A k \in 2..(p - 1) : ~(Priority(j) <= Priority(q[k])) /\ k \in DOMAIN q
      BY <1>1, <3>3 DEF StopsAtPriority
    <3>5. \A k \in 2..(p - 1) : Priority(q[k]) < Priority(j)
      BY <3>4
    <3> HIDE DEF waits
    <3> QED
      BY <1>1, <2>2, <3>2, <3>5
  <2> QED
    BY <2>1, <2>2
<1>5. CASE waits = {}
  <2>1. PlaceByPriority(q, back, 2, j) = Behind(q, back, j)
    BY <1>5 DEF PlaceByPriority, SelectInSubSeq
  <2>2. PlaceByWaitTime(q, back, j) = Behind(q, back, j)
    <3>1. CASE n = 1
      <4>1. later = {}
        BY <1>2, <3>1
      <4> QED
        BY <4>1 DEF PlaceByWaitTime, SelectInSubSeq
    <3>2. CASE n # 1
      <4>1. later # {} /\ Min(later) = 2
        <5> HIDE DEF later
        <5>1. 2 \in 2..n
          BY <1>1, <3>2
        <5>2. Min(later) \in later /\ \A k \in later : Min(later) <= k
          BY <1>2, <1>3, <5>1, MinIsLeast
        <5> QED
          BY <1>1, <1>2, <5>1, <5>2
      <4>2. PlaceByWaitTime(q, back, j) = PlaceByPriority(q, back, 2, j)
        BY <4>1 DEF PlaceByWaitTime, SelectInSubSeq
      <4> QED
        BY <2>1, <4>2
    <3> QED
      BY <3>1, <3>2
  <2>3. PlacedAt(q, Append(q, j), j, n + 1)
    <3>1. /\ Append(q, j) \in Seq(Nat) /\ Len(Append(q, j)) = n + 1
          /\ \A k \in 1..(n + 1) : Append(q, j)[k] = IF k < n + 1 THEN q[k] ELSE j
      OBVIOUS
    <3> QED
      BY <1>1, <1>4, <1>5, <3>1 DEF PlacedAt
  <2>4. BackOf(q, back, Behind(q, back, j).prev, j, n + 1)
    <3>1. ~(n + 1 <= n) /\ (n + 1) - 1 = n
      BY <1>1
    <3> QED
      BY <3>1 DEF BackOf, Behind, Last
  <2>5. Behind(q, back, j).chain = Append(q, j)
    BY DEF Behind
  <2> QED
    BY <2>2, <2>3, <2>4, <2>5
<1>6. CASE waits # {}
  <2> DEFINE p == Min(waits)
  <2>1. p \in 2..n
    BY <1>1, <1>4, <1>6
  <2>2. PlaceByWaitTime(q, back, j) = PlaceByPriority(q, back, 2, j)
    <3>1. 2 \in 2..n
      BY <1>1, <2>1
    <3>3. later # {} /\ Min(later) = 2
      <4> HIDE DEF later
      <4>1. Min(later) \in later /\ \A k \in later : Min(later) <= k
        BY <1>2, <1>3, <3>1, MinIsLeast
      <4> QED
        BY <1>1, <1>2, <3>1, <4>1
    <3> QED
      BY <3>3 DEF PlaceByWaitTime, SelectInSubSeq
  <2>3. /\ PlaceByPriority(q, back, 2, j).chain = InsertAt(q, p, j)
        /\ PlaceByPriority(q, back, 2, j).prev
             = [i \in DOMAIN back \cup {j} |->
                  IF i = j THEN (IF p = 2 THEN 0 ELSE q[p - 1])
                  ELSE IF i = q[p] THEN j ELSE back[i]]
    <3>1. SelectInSubSeq(q, 2, n, LAMBDA i : StopsAtPriority(j, i)) = p
      BY <1>6 DEF SelectInSubSeq
    <3>2. p # 0
      BY <1>1, <2>1
    <3> HIDE DEF p, waits
    <3> QED
      BY <3>1, <3>2 DEF PlaceByPriority
  <2>4. /\ InsertAt(q, p, j) \in Seq(Nat)
        /\ Len(InsertAt(q, p, j)) = n + 1
        /\ \A k \in 1..(n + 1) :
             InsertAt(q, p, j)[k] = IF k < p THEN q[k] ELSE IF k = p THEN j ELSE q[k - 1]
    <3> DEFINE S == Nat
    <3>1. p \in 1..(Len(q) + 1) /\ q \in Seq(S) /\ j \in S
      BY <1>1, <2>1
    <3> HIDE DEF p, S
    <3>2. /\ InsertAt(q, p, j) \in Seq(S)
          /\ Len(InsertAt(q, p, j)) = Len(q) + 1
          /\ \A k \in 1..(Len(q) + 1) :
               InsertAt(q, p, j)[k] = IF k < p THEN q[k] ELSE IF k = p THEN j ELSE q[k - 1]
      BY ONLY <3>1, InsertAtProperties
    <3> QED
      BY <3>2 DEF S
  <2>5. PlacedAt(q, InsertAt(q, p, j), j, p)
    <3>1. p = (IF waits = {} THEN n + 1 ELSE Min(waits))
      BY <1>6
    <3> HIDE DEF p, waits
    <3> QED
      BY <1>4, <2>4, <3>1 DEF PlacedAt
  <2>6. BackOf(q, back, PlaceByPriority(q, back, 2, j).prev, j, p)
    <3> HIDE DEF p
    <3> QED
      BY <1>1, <2>1, <2>3 DEF BackOf
  <2> QED
    BY <2>2, <2>3, <2>5, <2>6
<1> QED
  BY <1>5, <1>6

LEMMA PlacedInOrder ==
  ASSUME NEW j \in Nat, Priority(j) \in Nat, NEW q, NEW back, InOrder(q, back),
         \A k \in DOMAIN q : q[k] < j,
         NEW new, NEW nb, NEW p, PlacedAt(q, new, j, p), BackOf(q, back, nb, j, p)
  PROVE  InOrder(new, nb) /\ new[1] = q[1] /\ \A x : HasJob(new, x) <=> HasJob(q, x) \/ x = j
<1> DEFINE n == Len(q)
<1>1. /\ n \in Nat /\ DOMAIN q = 1..n /\ q \in Seq(Nat)
      /\ new \in Seq(Nat) /\ DOMAIN new = 1..(n + 1) /\ Len(new) = n + 1
      /\ p \in 2..(n + 1) /\ Len(q) = n
  BY DEF InOrder, PlacedAt
<1> HIDE DEF n
<1>0. \A k \in 1..n : q[k] \in Nat /\ Priority(q[k]) \in Nat /\ q[k] < j
  <2>1. \A k \in DOMAIN q : Priority(q[k]) \in Nat
    BY DEF InOrder
  <2>2. \A k \in 1..n : q[k] \in Nat
    BY <1>1
  <2> QED
    BY <1>1, <2>1, <2>2
<1>2. /\ \A k \in 1..n : k < p => new[k] = q[k]
      /\ new[p] = j
      /\ \A k \in 1..n : k >= p => new[k + 1] = q[k]
  <2>1. \A k \in 1..(n + 1) :
          new[k] = IF k < p THEN q[k] ELSE IF k = p THEN j ELSE q[k - 1]
    BY <1>1 DEF PlacedAt
  <2>2. ASSUME NEW k \in 1..n, k >= p PROVE new[k + 1] = q[k]
    <3>1. k + 1 \in 1..(n + 1) /\ ~(k + 1 < p) /\ k + 1 # p /\ (k + 1) - 1 = k
      BY <1>1, <2>2
    <3> QED
      BY <2>1, <3>1
  <2> QED
    BY <1>1, <2>1, <2>2
\* Where a place of the new list comes from.
<1>3. ASSUME NEW k \in 1..(n + 1)
      PROVE  \/ k < p /\ k \in 1..n /\ new[k] = q[k]
             \/ k = p /\ new[k] = j
             \/ k > p /\ k - 1 \in 1..n /\ k - 1 >= p /\ new[k] = q[k - 1]
  <2>1. CASE k < p
    BY <1>1, <1>2, <2>1
  <2>2. CASE k > p
    <3>1. k - 1 \in 1..n /\ k - 1 >= p /\ (k - 1) + 1 = k
      BY <1>1, <2>2
    <3> QED
      BY <1>2, <2>2, <3>1
  <2> QED
    BY <1>1, <1>2, <2>1, <2>2
<1>4. new[1] = q[1]
  BY <1>1, <1>2
<1>5. ASSUME NEW x PROVE HasJob(new, x) <=> HasJob(q, x) \/ x = j
  <2>1. HasJob(new, x) => HasJob(q, x) \/ x = j
    BY <1>1, <1>3 DEF HasJob
  <2>2. ASSUME NEW k \in 1..n PROVE HasJob(new, q[k])
    <3>1. CASE k < p
      <4>1. k \in DOMAIN new /\ new[k] = q[k]
        BY <1>1, <1>2, <3>1
      <4> QED
        BY <4>1 DEF HasJob
    <3>2. CASE k >= p
      <4>1. k + 1 \in DOMAIN new
        BY <1>1
      <4> QED
        BY <1>2, <3>2, <4>1 DEF HasJob
    <3> QED
      BY <1>1, <3>1, <3>2
  <2>3. HasJob(new, j)
    <3>1. p \in DOMAIN new
      BY <1>1
    <3> QED
      BY <1>2, <3>1 DEF HasJob
  <2> QED
    BY <1>1, <2>1, <2>2, <2>3 DEF HasJob
<1>6. NoTwice(new)
  <2> SUFFICES ASSUME NEW a \in 1..(n + 1), NEW b \in 1..(n + 1), new[a] = new[b]
               PROVE  a = b
    BY <1>1 DEF NoTwice
  <2>1. \A k \in 1..n : q[k] # j /\ q[k] \in Nat
    BY <1>0
  <2>2. \A c, d \in 1..n : q[c] = q[d] => c = d
    BY <1>1 DEF InOrder, NoTwice
  <2> QED
    <3>0. /\ a \in Nat /\ b \in Nat /\ p \in Nat
          /\ a < p => a \in 1..n /\ new[a] = q[a]
          /\ b < p => b \in 1..n /\ new[b] = q[b]
          /\ a = p => new[a] = j
          /\ b = p => new[b] = j
          /\ a > p => a - 1 \in 1..n /\ new[a] = q[a - 1]
          /\ b > p => b - 1 \in 1..n /\ new[b] = q[b - 1]
      BY <1>1, <1>2, <1>3
    <3>1. CASE a < p
      <4>1. CASE b > p
        BY <2>2, <3>0, <3>1, <4>1
      <4> QED
        BY <2>1, <2>2, <3>0, <3>1, <4>1
    <3>2. CASE a = p
      BY <2>1, <3>0, <3>2
    <3>3. CASE a > p
      <4>1. CASE b > p
        <5>1. a - 1 = b - 1
          BY <2>2, <3>0, <3>3, <4>1
        <5> QED
          BY <3>0, <5>1
      <4>2. CASE b < p
        BY <2>2, <3>0, <3>3, <4>2
      <4> QED
        BY <2>1, <3>0, <3>3, <4>1, <4>2
    <3> QED
      BY <3>0, <3>1, <3>2, <3>3
<1>7. \A k \in DOMAIN new : Priority(new[k]) \in Nat
  BY <1>1, <1>3 DEF InOrder
<1>8. TailInOrder(new)
  <2> SUFFICES ASSUME NEW a \in 2..(n + 1), NEW b \in 2..(n + 1), a < b
               PROVE  \/ Priority(new[a]) < Priority(new[b])
                      \/ Priority(new[a]) = Priority(new[b]) /\ new[a] > new[b]
    BY <1>1 DEF TailInOrder
  <2>1. \A c, d \in 2..n : c < d =>
          \/ Priority(q[c]) < Priority(q[d])
          \/ Priority(q[c]) = Priority(q[d]) /\ q[c] > q[d]
    BY <1>1 DEF InOrder, TailInOrder
  <2>2. \A k \in 1..n : q[k] \in Nat /\ Priority(q[k]) \in Nat /\ q[k] < j
    BY <1>0
  <2>3. \A k \in 2..n : k < p => Priority(q[k]) < Priority(j)
    <3>1. \A k \in 2..(p - 1) : Priority(q[k]) < Priority(j)
      BY DEF PlacedAt
    <3> QED
      BY <1>1, <3>1
  <2>4. \A k \in 2..n : k >= p => Priority(j) <= Priority(q[k])
    <3> SUFFICES ASSUME NEW k \in 2..n, k >= p
                 PROVE  Priority(j) <= Priority(q[k])
      OBVIOUS
    <3>1. p \in 2..n /\ Priority(j) <= Priority(q[p])
      BY <1>1 DEF PlacedAt
    <3>2. Priority(q[p]) <= Priority(q[k])
      <4>1. p \in 1..n /\ k \in 1..n /\ (p < k \/ p = k)
        BY <1>1, <3>1
      <4>2. Priority(q[p]) \in Nat /\ Priority(q[k]) \in Nat
        BY <2>2, <4>1
      <4>3. CASE p < k
        <5>1. Priority(q[p]) < Priority(q[k]) \/ Priority(q[p]) = Priority(q[k])
          BY <2>1, <3>1, <4>3
        <5> QED
          BY <4>2, <5>1
      <4> QED
        BY <4>1, <4>2, <4>3
    <3> QED
      BY <1>1, <2>2, <3>1, <3>2
  <2>5. CASE b < p
    <3>1. a \in 2..n /\ b \in 2..n /\ new[a] = q[a] /\ new[b] = q[b]
      BY <1>1, <1>2, <2>5
    <3> QED
      BY <2>1, <3>1
  <2>6. CASE b = p
    <3>1. a \in 2..n /\ new[a] = q[a] /\ new[b] = j /\ a < p
      BY <1>1, <1>2, <2>6
    <3> QED
      BY <2>3, <3>1
  <2>7. CASE b > p
    <3>1. b - 1 \in 2..n /\ b - 1 >= p /\ new[b] = q[b - 1]
      <4>1. new[b] = q[b - 1]
        BY <1>1, <1>3, <2>7
      <4> QED
        BY <1>1, <2>7, <4>1
    <3>2. CASE a < p
      <4>1. a \in 2..n /\ a < b - 1 /\ new[a] = q[a]
        BY <1>1, <1>2, <3>1, <3>2
      <4> QED
        BY <2>1, <3>1, <4>1
    <3>3. CASE a = p
      <4>1. new[a] = j /\ Priority(j) <= Priority(q[b - 1]) /\ q[b - 1] < j
        BY <1>1, <1>2, <2>2, <2>4, <3>1, <3>3
      <4>2. Priority(q[b - 1]) \in Nat /\ q[b - 1] \in Nat
        BY <2>2, <3>1
      <4> QED
        BY <3>1, <4>1, <4>2
    <3>4. CASE a > p
      <4>1. a - 1 \in 2..n /\ a - 1 < b - 1 /\ new[a] = q[a - 1]
        <5>1. new[a] = q[a - 1]
          BY <1>1, <1>3, <3>4
        <5> QED
          BY <1>1, <3>1, <3>4, <5>1
      <4> QED
        BY <2>1, <3>1, <4>1
    <3> QED
      BY <1>1, <3>2, <3>3, <3>4
  <2> QED
    BY <1>1, <2>5, <2>6, <2>7
<1>9. DOMAIN nb = ToSet(new)
  <2>1. DOMAIN nb = ToSet(q) \cup {j}
    BY DEF BackOf, InOrder
  <2>2. \A x : (x \in ToSet(q) <=> HasJob(q, x)) /\ (x \in ToSet(new) <=> HasJob(new, x))
    BY DEF ToSet, HasJob
  <2> QED
    BY <1>5, <2>1, <2>2
<1>10. WayBack(new, nb)
  <2> SUFFICES ASSUME NEW k \in 1..(n + 1)
               PROVE  \/ nb[new[k]] = (IF k = 1 THEN 0 ELSE new[k - 1])
                      \/ k = 2 /\ nb[new[k]] = 0
    BY <1>1 DEF WayBack
  <2>1. \A c \in 1..n :
          /\ \/ back[q[c]] = (IF c = 1 THEN 0 ELSE q[c - 1])
             \/ c = 2 /\ back[q[c]] = 0
          /\ q[c] # j /\ q[c] \in DOMAIN back
    <3>1. \A c \in 1..n : q[c] # j
      BY <1>0
    <3>2. \A c \in 1..n : q[c] \in ToSet(q)
      BY <1>1 DEF ToSet
    <3> QED
      BY <1>1, <3>1, <3>2 DEF InOrder, WayBack
  <2>2. /\ nb[j] = (IF p = 2 /\ p <= n THEN 0 ELSE q[p - 1])
        /\ \A c \in 1..n : nb[q[c]] = IF p <= n /\ q[c] = q[p] THEN j ELSE back[q[c]]
    BY <1>1, <2>1 DEF BackOf
  <2>3. \A c, d \in 1..n : q[c] = q[d] => c = d
    BY <1>1 DEF InOrder, NoTwice
  <2>4. \A c \in 1..n : nb[q[c]] = IF c = p THEN j ELSE back[q[c]]
    BY <1>1, <2>2, <2>3
  <2>5. CASE k < p
    <3>1. k \in 1..n /\ new[k] = q[k] /\ (k # 1 => k - 1 \in 1..n /\ new[k - 1] = q[k - 1])
      <4>1. k # 1 => k - 1 \in 1..n /\ k - 1 < p
        BY <1>1, <2>5
      <4> QED
        BY <1>1, <1>2, <2>5, <4>1
    <3> QED
      BY <1>1, <2>1, <2>4, <2>5, <3>1
  <2>6. CASE k = p
    <3>1. new[k] = j /\ k - 1 \in 1..n /\ k - 1 < p
      BY <1>1, <1>2, <2>6
    <3>2. new[k - 1] = q[k - 1]
      BY <1>2, <3>1
    <3> QED
      BY <1>1, <2>2, <2>6, <3>1, <3>2
  <2>7. CASE k > p
    <3>1. k - 1 \in 1..n /\ k - 1 >= p /\ new[k] = q[k - 1]
      BY <1>1, <1>3, <2>7
    <3>2. CASE k - 1 = p
      BY <1>1, <1>2, <2>4, <3>1, <3>2
    <3>3. CASE k - 1 > p
      <4>1. (k - 1) - 1 \in 1..n /\ (k - 1) - 1 >= p /\ ((k - 1) - 1) + 1 = k - 1
        BY <1>1, <3>1, <3>3
      <4>2. new[k - 1] = q[(k - 1) - 1]
        BY <1>2, <4>1
      <4>3. back[q[k - 1]] = q[(k - 1) - 1]
        BY <1>1, <2>1, <3>1, <3>3
      <4>4. nb[new[k]] = back[q[k - 1]]
        BY <1>1, <2>4, <3>1, <3>3
      <4> QED
        BY <1>1, <2>7, <4>2, <4>3, <4>4
    <3> QED
      BY <1>1, <3>1, <3>2, <3>3
  <2> QED
    BY <1>1, <2>5, <2>6, <2>7
<1> QED
  BY <1>1, <1>4, <1>5, <1>6, <1>7, <1>8, <1>9, <1>10 DEF InOrder

FreshQueue == pending = <<>> /\ prev = <<>> /\ jlist = 1

\* The queue holds the jobs of the first moment that have been handed over.
QueueSoFar ==
  /\ jlist \in 1..(Len(FirstMoment) + 1)
  /\ InOrder(pending, prev)
  /\ Len(pending) = jlist - 1
  /\ \A x : HasJob(pending, x) <=> \E k \in 1..(jlist - 1) : FirstMoment[k] = x
  /\ pending # <<>> => pending[1] = FirstMoment[1]

Handing == {"distribute", "schedule", "crashed"}

QueueInv ==
  /\ job_count <= Len(job_file.lines)
  /\ pc \in {"tick", "distribute", "schedule"} \/ ~FreshQueue => job_count # 0
  /\ FreshQueue \/ (pc \in Handing /\ QueueSoFar)
  /\ pc = "schedule" /\ ~FreshQueue => jlist = Len(FirstMoment) + 1

LEMMA FirstMomentIs ==
  ASSUME SequencerInv, job_count <= Len(job_file.lines), job_count # 0
  PROVE  /\ FirstMoment \in Seq(Nat)
         /\ \A k \in 1..Len(FirstMoment) :
              /\ FirstMoment[k] \in Jobs /\ FirstMoment[k] \in Nat
              /\ Priority(FirstMoment[k]) \in Nat
         /\ \A i, k \in 1..Len(FirstMoment) : i < k => FirstMoment[i] < FirstMoment[k]
<1> DEFINE ms == job_sequence
           f  == FirstMoment
<1>1. /\ ms \in Seq(MomentType) /\ ms # <<>> /\ job_count \in Nat
      /\ job_file.lines \in Seq(JobLine) /\ JobsOrdered(ms, job_count)
      /\ \A j, m : Holds(ms, j, m) <=> j \in 1..job_count /\ m = Moment(j)
  BY DEF SequencerInv, ListInv, LinesHeld
<1>2. 1 \in DOMAIN ms /\ f = ms[1].jobs
  BY <1>1, EmptySeq DEF FirstMoment
<1>3. f \in Seq(Nat) /\ Ordered(f, job_count)
  BY <1>1, <1>2, ListTypes DEF JobsOrdered
<1>4. ASSUME NEW k \in 1..Len(f)
      PROVE  f[k] \in Jobs /\ f[k] \in Nat /\ Priority(f[k]) \in Nat
  <2>1. HasJob(ms[1].jobs, f[k])
    BY <1>2, <1>3 DEF HasJob
  <2>2. Holds(ms, f[k], ms[1].time)
    BY <1>2, <2>1 DEF Holds
  <2>3. f[k] \in 1..job_count
    BY <1>1, <2>2
  <2>4. f[k] \in DOMAIN job_file.lines
    BY <1>1, <2>3
  <2>5. job_file.lines[f[k]] \in JobLine
    BY <1>1, <2>4
  <2> QED
    BY <2>3, <2>4, <2>5 DEF Jobs, Priority, JobLine
<1> QED
  BY <1>3, <1>4 DEF Ordered

LEMMA DistributeKeepsQueue ==
  ASSUME SequencerInv, QueueInv, Distribute
  PROVE  QueueSoFar' /\ UNCHANGED <<job_file, job_count, job_sequence, pc>>
<1> DEFINE f == FirstMoment
           j == f[jlist]
<1>1. /\ UNCHANGED <<job_file, job_count, job_sequence, pc>>
      /\ pc = "distribute" /\ jlist <= Len(f) /\ jlist' = jlist + 1
  BY DEF Distribute, RoundRobinFrame, sequenceVars
<1>2. /\ f \in Seq(Nat)
      /\ \A k \in 1..Len(f) : f[k] \in Nat /\ Priority(f[k]) \in Nat
      /\ \A i, k \in 1..Len(f) : i < k => f[i] < f[k]
  BY <1>1, FirstMomentIs DEF QueueInv
<1>3. jlist \in 1..Len(f) /\ Len(f) \in Nat /\ jlist \in Nat
  BY <1>1, <1>2 DEF QueueInv, FreshQueue, QueueSoFar
<1>4. FirstMoment' = f /\ \A x : Priority(x)' = Priority(x)
  BY <1>1 DEF FirstMoment, Priority
<1>5. j \in Nat /\ Priority(j) \in Nat
  BY <1>2, <1>3
<1> HIDE DEF f, j
<1>6. SUFFICES /\ InOrder(pending', prev')
               /\ Len(pending') = jlist
               /\ \A x : HasJob(pending', x) <=> \E k \in 1..jlist : f[k] = x
               /\ pending'[1] = f[1]
  <2>1. InOrder(pending', prev') => InOrder(pending, prev)'
    BY <1>1 DEF InOrder, NoTwice, TailInOrder, WayBack, Priority
  <2>2. (jlist + 1) - 1 = jlist /\ jlist + 1 \in 1..(Len(f) + 1)
    BY <1>3
  <2> QED
    BY <1>1, <1>4, <1>6, <2>1, <2>2 DEF QueueSoFar
<1>7. CASE pending = <<>>
  <2>1. jlist = 1
    BY <1>3, <1>7 DEF QueueInv, FreshQueue, QueueSoFar
  <2>2. pending' = <<j>> /\ prev' = [i \in {j} |-> 0]
    BY <1>7 DEF Distribute, j, f
  <2>3. Len(<<j>>) = 1 /\ DOMAIN <<j>> = 1..1 /\ <<j>>[1] = j /\ <<j>> \in Seq(Nat)
    BY <1>5
  <2>4. ToSet(<<j>>) = {j}
    BY <2>3 DEF ToSet
  <2>5. InOrder(<<j>>, [i \in {j} |-> 0])
    BY <1>5, <2>3, <2>4 DEF InOrder, NoTwice, TailInOrder, WayBack
  <2>6. f[1] = j
    BY <2>1 DEF j
  <2>7. \A x : HasJob(<<j>>, x) <=> \E k \in 1..1 : f[k] = x
    BY <2>3, <2>6 DEF HasJob
  <2> QED
    BY <2>1, <2>2, <2>3, <2>5, <2>6, <2>7
<1>8. CASE pending # <<>>
  <2>1. /\ InOrder(pending, prev) /\ pending \in Seq(Nat) /\ Len(pending) = jlist - 1
        /\ \A x : HasJob(pending, x) <=> \E k \in 1..(jlist - 1) : f[k] = x
        /\ pending[1] = f[1]
    BY <1>8 DEF QueueInv, FreshQueue, QueueSoFar, InOrder, f
  <2> DEFINE placed == PlaceByWaitTime(pending, prev, j)
  <2>2. pending' = placed.chain /\ prev' = placed.prev
    BY <1>8 DEF Distribute, j, f
  <2>3. \A k \in DOMAIN pending : Priority(pending[k]) \in Nat
    BY <2>1 DEF InOrder
  <2>4. PICK p : PlacedAt(pending, placed.chain, j, p) /\ BackOf(pending, prev, placed.prev, j, p)
    BY <1>5, <1>8, <2>1, <2>3, PlaceWays
  <2>5. ASSUME NEW k \in DOMAIN pending PROVE pending[k] < j
    <3>1. HasJob(pending, pending[k])
      BY DEF HasJob
    <3>2. PICK i \in 1..(jlist - 1) : f[i] = pending[k]
      BY <2>1, <3>1
    <3>3. i \in 1..Len(f) /\ jlist \in 1..Len(f) /\ i < jlist
      BY <1>3
    <3> QED
      BY <1>2, <3>2, <3>3 DEF j
  <2> HIDE DEF placed
  <2>6. /\ InOrder(pending', prev') /\ pending'[1] = pending[1]
        /\ \A x : HasJob(pending', x) <=> HasJob(pending, x) \/ x = j
    <3> DEFINE new == placed.chain
               nb  == placed.prev
    <3>1. /\ j \in Nat /\ Priority(j) \in Nat /\ InOrder(pending, prev)
          /\ \A k \in DOMAIN pending : pending[k] < j
          /\ PlacedAt(pending, new, j, p) /\ BackOf(pending, prev, nb, j, p)
      BY <1>5, <2>1, <2>4, <2>5
    <3> HIDE DEF new, nb
    <3>2. /\ InOrder(new, nb) /\ new[1] = pending[1]
          /\ \A x : HasJob(new, x) <=> HasJob(pending, x) \/ x = j
      BY ONLY <3>1, PlacedInOrder
    <3> QED
      BY <2>2, <3>2 DEF new, nb
  <2>7. Len(pending') = jlist
    BY <1>3, <2>1, <2>2, <2>4 DEF PlacedAt
  <2>8. ASSUME NEW x
        PROVE  (\E k \in 1..jlist : f[k] = x) <=> (\E k \in 1..(jlist - 1) : f[k] = x) \/ x = j
    <3>1. \A k : k \in 1..jlist <=> k \in 1..(jlist - 1) \/ k = jlist
      BY <1>3
    <3> QED
      BY <3>1 DEF j
  <2> QED
    BY <2>1, <2>6, <2>7, <2>8
<1> QED
  BY <1>7, <1>8

\* The steps before the hand-over leave the queue empty, and it begins only
\* when there are jobs.
LEMMA QueueStaysFresh ==
  ASSUME [Next]_vars, FreshQueue, pc \notin Handing
  PROVE  /\ FreshQueue'
         /\ pc' \in {"tick", "distribute", "schedule"} =>
              job_count' = job_count /\ (pc = "tick" \/ job_count # 0)
<1>1. CASE UNCHANGED roundRobinVars /\ pc' \notin {"tick", "distribute", "schedule"}
  BY <1>1 DEF roundRobinVars, FreshQueue
<1>2. CASE ProgramStep
  <2>1. CASE Main \/ InitScheduler \/ Simulate
    BY <2>1 DEF Main, InitScheduler, InitReturns, InitRoundRobin, Simulate, Goto, Fail, Crash,
                roundRobinVars, sequenceVars, FreshQueue
  <2>2. CASE LoadJobs /\ UNCHANGED roundRobinVars
    BY <1>1, <2>2 DEF LoadJobs, OpenJobs, ParseLine, EndOfJobs, Goto, Open, Fail, processVars
  <2>3. CASE LoadNetwork /\ UNCHANGED roundRobinVars
    BY <1>1, <2>3 DEF LoadNetwork, OpenNodes, NetworkLoaded, BareHeader, UnknownType, ReadP2P,
                ReadBus, MakeNode, NodeMissing, BusRead, Open, Goto, Fail, Crash
  <2>4. CASE PopulateNodeRegistry /\ UNCHANGED roundRobinVars
    BY <1>1, <2>4 DEF PopulateNodeRegistry, AllocateRegistry, RegisterNodes, AllRegistered, Goto
  <2>5. CASE RunRoundRobin
    BY <2>5 DEF RunRoundRobin, FirstTick, Distribute, Distributed, Schedule, RoundRobinFrame,
                Handing, roundRobinVars, sequenceVars, FreshQueue
  <2>6. CASE Destroy
    <3>1. UNCHANGED roundRobinVars
      BY <2>6 DEF Destroy, DestroyJobs, DestroyConnections, DestroyRegistry,
                  DestroyScheduler, DestroyFrame
    <3>2. pc' \notin {"tick", "distribute", "schedule"}
      BY <2>6 DEF Destroy, DestroyJobs, DestroyConnections, DestroyRegistry,
                  DestroyScheduler, Unset, Goto, Crash
    <3> QED
      BY <1>1, <3>1, <3>2
  <2> QED
    BY <1>2, <2>1, <2>2, <2>3, <2>4, <2>5, <2>6 DEF ProgramStep
<1>3. CASE Feed
  BY <1>1, <1>3 DEF Feed, Goto
<1>4. CASE UNCHANGED programVars
  BY <1>4 DEF programVars, roundRobinVars, processVars, sequenceVars, FreshQueue, Handing
<1> QED
  BY <1>2, <1>3, <1>4 DEF Next, Ended, vars

LEMMA HandingSteps ==
  ASSUME [Next]_vars, pc \in Handing
  PROVE  \/ Distribute
         \/ /\ UNCHANGED <<job_file, job_count, job_sequence, pending, prev, jlist>>
            /\ Distributed \/ pc' = "crashed" \/ pc' = pc
<1>1. pc \in {"distribute", "schedule", "crashed"}
  BY DEF Handing
<1>2. CASE ProgramStep
  <2>1. ~(Main \/ InitScheduler \/ Simulate \/ LoadJobs)
    BY <1>1 DEF Main, InitScheduler, Simulate, LoadJobs, OpenJobs, ParseLine, EndOfJobs
  <2>2. ~(LoadNetwork \/ PopulateNodeRegistry)
    BY <1>1 DEF LoadNetwork, OpenNodes, AtTop, NetworkLoaded, BareHeader, UnknownType, ReadP2P,
                ReadBus, MakeNode, NodeMissing, BusRead, PopulateNodeRegistry, AllocateRegistry,
                RegisterNodes, AllRegistered
  <2>3. ~Destroy
    BY <1>1 DEF Destroy, DestroyJobs, DestroyConnections, DestroyRegistry, DestroyScheduler
  <2>4. RunRoundRobin
    BY <1>2, <2>1, <2>2, <2>3 DEF ProgramStep
  <2> QED
    BY <1>1, <2>4 DEF RunRoundRobin, FirstTick, Distributed, Schedule, RoundRobinFrame, Crash,
                      Goto, sequenceVars, roundRobinVars
<1>3. ~Feed
  BY <1>1 DEF Feed
<1>4. CASE UNCHANGED programVars
  BY <1>4 DEF programVars, inputVars, sequenceVars, roundRobinVars, processVars
<1> QED
  BY <1>2, <1>3, <1>4 DEF Next, Ended, vars

LEMMA QueueInvStarts ==
  ASSUME Init
  PROVE  QueueInv
<1>1. job_count = 0 /\ FreshQueue /\ pc \in {"main", "shell"}
  BY DEF Init, ProgramInit, FreshQueue
<1>2. Len(job_file.lines) \in Nat
  BY SequencerStarts DEF SequencerInv
<1> QED
  BY <1>1, <1>2 DEF QueueInv

LEMMA CountFits ==
  ASSUME SequencerInv, [Next]_vars, job_count <= Len(job_file.lines)
  PROVE  job_count' <= Len(job_file'.lines)
<1>1. CASE UNCHANGED <<job_file, job_count, job_sequence>>
  BY <1>1
<1>2. CASE OpenJobs
  BY <1>2 DEF OpenJobs, SequencerInv
<1>3. CASE ParseLine
  BY <1>3 DEF ParseLine, SequencerInv, ListInv
<1>4. CASE Feed
  <2>1. job_count' = 0
    BY <1>4 DEF Feed, sequenceVars, SequencerInv, ListInv, Early
  <2>2. Len(job_file'.lines) \in Nat
    BY <1>4, FeedKeeps
  <2> QED
    BY <2>1, <2>2
<1> QED
  BY <1>1, <1>2, <1>3, <1>4, SequencerSteps

LEMMA QueueInvKept ==
  ASSUME SequencerInv, QueueInv, [Next]_vars
  PROVE  QueueInv'
<1>1. job_count' <= Len(job_file'.lines)
  BY CountFits DEF QueueInv
<1>2. CASE pc \notin Handing
  <2>1. FreshQueue
    BY <1>2 DEF QueueInv
  <2>2. /\ FreshQueue'
        /\ pc' \in {"tick", "distribute", "schedule"} =>
             job_count' = job_count /\ (pc = "tick" \/ job_count # 0)
    BY <1>2, <2>1, QueueStaysFresh
  <2> QED
    BY <1>1, <2>2 DEF QueueInv
<1>3. CASE pc \in Handing /\ Distribute
  <2>1. QueueSoFar' /\ UNCHANGED <<job_file, job_count, job_sequence, pc>> /\ pc = "distribute"
    BY <1>3, DistributeKeepsQueue DEF Distribute
  <2> QED
    BY <1>1, <1>3, <2>1 DEF QueueInv, Handing
<1>4. CASE /\ pc \in Handing
           /\ UNCHANGED <<job_file, job_count, job_sequence, pending, prev, jlist>>
           /\ Distributed \/ pc' = "crashed" \/ pc' = pc
  <2>1. /\ FreshQueue => FreshQueue'
        /\ QueueSoFar => QueueSoFar'
        /\ FirstMoment' = FirstMoment
    BY <1>4 DEF FreshQueue, QueueSoFar, FirstMoment, InOrder, NoTwice, TailInOrder, WayBack,
                Priority
  <2>2. CASE Distributed
    <3>1. pc = "distribute" /\ pc' = "schedule" /\ jlist > Len(FirstMoment)
      BY <2>2 DEF Distributed
    <3>2. ~FreshQueue => jlist = Len(FirstMoment) + 1
      <4>1. FirstMoment \in Seq(Nat)
        BY <3>1, FirstMomentIs DEF QueueInv
      <4> QED
        BY <3>1, <4>1 DEF QueueInv, QueueSoFar
    <3> QED
      BY <1>1, <1>4, <2>1, <3>1, <3>2 DEF QueueInv, FreshQueue, Handing
  <2>3. CASE pc' = "crashed"
    BY <1>1, <1>4, <2>1, <2>3 DEF QueueInv, Handing
  <2>4. CASE pc' = pc
    BY <1>1, <1>4, <2>1, <2>4 DEF QueueInv, FreshQueue, Handing
  <2> QED
    BY <1>4, <2>2, <2>3, <2>4
<1> QED
  BY <1>2, <1>3, <1>4, HandingSteps

\* Whatever the priorities of the first moment's jobs, distribute_round_robin
\* leaves each of them in the queue once, those behind the head in order, and
\* prev is wrong behind the head at most (schedule_round_robin.c:209-283).  The
\* whole queue is in order, as line 100 promises, exactly when the first line
\* of the moment is as urgent as any other.
THEOREM RoundRobinSortsBehindHead == Spec => []QueueSortedBehindHead
<1>1. Init => SequencerInv /\ QueueInv
  BY SequencerStarts, QueueInvStarts
<1>2. SequencerInv /\ QueueInv /\ [Next]_vars => (SequencerInv /\ QueueInv)'
  BY SequencerStepKeeps, QueueInvKept
<1>3. SequencerInv /\ QueueInv => QueueSortedBehindHead
  <2> SUFFICES ASSUME SequencerInv, QueueInv, pc = "schedule", pending # <<>>
               PROVE  QueueSortedBehindHead
    BY DEF QueueSortedBehindHead
  <2> DEFINE f == FirstMoment
             n == Len(pending)
  <2>1. /\ QueueSoFar /\ jlist = Len(f) + 1
        /\ f \in Seq(Nat) /\ Len(f) \in Nat
    BY FirstMomentIs DEF QueueInv, FreshQueue
  <2>2. /\ pending \in Seq(Nat) /\ TailInOrder(pending) /\ WayBack(pending, prev)
        /\ \A p \in DOMAIN pending : Priority(pending[p]) \in Nat
        /\ Len(pending) = Len(f)
        /\ \A x : HasJob(pending, x) <=> \E k \in 1..Len(f) : f[k] = x
        /\ pending[1] = f[1]
    <3>1. (Len(f) + 1) - 1 = Len(f)
      BY <2>1
    <3> QED
      BY <2>1, <3>1 DEF QueueSoFar, InOrder
  <2>3. ToSet(pending) = ToSet(f)
    <3>1. \A x : x \in ToSet(pending) <=> HasJob(pending, x)
      BY DEF ToSet, HasJob
    <3>2. \A x : x \in ToSet(f) <=> \E k \in 1..Len(f) : f[k] = x
      BY <2>1 DEF ToSet
    <3> QED
      BY <2>2, <3>1, <3>2
  <2>4. Head(f) = pending[1]
    <3>1. f # <<>>
      BY <2>1, <2>2, EmptySeq
    <3> QED
      BY <2>1, <2>2, <3>1
  <2>5. n \in Nat /\ n >= 1 /\ DOMAIN pending = 1..n
    BY <2>2, EmptySeq
  <2>6. \A p, q \in 1..n : Ahead(pending[p], pending[q])
                             <=> Priority(pending[p]) <= Priority(pending[q])
    BY DEF Ahead, WaitTime
  <2>7. SortedFrom(2)
    <3> SUFFICES ASSUME NEW p \in 2..n, NEW q \in 2..n, p < q
                 PROVE  Ahead(pending[p], pending[q])
      BY DEF SortedFrom
    <3>1. \/ Priority(pending[p]) < Priority(pending[q])
          \/ Priority(pending[p]) = Priority(pending[q])
      BY <2>2 DEF TailInOrder
    <3>2. p \in 1..n /\ q \in 1..n
      BY <2>5
    <3>3. Priority(pending[p]) \in Nat /\ Priority(pending[q]) \in Nat
      BY <2>2, <2>5, <3>2
    <3>4. Priority(pending[p]) <= Priority(pending[q])
      BY <3>1, <3>3
    <3> QED
      BY <2>6, <3>2, <3>4
  <2>8. \A j \in ToSet(pending) : \E p \in 1..n : j = pending[p]
    BY <2>5 DEF ToSet
  <2>9. ASSUME SortedFrom(1), NEW j \in ToSet(f)
        PROVE  Ahead(Head(f), j)
    <3>1. PICK p \in 1..n : j = pending[p]
      BY <2>3, <2>8
    <3>2. CASE p = 1
      BY <2>2, <2>4, <2>5, <2>6, <3>1, <3>2
    <3>3. CASE p # 1
      <4>1. 1 \in 1..n /\ 1 < p
        BY <2>5, <3>1, <3>3
      <4> QED
        BY <2>4, <2>9, <3>1, <4>1 DEF SortedFrom
    <3> QED
      BY <3>2, <3>3
  <2>10. ASSUME \A j \in ToSet(f) : Ahead(Head(f), j)
         PROVE  SortedFrom(1)
    <3> SUFFICES ASSUME NEW p \in 1..n, NEW q \in 1..n, p < q
                 PROVE  Ahead(pending[p], pending[q])
      BY DEF SortedFrom
    <3>1. CASE p = 1
      <4>1. pending[q] \in ToSet(f)
        BY <2>3, <2>5 DEF ToSet
      <4> QED
        BY <2>4, <2>10, <3>1, <4>1
    <3>2. CASE p # 1
      <4>1. p \in 2..n /\ q \in 2..n
        BY <2>5, <3>2
      <4> QED
        BY <2>7, <4>1 DEF SortedFrom
    <3> QED
      BY <3>1, <3>2
  <2> QED
    BY <2>2, <2>3, <2>7, <2>9, <2>10 DEF QueueSortedBehindHead, WayBack
<1> QED
  BY <1>1, <1>2, <1>3, PTL DEF Spec

-----------------------------------------------------------------------------
(***************************************************************************)
(* The registry.  Its size is counted in one loop, it is filled in         *)
(* another: the nodes on the connections, their sum, tie the two together. *)
(***************************************************************************)
ConnectionType == [type : {"bus", "p2p"}, header : Nat, nodes : Seq(Nat)]

Sizes(conns)   == [i \in DOMAIN conns |-> Len(conns[i].nodes)]
From(conns, k) == SumOver(Sizes(conns), k..Len(conns))

LEMMA ConnectionTypes ==
  ASSUME NEW conns \in Seq(ConnectionType)
  PROVE  /\ DOMAIN conns = 1..Len(conns) /\ Len(conns) \in Nat
         /\ \A i \in DOMAIN conns :
              /\ conns[i] \in ConnectionType
              /\ conns[i].type \in {"bus", "p2p"} /\ conns[i].header \in Nat
              /\ conns[i].nodes \in Seq(Nat) /\ Len(conns[i].nodes) \in Nat
              /\ Sizes(conns)[i] \in Nat
<1>1. /\ DOMAIN conns = 1..Len(conns) /\ Len(conns) \in Nat
      /\ \A i \in DOMAIN conns : conns[i] \in ConnectionType
  OBVIOUS
<1>2. ASSUME NEW c \in ConnectionType
      PROVE  /\ c.type \in {"bus", "p2p"} /\ c.header \in Nat
             /\ c.nodes \in Seq(Nat) /\ Len(c.nodes) \in Nat
  BY DEF ConnectionType
<1> QED
  BY <1>1, <1>2 DEF Sizes

LEMMA FromIsNat ==
  ASSUME NEW conns \in Seq(ConnectionType), NEW k \in Nat \ {0}
  PROVE  From(conns, k) \in Nat
<1>1. IsFiniteSet(k..Len(conns))
  BY ConnectionTypes, FS_Interval
<1>2. \A i \in k..Len(conns) : Sizes(conns)[i] \in Nat
  BY ConnectionTypes
<1> QED
  BY <1>1, <1>2, SumNat DEF From

\* The nodes from a connection on are its own and those behind it.
LEMMA FromNext ==
  ASSUME NEW conns \in Seq(ConnectionType), NEW k \in DOMAIN conns
  PROVE  From(conns, k) = From(conns, k + 1) + Len(conns[k].nodes)
<1>1. DOMAIN conns = 1..Len(conns) /\ Len(conns) \in Nat /\ k \in 1..Len(conns)
  BY ConnectionTypes
<1> DEFINE f == Sizes(conns)
           S == (k + 1)..Len(conns)
<1>2. k..Len(conns) = S \cup {k} /\ k \notin S
  BY <1>1
<1>3. IsFiniteSet(S)
  BY <1>1, FS_Interval
<1>4. \A i \in S \cup {k} : f[i] \in Nat
  BY <1>1, ConnectionTypes
<1>5. f[k] = Len(conns[k].nodes)
  BY DEF Sizes
<1> HIDE DEF f, S
<1>6. SumOver(f, S \cup {k}) = SumOver(f, S) + f[k]
  BY <1>2, <1>3, <1>4, SumAdd
<1> QED
  BY <1>2, <1>5, <1>6 DEF From, f, S

LEMMA FromNone ==
  ASSUME NEW conns \in Seq(ConnectionType)
  PROVE  From(conns, Len(conns) + 1) = 0
<1>1. (Len(conns) + 1)..Len(conns) = {}
  BY ConnectionTypes
<1> QED
  BY <1>1, SumEmpty DEF From

\* A connection without nodes adds none.
LEMMA FromAppend ==
  ASSUME NEW conns \in Seq(ConnectionType), NEW c \in ConnectionType, c.nodes = <<>>
  PROVE  /\ Append(conns, c) \in Seq(ConnectionType)
         /\ From(Append(conns, c), 1) = From(conns, 1)
<1> DEFINE new == Append(conns, c)
           L   == Len(conns)
<1>1. /\ new \in Seq(ConnectionType) /\ Len(new) = L + 1 /\ L \in Nat
      /\ new[L + 1] = c /\ \A i \in 1..L : new[i] = conns[i]
      /\ DOMAIN conns = 1..L /\ DOMAIN new = 1..(L + 1)
  OBVIOUS
<1> HIDE DEF new, L
<1> DEFINE f == Sizes(conns)
           g == Sizes(new)
<1>2. \A i \in 1..L : g[i] = f[i] /\ f[i] \in Nat /\ g[i] \in Nat
  BY <1>1, ConnectionTypes DEF Sizes
<1>3. g[L + 1] = 0
  <2>1. g[L + 1] = Len(c.nodes)
    BY <1>1 DEF Sizes
  <2> QED
    BY <2>1
<1> HIDE DEF f, g
<1> DEFINE S == 1..L
           x == L + 1
<1>4. 1..(L + 1) = S \cup {x} /\ x \notin S /\ g[x] = 0
  BY <1>1, <1>3
<1>5. IsFiniteSet(S)
  BY <1>1, FS_Interval
<1>6. \A i \in S : g[i] = f[i] /\ f[i] \in Nat /\ g[i] \in Nat
  BY <1>2
<1> HIDE DEF S, x
<1>7. SumOver(g, S \cup {x}) = SumOver(g, S) + g[x]
  <2>1. \A i \in S \cup {x} : g[i] \in Nat
    BY <1>4, <1>6
  <2> QED
    BY <1>4, <1>5, <2>1, SumAdd
<1>8. SumOver(g, S) = SumOver(f, S) /\ SumOver(f, S) \in Nat
  BY <1>5, <1>6, SumEqual, SumNat
<1>9. SumOver(g, 1..(L + 1)) = SumOver(f, 1..L)
  <2>1. SumOver(g, S \cup {x}) = SumOver(f, S)
    BY <1>4, <1>7, <1>8
  <2> QED
    BY <1>4, <2>1 DEF S
<1> QED
  BY <1>1, <1>9 DEF From, f, g, new, L

LEMMA LongerConnection ==
  ASSUME NEW c \in ConnectionType, NEW x \in Nat
  PROVE  LET longer == [c EXCEPT !.nodes = Append(@, x)]
         IN  /\ longer \in ConnectionType
             /\ longer.type = c.type /\ longer.header = c.header
             /\ longer.nodes = Append(c.nodes, x)
<1>1. c.type \in {"bus", "p2p"} /\ c.header \in Nat /\ c.nodes \in Seq(Nat)
  BY DEF ConnectionType
<1>2. c \in [type : {"bus", "p2p"}, header : Nat, nodes : Seq(Nat)]
  BY DEF ConnectionType
<1>3. Append(c.nodes, x) \in Seq(Nat)
  BY <1>1
<1> DEFINE longer == [c EXCEPT !.nodes = Append(c.nodes, x)]
<1>4. longer \in [type : {"bus", "p2p"}, header : Nat, nodes : Seq(Nat)]
  BY <1>2, <1>3
<1>5. longer.type = c.type /\ longer.header = c.header /\ longer.nodes = Append(c.nodes, x)
  BY <1>2
<1> QED
  BY <1>4, <1>5 DEF ConnectionType

\* A sequence in which one element is another.
LEMMA Replaced ==
  ASSUME NEW S, NEW s \in Seq(S), NEW i \in DOMAIN s, NEW e \in S, NEW new,
         new = [s EXCEPT ![i] = e]
  PROVE  /\ new \in Seq(S) /\ Len(new) = Len(s)
         /\ \A k \in DOMAIN s : new[k] = IF k = i THEN e ELSE s[k]
OBVIOUS

WithNode(conns, x) == [conns EXCEPT ![Len(conns)].nodes = Append(@, x)]

\* A node that is made adds one.
LEMMA FromGrows ==
  ASSUME NEW conns \in Seq(ConnectionType), conns # <<>>, NEW x \in Nat, NEW new,
         new = WithNode(conns, x)
  PROVE  /\ new \in Seq(ConnectionType) /\ Len(new) = Len(conns)
         /\ \A i \in DOMAIN conns : i # Len(conns) => new[i] = conns[i]
         /\ new[Len(conns)].type = conns[Len(conns)].type
         /\ new[Len(conns)].header = conns[Len(conns)].header
         /\ new[Len(conns)].nodes = Append(conns[Len(conns)].nodes, x)
         /\ From(new, 1) = From(conns, 1) + 1
<1> DEFINE L      == Len(conns)
           longer == [conns[L] EXCEPT !.nodes = Append(@, x)]
<1>1. L \in Nat \ {0} /\ DOMAIN conns = 1..L /\ L \in DOMAIN conns /\ conns[L] \in ConnectionType
  OBVIOUS
<1>2. /\ longer \in ConnectionType
      /\ longer.type = conns[L].type /\ longer.header = conns[L].header
      /\ longer.nodes = Append(conns[L].nodes, x)
  BY <1>1, LongerConnection
<1>3. new = [conns EXCEPT ![L] = longer]
  BY DEF WithNode
<1> HIDE DEF longer, L
<1>4. /\ new \in Seq(ConnectionType) /\ Len(new) = L
      /\ \A i \in DOMAIN conns : new[i] = IF i = L THEN longer ELSE conns[i]
  <2>1. longer \in ConnectionType /\ L \in DOMAIN conns
    BY <1>1, <1>2
  <2> QED
    BY <1>3, <2>1, Replaced DEF L
<1>5. DOMAIN new = 1..L
  BY <1>4, ConnectionTypes
<1> DEFINE f == Sizes(conns)
           g == Sizes(new)
<1>6. /\ \A i \in 1..L : f[i] \in Nat /\ g[i] \in Nat
      /\ \A i \in 1..L : i # L => g[i] = f[i]
  BY <1>1, <1>4, <1>5, ConnectionTypes DEF Sizes
<1>7. g[L] = f[L] + 1
  <2>1. g[L] = Len(longer.nodes) /\ f[L] = Len(conns[L].nodes)
    BY <1>1, <1>4, <1>5 DEF Sizes
  <2>2. conns[L].nodes \in Seq(Nat)
    BY <1>1, ConnectionTypes
  <2>3. Len(Append(conns[L].nodes, x)) = Len(conns[L].nodes) + 1
    BY <2>2
  <2> QED
    BY <1>2, <2>1, <2>3
<1> HIDE DEF f, g
<1>8. IsFiniteSet(1..L) /\ L \in 1..L
  BY <1>1, FS_Interval
<1>9. SumOver(g, 1..L) = SumOver(f, 1..L) - f[L] + g[L] /\ SumOver(f, 1..L) \in Nat
  BY <1>6, <1>8, SumUpdate, SumNat
<1>10. SumOver(g, 1..L) = SumOver(f, 1..L) + 1
  BY <1>6, <1>7, <1>8, <1>9
<1>11. From(new, 1) = From(conns, 1) + 1
  BY <1>4, <1>10 DEF From, f, g, L
<1> QED
  BY <1>1, <1>2, <1>4, <1>11 DEF L

-----------------------------------------------------------------------------
(***************************************************************************)
(* The invariant.  The nodes of a connection are the lines behind its      *)
(* header, and connections follow each other; what is on connections was   *)
(* counted, or is about to be.                                             *)
(***************************************************************************)
NetPlaces == {"connection", "node", "populate", "register", "init_scheduler"}

NetTypes ==
  /\ connections \in Seq(ConnectionType)
  /\ line \in Nat \ {0} /\ read_lines \in Nat /\ node_count \in Nat

InPlace(conns, next) ==
  \A i \in DOMAIN conns :
    /\ conns[i].header # 0
    /\ conns[i].header + Len(conns[i].nodes) < next
    /\ \A k \in DOMAIN conns[i].nodes : conns[i].nodes[k] = conns[i].header + k
    /\ \A j \in DOMAIN conns :
         i < j => conns[i].header + Len(conns[i].nodes) < conns[j].header

NetShape ==
  /\ NetTypes
  /\ InPlace(connections, line)
  /\ pc = "node" => /\ connections # <<>>
                    /\ line = connections[Len(connections)].header
                               + Len(connections[Len(connections)].nodes) + 1

\* The steps that the connections and the registry take part in.
LEMMA NetworkSteps ==
  ASSUME [Next]_vars
  PROVE  \/ /\ UNCHANGED <<node_file, networkVars>>
            /\ pc' = pc \/ pc' \notin NetPlaces
         \/ LoadNetwork \/ PopulateNodeRegistry
<1>1. CASE ProgramStep
  <2>1. CASE Main \/ InitScheduler \/ Simulate
    BY <2>1 DEF Main, InitScheduler, InitReturns, Simulate, Goto, Fail, Crash, inputVars,
                NetPlaces
  <2>2. CASE LoadJobs /\ UNCHANGED <<node_file, networkVars>>
    BY <2>2 DEF LoadJobs, OpenJobs, ParseLine, EndOfJobs, Open, Goto, Fail, processVars,
                NetPlaces
  <2>3. CASE LoadNetwork \/ PopulateNodeRegistry
    BY <2>3
  <2>4. CASE RunRoundRobin /\ UNCHANGED <<node_file, networkVars>>
    BY <2>4 DEF RunRoundRobin, FirstTick, Distribute, Distributed, Schedule, Goto, Crash,
                NetPlaces
  <2>5. CASE Destroy
    <3>1. UNCHANGED <<node_file, networkVars>>
      BY <2>5 DEF Destroy, DestroyJobs, DestroyConnections, DestroyRegistry,
                  DestroyScheduler, DestroyFrame, inputVars
    <3>2. pc' = pc \/ pc' \notin NetPlaces
      BY <2>5 DEF Destroy, DestroyJobs, DestroyConnections, DestroyRegistry,
                  DestroyScheduler, Unset, Goto, Crash, NetPlaces
    <3> QED
      BY <3>1, <3>2
  <2> QED
    BY <1>1, <2>1, <2>2, <2>3, <2>4, <2>5 DEF ProgramStep
<1>2. CASE UNCHANGED programVars
  BY <1>2 DEF programVars, inputVars, processVars
<1>3. CASE Feed
  BY <1>3 DEF Feed, Goto, NetPlaces
<1> QED
  BY <1>1, <1>2, <1>3 DEF Next, Ended, vars

LEMMA PlacesKept ==
  ASSUME NEW conns \in Seq(ConnectionType), NEW m \in Nat, NEW n \in Nat, m <= n,
         InPlace(conns, m)
  PROVE  InPlace(conns, n)
<1>1. \A i \in DOMAIN conns : conns[i].header \in Nat /\ Len(conns[i].nodes) \in Nat
  BY ConnectionTypes
<1> QED
  BY <1>1 DEF InPlace

\* The header of a new connection is the line that was read last.
LEMMA HeaderInPlace ==
  ASSUME NEW conns \in Seq(ConnectionType), NEW c \in ConnectionType, NEW n \in Nat \ {0},
         c.nodes = <<>>, c.header = n, InPlace(conns, n)
  PROVE  InPlace(Append(conns, c), n + 1)
<1> DEFINE new == Append(conns, c)
           L   == Len(conns)
<1>1. /\ L \in Nat /\ new[L + 1] = c /\ \A i \in 1..L : new[i] = conns[i]
      /\ DOMAIN conns = 1..L /\ DOMAIN new = 1..(L + 1)
  OBVIOUS
<1>2. /\ \A i \in 1..L : conns[i].header \in Nat /\ Len(conns[i].nodes) \in Nat
      /\ Len(c.nodes) = 0 /\ DOMAIN c.nodes = {}
  BY <1>1, ConnectionTypes
<1> HIDE DEF new, L
<1> SUFFICES ASSUME NEW i \in DOMAIN new
             PROVE  /\ new[i].header # 0
                    /\ new[i].header + Len(new[i].nodes) < n + 1
                    /\ \A k \in DOMAIN new[i].nodes : new[i].nodes[k] = new[i].header + k
                    /\ \A j \in DOMAIN new :
                         i < j => new[i].header + Len(new[i].nodes) < new[j].header
  BY DEF InPlace, new
<1>3. CASE i = L + 1
  BY <1>1, <1>2, <1>3
<1>4. CASE i \in 1..L
  <2>1. /\ new[i] = conns[i] /\ i \in DOMAIN conns
        /\ conns[i].header + Len(conns[i].nodes) < n
        /\ conns[i].header # 0
        /\ \A k \in DOMAIN conns[i].nodes : conns[i].nodes[k] = conns[i].header + k
        /\ \A j \in DOMAIN conns :
             i < j => conns[i].header + Len(conns[i].nodes) < conns[j].header
    BY <1>1, <1>4 DEF InPlace
  <2>2. \A j \in DOMAIN new : j \in 1..L \/ j = L + 1
    BY <1>1
  <2>3. new[i].header # 0 /\ new[i].header + Len(new[i].nodes) < n + 1
    BY <1>1, <1>2, <1>4, <2>1
  <2>4. \A k \in DOMAIN new[i].nodes : new[i].nodes[k] = new[i].header + k
    BY <2>1
  <2>5. ASSUME NEW j \in DOMAIN new, i < j
        PROVE  new[i].header + Len(new[i].nodes) < new[j].header
    <3>1. CASE j \in 1..L
      BY <1>1, <2>1, <2>5, <3>1
    <3>2. CASE j = L + 1
      BY <1>1, <2>1, <3>2
    <3> QED
      BY <2>2, <3>1, <3>2
  <2> QED
    BY <2>3, <2>4, <2>5
<1> QED
  BY <1>1, <1>3, <1>4

\* A new node is the line that was read last, and the one behind the others.
LEMMA NodeInPlace ==
  ASSUME NEW conns \in Seq(ConnectionType), conns # <<>>, NEW n \in Nat,
         n = conns[Len(conns)].header + Len(conns[Len(conns)].nodes) + 1,
         NEW new, new = WithNode(conns, n),
         InPlace(conns, n)
  PROVE  /\ InPlace(new, n + 1)
         /\ n + 1 = new[Len(conns)].header + Len(new[Len(conns)].nodes) + 1
<1> DEFINE L == Len(conns)
<1>1. /\ DOMAIN conns = 1..L /\ DOMAIN new = 1..L /\ L \in 1..L /\ new \in Seq(ConnectionType)
      /\ \A i \in DOMAIN conns : i # L => new[i] = conns[i]
      /\ new[L].header = conns[L].header /\ new[L].nodes = Append(conns[L].nodes, n)
  <2>1. /\ new \in Seq(ConnectionType) /\ Len(new) = L
        /\ \A i \in DOMAIN conns : i # L => new[i] = conns[i]
        /\ new[L].header = conns[L].header /\ new[L].nodes = Append(conns[L].nodes, n)
    BY FromGrows
  <2>2. L \in 1..L /\ DOMAIN conns = 1..L
    OBVIOUS
  <2> QED
    BY <2>1, <2>2, ConnectionTypes
<1>2. \A i \in 1..L : /\ conns[i].header \in Nat /\ Len(conns[i].nodes) \in Nat
                      /\ conns[i].nodes \in Seq(Nat)
  BY <1>1, ConnectionTypes
<1>3. n = conns[L].header + Len(conns[L].nodes) + 1
  OBVIOUS
<1> HIDE DEF L
<1> DEFINE old    == conns[L].nodes
           longer == new[L].nodes
           h      == conns[L].header
<1>4. /\ Len(longer) = Len(old) + 1 /\ Len(old) \in Nat
      /\ DOMAIN longer = 1..(Len(old) + 1) /\ DOMAIN old = 1..Len(old)
      /\ longer[Len(old) + 1] = n
      /\ \A k \in 1..Len(old) : longer[k] = old[k]
  <2>1. old \in Seq(Nat) /\ longer = Append(old, n)
    BY <1>1, <1>2
  <2> HIDE DEF old, longer
  <2> QED
    BY <2>1
<1>5. h \in Nat /\ n = h + Len(old) + 1 /\ new[L].header = h
  BY <1>1, <1>2, <1>3
<1>6. n + 1 = new[L].header + Len(new[L].nodes) + 1
  <2> HIDE DEF old, h, longer
  <2>1. n + 1 = h + Len(longer) + 1
    BY <1>4, <1>5
  <2> QED
    BY <1>5, <2>1 DEF longer
<1>7. /\ h # 0
      /\ \A k \in DOMAIN old : old[k] = h + k
  BY <1>1 DEF InPlace
<1>8. ASSUME NEW i \in DOMAIN new
      PROVE  /\ new[i].header # 0
             /\ new[i].header + Len(new[i].nodes) < n + 1
             /\ \A k \in DOMAIN new[i].nodes : new[i].nodes[k] = new[i].header + k
             /\ \A j \in DOMAIN new :
                  i < j => new[i].header + Len(new[i].nodes) < new[j].header
  <2>1. /\ conns[i].header # 0
        /\ conns[i].header + Len(conns[i].nodes) < n
        /\ \A k \in DOMAIN conns[i].nodes : conns[i].nodes[k] = conns[i].header + k
        /\ \A j \in 1..L :
             i < j => conns[i].header + Len(conns[i].nodes) < conns[j].header
    BY <1>1 DEF InPlace
  <2>2. \A j \in 1..L : new[j].header = conns[j].header
    BY <1>1
  <2>3. CASE i # L
    <3>1. new[i] = conns[i] /\ i \in 1..L
      BY <1>1, <2>3
    <3>2. conns[i].header + Len(conns[i].nodes) < n + 1
      BY <1>2, <2>1, <3>1
    <3> QED
      BY <1>1, <2>1, <2>2, <3>1, <3>2
  <2>4. CASE i = L
    <3>1. h + Len(longer) < n + 1
      <4> HIDE DEF h, old, longer
      <4> QED
        BY <1>4, <1>5
    <3>2. ASSUME NEW k \in DOMAIN longer
          PROVE  longer[k] = h + k
      <4> HIDE DEF h, old, longer
      <4>1. CASE k = Len(old) + 1
        BY <1>4, <1>5, <4>1
      <4>2. CASE k \in 1..Len(old)
        BY <1>4, <1>7, <4>2
      <4> QED
        BY <1>4, <4>1, <4>2
    <3>3. \A j \in DOMAIN new : ~(i < j)
      BY <1>1, <2>4
    <3> QED
      BY <1>5, <1>7, <2>4, <3>1, <3>2, <3>3
  <2> QED
    BY <2>3, <2>4
<1> QED
  BY <1>6, <1>8 DEF InPlace, L

LEMMA NetShapeStarts ==
  ASSUME Init
  PROVE  NetShape
<1>1. connections = <<>> /\ line = 1 /\ read_lines = 0 /\ node_count = 0 /\ pc # "node"
  BY DEF Init, ProgramInit
<1>2. <<>> \in Seq(ConnectionType) /\ DOMAIN <<>> = {}
  OBVIOUS
<1> QED
  BY <1>1, <1>2 DEF NetShape, NetTypes, InPlace

LEMMA LoadNetworkKeepsShape ==
  ASSUME NetShape, LoadNetwork
  PROVE  NetShape'
<1>0. /\ connections \in Seq(ConnectionType)
      /\ line \in Nat \ {0} /\ read_lines \in Nat /\ node_count \in Nat
      /\ InPlace(connections, line)
  BY DEF NetShape, NetTypes
<1>1. CASE OpenNodes
  <2>1. connections' = <<>> /\ line' = 1 /\ read_lines' = 0 /\ node_count' = 0 /\ pc' # "node"
    BY <1>1 DEF OpenNodes, Open, Goto, Fail
  <2>2. <<>> \in Seq(ConnectionType) /\ DOMAIN <<>> = {}
    OBVIOUS
  <2> QED
    BY <2>1, <2>2 DEF NetShape, NetTypes, InPlace
<1>2. CASE NetworkLoaded \/ BareHeader \/ UnknownType
  <2>1. /\ UNCHANGED <<read_lines, connections>> /\ line' \in {line, line + 1}
        /\ node_count' = node_count + read_lines /\ pc' # "node"
    BY <1>2 DEF NetworkLoaded, BareHeader, UnknownType, AtTop, Goto, Crash, Fail
  <2>2. line' \in Nat \ {0} /\ line <= line' /\ node_count' \in Nat
    BY <1>0, <2>1
  <2>3. InPlace(connections, line')
    BY <1>0, <2>2, PlacesKept
  <2> QED
    BY <1>0, <2>1, <2>2, <2>3 DEF NetShape, NetTypes
<1>3. ASSUME NEW type \in {"bus", "p2p"}, AddInterconnectToList(type), AtTop,
             line' = line + 1, read_lines' = read_lines,
             pc' = "node" => type = "bus"
      PROVE  NetShape'
  <2> DEFINE c == [type |-> type, header |-> line, nodes |-> <<>>]
  <2>1. c \in ConnectionType /\ c.nodes = <<>> /\ c.header = line /\ Len(c.nodes) = 0
    BY <1>0 DEF ConnectionType
  <2>2. connections' = Append(connections, c)
    BY <1>3 DEF AddInterconnectToList
  <2> HIDE DEF c
  <2>3. connections' \in Seq(ConnectionType) /\ connections' # <<>>
        /\ connections'[Len(connections')] = c
    BY <1>0, <2>1, <2>2
  <2>4. InPlace(connections', line')
    BY <1>0, <1>3, <2>1, <2>2, HeaderInPlace
  <2>5. node_count' \in Nat /\ line' \in Nat \ {0}
    BY <1>0, <1>3 DEF AtTop
  <2>6. line' = connections'[Len(connections')].header
                  + Len(connections'[Len(connections')].nodes) + 1
    BY <1>0, <1>3, <2>1, <2>3
  <2> QED
    BY <1>0, <1>3, <2>3, <2>4, <2>5, <2>6 DEF NetShape, NetTypes
<1>4. CASE ReadP2P \/ ReadBus
  BY <1>3, <1>4 DEF ReadP2P, ReadBus, Goto, Fail
<1>5. CASE MakeNode
  <2>1. /\ connections' = WithNode(connections, line)
        /\ line' = line + 1 /\ pc = "node" /\ UNCHANGED <<read_lines, node_count>>
    BY <1>5 DEF MakeNode, BusFrame, WithNode
  <2>2. /\ connections # <<>>
        /\ line = connections[Len(connections)].header
                    + Len(connections[Len(connections)].nodes) + 1
    BY <2>1 DEF NetShape
  <2>3. connections' \in Seq(ConnectionType) /\ Len(connections') = Len(connections)
    BY <1>0, <2>1, <2>2, FromGrows
  <2>4. /\ InPlace(connections', line + 1)
        /\ line + 1 = connections'[Len(connections)].header
                        + Len(connections'[Len(connections)].nodes) + 1
    BY <1>0, <2>1, <2>2, NodeInPlace
  <2>5. connections' # <<>>
    BY <1>0, <2>2, <2>3
  <2> QED
    BY <1>0, <2>1, <2>3, <2>4, <2>5 DEF NetShape, NetTypes
<1>6. CASE NodeMissing
  BY <1>0, <1>6 DEF NodeMissing, BusFrame, Crash, Goto, NetShape, NetTypes
<1>7. CASE BusRead
  <2>1. /\ UNCHANGED <<line, connections, node_count>> /\ pc = "node"
        /\ read_lines' = Len(connections[Len(connections)].nodes) /\ pc' # "node"
    BY <1>7 DEF BusRead, BusFrame, Goto, Fail, Bus, Last
  <2>2. connections # <<>>
    BY <2>1 DEF NetShape
  <2>3. Len(connections) \in DOMAIN connections
    BY <1>0, <2>2
  <2>4. read_lines' \in Nat
    BY <1>0, <2>1, <2>3, ConnectionTypes
  <2> QED
    BY <1>0, <2>1, <2>4 DEF NetShape, NetTypes
<1> QED
  BY <1>1, <1>2, <1>4, <1>5, <1>6, <1>7 DEF LoadNetwork

LEMMA NetShapeKept ==
  ASSUME NetShape, [Next]_vars
  PROVE  NetShape'
<1>1. CASE UNCHANGED <<node_file, networkVars>> /\ (pc' = pc \/ pc' \notin NetPlaces)
  BY <1>1 DEF networkVars, NetShape, NetTypes, NetPlaces
<1>2. CASE PopulateNodeRegistry
  <2>1. UNCHANGED <<line, read_lines, node_count, connections>> /\ pc' # "node"
    BY <1>2 DEF PopulateNodeRegistry, AllocateRegistry, RegisterNodes, AllRegistered,
                RegistryFrame, Goto
  <2> QED
    BY <2>1 DEF NetShape, NetTypes
<1> QED
  BY <1>1, <1>2, NetworkSteps, LoadNetworkKeepsShape

-----------------------------------------------------------------------------
\* n stands for the nodes on the connections: it is their number, or more
\* where a p2p line is in the file.
AllBuses == \A i \in DOMAIN connections : connections[i].type # "p2p"

Covers(n, nodes) == nodes <= n /\ (AllBuses => nodes = n)

Counted ==
  /\ pc = "connection" => Covers(node_count + read_lines, From(connections, 1))
  /\ pc = "node" => Covers(node_count + Len(connections[Len(connections)].nodes),
                           From(connections, 1))
  /\ pc = "populate" => Covers(node_count, From(connections, 1))
  /\ pc = "register" =>
       /\ cons \in 1..(Len(connections) + 1)
       /\ Covers(node_count, registered + From(connections, cons))
  /\ pc = "init_scheduler" => Covers(node_count, registered)

Written ==
  pc \in {"register", "init_scheduler"} =>
    /\ registered \in Nat
    /\ DOMAIN node_registry = 1..node_count
    /\ \A a \in 1..node_count : a <= registered => node_registry[a] \in Nat \ {Stray}

LEMMA LoadNetworkKeepsCount ==
  ASSUME NetShape, Counted, LoadNetwork
  PROVE  Counted'
<1>0. /\ connections \in Seq(ConnectionType)
      /\ line \in Nat \ {0} /\ read_lines \in Nat /\ node_count \in Nat
      /\ InPlace(connections, line)
      /\ From(connections, 1) \in Nat
  BY FromIsNat DEF NetShape, NetTypes
<1>1. CASE OpenNodes
  <2>1. /\ connections' = <<>> /\ read_lines' = 0 /\ node_count' = 0
        /\ pc' \in {"connection", "destroy_jobs"}
    BY <1>1 DEF OpenNodes, Open, Goto, Fail
  <2>2. <<>> \in Seq(ConnectionType) /\ Len(<<>>) = 0
    OBVIOUS
  <2>3. From(connections', 1) = 0
    <3>1. From(<<>>, Len(<<>>) + 1) = 0
      BY <2>2, FromNone
    <3>2. Len(<<>>) + 1 = 1
      BY <2>2
    <3> QED
      BY <2>1, <3>1, <3>2
  <2> QED
    BY <2>1, <2>3 DEF Counted, Covers
<1>2. CASE NetworkLoaded
  BY <1>2 DEF NetworkLoaded, AtTop, Goto, Counted, Covers, AllBuses
<1>3. CASE BareHeader \/ UnknownType \/ NodeMissing
  BY <1>3 DEF BareHeader, UnknownType, NodeMissing, Crash, Goto, Fail, Counted
<1>4. ASSUME NEW type \in {"bus", "p2p"}, AddInterconnectToList(type)
      PROVE  /\ From(connections', 1) = From(connections, 1)
             /\ AllBuses' => AllBuses /\ type = "bus"
             /\ Len(connections'[Len(connections')].nodes) = 0
  <2> DEFINE c == [type |-> type, header |-> line, nodes |-> <<>>]
  <2>1. c \in ConnectionType /\ c.nodes = <<>> /\ c.type = type /\ Len(c.nodes) = 0
    BY <1>0 DEF ConnectionType
  <2>2. connections' = Append(connections, c)
    BY <1>4 DEF AddInterconnectToList
  <2> HIDE DEF c
  <2>3. /\ connections'[Len(connections')] = c /\ Len(connections') \in DOMAIN connections'
        /\ \A i \in DOMAIN connections : i \in DOMAIN connections' /\ connections'[i] = connections[i]
    BY <1>0, <2>1, <2>2
  <2>4. From(connections', 1) = From(connections, 1)
    BY <1>0, <2>1, <2>2, FromAppend
  <2>5. AllBuses' => AllBuses /\ type = "bus"
    BY <2>1, <2>3 DEF AllBuses
  <2> QED
    BY <2>1, <2>3, <2>4, <2>5
<1>5. CASE ReadP2P
  <2>1. /\ AddInterconnectToList("p2p") /\ pc = "connection"
        /\ node_count' = node_count + read_lines /\ read_lines' = read_lines
        /\ pc' \in {"connection", "destroy_jobs"}
    BY <1>5 DEF ReadP2P, AtTop, Goto, Fail
  <2>2. From(connections', 1) = From(connections, 1) /\ ~AllBuses'
    BY <1>4, <2>1
  <2>3. From(connections, 1) <= node_count + read_lines
    BY <2>1 DEF Counted, Covers
  <2>4. From(connections', 1) <= node_count' + read_lines'
    BY <1>0, <2>1, <2>2, <2>3
  <2> QED
    BY <2>1, <2>2, <2>4 DEF Counted, Covers
<1>6. CASE ReadBus
  <2>1. /\ AddInterconnectToList("bus") /\ pc = "connection"
        /\ node_count' = node_count + read_lines /\ pc' = "node"
    BY <1>6 DEF ReadBus, AtTop, Goto
  <2>2. /\ From(connections', 1) = From(connections, 1) /\ (AllBuses' => AllBuses)
        /\ Len(connections'[Len(connections')].nodes) = 0
    BY <1>4, <2>1
  <2>3. Covers(node_count + read_lines, From(connections, 1))
    BY <2>1 DEF Counted
  <2>4. node_count' + Len(connections'[Len(connections')].nodes) = node_count + read_lines
    BY <1>0, <2>1, <2>2
  <2> QED
    BY <2>1, <2>2, <2>3, <2>4 DEF Counted, Covers
<1>7. CASE MakeNode
  <2>1. /\ connections' = WithNode(connections, line)
        /\ pc = "node" /\ pc' = "node" /\ UNCHANGED node_count
    BY <1>7 DEF MakeNode, BusFrame, WithNode
  <2> DEFINE L   == Len(connections)
             old == connections[L].nodes
  <2>2. connections # <<>> /\ L \in DOMAIN connections
    BY <1>0, <2>1 DEF NetShape
  <2>3. /\ connections' \in Seq(ConnectionType) /\ Len(connections') = L
        /\ \A i \in DOMAIN connections : i # L => connections'[i] = connections[i]
        /\ connections'[L].type = connections[L].type
        /\ connections'[L].nodes = Append(old, line)
        /\ From(connections', 1) = From(connections, 1) + 1
    BY <1>0, <2>1, <2>2, FromGrows
  <2>4. old \in Seq(Nat) /\ Len(old) \in Nat /\ Len(Append(old, line)) = Len(old) + 1
    <3>1. old \in Seq(Nat)
      BY <1>0, <2>2, ConnectionTypes
    <3> HIDE DEF old
    <3> QED
      BY <3>1
  <2>5. AllBuses' => AllBuses
    <3>1. DOMAIN connections' = DOMAIN connections
      BY <1>0, <2>3, ConnectionTypes
    <3> QED
      BY <2>2, <2>3, <3>1 DEF AllBuses
  <2>6. Covers(node_count + Len(old), From(connections, 1))
    BY <2>1 DEF Counted
  <2> HIDE DEF old, L
  <2>7. (node_count + Len(old)) + 1 = node_count' + Len(connections'[L].nodes)
    BY <1>0, <2>1, <2>3, <2>4
  <2>8. /\ From(connections', 1) <= node_count' + Len(connections'[L].nodes)
        /\ AllBuses' => From(connections', 1) = node_count' + Len(connections'[L].nodes)
    BY <1>0, <2>3, <2>4, <2>5, <2>6, <2>7 DEF Covers
  <2> QED
    BY <2>1, <2>3, <2>8 DEF Counted, Covers
<1>8. CASE BusRead
  <2>1. /\ UNCHANGED <<connections, node_count>> /\ pc = "node"
        /\ read_lines' = Len(connections[Len(connections)].nodes)
        /\ pc' \in {"connection", "destroy_jobs"}
    BY <1>8 DEF BusRead, BusFrame, Goto, Fail, Bus, Last
  <2> QED
    BY <2>1 DEF Counted, Covers, AllBuses
<1> QED
  BY <1>1, <1>2, <1>3, <1>5, <1>6, <1>7, <1>8 DEF LoadNetwork

\* One turn of _populate_node_registry: the entries up to registered stay, as
\* many as the connection has nodes are written behind them.
LEMMA TurnWrites ==
  ASSUME NetShape, Written, Counted, RegisterNodes
  PROVE  LET nodes == connections[cons].nodes
         IN  /\ cons \in DOMAIN connections /\ nodes \in Seq(Nat)
             /\ registered \in Nat /\ registered' = registered + Len(nodes)
             /\ registered' <= node_count /\ node_count \in Nat
             /\ DOMAIN node_registry' = 1..node_count
             /\ \A a \in 1..registered : node_registry'[a] = node_registry[a]
             /\ \A k \in DOMAIN nodes : /\ registered + k \in 1..node_count
                                        /\ node_registry'[registered + k] = nodes[k]
             /\ \A a \in 1..registered' :
                  a \in 1..registered \/ \E k \in DOMAIN nodes : a = registered + k
<1> DEFINE nodes == connections[cons].nodes
<1>1. /\ pc = "register" /\ registered' = registered + Len(nodes)
      /\ node_registry' = WrittenBehind(registered, nodes)
      /\ cons <= Len(connections)
  BY DEF RegisterNodes
<1>2. /\ connections \in Seq(ConnectionType) /\ node_count \in Nat /\ registered \in Nat
      /\ cons \in 1..(Len(connections) + 1)
      /\ registered + From(connections, cons) <= node_count
  BY <1>1 DEF NetShape, NetTypes, Written, Counted, Covers
<1>3. cons \in DOMAIN connections /\ cons \in Nat \ {0}
  BY <1>1, <1>2, ConnectionTypes
<1>4. /\ nodes \in Seq(Nat) /\ DOMAIN nodes = 1..Len(nodes) /\ Len(nodes) \in Nat
  <2>1. nodes \in Seq(Nat)
    BY <1>2, <1>3, ConnectionTypes
  <2> HIDE DEF nodes
  <2> QED
    BY <2>1
<1>5. From(connections, cons) = From(connections, cons + 1) + Len(nodes)
      /\ From(connections, cons + 1) \in Nat
  BY <1>2, <1>3, FromNext, FromIsNat
<1> HIDE DEF nodes
<1>6. registered + Len(nodes) <= node_count
  BY <1>2, <1>4, <1>5
<1>7. \A a \in 1..node_count :
        node_registry'[a] = IF a > registered /\ a - registered \in DOMAIN nodes
                              THEN nodes[a - registered] ELSE node_registry[a]
  BY <1>1 DEF WrittenBehind
<1>8. DOMAIN node_registry' = 1..node_count
  BY <1>1 DEF WrittenBehind
<1>9. \A a \in 1..registered : node_registry'[a] = node_registry[a]
  BY <1>2, <1>4, <1>6, <1>7
<1>10. ASSUME NEW k \in DOMAIN nodes
       PROVE  registered + k \in 1..node_count /\ node_registry'[registered + k] = nodes[k]
  <2> DEFINE a == registered + k
  <2>1. a \in 1..node_count /\ a > registered /\ a - registered = k
    BY <1>2, <1>4, <1>6
  <2> HIDE DEF a
  <2>2. node_registry'[a] = nodes[k]
    BY <1>7, <2>1
  <2> QED
    BY <2>1, <2>2 DEF a
<1>11. ASSUME NEW a \in 1..(registered + Len(nodes)), a \notin 1..registered
       PROVE  \E k \in DOMAIN nodes : a = registered + k
  <2>1. a - registered \in DOMAIN nodes /\ a = registered + (a - registered)
    BY <1>2, <1>4, <1>11
  <2> QED
    BY <2>1
<1> QED
  BY <1>1, <1>2, <1>3, <1>4, <1>6, <1>8, <1>9, <1>10, <1>11 DEF nodes

LEMMA PopulateKeeps ==
  ASSUME NetShape, Counted, Written, PopulateNodeRegistry
  PROVE  Counted' /\ Written'
<1>0. /\ connections \in Seq(ConnectionType) /\ node_count \in Nat
      /\ DOMAIN connections = 1..Len(connections) /\ Len(connections) \in Nat
  BY ConnectionTypes DEF NetShape, NetTypes
<1>1. CASE AllocateRegistry
  <2>1. /\ pc = "populate" /\ pc' = "register" /\ cons' = 1 /\ registered' = 0
        /\ node_registry' = [k \in 1..node_count |-> Stray]
        /\ UNCHANGED <<node_count, connections>>
    BY <1>1 DEF AllocateRegistry, Goto
  <2>2. Covers(node_count, From(connections, 1)) /\ From(connections, 1) \in Nat
    BY <1>0, <2>1, FromIsNat DEF Counted
  <2>3. registered' + From(connections', cons') = From(connections, 1)
    BY <2>1, <2>2
  <2>4. cons' \in 1..(Len(connections') + 1)
    BY <1>0, <2>1
  <2>5. Counted'
    BY <2>1, <2>2, <2>3, <2>4 DEF Counted, Covers, AllBuses
  <2>6. Written'
    BY <2>1 DEF Written
  <2> QED
    BY <2>5, <2>6
<1>2. CASE RegisterNodes
  <2> DEFINE nodes == connections[cons].nodes
  <2>1. /\ pc = "register" /\ pc' = "register" /\ cons' = cons + 1
        /\ UNCHANGED <<node_count, connections>>
    BY <1>2 DEF RegisterNodes, RegistryFrame
  <2>2. /\ cons \in DOMAIN connections /\ nodes \in Seq(Nat)
        /\ registered \in Nat /\ registered' = registered + Len(nodes)
        /\ DOMAIN node_registry' = 1..node_count
        /\ \A a \in 1..registered : node_registry'[a] = node_registry[a]
        /\ \A k \in DOMAIN nodes : node_registry'[registered + k] = nodes[k]
        /\ \A a \in 1..registered' :
             a \in 1..registered \/ \E k \in DOMAIN nodes : a = registered + k
    BY <1>2, TurnWrites
  <2>3. Covers(node_count, registered + From(connections, cons))
    BY <2>1 DEF Counted
  <2>4. /\ From(connections, cons) = From(connections, cons + 1) + Len(nodes)
        /\ From(connections, cons + 1) \in Nat /\ Len(nodes) \in Nat
    BY <1>0, <2>2, FromNext, FromIsNat, ConnectionTypes
  <2>5. \A k \in DOMAIN nodes : nodes[k] \in Nat \ {Stray}
    <3>1. /\ \A k \in DOMAIN nodes : k \in Nat /\ nodes[k] = connections[cons].header + k
          /\ connections[cons].header \in Nat \ {0}
      <4>1. \A k \in DOMAIN nodes : nodes[k] = connections[cons].header + k
        BY <2>2 DEF NetShape, InPlace
      <4>2. connections[cons].header \in Nat \ {0}
        BY <1>0, <2>2, ConnectionTypes DEF NetShape, InPlace
      <4>3. \A k \in DOMAIN nodes : k \in Nat
        <5> HIDE DEF nodes
        <5> QED
          BY <2>2
      <4> QED
        BY <4>1, <4>2, <4>3
    <3> QED
      BY <3>1 DEF Stray
  <2> HIDE DEF nodes
  <2>6. registered' + From(connections, cons + 1) = registered + From(connections, cons)
    BY <2>2, <2>4
  <2>7. cons' \in 1..(Len(connections') + 1)
    BY <1>0, <2>1, <2>2
  <2>8. Counted'
    BY <2>1, <2>3, <2>6, <2>7 DEF Counted, Covers, AllBuses
  <2>9. ASSUME NEW a \in 1..node_count, a <= registered'
        PROVE  node_registry'[a] \in Nat \ {Stray}
    <3>1. a \in 1..registered'
      BY <2>2, <2>4, <2>9
    <3>2. CASE a \in 1..registered
      BY <2>1, <2>2, <2>9, <3>2 DEF Written
    <3>3. ASSUME NEW k \in DOMAIN nodes, a = registered + k
          PROVE  node_registry'[a] \in Nat \ {Stray}
      BY <2>2, <2>5, <3>3
    <3> QED
      BY <2>2, <3>1, <3>2, <3>3
  <2>10. Written'
    <3>1. registered' \in Nat
      BY <2>2, <2>4
    <3> QED
      BY <2>1, <2>2, <2>9, <3>1 DEF Written
  <2> QED
    BY <2>8, <2>10
<1>3. CASE AllRegistered
  <2>1. /\ pc = "register" /\ pc' = "init_scheduler" /\ cons > Len(connections)
        /\ UNCHANGED <<node_count, connections, cons, registered, node_registry>>
    BY <1>3 DEF AllRegistered, RegistryFrame, registryVars, Goto
  <2>2. /\ Covers(node_count, registered + From(connections, cons))
        /\ cons = Len(connections) + 1 /\ registered \in Nat
    BY <1>0, <2>1 DEF Counted, Written
  <2>3. From(connections, cons) = 0
    BY <1>0, <2>2, FromNone
  <2>4. registered + From(connections, cons) = registered
    BY <2>2, <2>3
  <2> QED
    BY <2>1, <2>2, <2>4 DEF Counted, Covers, AllBuses, Written
<1> QED
  BY <1>1, <1>2, <1>3 DEF PopulateNodeRegistry

NetInv == NetShape /\ Counted /\ Written

LEMMA NetStarts ==
  ASSUME Init
  PROVE  NetInv
<1>1. pc \notin NetPlaces
  BY DEF Init, NetPlaces
<1> QED
  BY <1>1, NetShapeStarts DEF NetInv, Counted, Written, NetPlaces

LEMMA NetStepKeeps ==
  ASSUME NetInv, [Next]_vars
  PROVE  NetInv'
<1>1. NetShape /\ Counted /\ Written /\ NetShape'
  BY NetShapeKept DEF NetInv
<1>2. CASE UNCHANGED <<node_file, networkVars>> /\ (pc' = pc \/ pc' \notin NetPlaces)
  BY <1>1, <1>2 DEF networkVars, NetInv, NetPlaces, Counted, Covers, AllBuses, Written
<1>3. CASE LoadNetwork
  <2>1. pc' \notin {"register", "init_scheduler"}
    BY <1>3 DEF LoadNetwork, OpenNodes, NetworkLoaded, BareHeader, UnknownType, ReadP2P,
                ReadBus, MakeNode, NodeMissing, BusRead, Open, Goto, Fail, Crash
  <2> QED
    BY <1>1, <1>3, <2>1, LoadNetworkKeepsCount DEF NetInv, Written
<1>4. CASE PopulateNodeRegistry
  BY <1>1, <1>4, PopulateKeeps DEF NetInv
<1> QED
  BY <1>2, <1>3, <1>4, NetworkSteps

THEOREM NetInvHolds == Spec => []NetInv
<1>1. Init => NetInv
  BY NetStarts
<1>2. NetInv /\ [Next]_vars => NetInv'
  BY NetStepKeeps
<1> QED
  BY <1>1, <1>2, PTL DEF Spec

\* Whatever lines the file of nodes is made of, the registry has room for
\* every node that is listed in it, and room that is left over comes from p2p
\* lines (node_network_from_dataset.c:94-130, init.c:68-90).
THEOREM RegistryHasRoom == Spec => []RegistryFits
<1>1. NetInv => RegistryFits
  <2> SUFFICES ASSUME NetInv PROVE RegistryFits
    OBVIOUS
  <2>1. connections \in Seq(ConnectionType) /\ node_count \in Nat
    BY DEF NetInv, NetShape, NetTypes
  <2>2. ASSUME pc = "register" PROVE registered <= node_count
    <3>1. /\ registered \in Nat /\ cons \in Nat \ {0}
          /\ registered + From(connections, cons) <= node_count
      BY <2>1, <2>2 DEF NetInv, Counted, Covers, Written
    <3>2. From(connections, cons) \in Nat
      BY <2>1, <3>1, FromIsNat
    <3> QED
      BY <2>1, <3>1, <3>2
  <2>3. ASSUME pc = "init_scheduler"
        PROVE  /\ registered <= node_count
               /\ HasStrayNode => \E i \in DOMAIN connections : connections[i].type = "p2p"
    <3>1. /\ registered \in Nat /\ Covers(node_count, registered)
          /\ DOMAIN node_registry = 1..node_count
          /\ \A a \in 1..node_count : a <= registered => node_registry[a] # Stray
      BY <2>3 DEF NetInv, Counted, Written
    <3>2. AllBuses => ~HasStrayNode
      BY <2>1, <3>1 DEF Covers, HasStrayNode
    <3> QED
      BY <3>1, <3>2 DEF Covers, AllBuses
  <2> QED
    BY <2>2, <2>3 DEF RegistryFits
<1> QED
  BY <1>1, NetInvHolds, PTL

-----------------------------------------------------------------------------
(***************************************************************************)
(* What the registry holds: the nodes of the connections behind cons, in   *)
(* their order, whatever the file.                                         *)
(***************************************************************************)
NodesBefore(c) ==
  {n \in Nat : \E i \in DOMAIN connections : \E k \in DOMAIN connections[i].nodes :
     i < c /\ n = connections[i].header + k}

Listed ==
  /\ pc \in {"register", "init_scheduler"} =>
       /\ \A a \in 1..registered : node_registry[a] \in NodesBefore(cons)
       /\ \A n \in NodesBefore(cons) : \E a \in 1..registered : node_registry[a] = n
       /\ \A a, b \in 1..registered : a < b => node_registry[a] < node_registry[b]
  /\ pc = "init_scheduler" => cons = Len(connections) + 1

LEMMA TurnLists ==
  ASSUME NetInv, Listed, RegisterNodes
  PROVE  Listed'
<1> DEFINE nodes == connections[cons].nodes
           h     == connections[cons].header
<1>1. /\ pc = "register" /\ pc' = "register" /\ cons' = cons + 1
      /\ UNCHANGED <<node_count, connections>>
  BY DEF RegisterNodes, RegistryFrame
<1>2. /\ cons \in DOMAIN connections /\ nodes \in Seq(Nat)
      /\ registered \in Nat /\ registered' = registered + Len(nodes)
      /\ \A a \in 1..registered : node_registry'[a] = node_registry[a]
      /\ \A k \in DOMAIN nodes : node_registry'[registered + k] = nodes[k]
      /\ \A a \in 1..registered' :
           a \in 1..registered \/ \E k \in DOMAIN nodes : a = registered + k
  BY TurnWrites DEF NetInv
<1>3. /\ connections \in Seq(ConnectionType) /\ InPlace(connections, line)
      /\ \A i \in DOMAIN connections :
           /\ i \in Nat /\ connections[i].header \in Nat
           /\ connections[i].nodes \in Seq(Nat) /\ Len(connections[i].nodes) \in Nat
           /\ DOMAIN connections[i].nodes = 1..Len(connections[i].nodes)
  <2>1. connections \in Seq(ConnectionType) /\ InPlace(connections, line)
    BY DEF NetInv, NetShape, NetTypes
  <2>2. ASSUME NEW s \in Seq(Nat) PROVE DOMAIN s = 1..Len(s)
    OBVIOUS
  <2> QED
    BY <2>1, <2>2, ConnectionTypes
<1>4. /\ \A k \in DOMAIN nodes : nodes[k] = h + k /\ k \in Nat /\ k \in 1..Len(nodes)
      /\ DOMAIN nodes = 1..Len(nodes) /\ Len(nodes) \in Nat
      /\ h \in Nat
  BY <1>2, <1>3 DEF InPlace
<1>5. \A n \in NodesBefore(cons) : n < h
  <2> SUFFICES ASSUME NEW n \in NodesBefore(cons)
               PROVE  n < h
    OBVIOUS
  <2>1. PICK i \in DOMAIN connections :
          i < cons /\ \E k \in DOMAIN connections[i].nodes : n = connections[i].header + k
    BY DEF NodesBefore
  <2>2. PICK k \in DOMAIN connections[i].nodes : n = connections[i].header + k
    BY <2>1
  <2>3. k \in Nat /\ k <= Len(connections[i].nodes)
    BY <1>3
  <2>4. connections[i].header + Len(connections[i].nodes) < h
    BY <1>2, <1>3, <2>1 DEF InPlace
  <2> DEFINE hi == connections[i].header
             ni == Len(connections[i].nodes)
  <2>5. hi \in Nat /\ ni \in Nat /\ h \in Nat /\ n = hi + k /\ k <= ni /\ hi + ni < h
    BY <1>3, <1>4, <2>2, <2>3, <2>4
  <2> HIDE DEF hi, ni, h
  <2> QED
    BY <2>3, <2>5
<1>6. \A n : n \in NodesBefore(cons)'
               <=> n \in NodesBefore(cons) \/ \E k \in DOMAIN nodes : n = h + k
  <2>1. \A i \in DOMAIN connections : i < cons + 1 <=> i < cons \/ i = cons
    BY <1>2, <1>3
  <2>2. \A k \in DOMAIN nodes : h + k \in Nat
    BY <1>4
  <2> QED
    BY <1>1, <1>2, <2>1, <2>2 DEF NodesBefore
<1>7. /\ \A a \in 1..registered : node_registry[a] \in NodesBefore(cons)
      /\ \A n \in NodesBefore(cons) : \E a \in 1..registered : node_registry[a] = n
      /\ \A a, b \in 1..registered : a < b => node_registry[a] < node_registry[b]
  BY <1>1 DEF Listed
<1> HIDE DEF nodes, h
<1>8. ASSUME NEW a \in 1..registered'
      PROVE  node_registry'[a] \in NodesBefore(cons)'
  BY <1>2, <1>4, <1>6, <1>7
<1>9. ASSUME NEW n \in NodesBefore(cons)'
      PROVE  \E a \in 1..registered' : node_registry'[a] = n
  <2>1. ASSUME NEW a \in 1..registered, node_registry[a] = n
        PROVE  \E b \in 1..registered' : node_registry'[b] = n
    <3>1. a \in 1..registered'
      BY <1>2, <1>4
    <3> QED
      BY <1>2, <2>1, <3>1
  <2>2. ASSUME NEW k \in DOMAIN nodes, n = h + k
        PROVE  \E b \in 1..registered' : node_registry'[b] = n
    <3>1. registered + k \in 1..registered'
      BY <1>2, <1>4
    <3>2. node_registry'[registered + k] = n
      BY <1>2, <1>4, <2>2
    <3> QED
      BY <3>1, <3>2
  <2> QED
    BY <1>6, <1>7, <2>1, <2>2
<1>10. ASSUME NEW a \in 1..registered', NEW b \in 1..registered', a < b
       PROVE  node_registry'[a] < node_registry'[b]
  <2>1. CASE a \in 1..registered /\ b \in 1..registered
    BY <1>2, <1>7, <1>10, <2>1
  <2>2. ASSUME NEW k \in DOMAIN nodes, b = registered + k, a \in 1..registered
        PROVE  node_registry'[a] < node_registry'[b]
    <3>1. node_registry'[b] = h + k /\ node_registry'[a] = node_registry[a]
      BY <1>2, <1>4, <2>2
    <3>2. node_registry[a] \in Nat /\ node_registry[a] < h
      BY <1>5, <1>7, <2>2 DEF NodesBefore
    <3> QED
      BY <1>4, <3>1, <3>2
  <2>3. ASSUME NEW k \in DOMAIN nodes, b = registered + k,
               NEW l \in DOMAIN nodes, a = registered + l
        PROVE  node_registry'[a] < node_registry'[b]
    <3>1. node_registry'[b] = h + k /\ node_registry'[a] = h + l
      BY <1>2, <1>4, <2>3
    <3>2. l < k
      BY <1>2, <1>4, <1>10, <2>3
    <3> QED
      BY <1>4, <3>1, <3>2
  <2>4. ASSUME NEW l \in DOMAIN nodes, a = registered + l
        PROVE  b \notin 1..registered
    BY <1>2, <1>4, <1>10, <2>4
  <2> QED
    BY <1>2, <2>1, <2>2, <2>3, <2>4
<1> QED
  BY <1>1, <1>8, <1>9, <1>10 DEF Listed

LEMMA ListedKept ==
  ASSUME NetInv, Listed, [Next]_vars
  PROVE  Listed'
<1>1. CASE UNCHANGED <<node_file, networkVars>> /\ (pc' = pc \/ pc' \notin NetPlaces)
  BY <1>1 DEF networkVars, NetPlaces, Listed, NodesBefore
<1>2. CASE LoadNetwork
  <2>1. pc' \notin {"register", "init_scheduler"}
    BY <1>2 DEF LoadNetwork, OpenNodes, NetworkLoaded, BareHeader, UnknownType, ReadP2P,
                ReadBus, MakeNode, NodeMissing, BusRead, Open, Goto, Fail, Crash
  <2> QED
    BY <2>1 DEF Listed
<1>3. CASE AllocateRegistry
  <2>1. pc' = "register" /\ cons' = 1 /\ registered' = 0 /\ connections' = connections
    BY <1>3 DEF AllocateRegistry, Goto
  <2>2. DOMAIN connections = 1..Len(connections)
    BY ConnectionTypes DEF NetInv, NetShape, NetTypes
  <2>3. NodesBefore(cons)' = {}
    BY <2>1, <2>2 DEF NodesBefore
  <2>4. 1..0 = {}
    OBVIOUS
  <2> QED
    BY <2>1, <2>3, <2>4 DEF Listed
<1>4. CASE RegisterNodes
  BY <1>4, TurnLists
<1>5. CASE AllRegistered
  <2>1. /\ pc = "register" /\ pc' = "init_scheduler" /\ cons > Len(connections)
        /\ UNCHANGED <<connections, cons, registered, node_registry>>
    BY <1>5 DEF AllRegistered, RegistryFrame, registryVars, Goto
  <2>2. cons \in 1..(Len(connections) + 1) /\ Len(connections) \in Nat
    BY <2>1, ConnectionTypes DEF NetInv, NetShape, NetTypes, Counted
  <2>3. cons = Len(connections) + 1
    BY <2>1, <2>2
  <2> QED
    BY <2>1, <2>3 DEF Listed, NodesBefore
<1> QED
  BY <1>1, <1>2, <1>3, <1>4, <1>5, NetworkSteps DEF PopulateNodeRegistry

-----------------------------------------------------------------------------
(***************************************************************************)
(* What a well-formed file makes of it: every line is the header of a bus  *)
(* or one of the nodes behind it, and every bus has the nodes it announces.*)
(***************************************************************************)
FileIsText == node_file.lines \in Seq(NetworkLine)

Lines      == node_file.lines
BusLine(p) == p \in DOMAIN Lines /\ Lines[p].kind = "bus"

LEMMA WellFormedFile ==
  ASSUME FileIsText, WellFormed
  PROVE  /\ DOMAIN Lines = 1..Len(Lines) /\ Len(Lines) \in Nat
         /\ Len(Lines) # 0 => BusLine(1)
         /\ \A p \in DOMAIN Lines : Lines[p].kind \in {"bus", "other"}
         /\ \A p : BusLine(p) =>
              /\ p \in Nat /\ Lines[p].nodes \in Nat \ {0}
              /\ \A i \in 1..Lines[p].nodes :
                   p + i \in DOMAIN Lines /\ Lines[p + i].kind = "other"
              /\ \/ p + Lines[p].nodes + 1 = Len(Lines) + 1
                 \/ BusLine(p + Lines[p].nodes + 1)
<1>1. /\ DOMAIN Lines = 1..Len(Lines) /\ Len(Lines) \in Nat
      /\ \A p \in DOMAIN Lines : Lines[p] \in NetworkLine
      /\ Len(Lines) # 0 => Lines # <<>>
  BY DEF FileIsText, Lines
<1>2. ASSUME NEW ln \in NetworkLine, ln.kind = "bus"
      PROVE  ln.nodes \in Nat
  BY <1>2 DEF NetworkLine
<1>3. /\ Lines # <<>> => BusLine(1)
      /\ \A p \in DOMAIN Lines : Lines[p].kind \in {"bus", "other"}
      /\ \A p \in DOMAIN Lines : BusLine(p) =>
           /\ Lines[p].nodes # 0
           /\ \A i \in 1..Lines[p].nodes : p + i \in DOMAIN Lines /\ ~BusLine(p + i)
           /\ \/ p + Lines[p].nodes + 1 = Len(Lines) + 1
              \/ BusLine(p + Lines[p].nodes + 1)
  BY DEF WellFormed, BusLine, Lines
<1>4. ASSUME NEW p, BusLine(p)
      PROVE  /\ p \in Nat /\ Lines[p].nodes \in Nat \ {0}
             /\ \A i \in 1..Lines[p].nodes :
                  p + i \in DOMAIN Lines /\ Lines[p + i].kind = "other"
             /\ \/ p + Lines[p].nodes + 1 = Len(Lines) + 1
                \/ BusLine(p + Lines[p].nodes + 1)
  <2>1. p \in DOMAIN Lines /\ Lines[p].kind = "bus"
    BY <1>4 DEF BusLine
  <2>2. p \in Nat /\ Lines[p].nodes \in Nat \ {0}
    BY <1>1, <1>2, <1>3, <1>4, <2>1
  <2>3. ASSUME NEW i \in 1..Lines[p].nodes
        PROVE  p + i \in DOMAIN Lines /\ Lines[p + i].kind = "other"
    <3>1. p + i \in DOMAIN Lines /\ ~BusLine(p + i)
      BY <1>3, <1>4, <2>1
    <3> QED
      BY <1>3, <3>1 DEF BusLine
  <2> QED
    BY <1>3, <1>4, <2>1, <2>2, <2>3
<1> QED
  BY <1>1, <1>3, <1>4

OnConnection(conns, p) ==
  \E i \in DOMAIN conns : \E k \in DOMAIN conns[i].nodes : p = conns[i].header + k

OfBus(c) == /\ c.type = "bus" /\ BusLine(c.header)
            /\ Len(c.nodes) <= Lines[c.header].nodes
Whole(c) == Len(c.nodes) = Lines[c.header].nodes

Tiled ==
  WellFormed /\ pc \in NetPlaces =>
    /\ line <= Len(Lines) + 1
    /\ \A i \in DOMAIN connections :
         /\ OfBus(connections[i])
         /\ i # Len(connections) \/ pc # "node" => Whole(connections[i])
    /\ \A p \in DOMAIN Lines :
         p < line /\ Lines[p].kind = "other" => OnConnection(connections, p)
    /\ pc = "connection" => line = Len(Lines) + 1 \/ BusLine(line)
    /\ pc \in {"populate", "register", "init_scheduler"} => line = Len(Lines) + 1

\* Appending a connection or a node keeps what is on the connections.
LEMMA AppendKeepsOn ==
  ASSUME NEW conns \in Seq(ConnectionType), NEW c \in ConnectionType, NEW p,
         OnConnection(conns, p)
  PROVE  OnConnection(Append(conns, c), p)
<1> DEFINE new == Append(conns, c)
<1>1. \A i \in DOMAIN conns : i \in DOMAIN new /\ new[i] = conns[i]
  OBVIOUS
<1> HIDE DEF new
<1> QED
  BY <1>1 DEF OnConnection, new

LEMMA NodeKeepsOn ==
  ASSUME NEW conns \in Seq(ConnectionType), conns # <<>>, NEW x \in Nat, NEW new,
         new = WithNode(conns, x),
         x = conns[Len(conns)].header + Len(conns[Len(conns)].nodes) + 1
  PROVE  \A p : OnConnection(conns, p) \/ p = x => OnConnection(new, p)
<1> DEFINE L   == Len(conns)
           old == conns[L].nodes
<1>1. /\ L \in DOMAIN conns /\ DOMAIN new = DOMAIN conns
      /\ \A i \in DOMAIN conns : i # L => new[i] = conns[i]
      /\ new[L].header = conns[L].header /\ new[L].nodes = Append(old, x)
  <2>1. /\ new \in Seq(ConnectionType) /\ Len(new) = L
        /\ \A i \in DOMAIN conns : i # L => new[i] = conns[i]
        /\ new[L].header = conns[L].header /\ new[L].nodes = Append(old, x)
    BY FromGrows
  <2>2. L \in DOMAIN conns
    OBVIOUS
  <2> QED
    BY <2>1, <2>2, ConnectionTypes
<1>2. /\ \A k \in DOMAIN old : k \in DOMAIN Append(old, x)
      /\ Len(old) + 1 \in DOMAIN Append(old, x) /\ Len(old) \in Nat
  <2>1. old \in Seq(Nat)
    BY <1>1, ConnectionTypes
  <2> HIDE DEF old
  <2> QED
    BY <2>1
<1>3. conns[L].header \in Nat /\ x = conns[L].header + (Len(old) + 1)
  <2>1. conns[L].header \in Nat
    BY <1>1, ConnectionTypes
  <2> HIDE DEF old
  <2>2. x = conns[L].header + Len(old) + 1
    BY DEF old
  <2> QED
    BY <1>2, <2>1, <2>2
<1>4. ASSUME NEW p, NEW i \in DOMAIN conns, NEW k \in DOMAIN conns[i].nodes,
             p = conns[i].header + k
      PROVE  OnConnection(new, p)
  BY <1>1, <1>2, <1>4 DEF OnConnection
<1>5. OnConnection(new, x)
  BY <1>1, <1>2, <1>3 DEF OnConnection
<1>6. ASSUME NEW p, OnConnection(conns, p)
      PROVE  OnConnection(new, p)
  <2>1. PICK i \in DOMAIN conns : \E k \in DOMAIN conns[i].nodes : p = conns[i].header + k
    BY <1>6 DEF OnConnection
  <2>2. PICK k \in DOMAIN conns[i].nodes : p = conns[i].header + k
    BY <2>1
  <2> QED
    BY <1>4, <2>2
<1> QED
  BY <1>5, <1>6

\* Where an interconnect is expected a well-formed file has one, or ends.
LEMMA HeaderExpected ==
  ASSUME NetInv, FileIsText, Tiled, WellFormed, pc = "connection"
  PROVE  /\ Kind = "end" => line = Len(Lines) + 1
         /\ Kind # "end" => Kind = "bus" /\ BusLine(line) /\ line <= Len(Lines)
<1>1. line \in Nat \ {0} /\ (line = Len(Lines) + 1 \/ BusLine(line))
  BY DEF NetInv, NetShape, NetTypes, Tiled, NetPlaces
<1>2. DOMAIN Lines = 1..Len(Lines) /\ Len(Lines) \in Nat
  BY WellFormedFile
<1>3. Kind = IF line > Len(Lines) THEN "end" ELSE Lines[line].kind
  BY DEF Kind, Lines
<1> QED
  BY <1>1, <1>2, <1>3 DEF BusLine

\* Where a node is expected it has one, and it has as many as it announces.
LEMMA NodeExpected ==
  ASSUME NetInv, FileIsText, Tiled, WellFormed, pc = "node"
  PROVE  /\ connections # <<>> /\ Len(connections) \in DOMAIN connections
         /\ line = Bus.header + Len(Bus.nodes) + 1
         /\ Bus.header \in Nat /\ Bus.nodes \in Seq(Nat) /\ Len(Bus.nodes) \in Nat
         /\ Bus = connections[Len(connections)]
         /\ OfBus(Bus) /\ Announced = Lines[Bus.header].nodes
         /\ Announced \in Nat \ {0}
         /\ Len(Bus.nodes) <= Announced
         /\ Len(Bus.nodes) < Announced =>
              line <= Len(Lines) /\ Lines[line].kind = "other"
         /\ Len(Bus.nodes) = Announced =>
              line = Len(Lines) + 1 \/ BusLine(line)
<1>0. connections \in Seq(ConnectionType) /\ line \in Nat \ {0}
  BY DEF NetInv, NetShape, NetTypes
<1>10. \A i \in DOMAIN connections : OfBus(connections[i])
  BY DEF Tiled, NetPlaces
<1>11. /\ DOMAIN Lines = 1..Len(Lines) /\ Len(Lines) \in Nat
       /\ \A p : BusLine(p) =>
            /\ p \in Nat /\ Lines[p].nodes \in Nat \ {0}
            /\ \A i \in 1..Lines[p].nodes :
                 p + i \in DOMAIN Lines /\ Lines[p + i].kind = "other"
            /\ \/ p + Lines[p].nodes + 1 = Len(Lines) + 1
               \/ BusLine(p + Lines[p].nodes + 1)
  BY WellFormedFile
<1>1. /\ connections # <<>>
      /\ line = connections[Len(connections)].header
                  + Len(connections[Len(connections)].nodes) + 1
  BY DEF NetInv, NetShape
<1>2. /\ Bus = connections[Len(connections)] /\ Len(connections) \in DOMAIN connections
      /\ Announced = Lines[Bus.header].nodes
  BY <1>0, <1>1 DEF Bus, Last, Announced, Lines
<1>3. /\ Bus.header \in Nat /\ Bus.nodes \in Seq(Nat) /\ Len(Bus.nodes) \in Nat
      /\ OfBus(Bus)
  BY <1>0, <1>10, <1>2, ConnectionTypes DEF NetPlaces
<1>4. /\ BusLine(Bus.header) /\ Len(Bus.nodes) <= Announced
  BY <1>2, <1>3 DEF OfBus
<1> DEFINE h == Bus.header
           n == Len(Bus.nodes)
           a == Announced
<1>5. /\ a \in Nat \ {0} /\ n \in Nat /\ h \in Nat /\ n <= a /\ line = h + n + 1
      /\ \A i \in 1..a : h + i \in DOMAIN Lines /\ Lines[h + i].kind = "other"
      /\ h + a + 1 = Len(Lines) + 1 \/ BusLine(h + a + 1)
  BY <1>11, <1>1, <1>2, <1>3, <1>4
<1> HIDE DEF h, n, a
<1>6. n < a => line <= Len(Lines) /\ Lines[line].kind = "other"
  <2> SUFFICES ASSUME n < a
               PROVE  line <= Len(Lines) /\ Lines[line].kind = "other"
    OBVIOUS
  <2>1. n + 1 \in 1..a /\ line = h + (n + 1)
    BY <1>5
  <2>2. line \in DOMAIN Lines /\ Lines[line].kind = "other"
    BY <1>5, <2>1
  <2> QED
    BY <1>11, <2>2
<1>7. n = a => line = Len(Lines) + 1 \/ BusLine(line)
  BY <1>5
<1> QED
  BY <1>1, <1>2, <1>3, <1>4, <1>5, <1>6, <1>7 DEF h, n, a

LEMMA TiledKeptByLoading ==
  ASSUME NetInv, FileIsText, Tiled, LoadNetwork
  PROVE  Tiled'
<1>0. /\ connections \in Seq(ConnectionType) /\ line \in Nat \ {0}
      /\ UNCHANGED node_file /\ UNCHANGED Lines
      /\ DOMAIN connections = 1..Len(connections) /\ Len(connections) \in Nat
  BY ConnectionTypes
     DEF NetInv, NetShape, NetTypes, LoadNetwork, OpenNodes, NetworkLoaded, BareHeader,
         UnknownType, ReadP2P, ReadBus, MakeNode, NodeMissing, BusRead, AtTop, BusFrame, Lines
<1> SUFFICES ASSUME WellFormed, pc' \in NetPlaces
             PROVE  Tiled'
  BY <1>0 DEF Tiled, WellFormed
<1>1. /\ DOMAIN Lines = 1..Len(Lines) /\ Len(Lines) \in Nat
      /\ Len(Lines) # 0 => BusLine(1)
      /\ \A p \in DOMAIN Lines : Lines[p].kind \in {"bus", "other"}
      /\ \A p : BusLine(p) =>
           /\ p \in Nat /\ Lines[p].nodes \in Nat \ {0}
           /\ \A i \in 1..Lines[p].nodes :
                p + i \in DOMAIN Lines /\ Lines[p + i].kind = "other"
           /\ \/ p + Lines[p].nodes + 1 = Len(Lines) + 1
              \/ BusLine(p + Lines[p].nodes + 1)
      /\ \A p : BusLine(p)' <=> BusLine(p)
  BY <1>0, WellFormedFile DEF BusLine, Lines
<1>11. /\ \A i \in DOMAIN connections' :
           OfBus(connections'[i]) /\ (i # Len(connections') \/ pc' # "node" => Whole(connections'[i]))
       /\ line' <= Len(Lines) + 1
       /\ \A p \in DOMAIN Lines :
            p < line' /\ Lines[p].kind = "other" => OnConnection(connections', p)
       /\ pc' = "connection" => line' = Len(Lines) + 1 \/ BusLine(line')
       /\ pc' \in {"populate", "register", "init_scheduler"} => line' = Len(Lines) + 1
       => Tiled'
  BY <1>0 DEF Tiled, OfBus, Whole, BusLine, OnConnection
<1>2. CASE OpenNodes
  <2>1. connections' = <<>> /\ line' = 1 /\ pc' = "connection"
    BY <1>2 DEF OpenNodes, Open, Goto, Fail, NetPlaces
  <2>2. DOMAIN <<>> = {}
    OBVIOUS
  <2> QED
    BY <1>0, <1>1, <2>1, <2>2 DEF Tiled
<1>3. ASSUME pc \in NetPlaces
      PROVE  /\ line <= Len(Lines) + 1
             /\ \A i \in DOMAIN connections :
                  /\ OfBus(connections[i])
                  /\ i # Len(connections) \/ pc # "node" => Whole(connections[i])
             /\ \A p \in DOMAIN Lines :
                  p < line /\ Lines[p].kind = "other" => OnConnection(connections, p)
             /\ pc = "connection" => line = Len(Lines) + 1 \/ BusLine(line)
  BY <1>3 DEF Tiled
<1>4. CASE NetworkLoaded
  <2>1. /\ pc = "connection" /\ pc' = "populate" /\ UNCHANGED <<line, connections>>
        /\ Kind = "end"
    BY <1>4 DEF NetworkLoaded, AtTop, Goto
  <2>2. line = Len(Lines) + 1
    BY <2>1, HeaderExpected
  <2> QED
    BY <1>3, <1>11, <2>1, <2>2 DEF NetPlaces
<1>5. CASE BareHeader \/ UnknownType \/ ReadP2P
  <2>1. pc = "connection" /\ Kind \notin {"end", "bus"}
    BY <1>5 DEF BareHeader, UnknownType, ReadP2P, AtTop
  <2> QED
    BY <2>1, HeaderExpected
<1>6. CASE ReadBus
  <2> DEFINE c == [type |-> "bus", header |-> line, nodes |-> <<>>]
  <2>1. /\ connections' = Append(connections, c) /\ line' = line + 1
        /\ pc = "connection" /\ pc' = "node" /\ Kind = "bus"
    BY <1>6 DEF ReadBus, AddInterconnectToList, AtTop, Goto
  <2>2. /\ c \in ConnectionType /\ c.type = "bus" /\ c.header = line /\ Len(c.nodes) = 0
    BY <1>0 DEF ConnectionType
  <2> HIDE DEF c
  <2>3. BusLine(line) /\ line <= Len(Lines)
    BY <2>1, HeaderExpected
  <2>4. /\ Len(connections') = Len(connections) + 1 /\ connections'[Len(connections')] = c
        /\ DOMAIN connections' = 1..(Len(connections) + 1)
        /\ \A i \in DOMAIN connections : connections'[i] = connections[i]
    BY <1>0, <2>1, <2>2
  <2>5. ASSUME NEW i \in DOMAIN connections'
        PROVE  OfBus(connections'[i]) /\ (i # Len(connections') => Whole(connections'[i]))
    <3>1. CASE i \in DOMAIN connections
      <4>1. OfBus(connections[i]) /\ Whole(connections[i]) /\ connections'[i] = connections[i]
        BY <1>3, <2>1, <2>4, <3>1 DEF NetPlaces
      <4> QED
        BY <4>1
    <3>2. CASE i = Len(connections')
      BY <1>1, <2>2, <2>3, <2>4, <3>2 DEF OfBus
    <3> QED
      BY <1>0, <2>4, <3>1, <3>2
  <2>6. ASSUME NEW p \in DOMAIN Lines, p < line', Lines[p].kind = "other"
        PROVE  OnConnection(connections', p)
    <3>1. p # line
      BY <2>3, <2>6 DEF BusLine
    <3>2. p < line
      BY <1>0, <1>1, <2>1, <2>6, <3>1
    <3> QED
      BY <1>0, <1>3, <2>1, <2>2, <2>6, <3>2, AppendKeepsOn DEF NetPlaces
  <2>7. line' <= Len(Lines) + 1
    BY <1>0, <1>1, <2>1, <2>3
  <2> QED
    BY <1>11, <2>1, <2>5, <2>6, <2>7
<1>8. CASE MakeNode
  <2>1. /\ connections' = WithNode(connections, line) /\ line' = line + 1
        /\ pc = "node" /\ pc' = "node" /\ Len(Bus.nodes) < Announced
    BY <1>8 DEF MakeNode, BusFrame, WithNode
  <2> DEFINE L == Len(connections)
  <2>2. /\ connections # <<>> /\ L \in DOMAIN connections
        /\ line = connections[L].header + Len(connections[L].nodes) + 1
        /\ connections[L].nodes \in Seq(Nat)
        /\ OfBus(connections[L]) /\ Len(connections[L].nodes) < Lines[connections[L].header].nodes
        /\ Lines[connections[L].header].nodes \in Nat
        /\ line <= Len(Lines) /\ Lines[line].kind = "other"
    BY <2>1, NodeExpected
  <2>3. /\ DOMAIN connections' = DOMAIN connections /\ Len(connections') = L
        /\ \A i \in DOMAIN connections : i # L => connections'[i] = connections[i]
        /\ connections'[L].type = connections[L].type
        /\ connections'[L].header = connections[L].header
        /\ connections'[L].nodes = Append(connections[L].nodes, line)
    <3>0. /\ connections \in Seq(ConnectionType) /\ connections # <<>> /\ line \in Nat
          /\ connections' = WithNode(connections, line)
      BY <1>0, <2>1, <2>2
    <3>1. /\ connections' \in Seq(ConnectionType) /\ Len(connections') = L
          /\ \A i \in DOMAIN connections : i # L => connections'[i] = connections[i]
          /\ connections'[L].type = connections[L].type
          /\ connections'[L].header = connections[L].header
          /\ connections'[L].nodes = Append(connections[L].nodes, line)
      BY <3>0, FromGrows
    <3>2. DOMAIN connections' = 1..Len(connections')
      BY <3>1
    <3>3. DOMAIN connections' = DOMAIN connections
      BY <1>0, <3>1, <3>2
    <3> QED
      BY <3>1, <3>3
  <2>4. Len(connections'[L].nodes) = Len(connections[L].nodes) + 1
    BY <2>2, <2>3
  <2>5. OfBus(connections'[L])
    <3>1. Len(connections[L].nodes) \in Nat
      BY <2>2
    <3> QED
      BY <2>2, <2>3, <2>4, <3>1 DEF OfBus
  <2> HIDE DEF L
  <2>6. ASSUME NEW i \in DOMAIN connections'
        PROVE  OfBus(connections'[i]) /\ (i # Len(connections') => Whole(connections'[i]))
    <3>1. OfBus(connections'[i]) /\ (i # L => Whole(connections'[i]))
      <4>1. CASE i = L
        BY <2>5, <4>1
      <4>2. CASE i # L
        BY <1>3, <2>1, <2>3, <4>2 DEF NetPlaces, L
      <4> QED
        BY <4>1, <4>2
    <3> QED
      BY <2>3, <3>1
  <2>7. ASSUME NEW p \in DOMAIN Lines, p < line', Lines[p].kind = "other"
        PROVE  OnConnection(connections', p)
    <3>1. p < line \/ p = line
      BY <1>0, <1>1, <2>1, <2>7
    <3>2. OnConnection(connections, p) \/ p = line
      BY <1>3, <2>1, <2>7, <3>1 DEF NetPlaces
    <3> QED
      BY <1>0, <2>1, <2>2, <3>2, NodeKeepsOn DEF L
  <2>8. line' <= Len(Lines) + 1
    BY <1>0, <1>1, <2>1, <2>2
  <2> QED
    BY <1>11, <2>1, <2>6, <2>7, <2>8
<1>9. CASE NodeMissing
  BY <1>9 DEF NodeMissing, Crash, Goto, NetPlaces
<1>10. CASE BusRead
  <2>1. /\ pc = "node" /\ UNCHANGED <<line, connections>> /\ Len(Bus.nodes) = Announced
        /\ pc' = "connection"
    BY <1>10 DEF BusRead, BusFrame, Goto, Fail, NetPlaces
  <2>2. Whole(connections[Len(connections)]) /\ (line = Len(Lines) + 1 \/ BusLine(line))
    BY <2>1, NodeExpected DEF Whole
  <2>3. \A i \in DOMAIN connections' : OfBus(connections'[i]) /\ Whole(connections'[i])
    BY <1>3, <2>1, <2>2 DEF NetPlaces
  <2> QED
    BY <1>3, <1>11, <2>1, <2>2, <2>3 DEF NetPlaces
<1> QED
  BY <1>2, <1>4, <1>5, <1>6, <1>8, <1>9, <1>10 DEF LoadNetwork

LEMMA TiledKept ==
  ASSUME NetInv, FileIsText, Tiled, [Next]_vars
  PROVE  Tiled' /\ FileIsText'
<1>1. CASE UNCHANGED <<node_file, networkVars>> /\ (pc' = pc \/ pc' \notin NetPlaces)
  <2>1. UNCHANGED <<Lines, line, connections>> /\ WellFormed' = WellFormed
    BY <1>1 DEF networkVars, Lines, WellFormed
  <2> QED
    BY <1>1, <2>1 DEF NetPlaces, Tiled, FileIsText, OfBus, Whole, BusLine, OnConnection, Lines
<1>2. CASE LoadNetwork
  <2>1. UNCHANGED node_file
    BY <1>2 DEF LoadNetwork, OpenNodes, NetworkLoaded, BareHeader, UnknownType, ReadP2P,
                ReadBus, MakeNode, NodeMissing, BusRead, AtTop, BusFrame
  <2> QED
    BY <1>2, <2>1, TiledKeptByLoading DEF FileIsText
<1>3. CASE PopulateNodeRegistry
  <2>1. /\ UNCHANGED <<node_file, line, connections>>
        /\ pc \in {"populate", "register"} /\ pc' \in {"register", "init_scheduler"}
    BY <1>3 DEF PopulateNodeRegistry, AllocateRegistry, RegisterNodes, AllRegistered,
                RegistryFrame, Goto
  <2>2. UNCHANGED Lines /\ WellFormed' = WellFormed
    BY <2>1 DEF Lines, WellFormed
  <2> QED
    BY <2>1, <2>2 DEF NetPlaces, Tiled, FileIsText, OfBus, Whole, BusLine, OnConnection, Lines
<1> QED
  BY <1>1, <1>2, <1>3, NetworkSteps

FileInv == NetInv /\ Listed /\ FileIsText /\ Tiled

LEMMA FileInvStarts ==
  ASSUME Init
  PROVE  FileInv
<1>1. pc \notin NetPlaces
  BY DEF Init, NetPlaces
<1>2. FileIsText
  <2>1. CASE \E w \in CsimWorlds : node_file = w.node_file
    BY <2>1, WorldsAssumption DEF FileIsText
  <2>2. CASE \E w \in PipelineWorlds : node_file = w.node_file
    BY <2>2, WorldsAssumption DEF FileIsText
  <2> QED
    BY <2>1, <2>2 DEF Init
<1>3. Listed
  BY <1>1 DEF Listed, NetPlaces
<1>4. Tiled
  BY <1>1 DEF Tiled
<1> QED
  BY <1>2, <1>3, <1>4, NetStarts DEF FileInv

THEOREM FileInvHolds == Spec => []FileInv
<1>1. Init => FileInv
  BY FileInvStarts
<1>2. FileInv /\ [Next]_vars => FileInv'
  BY NetStepKeeps, ListedKept, TiledKept DEF FileInv
<1> QED
  BY <1>1, <1>2, PTL DEF Spec

\* At the end of a well-formed file the registry lists its node lines.
LEMMA ListedFile ==
  ASSUME FileInv, WellFormed, pc = "init_scheduler"
  PROVE  LET nodeLines == {p \in DOMAIN Lines : Lines[p].kind = "other"}
         IN  /\ node_count \in Nat
             /\ DOMAIN node_registry = 1..node_count
             /\ \A a \in 1..node_count : node_registry[a] \in nodeLines
             /\ \A n \in nodeLines : \E a \in 1..node_count : node_registry[a] = n
             /\ \A a, b \in 1..node_count : a < b => node_registry[a] < node_registry[b]
             /\ \A i \in DOMAIN connections : OfBus(connections[i])
<1> DEFINE nodeLines == {p \in DOMAIN Lines : Lines[p].kind = "other"}
<1>1. /\ connections \in Seq(ConnectionType) /\ DOMAIN connections = 1..Len(connections)
      /\ Len(connections) \in Nat /\ node_count \in Nat /\ registered \in Nat
      /\ InPlace(connections, line)
      /\ DOMAIN node_registry = 1..node_count /\ Covers(node_count, registered)
      /\ cons = Len(connections) + 1
      /\ \A a \in 1..registered : node_registry[a] \in NodesBefore(cons)
      /\ \A n \in NodesBefore(cons) : \E a \in 1..registered : node_registry[a] = n
      /\ \A a, b \in 1..registered : a < b => node_registry[a] < node_registry[b]
  BY ConnectionTypes
     DEF FileInv, NetInv, NetShape, NetTypes, Counted, Written, Listed
<1>2. /\ \A i \in DOMAIN connections : OfBus(connections[i]) /\ Whole(connections[i])
      /\ \A p \in DOMAIN Lines : Lines[p].kind = "other" => OnConnection(connections, p)
      /\ DOMAIN Lines = 1..Len(Lines) /\ Len(Lines) \in Nat
  <2>1. /\ \A i \in DOMAIN connections : OfBus(connections[i]) /\ Whole(connections[i])
        /\ \A p \in DOMAIN Lines : 
             p < line /\ Lines[p].kind = "other" => OnConnection(connections, p)
        /\ line = Len(Lines) + 1
    BY DEF FileInv, Tiled, NetPlaces
  <2>2. DOMAIN Lines = 1..Len(Lines) /\ Len(Lines) \in Nat
    BY WellFormedFile DEF FileInv
  <2> QED
    BY <2>1, <2>2
<1>3. registered = node_count
  BY <1>1, <1>2 DEF Covers, AllBuses, OfBus
<1>4. NodesBefore(cons) = nodeLines
  <2>1. ASSUME NEW n \in NodesBefore(cons)
        PROVE  n \in nodeLines
    <3>1. PICK i \in DOMAIN connections :
            \E k \in DOMAIN connections[i].nodes : n = connections[i].header + k
      BY DEF NodesBefore
    <3>2. PICK k \in DOMAIN connections[i].nodes : n = connections[i].header + k
      BY <3>1
    <3>3. /\ connections[i].nodes \in Seq(Nat)
          /\ Len(connections[i].nodes) = Lines[connections[i].header].nodes
          /\ BusLine(connections[i].header)
      BY <1>1, <1>2, ConnectionTypes DEF OfBus, Whole
    <3>4. k \in 1..Lines[connections[i].header].nodes
      BY <3>3
    <3> QED
      BY <3>2, <3>3, <3>4, WellFormedFile DEF FileInv
  <2>2. ASSUME NEW n \in nodeLines
        PROVE  n \in NodesBefore(cons)
    <3>1. OnConnection(connections, n) /\ n \in Nat
      BY <1>2
    <3>2. \A i \in DOMAIN connections : i < cons
      BY <1>1
    <3> QED
      BY <3>1, <3>2 DEF OnConnection, NodesBefore
  <2> QED
    BY <2>1, <2>2
<1> QED
  BY <1>1, <1>2, <1>3, <1>4

\* A well-formed file is listed as it is: an entry for every node line, none
\* left unwritten, in the order of the lines, and node_count is their number
\* (init.c:68-90, node_network_from_dataset.c:134-166).
THEOREM RegistryListsTheFile == Spec => []RegistryIsFile
<1>1. FileInv => RegistryIsFile
  <2> SUFFICES ASSUME FileInv, WellFormed, pc = "init_scheduler"
               PROVE  LET nodeLines == {p \in DOMAIN node_file.lines :
                                          node_file.lines[p].kind = "other"}
                      IN  /\ node_count = Cardinality(nodeLines)
                          /\ DOMAIN node_registry = 1..node_count
                          /\ ToSet(node_registry) = nodeLines
                          /\ \A a, b \in DOMAIN node_registry :
                               a < b => node_registry[a] < node_registry[b]
    BY DEF RegistryIsFile
  <2> DEFINE nodeLines == {p \in DOMAIN node_file.lines : node_file.lines[p].kind = "other"}
             places    == 1..node_count
  <2>1. /\ node_count \in Nat
        /\ DOMAIN node_registry = places
        /\ \A a \in places : node_registry[a] \in nodeLines
        /\ \A n \in nodeLines : \E a \in places : node_registry[a] = n
        /\ \A a, b \in places : a < b => node_registry[a] < node_registry[b]
        /\ nodeLines \subseteq Nat
    <3>1. DOMAIN node_file.lines \subseteq Nat
      BY WellFormedFile DEF FileInv, Lines
    <3> QED
      BY <3>1, ListedFile DEF Lines
  <2>2. places \subseteq Nat /\ IsFiniteSet(places) /\ Cardinality(places) = node_count
    BY <2>1, FS_Interval
  <2> HIDE DEF places, nodeLines
  <2>3. ToSet(node_registry) = nodeLines
    BY <2>1 DEF ToSet
  <2> DEFINE entry == [a \in places |-> node_registry[a]]
  <2>4. entry \in [places -> nodeLines]
    BY <2>1
  <2>5. \A a, b \in places : entry[a] = entry[b] => a = b
    <3> SUFFICES ASSUME NEW a \in places, NEW b \in places,
                        node_registry[a] = node_registry[b]
                 PROVE  a = b
      OBVIOUS
    <3>1. a \in Nat /\ b \in Nat /\ node_registry[a] \in Nat /\ node_registry[b] \in Nat
      BY <2>1, <2>2
    <3>2. ~(a < b) /\ ~(b < a)
      BY <2>1, <3>1
    <3> QED
      BY <3>1, <3>2
  <2>6. \A n \in nodeLines : \E a \in places : entry[a] = n
    BY <2>1
  <2> HIDE DEF entry
  <2>7. entry \in Bijection(places, nodeLines)
    BY <2>4, <2>5, <2>6 DEF Bijection, Injection, IsInjective, Surjection
  <2>8. Cardinality(nodeLines) = node_count
    BY <2>2, <2>7, FS_Bijection DEF ExistsBijection
  <2> QED
    BY <2>1, <2>3, <2>8 DEF places, nodeLines
<1> QED
  BY <1>1, FileInvHolds, PTL

-----------------------------------------------------------------------------
(***************************************************************************)
(* The end of a run.  A pointer of cluster_t is set in one order, and the  *)
(* scheduler's comes last; a sound call never leaves it.                   *)
(***************************************************************************)
Simulating == {"simulate", "tick", "distribute", "schedule"}
Destroying == {"destroy_jobs", "destroy_connections", "destroy_registry", "destroy_scheduler"}
Over       == Destroying \cup {"exit", "crashed"}

PointersOrdered ==
  /\ pc \in NetPlaces => "connections" \notin unset
  /\ pc \in {"register", "init_scheduler"} => "node_registry" \notin unset
  /\ "scheduler" \notin unset => "connections" \notin unset /\ "node_registry" \notin unset
  /\ pc \in Simulating => "scheduler" \notin unset
  /\ pc \notin Simulating \cup Over => "scheduler" \in unset

LEMMA PointersKept ==
  ASSUME PointersOrdered, [Next]_vars
  PROVE  PointersOrdered'
<1>1. CASE Main
  BY <1>1 DEF Main, Goto, PointersOrdered, Simulating, Destroying, Over, NetPlaces
<1>2. CASE LoadJobs
  BY <1>2 DEF LoadJobs, OpenJobs, ParseLine, EndOfJobs, Open, Goto, Fail, SetPointer,
              processVars, PointersOrdered, Simulating, Destroying, Over, NetPlaces
<1>3. CASE LoadNetwork
  <2>1. CASE OpenNodes
    BY <2>1 DEF OpenNodes, Open, Goto, Fail, SetPointer, PointersOrdered, Simulating,
                Destroying, Over, NetPlaces
  <2>2. CASE NetworkLoaded \/ BareHeader \/ UnknownType \/ ReadP2P \/ ReadBus
    BY <2>2 DEF NetworkLoaded, BareHeader, UnknownType, ReadP2P, ReadBus, AtTop, Goto, Crash,
                Fail, PointersOrdered, Simulating, Destroying, Over, NetPlaces
  <2>3. CASE MakeNode \/ NodeMissing \/ BusRead
    BY <2>3 DEF MakeNode, NodeMissing, BusRead, BusFrame, Goto, Crash, Fail,
                PointersOrdered, Simulating, Destroying, Over, NetPlaces
  <2> QED
    BY <1>3, <2>1, <2>2, <2>3 DEF LoadNetwork
<1>4. CASE PopulateNodeRegistry
  BY <1>4 DEF PopulateNodeRegistry, AllocateRegistry, RegisterNodes, AllRegistered,
              RegistryFrame, Goto, SetPointer, PointersOrdered, Simulating, Destroying, Over,
              NetPlaces
<1>5. CASE InitScheduler
  BY <1>5 DEF InitScheduler, InitReturns, Goto, Fail, Crash, SetPointer, PointersOrdered,
              Simulating, Destroying, Over, NetPlaces
<1>6. CASE Simulate
  BY <1>6 DEF Simulate, Goto, Crash, PointersOrdered, Simulating, Destroying, Over, NetPlaces
<1>7. CASE RunRoundRobin
  BY <1>7 DEF RunRoundRobin, FirstTick, Distribute, Distributed, Schedule, RoundRobinFrame,
              Goto, Crash, PointersOrdered, Simulating, Destroying, Over, NetPlaces
<1>8. CASE Destroy
  <2>1. UNCHANGED unset /\ pc \in Destroying /\ pc' \in Over
    BY <1>8 DEF Destroy, DestroyJobs, DestroyConnections, DestroyRegistry, DestroyScheduler,
                DestroyFrame, Unset, Goto, Crash, Over, Destroying
  <2> QED
    BY <2>1 DEF PointersOrdered, Simulating, Destroying, Over, NetPlaces
<1>9. CASE Feed
  BY <1>9 DEF Feed, Goto, PointersOrdered, Simulating, Destroying, Over, NetPlaces
<1>10. CASE UNCHANGED programVars
  BY <1>10 DEF programVars, processVars, PointersOrdered
<1> QED
  BY <1>1, <1>2, <1>3, <1>4, <1>5, <1>6, <1>7, <1>8, <1>9, <1>10
     DEF Next, Ended, vars, ProgramStep

\* A sound call fails in init_priority only, and then its scheduler is not set.
EndsWell ==
  /\ pc \in {"shell", "main"} => status = EXIT_SUCCESS
  /\ status \in {EXIT_SUCCESS, EXIT_FAILURE}
  /\ Sound =>
       /\ status = EXIT_FAILURE =>
            Mode = "priority" /\ pc \in Over \ {"exit"} /\ "scheduler" \in unset
       /\ pc = "crashed" => status = EXIT_FAILURE
       /\ pc \in Destroying => "connections" \notin unset /\ "node_registry" \notin unset
       /\ pc \in Destroying /\ status = EXIT_SUCCESS => "scheduler" \notin unset
       /\ pc \notin Simulating \ {"simulate"}
       /\ pc = "simulate" => ~Unworkable

\* With a sound call every line that is expected is there.
LEMMA SoundLoading ==
  ASSUME FileInv, Sound, LoadNetwork
  PROVE  pc' \in NetPlaces /\ UNCHANGED status
<1>1. FileIsText /\ Tiled /\ NetInv /\ WellFormed /\ node_file.openable
  BY DEF FileInv, Sound
<1>2. CASE OpenNodes
  BY <1>1, <1>2 DEF OpenNodes, Open, Goto, NetPlaces
<1>3. CASE NetworkLoaded \/ BareHeader \/ UnknownType \/ ReadP2P \/ ReadBus
  <2>1. pc = "connection"
    BY <1>3 DEF NetworkLoaded, BareHeader, UnknownType, ReadP2P, ReadBus, AtTop
  <2>2. Kind \in {"end", "bus"}
    BY <1>1, <2>1, HeaderExpected
  <2> QED
    BY <1>3, <2>2 DEF NetworkLoaded, BareHeader, UnknownType, ReadP2P, ReadBus, Goto, NetPlaces
<1>4. CASE MakeNode
  BY <1>4 DEF MakeNode, NetPlaces
<1>5. CASE NodeMissing
  <2>1. pc = "node" /\ Len(Bus.nodes) < Announced /\ Kind \in {"end", "bare"}
    BY <1>5 DEF NodeMissing
  <2>2. line <= Len(Lines) /\ Lines[line].kind = "other" /\ line \in Nat /\ Len(Lines) \in Nat
    BY <1>1, <2>1, NodeExpected, WellFormedFile DEF NetInv, NetShape, NetTypes
  <2>3. Kind = "other"
    BY <2>2 DEF Kind, Lines
  <2> QED
    BY <2>1, <2>3
<1>6. CASE BusRead
  <2>1. pc = "node"
    BY <1>6 DEF BusRead
  <2>2. Announced # 0
    BY <1>1, <2>1, NodeExpected
  <2> QED
    BY <1>6, <2>2 DEF BusRead, Goto, NetPlaces
<1> QED
  BY <1>2, <1>3, <1>4, <1>5, <1>6 DEF LoadNetwork

\* What it leaves is something the scheduler and the simulation can work with.
LEMMA SoundWorks ==
  ASSUME FileInv, Sound, pc = "init_scheduler"
  PROVE  ~HasStrayNode /\ ~Unworkable
<1> DEFINE nodeLines == {p \in DOMAIN Lines : Lines[p].kind = "other"}
<1>1. WellFormed /\ FileIsText
  BY DEF Sound, FileInv
<1>2. /\ node_count \in Nat /\ DOMAIN node_registry = 1..node_count
      /\ \A a \in 1..node_count : node_registry[a] \in nodeLines
      /\ \A n \in nodeLines : \E a \in 1..node_count : node_registry[a] = n
      /\ \A i \in DOMAIN connections : OfBus(connections[i])
  BY <1>1, ListedFile
<1>3. /\ DOMAIN Lines = 1..Len(Lines) /\ Len(Lines) \in Nat
      /\ Len(Lines) # 0 => BusLine(1)
      /\ BusLine(1) => /\ Lines[1].nodes \in Nat \ {0}
                       /\ \A i \in 1..Lines[1].nodes :
                            1 + i \in DOMAIN Lines /\ Lines[1 + i].kind = "other"
  BY <1>1, WellFormedFile
<1>4. ~HasStrayNode
  <2>1. 0 \notin nodeLines
    BY <1>3
  <2> QED
    BY <1>2, <2>1 DEF HasStrayNode, Stray
<1>5. Mode = "priority" => node_count # 0
  <2> SUFFICES ASSUME Mode = "priority" PROVE node_count # 0
    OBVIOUS
  <2>1. Lines # <<>> /\ Lines \in Seq(NetworkLine)
    BY <1>1 DEF Sound, Lines, FileIsText
  <2>2. Len(Lines) # 0
    BY <2>1
  <2>3. 1 \in 1..Lines[1].nodes
    BY <1>3, <2>2
  <2>4. 1 + 1 \in nodeLines
    BY <1>3, <2>2, <2>3
  <2> HIDE DEF nodeLines
  <2>5. PICK a \in 1..node_count : node_registry[a] = 1 + 1
    BY <1>2, <2>4
  <2> QED
    BY <1>2, <2>5
<1>6. ~EqualDelays
  BY <1>2 DEF EqualDelays, OfBus, BusLine, Lines, Sound
<1> QED
  BY <1>4, <1>5, <1>6 DEF Unworkable

LEMMA EndsWellKept ==
  ASSUME FileInv, PointersOrdered, EndsWell, [Next]_vars
  PROVE  EndsWell'
<1> USE DEF Simulating, Destroying, Over
<1>1. CASE Main
  <2>1. /\ pc = "main" /\ status = EXIT_SUCCESS /\ UNCHANGED <<arguments, job_file, node_file>>
        /\ \/ pc' = "open_jobs" /\ UNCHANGED status
           \/ pc' = "exit" /\ ~(arguments.complete /\ Mode \in Modes) /\ status' = EXIT_FAILURE
    BY <1>1 DEF Main, Goto, inputVars, EndsWell
  <2>2. Sound' <=> Sound
    BY <2>1 DEF Sound, Mode, WellFormed
  <2>3. Sound => arguments.complete /\ Mode \in Modes
    BY DEF Sound
  <2> QED
    BY <2>1, <2>2, <2>3 DEF EndsWell, EXIT_SUCCESS, EXIT_FAILURE
<1>2. CASE Feed
  BY <1>2 DEF Feed, Goto, EndsWell, EXIT_SUCCESS, EXIT_FAILURE
<1>3. CASE UNCHANGED programVars
  <2>1. UNCHANGED <<arguments, job_file, node_file, pc, status, unset, job_count, connections,
                    node_registry, node_count>>
    BY <1>3 DEF programVars, inputVars, processVars, sequenceVars, networkVars
  <2> QED
    BY <2>1 DEF EndsWell, Sound, Mode, WellFormed, Unworkable, HasStrayNode, EqualDelays
<1>4. CASE ProgramStep /\ ~Main
  <2>0. UNCHANGED <<arguments, job_file, node_file>>
    BY <1>4 DEF ProgramStep, LoadJobs, OpenJobs, ParseLine, EndOfJobs, LoadNetwork, OpenNodes,
                NetworkLoaded, BareHeader, UnknownType, ReadP2P, ReadBus, MakeNode, NodeMissing,
                BusRead, AtTop, BusFrame, PopulateNodeRegistry, AllocateRegistry, RegisterNodes,
                AllRegistered, RegistryFrame, InitScheduler, Simulate, RunRoundRobin, FirstTick,
                Distribute, Distributed, Schedule, RoundRobinFrame, Destroy, DestroyJobs,
                DestroyConnections, DestroyRegistry, DestroyScheduler, DestroyFrame, inputVars
  <2>1. (Sound' <=> Sound) /\ Mode' = Mode
    BY <2>0 DEF Sound, Mode, WellFormed
  <2>2. CASE LoadJobs
    <3>1. /\ pc \in {"open_jobs", "job_line"}
          /\ \/ pc' \in {"job_line", "open_nodes"} /\ UNCHANGED status
             \/ pc' = "destroy_jobs" /\ status' = EXIT_FAILURE /\ ~job_file.openable
      BY <2>2 DEF LoadJobs, OpenJobs, ParseLine, EndOfJobs, Open, Goto, Fail, processVars
    <3> QED
      BY <2>1, <3>1 DEF EndsWell, Sound, EXIT_SUCCESS, EXIT_FAILURE
  <2>3. CASE LoadNetwork
    <3>1. /\ status' \in {status, EXIT_FAILURE}
          /\ pc \in {"open_nodes", "connection", "node"} /\ pc' \notin {"shell", "main"}
      BY <2>3 DEF LoadNetwork, OpenNodes, NetworkLoaded, BareHeader, UnknownType, ReadP2P,
                  ReadBus, MakeNode, NodeMissing, BusRead, AtTop, Open, Goto, Fail, Crash
    <3>2. Sound => pc' \in NetPlaces /\ UNCHANGED status
      BY <2>3, SoundLoading
    <3> QED
      BY <2>1, <3>1, <3>2 DEF EndsWell, NetPlaces
  <2>4. CASE PopulateNodeRegistry
    BY <2>1, <2>4 DEF PopulateNodeRegistry, AllocateRegistry, RegisterNodes, AllRegistered,
                      Goto, EndsWell
  <2>5. CASE InitScheduler
    <3>1. /\ pc = "init_scheduler" /\ Unworkable' = Unworkable
          /\ \/ pc' = "simulate" /\ UNCHANGED status
             \/ pc' = "destroy_jobs" /\ status' = EXIT_FAILURE /\ UNCHANGED unset
                /\ Mode = "priority"
             \/ pc' = "crashed" /\ UNCHANGED status /\ HasStrayNode
      <4>1. UNCHANGED <<inputVars, sequenceVars, networkVars>> /\ pc = "init_scheduler"
        BY <2>5 DEF InitScheduler
      <4>2. Unworkable' = Unworkable
        BY <4>1 DEF inputVars, sequenceVars, networkVars, Unworkable, HasStrayNode,
                    EqualDelays, Mode
      <4>3. \/ pc' = "simulate" /\ UNCHANGED status
            \/ pc' = "destroy_jobs" /\ status' = EXIT_FAILURE /\ UNCHANGED unset
               /\ Mode = "priority"
            \/ pc' = "crashed" /\ UNCHANGED status /\ HasStrayNode
        BY <2>5 DEF InitScheduler, InitReturns, Goto, Fail, Crash, EXIT_SUCCESS, EXIT_FAILURE
      <4> QED
        BY <4>1, <4>2, <4>3
    <3>2. Sound => ~HasStrayNode /\ ~Unworkable
      BY <3>1, SoundWorks
    <3>3. /\ "connections" \notin unset /\ "node_registry" \notin unset /\ "scheduler" \in unset
      BY <3>1 DEF PointersOrdered, NetPlaces
    <3>4. Sound => status = EXIT_SUCCESS
      BY <3>1 DEF EndsWell
    <3> QED
      BY <2>1, <3>1, <3>2, <3>3, <3>4 DEF EndsWell, EXIT_SUCCESS, EXIT_FAILURE
  <2>6. CASE Simulate
    <3>1. /\ pc = "simulate" /\ UNCHANGED <<status, unset>>
          /\ \/ pc' = "tick" /\ Mode = "round_robin"
             \/ pc' = "destroy_jobs"
             \/ pc' = "crashed" /\ Unworkable
      BY <2>6 DEF Simulate, Goto, Crash
    <3>2. "scheduler" \notin unset /\ "connections" \notin unset /\ "node_registry" \notin unset
      BY <3>1 DEF PointersOrdered
    <3>3. Sound => Mode # "round_robin"
      BY DEF Sound
    <3> QED
      BY <2>1, <3>1, <3>2, <3>3 DEF EndsWell
  <2>7. CASE RunRoundRobin
    <3>1. pc \in Simulating \ {"simulate"} /\ UNCHANGED status /\ pc' \notin {"shell", "main"}
      BY <2>7 DEF RunRoundRobin, FirstTick, Distribute, Distributed, Schedule,
                  RoundRobinFrame, Goto, Crash
    <3> QED
      BY <2>1, <3>1 DEF EndsWell
  <2>8. CASE Destroy
    <3>1. /\ UNCHANGED <<status, unset>> /\ pc \in Destroying
          /\ \/ pc' \in Destroying
             \/ pc' = "crashed" /\ ("connections" \in unset \/ "node_registry" \in unset)
             \/ pc' = "crashed" /\ ("scheduler" \in unset \/ Mode = "round_robin")
             \/ pc' = "exit" /\ "scheduler" \notin unset
      BY <2>8 DEF Destroy, DestroyJobs, DestroyConnections, DestroyRegistry, DestroyScheduler,
                  DestroyFrame, Unset, Goto, Crash
    <3>2. Sound => Mode # "round_robin"
      BY DEF Sound
    <3> QED
      BY <2>1, <3>1, <3>2 DEF EndsWell
  <2> QED
    BY <1>4, <2>2, <2>3, <2>4, <2>5, <2>6, <2>7, <2>8 DEF ProgramStep
<1> QED
  BY <1>1, <1>2, <1>3, <1>4 DEF Next, Ended, vars

EndInv == FileInv /\ PointersOrdered /\ EndsWell

THEOREM EndInvHolds == Spec => []EndInv
<1>1. Init => EndInv
  <2> SUFFICES ASSUME Init PROVE EndInv
    OBVIOUS
  <2>1. pc \in {"shell", "main"} /\ unset = Pointers /\ status = EXIT_SUCCESS
    BY DEF Init, ProgramInit
  <2> QED
    BY <2>1, FileInvStarts
       DEF EndInv, PointersOrdered, EndsWell, Simulating, Destroying, Over, NetPlaces, Pointers,
           EXIT_SUCCESS, EXIT_FAILURE
<1>2. EndInv /\ [Next]_vars => EndInv'
  BY NetStepKeeps, ListedKept, TiledKept, PointersKept, EndsWellKept DEF EndInv, FileInv
<1> QED
  BY <1>1, <1>2, PTL DEF Spec

\* A call with the inputs that the README describes is never led astray by a
\* pointer that is not set, and returns success, but for the status that
\* init_priority does not return (init.c:34-57, schedule_priority.c:141).
THEOREM SoundInputsAreServed == Spec => []SoundInputsEndWell
<1>1. EndInv => SoundInputsEndWell
  BY DEF EndInv, EndsWell, SoundInputsEndWell, EXIT_SUCCESS, EXIT_FAILURE
<1> QED
  BY <1>1, EndInvHolds, PTL

-----------------------------------------------------------------------------
(***************************************************************************)
(* What cluster_destroy gives back.  A list of n cells, each with blocks   *)
(* of its own: what is in front of cell c has been given back whole, and   *)
(* in the end everything but the last cell's own.                          *)
(***************************************************************************)
GivenBack(n, cells, own, c) ==
  {cells[p] : p \in {q \in 1..n : q < c}} \cup
  UNION {own[p] : p \in {q \in 1..n : q < c}}

InTheEnd(n, cells, own) ==
  {cells[p] : p \in 1..n} \cup UNION {own[p] : p \in (1..n) \ {n}}

LEMMA NothingBefore ==
  ASSUME NEW n \in Nat, NEW cells, NEW own
  PROVE  /\ GivenBack(n, cells, own, 1) = {}
         /\ n = 0 => InTheEnd(n, cells, own) = {}
<1>1. \A q \in 1..n : ~(q < 1)
  OBVIOUS
<1>2. GivenBack(n, cells, own, 1) = {}
  BY <1>1 DEF GivenBack
<1>3. n = 0 => 1..n = {}
  OBVIOUS
<1> QED
  BY <1>2, <1>3 DEF InTheEnd

Apart(n, cells, own) ==
  /\ \A p, q \in 1..n : cells[p] = cells[q] => p = q
  /\ \A p, q \in 1..n : cells[p] \notin own[q]
  /\ \A p, q \in 1..n : \A b \in own[p] : b \in own[q] => p = q

GivesBack(n, cells, own, c) ==
  /\ ({cells[c]} \cup own[c]) \cap GivenBack(n, cells, own, c) = {}
  /\ GivenBack(n, cells, own, c) \cup ({cells[c]} \cup own[c])
       = GivenBack(n, cells, own, c + 1)
  /\ c = n => GivenBack(n, cells, own, c) \cup {cells[c]} = InTheEnd(n, cells, own)

\* Cells with blocks that no other cell has: none is given back twice.
LEMMA CellGivenBack ==
  ASSUME NEW n \in Nat, NEW cells, NEW own, NEW c \in 1..n, Apart(n, cells, own)
  PROVE  GivesBack(n, cells, own, c)
<1>1. \A d : \A b : b \in GivenBack(n, cells, own, d)
              <=> \E p \in 1..n : p < d /\ (b = cells[p] \/ b \in own[p])
  BY DEF GivenBack
<1>2. \A b : b \in InTheEnd(n, cells, own)
        <=> \E p \in 1..n : b = cells[p] \/ (p # n /\ b \in own[p])
  BY DEF InTheEnd
<1>3. /\ \A p \in 1..n : p < c + 1 <=> p < c \/ p = c
      /\ \A p \in 1..n : p < c => p # c
      /\ c = n => \A p \in 1..n : p < c <=> p # n
  OBVIOUS
<1>4. ({cells[c]} \cup own[c]) \cap GivenBack(n, cells, own, c) = {}
  BY <1>1, <1>3 DEF Apart
<1>5. GivenBack(n, cells, own, c) \cup ({cells[c]} \cup own[c])
        = GivenBack(n, cells, own, c + 1)
  BY <1>1, <1>3
<1>6. ASSUME c = n
      PROVE  GivenBack(n, cells, own, c) \cup {cells[c]} = InTheEnd(n, cells, own)
  BY <1>1, <1>2, <1>3, <1>6
<1> QED
  BY <1>4, <1>5, <1>6 DEF GivesBack

MomentCells     == [p \in DOMAIN job_sequence |-> MomentBlock(p)]
MomentsOwn      == [p \in DOMAIN job_sequence |-> JobBlocks(p)]
ConnectionCells == [i \in DOMAIN connections |-> ConnectionBlock(i)]
ConnectionsOwn  == [i \in DOMAIN connections |->
                      IF connections[i].type = "bus" THEN NodeBlocks(i) ELSE {}]

JobsFreed(c)  == GivenBack(Len(job_sequence), MomentCells, MomentsOwn, c)
NodesFreed(c) == GivenBack(Len(connections), ConnectionCells, ConnectionsOwn, c)
AllJobs       == InTheEnd(Len(job_sequence), MomentCells, MomentsOwn)
AllNodes      == InTheEnd(Len(connections), ConnectionCells, ConnectionsOwn)

Released ==
  /\ misused = FALSE
  /\ pc \notin Over => freed = {} /\ cell = 1
  /\ pc = "destroy_jobs" =>
       freed = JobsFreed(cell) /\ (cell = 1 \/ cell \in DOMAIN job_sequence)
  /\ pc = "destroy_connections" =>
       freed = AllJobs \cup NodesFreed(cell) /\ (cell = 1 \/ cell \in DOMAIN connections)
  /\ pc = "destroy_registry" =>
       /\ RegistryBlock \notin freed
       /\ "connections" \notin unset => freed = AllJobs \cup AllNodes
  /\ pc = "destroy_scheduler" =>
       ("connections" \notin unset /\ "node_registry" \notin unset =>
          freed = AllJobs \cup AllNodes \cup {RegistryBlock})
  /\ pc = "exit" /\ arguments.complete /\ Mode \in Modes =>
       freed = AllJobs \cup AllNodes \cup {RegistryBlock}

\* No job is under two moments, and no node on two connections.
LEMMA JobsApart ==
  ASSUME SequencerInv, NEW p \in DOMAIN job_sequence, NEW q \in DOMAIN job_sequence,
         NEW b \in JobBlocks(p), b \in JobBlocks(q)
  PROVE  p = q
<1>1. /\ job_sequence \in Seq(MomentType) /\ Distinct(job_sequence)
      /\ \A j, m :
           Holds(job_sequence, j, m) <=> j \in 1..job_count /\ m = Moment(j)
  BY DEF SequencerInv, ListInv, LinesHeld
<1>2. PICK j \in ToSet(job_sequence[p].jobs) : b = <<"job", j>>
  BY DEF JobBlocks
<1>3. PICK k \in ToSet(job_sequence[q].jobs) : b = <<"job", k>>
  BY DEF JobBlocks
<1>4. j = k
  BY <1>2, <1>3
<1>5. Holds(job_sequence, j, job_sequence[p].time) /\ Holds(job_sequence, j, job_sequence[q].time)
  BY <1>4 DEF Holds, HasJob, ToSet
<1> QED
  BY <1>1, <1>5 DEF Distinct

LEMMA NodesApart ==
  ASSUME NetShape, NEW i \in DOMAIN connections, NEW k \in DOMAIN connections,
         NEW b \in NodeBlocks(i), b \in NodeBlocks(k)
  PROVE  i = k
<1>1. /\ connections \in Seq(ConnectionType) /\ InPlace(connections, line)
      /\ \A c \in DOMAIN connections : c \in Nat
  BY ConnectionTypes DEF NetShape, NetTypes
<1>2. /\ b = <<"nodes", i>> \/ \E n \in ToSet(connections[i].nodes) : b = <<"threads", n>>
      /\ b = <<"nodes", k>> \/ \E n \in ToSet(connections[k].nodes) : b = <<"threads", n>>
  BY DEF NodeBlocks
<1>3. CASE b = <<"nodes", i>>
  BY <1>2, <1>3
<1>4. ASSUME NEW n \in ToSet(connections[i].nodes), b = <<"threads", n>>
      PROVE  i = k
  <2>1. n \in ToSet(connections[k].nodes)
    BY <1>2, <1>4
  <2>2. PICK x \in DOMAIN connections[i].nodes : n = connections[i].nodes[x]
    BY <1>4 DEF ToSet
  <2>3. PICK y \in DOMAIN connections[k].nodes : n = connections[k].nodes[y]
    BY <2>1 DEF ToSet
  <2> DEFINE hi == connections[i].header
             hk == connections[k].header
             ni == Len(connections[i].nodes)
             nk == Len(connections[k].nodes)
  <2>4. /\ n = hi + x /\ n = hk + y
        /\ i < k => hi + ni < hk
        /\ k < i => hk + nk < hi
    BY <1>1, <2>2, <2>3 DEF InPlace
  <2>5. /\ hi \in Nat /\ connections[i].nodes \in Seq(Nat)
        /\ hk \in Nat /\ connections[k].nodes \in Seq(Nat)
    BY <1>1, ConnectionTypes
  <2>6. ASSUME NEW s \in Seq(Nat), NEW z \in DOMAIN s
        PROVE  z \in Nat \ {0} /\ z <= Len(s) /\ Len(s) \in Nat
    OBVIOUS
  <2>7. x \in Nat \ {0} /\ x <= ni /\ ni \in Nat /\ y \in Nat \ {0} /\ y <= nk /\ nk \in Nat
    BY <2>5, <2>6
  <2>8. hi \in Nat /\ hk \in Nat
    BY <2>5
  <2> HIDE DEF hi, hk, ni, nk
  <2>9. ~(i < k) /\ ~(k < i)
    BY <2>4, <2>7, <2>8
  <2> QED
    BY <1>1, <2>9
<1> QED
  BY <1>2, <1>3, <1>4

LEMMA JobsGivenBack ==
  ASSUME SequencerInv, NEW c \in DOMAIN job_sequence
  PROVE  /\ ({MomentBlock(c)} \cup JobBlocks(c)) \cap JobsFreed(c) = {}
         /\ JobsFreed(c) \cup ({MomentBlock(c)} \cup JobBlocks(c)) = JobsFreed(c + 1)
         /\ c = Len(job_sequence) => JobsFreed(c) \cup {MomentBlock(c)} = AllJobs
<1> DEFINE n     == Len(job_sequence)
           cells == MomentCells
           own   == MomentsOwn
<1>1. n \in Nat /\ DOMAIN job_sequence = 1..n /\ c \in 1..n
  BY DEF SequencerInv, ListInv
<1>2. \A p \in 1..n : cells[p] = MomentBlock(p) /\ own[p] = JobBlocks(p)
  BY <1>1 DEF MomentCells, MomentsOwn
<1>3. \A p, q \in 1..n : MomentBlock(p) = MomentBlock(q) => p = q
  BY DEF MomentBlock
<1>4. \A p, q \in 1..n : MomentBlock(p) \notin JobBlocks(q)
  BY DEF MomentBlock, JobBlocks
<1>5. \A p, q \in 1..n : \A b \in JobBlocks(p) : b \in JobBlocks(q) => p = q
  BY <1>1, JobsApart
<1> HIDE DEF n, cells, own
<1>6. Apart(n, cells, own)
  BY <1>2, <1>3, <1>4, <1>5 DEF Apart
<1>7. GivesBack(n, cells, own, c)
  BY <1>1, <1>6, CellGivenBack
<1>8. /\ JobsFreed(c) = GivenBack(n, cells, own, c)
      /\ JobsFreed(c + 1) = GivenBack(n, cells, own, c + 1)
      /\ AllJobs = InTheEnd(n, cells, own) /\ n = Len(job_sequence)
  BY DEF JobsFreed, AllJobs, n, cells, own
<1>9. cells[c] = MomentBlock(c) /\ own[c] = JobBlocks(c)
  BY <1>1, <1>2
<1> QED
  BY <1>7, <1>8, <1>9 DEF GivesBack

LEMMA NodesGivenBack ==
  ASSUME NetShape, NEW c \in DOMAIN connections
  PROVE  LET nodes == IF connections[c].type = "bus" THEN NodeBlocks(c) ELSE {}
         IN  /\ ({ConnectionBlock(c)} \cup nodes) \cap NodesFreed(c) = {}
             /\ NodesFreed(c) \cup ({ConnectionBlock(c)} \cup nodes) = NodesFreed(c + 1)
             /\ c = Len(connections) => NodesFreed(c) \cup {ConnectionBlock(c)} = AllNodes
<1> DEFINE n     == Len(connections)
           cells == ConnectionCells
           own   == ConnectionsOwn
           nodes == IF connections[c].type = "bus" THEN NodeBlocks(c) ELSE {}
<1>1. n \in Nat /\ DOMAIN connections = 1..n /\ c \in 1..n
  BY ConnectionTypes DEF NetShape, NetTypes
<1>2. /\ \A p \in 1..n : cells[p] = ConnectionBlock(p) /\ own[p] \subseteq NodeBlocks(p)
      /\ own[c] = nodes
  BY <1>1 DEF ConnectionCells, ConnectionsOwn
<1>3. \A p, q \in 1..n : ConnectionBlock(p) = ConnectionBlock(q) => p = q
  BY DEF ConnectionBlock
<1>4. \A p, q \in 1..n : ConnectionBlock(p) \notin NodeBlocks(q)
  BY DEF ConnectionBlock, NodeBlocks
<1>5. \A p, q \in 1..n : \A b \in NodeBlocks(p) : b \in NodeBlocks(q) => p = q
  BY <1>1, NodesApart
<1> HIDE DEF n, cells, own, nodes
<1>6. Apart(n, cells, own)
  BY <1>2, <1>3, <1>4, <1>5 DEF Apart
<1>7. GivesBack(n, cells, own, c)
  BY <1>1, <1>6, CellGivenBack
<1>8. /\ NodesFreed(c) = GivenBack(n, cells, own, c)
      /\ NodesFreed(c + 1) = GivenBack(n, cells, own, c + 1)
      /\ AllNodes = InTheEnd(n, cells, own) /\ n = Len(connections)
  BY DEF NodesFreed, AllNodes, n, cells, own
<1>9. cells[c] = ConnectionBlock(c) /\ own[c] = nodes
  BY <1>1, <1>2
<1>10. /\ ({ConnectionBlock(c)} \cup nodes) \cap NodesFreed(c) = {}
       /\ NodesFreed(c) \cup ({ConnectionBlock(c)} \cup nodes) = NodesFreed(c + 1)
       /\ c = Len(connections) => NodesFreed(c) \cup {ConnectionBlock(c)} = AllNodes
  BY <1>7, <1>8, <1>9 DEF GivesBack
<1> QED
  BY <1>10 DEF nodes

\* What is given back of a list is a cell of it or some cell's own.
LEMMA GivenBackIsOf ==
  ASSUME NEW n, NEW cells, NEW own, NEW c,
         NEW b \in GivenBack(n, cells, own, c) \cup InTheEnd(n, cells, own)
  PROVE  \E p \in 1..n : b = cells[p] \/ b \in own[p]
BY DEF GivenBack, InTheEnd

\* The blocks of the two lists and of the registry are of different kinds.
LEMMA KindsApart ==
  ASSUME SequencerInv, NetShape, NEW c, NEW d
  PROVE  /\ RegistryBlock \notin AllJobs \cup AllNodes \cup NodesFreed(c)
         /\ ({ConnectionBlock(d)} \cup NodeBlocks(d)) \cap AllJobs = {}
<1>1. /\ DOMAIN job_sequence = 1..Len(job_sequence) /\ DOMAIN connections = 1..Len(connections)
  BY ConnectionTypes DEF SequencerInv, ListInv, NetShape, NetTypes
<1>2. ASSUME NEW b \in AllJobs
      PROVE  \E p : b = <<"moment", p>> \/ b = <<"job", p>>
  <2>1. PICK p \in 1..Len(job_sequence) : b = MomentCells[p] \/ b \in MomentsOwn[p]
    BY GivenBackIsOf DEF AllJobs
  <2>2. b = MomentBlock(p) \/ b \in JobBlocks(p)
    BY <1>1, <2>1 DEF MomentCells, MomentsOwn
  <2> QED
    BY <2>2 DEF MomentBlock, JobBlocks
<1>3. ASSUME NEW b \in AllNodes \cup NodesFreed(c)
      PROVE  \E p : b = <<"connection", p>> \/ b = <<"nodes", p>> \/ b = <<"threads", p>>
  <2>1. PICK p \in 1..Len(connections) : b = ConnectionCells[p] \/ b \in ConnectionsOwn[p]
    BY GivenBackIsOf DEF AllNodes, NodesFreed
  <2>2. b = ConnectionBlock(p) \/ b \in NodeBlocks(p)
    BY <1>1, <2>1 DEF ConnectionCells, ConnectionsOwn
  <2> QED
    BY <2>2 DEF ConnectionBlock, NodeBlocks
<1>4. RegistryBlock \notin AllJobs \cup AllNodes \cup NodesFreed(c)
  BY <1>2, <1>3 DEF RegistryBlock
<1>5. ASSUME NEW b \in {ConnectionBlock(d)} \cup NodeBlocks(d)
      PROVE  b \notin AllJobs
  <2>1. \E p : b = <<"connection", p>> \/ b = <<"nodes", p>> \/ b = <<"threads", p>>
    BY DEF ConnectionBlock, NodeBlocks
  <2> QED
    BY <1>2, <2>1
<1> QED
  BY <1>4, <1>5

LEMMA ReleasedStarts ==
  ASSUME Init
  PROVE  Released
BY DEF Init, ProgramInit, Released, Over, Destroying

\* The steps of cluster_destroy.
LEMMA DestroyReleases ==
  ASSUME SequencerInv, NetShape, PointersOrdered, Released, Destroy
  PROVE  Released'
<1>0. /\ UNCHANGED <<arguments, unset, job_sequence, connections>> /\ misused = FALSE
      /\ DOMAIN job_sequence = 1..Len(job_sequence) /\ Len(job_sequence) \in Nat
      /\ DOMAIN connections = 1..Len(connections) /\ Len(connections) \in Nat
      /\ job_sequence # <<>> => Len(job_sequence) # 0
      /\ connections # <<>> => Len(connections) # 0
      /\ job_sequence = <<>> => Len(job_sequence) = 0
      /\ connections = <<>> => Len(connections) = 0
  <2>1. UNCHANGED <<arguments, unset, job_sequence, connections>>
    BY DEF Destroy, DestroyJobs, DestroyConnections, DestroyRegistry, DestroyScheduler,
           DestroyFrame, inputVars, sequenceVars, networkVars
  <2>2. job_sequence \in Seq(MomentType) /\ connections \in Seq(ConnectionType)
    BY DEF SequencerInv, ListInv, NetShape, NetTypes
  <2> QED
    BY <2>1, <2>2 DEF Released
<1>1. /\ UNCHANGED <<AllJobs, AllNodes>> /\ Mode' = Mode
      /\ JobsFreed(cell)' = JobsFreed(cell') /\ NodesFreed(cell)' = NodesFreed(cell')
      /\ RegistryBlock' = RegistryBlock
  <2>1. UNCHANGED <<MomentCells, MomentsOwn, ConnectionCells, ConnectionsOwn>>
    BY <1>0 DEF MomentCells, MomentsOwn, ConnectionCells, ConnectionsOwn, JobBlocks, NodeBlocks,
                MomentBlock, ConnectionBlock
  <2> QED
    BY <1>0, <2>1 DEF AllJobs, AllNodes, JobsFreed, NodesFreed, GivenBack, Mode, RegistryBlock
<1>2. JobsFreed(1) = {} /\ NodesFreed(1) = {}
      /\ (job_sequence = <<>> => AllJobs = {}) /\ (connections = <<>> => AllNodes = {})
  BY <1>0, NothingBefore DEF JobsFreed, NodesFreed, AllJobs, AllNodes
<1>3. CASE DestroyJobs
  <2>1. /\ pc = "destroy_jobs" /\ freed = JobsFreed(cell) /\ (cell = 1 \/ cell \in DOMAIN job_sequence)
    BY <1>3 DEF DestroyJobs, Released
  <2>2. CASE job_sequence = <<>>
    <3>1. pc' = "destroy_connections" /\ UNCHANGED destroyVars /\ cell = 1
      BY <1>0, <1>3, <2>1, <2>2 DEF DestroyJobs, Goto
    <3>2. freed' = AllJobs \cup NodesFreed(cell)
      BY <1>2, <2>1, <2>2, <3>1 DEF destroyVars
    <3> QED
      BY <1>0, <1>1, <3>1, <3>2 DEF Released, Over, Destroying, destroyVars
  <2>3. CASE job_sequence # <<>> /\ cell < Len(job_sequence)
    <3>1. /\ pc' = pc /\ cell' = cell + 1 /\ Free({MomentBlock(cell)} \cup JobBlocks(cell))
      BY <1>3, <2>3 DEF DestroyJobs
    <3>2. cell \in DOMAIN job_sequence /\ cell' \in DOMAIN job_sequence
      BY <1>0, <2>1, <2>3, <3>1
    <3>3. freed' = JobsFreed(cell') /\ misused' = FALSE
      BY <1>0, <2>1, <3>1, <3>2, JobsGivenBack DEF Free
    <3> QED
      BY <1>0, <1>1, <2>1, <3>1, <3>2, <3>3 DEF Released, Over, Destroying
  <2>4. CASE job_sequence # <<>> /\ ~(cell < Len(job_sequence))
    <3>1. /\ pc' = "destroy_connections" /\ cell' = 1 /\ Free({MomentBlock(cell)})
      BY <1>3, <2>4 DEF DestroyJobs, Goto
    <3>2. cell \in DOMAIN job_sequence /\ cell = Len(job_sequence)
      BY <1>0, <2>1, <2>4
    <3>3. freed' = AllJobs /\ misused' = FALSE
      BY <1>0, <2>1, <3>1, <3>2, JobsGivenBack DEF Free
    <3>4. freed' = AllJobs \cup NodesFreed(cell')
      BY <1>2, <3>1, <3>3
    <3> QED
      BY <1>0, <1>1, <3>1, <3>3, <3>4 DEF Released, Over, Destroying
  <2> QED
    BY <2>2, <2>3, <2>4
<1>4. CASE DestroyConnections
  <2>1. /\ pc = "destroy_connections" /\ freed = AllJobs \cup NodesFreed(cell)
        /\ (cell = 1 \/ cell \in DOMAIN connections)
    BY <1>4 DEF DestroyConnections, Released
  <2>2. RegistryBlock \notin AllJobs \cup AllNodes \cup NodesFreed(cell)
    BY KindsApart
  <2>3. CASE "connections" \in unset
    <3>1. pc' \in {"destroy_registry", "crashed"} /\ UNCHANGED destroyVars
      BY <1>4, <2>3 DEF DestroyConnections, Unset, Goto, Crash
    <3>2. RegistryBlock \notin freed
      BY <2>1, <2>2
    <3> QED
      BY <1>0, <1>1, <2>3, <3>1, <3>2 DEF Released, Over, Destroying, destroyVars
  <2>4. CASE "connections" \notin unset /\ connections = <<>>
    <3>1. pc' = "destroy_registry" /\ UNCHANGED destroyVars /\ cell = 1
      BY <1>0, <1>4, <2>1, <2>4 DEF DestroyConnections, Unset, Goto
    <3>2. freed' = AllJobs \cup AllNodes
      BY <1>2, <2>1, <2>4, <3>1 DEF destroyVars
    <3> QED
      BY <1>0, <1>1, <2>2, <3>1, <3>2 DEF Released, Over, Destroying, destroyVars
  <2> DEFINE nodes == IF connections[cell].type = "bus" THEN NodeBlocks(cell) ELSE {}
  <2>5. CASE "connections" \notin unset /\ connections # <<>> /\ cell < Len(connections)
    <3>1. /\ pc' = pc /\ cell' = cell + 1 /\ Free({ConnectionBlock(cell)} \cup nodes)
      BY <1>4, <2>5 DEF DestroyConnections, Unset
    <3>2. cell \in DOMAIN connections /\ cell' \in DOMAIN connections
      BY <1>0, <2>1, <2>5, <3>1
    <3>3. /\ ({ConnectionBlock(cell)} \cup nodes) \cap NodesFreed(cell) = {}
          /\ NodesFreed(cell) \cup ({ConnectionBlock(cell)} \cup nodes) = NodesFreed(cell + 1)
      BY <3>2, NodesGivenBack
    <3>4. ({ConnectionBlock(cell)} \cup nodes) \cap AllJobs = {}
      BY KindsApart
    <3> HIDE DEF nodes
    <3>5. freed' = AllJobs \cup NodesFreed(cell') /\ misused' = FALSE
      BY <1>0, <2>1, <3>1, <3>3, <3>4 DEF Free
    <3> QED
      BY <1>0, <1>1, <2>1, <3>1, <3>2, <3>5 DEF Released, Over, Destroying
  <2>6. CASE "connections" \notin unset /\ connections # <<>> /\ ~(cell < Len(connections))
    <3>1. /\ pc' = "destroy_registry" /\ cell' = 1 /\ Free({ConnectionBlock(cell)})
      BY <1>4, <2>6 DEF DestroyConnections, Unset, Goto
    <3>2. cell \in DOMAIN connections /\ cell = Len(connections)
      BY <1>0, <2>1, <2>6
    <3>3. /\ ({ConnectionBlock(cell)} \cup nodes) \cap NodesFreed(cell) = {}
          /\ NodesFreed(cell) \cup {ConnectionBlock(cell)} = AllNodes
      BY <3>2, NodesGivenBack
    <3>4. ({ConnectionBlock(cell)} \cup NodeBlocks(cell)) \cap AllJobs = {}
      BY KindsApart
    <3> HIDE DEF nodes
    <3>5. freed' = AllJobs \cup AllNodes /\ misused' = FALSE
      BY <1>0, <2>1, <3>1, <3>3, <3>4 DEF Free
    <3> QED
      BY <1>0, <1>1, <2>2, <3>1, <3>5 DEF Released, Over, Destroying
  <2> QED
    BY <2>3, <2>4, <2>5, <2>6
<1>5. CASE DestroyRegistry
  <2>1. /\ pc = "destroy_registry" /\ RegistryBlock \notin freed
        /\ ("connections" \notin unset => freed = AllJobs \cup AllNodes)
    BY <1>5 DEF DestroyRegistry, Released
  <2>2. CASE "node_registry" \in unset
    <3>1. pc' \in {"destroy_scheduler", "crashed"} /\ UNCHANGED destroyVars
      BY <1>5, <2>2 DEF DestroyRegistry, Unset, Goto, Crash
    <3> QED
      BY <1>0, <2>2, <3>1 DEF Released, Over, Destroying, destroyVars
  <2>3. CASE "node_registry" \notin unset
    <3>1. pc' = "destroy_scheduler" /\ Free({RegistryBlock})
      BY <1>5, <2>3 DEF DestroyRegistry, Unset, Goto
    <3>2. misused' = FALSE /\ freed' = freed \cup {RegistryBlock}
      BY <1>0, <2>1, <3>1 DEF Free
    <3> QED
      BY <1>0, <1>1, <2>1, <3>1, <3>2 DEF Released, Over, Destroying
  <2> QED
    BY <2>2, <2>3
<1>6. CASE DestroyScheduler
  <2>1. /\ pc = "destroy_scheduler" /\ pc' \in {"exit", "crashed"} /\ UNCHANGED destroyVars
        /\ pc' = "exit" => "scheduler" \notin unset
    BY <1>6 DEF DestroyScheduler, Goto, Crash
  <2>2. pc' = "exit" => freed = AllJobs \cup AllNodes \cup {RegistryBlock}
    BY <2>1 DEF Released, PointersOrdered
  <2> QED
    BY <1>0, <1>1, <2>1, <2>2 DEF Released, Over, Destroying, destroyVars
<1> QED
  BY <1>3, <1>4, <1>5, <1>6 DEF Destroy

LEMMA ReleasedKept ==
  ASSUME SequencerInv, SequencerInv', NetShape, PointersOrdered, Released, [Next]_vars
  PROVE  Released'
<1>1. CASE UNCHANGED programVars
  <2>1. UNCHANGED <<arguments, pc, unset, destroyVars, job_sequence, connections>>
    BY <1>1 DEF programVars, inputVars, processVars, sequenceVars, networkVars
  <2>2. /\ UNCHANGED <<AllJobs, AllNodes, RegistryBlock, Mode>>
        /\ JobsFreed(cell)' = JobsFreed(cell) /\ NodesFreed(cell)' = NodesFreed(cell)
    BY <2>1 DEF destroyVars, AllJobs, AllNodes, RegistryBlock, Mode, JobsFreed, NodesFreed,
                MomentCells, MomentsOwn, ConnectionCells, ConnectionsOwn, JobBlocks, NodeBlocks,
                MomentBlock, ConnectionBlock, GivenBack
  <2> QED
    BY <2>1, <2>2 DEF Released, destroyVars
<1>2. CASE Destroy
  BY <1>2, DestroyReleases
<1>3. CASE Main \/ Feed
  <2>1. /\ pc \in {"shell", "main"} /\ UNCHANGED <<destroyVars, arguments>>
        /\ pc' \in Destroying \cup {"crashed"} => FALSE
        /\ pc' = "exit" => ~(arguments.complete /\ Mode \in Modes)
    BY <1>3 DEF Main, Feed, Goto, inputVars, Destroying
  <2> QED
    BY <2>1 DEF Released, Over, Destroying, destroyVars, Mode
<1>4. CASE ProgramStep /\ ~Main /\ ~Destroy
  <2>1. UNCHANGED destroyVars
    BY <1>4 DEF ProgramStep, InitScheduler, Simulate
  <2>2. pc \notin Over /\ (pc' \notin Over \/ pc' \in {"destroy_jobs", "crashed"})
    <3>1. CASE LoadJobs \/ PopulateNodeRegistry \/ InitScheduler \/ Simulate \/ RunRoundRobin
      BY <3>1 DEF LoadJobs, OpenJobs, ParseLine, EndOfJobs, processVars, Open,
                  PopulateNodeRegistry, AllocateRegistry, RegisterNodes, AllRegistered,
                  InitScheduler, InitReturns, Simulate, RunRoundRobin, FirstTick, Distribute,
                  Distributed, Schedule, Goto, Fail, Crash, Over, Destroying
    <3>2. CASE LoadNetwork
      BY <3>2 DEF LoadNetwork, OpenNodes, NetworkLoaded, BareHeader, UnknownType, ReadP2P,
                  ReadBus, MakeNode, NodeMissing, BusRead, AtTop, Open, Goto, Fail, Crash,
                  Over, Destroying
    <3> QED
      BY <1>4, <3>1, <3>2 DEF ProgramStep
  <2>3. freed' = {} /\ cell' = 1 /\ misused' = FALSE
    BY <2>1, <2>2 DEF destroyVars, Released
  <2>4. JobsFreed(cell)' = {}
    <3>1. Len(job_sequence') \in Nat
      BY DEF SequencerInv, ListInv
    <3>2. GivenBack(Len(job_sequence'), MomentCells', MomentsOwn', 1) = {}
      BY <3>1, NothingBefore
    <3> QED
      BY <2>3, <3>2 DEF JobsFreed, GivenBack
  <2> QED
    BY <2>2, <2>3, <2>4 DEF Released, Over, Destroying
<1> QED
  BY <1>1, <1>2, <1>3, <1>4 DEF Next, Ended, vars

ReleaseInv == SequencerInv /\ EndInv /\ Released

THEOREM ReleaseInvHolds == Spec => []ReleaseInv
<1>1. Init => Released
  BY ReleasedStarts
<1>2. SequencerInv /\ SequencerInv' /\ EndInv /\ Released /\ [Next]_vars => Released'
  BY ReleasedKept DEF EndInv, FileInv, NetInv
<1> QED
  BY <1>1, <1>2, SequencerInvHolds, EndInvHolds, PTL DEF Spec, ReleaseInv

\* After success and after every failure cluster_destroy frees no block twice,
\* and when the program returns it has given back what the two loops reach:
\* everything but the jobs of the last moment and the nodes of the last
\* connection (destroy.c:42-82).
THEOREM EveryBlockIsReleasedOnce == Spec => []ReleasedOnce
<1>1. ReleaseInv => ReleasedOnce
  <2> SUFFICES ASSUME ReleaseInv PROVE ReleasedOnce
    OBVIOUS
  <2>1. /\ DOMAIN job_sequence = 1..Len(job_sequence)
        /\ DOMAIN connections = 1..Len(connections)
    BY ConnectionTypes
       DEF ReleaseInv, SequencerInv, ListInv, EndInv, FileInv, NetInv, NetShape, NetTypes
  <2>2. AllJobs = {MomentBlock(p) : p \in Position}
                    \cup UNION {JobBlocks(p) : p \in Position \ {Len(job_sequence)}}
    <3>1. \A p \in Position : MomentCells[p] = MomentBlock(p) /\ MomentsOwn[p] = JobBlocks(p)
      BY DEF MomentCells, MomentsOwn, Position
    <3>2. Position = 1..Len(job_sequence)
      BY <2>1 DEF Position
    <3> QED
      BY <3>1, <3>2 DEF AllJobs, InTheEnd
  <2>3. AllNodes = {ConnectionBlock(i) : i \in DOMAIN connections}
                     \cup UNION {NodeBlocks(i) : i \in {k \in DOMAIN connections :
                                 k # Len(connections) /\ connections[k].type = "bus"}}
    <3>1. \A i \in DOMAIN connections :
            /\ ConnectionCells[i] = ConnectionBlock(i)
            /\ ConnectionsOwn[i] = IF connections[i].type = "bus" THEN NodeBlocks(i) ELSE {}
      BY DEF ConnectionCells, ConnectionsOwn
    <3>2. AllNodes = {ConnectionCells[i] : i \in DOMAIN connections} \cup
                     UNION {ConnectionsOwn[i] : i \in DOMAIN connections \ {Len(connections)}}
      BY <2>1 DEF AllNodes, InTheEnd
    <3> QED
      BY <3>1, <3>2
  <2> DEFINE moments == {MomentBlock(p) : p \in Position}
             jobs    == UNION {JobBlocks(p) : p \in Position \ {Len(job_sequence)}}
             conns   == {ConnectionBlock(i) : i \in DOMAIN connections}
             nodes   == UNION {NodeBlocks(i) : i \in {k \in DOMAIN connections :
                                 k # Len(connections) /\ connections[k].type = "bus"}}
  <2>4. AllJobs = moments \cup jobs /\ AllNodes = conns \cup nodes
    BY <2>2, <2>3
  <2> HIDE DEF moments, jobs, conns, nodes
  <2>5. AllJobs \cup AllNodes \cup {RegistryBlock}
          = moments \cup conns \cup jobs \cup nodes \cup {RegistryBlock}
    BY <2>4
  <2>6. pc = "exit" /\ arguments.complete /\ Mode \in Modes =>
          freed = moments \cup conns \cup jobs \cup nodes \cup {RegistryBlock}
    BY <2>5 DEF ReleaseInv, Released
  <2>7. ~misused
    BY DEF ReleaseInv, Released
  <2> QED
    BY <2>6, <2>7 DEF ReleasedOnce, moments, jobs, conns, nodes
<1> QED
  BY <1>1, ReleaseInvHolds, PTL

-----------------------------------------------------------------------------
(***************************************************************************)
(* From the generator through sort to the list of moments.  Sorting is     *)
(* what makes the first line an earliest one; that is all the list needs   *)
(* to be sorted itself.                                                    *)
(***************************************************************************)
NoEmptyMoment(ms) == \A p \in DOMAIN ms : ms[p].jobs # <<>>

\* Where the program can be when the dataset is loaded.
JobsLoaded == NetPlaces \cup {"open_nodes", "simulate"}

PipelineInv ==
  /\ NoEmptyMoment(job_sequence)
  /\ pc # "shell" => gpc \in {"idle", "done"}
  /\ gpc = "done" => Len(lines) = number["-c"]
  /\ gpc = "done" /\ pc # "shell" => \E order \in Orders : job_file.lines = JobLines(order)
  /\ pc \in JobsLoaded => job_count = Len(job_file.lines)

LEMMA AddKeepsFull ==
  ASSUME NEW ms \in Seq(MomentType), NEW m \in Nat, NEW j \in Nat, NoEmptyMoment(ms)
  PROVE  NoEmptyMoment(AddJobMoment(ms, j, m))
<1> DEFINE new == AddJobMoment(ms, j, m)
<1>1. /\ new \in Seq(MomentType)
      /\ \/ StartsList(ms, new, j, m)
         \/ \E p \in DOMAIN ms : JoinsMoment(ms, new, j, m, p)
         \/ \E p \in DOMAIN ms : MakesMoment(ms, new, j, m, p)
  BY AddJobMomentWays
<1> HIDE DEF new
<1>2. DOMAIN ms = 1..Len(ms) /\ Len(ms) \in Nat /\ DOMAIN new = 1..Len(new) /\ Len(new) \in Nat
  BY <1>1, ListTypes
<1>3. NewMoment(j, m).jobs # <<>>
  BY DEF NewMoment
<1>4. CASE StartsList(ms, new, j, m)
  <2> DEFINE e == NewMoment(j, m)
  <2>1. new = <<e>> /\ e.jobs # <<>>
    BY <1>3, <1>4 DEF StartsList
  <2> HIDE DEF e
  <2>2. DOMAIN <<e>> = {1} /\ <<e>>[1] = e
    OBVIOUS
  <2>3. NoEmptyMoment(new)
    BY <2>1, <2>2 DEF NoEmptyMoment
  <2> QED
    BY <2>3 DEF new
<1>5. ASSUME NEW p \in DOMAIN ms, JoinsMoment(ms, new, j, m, p)
      PROVE  NoEmptyMoment(new)
  <2>1. Append(ms[p].jobs, j) # <<>>
    <3>1. ms[p].jobs \in Seq(Nat)
      BY ListTypes
    <3> DEFINE jobs == ms[p].jobs
    <3> HIDE DEF jobs
    <3>2. Append(jobs, j) \in Seq(Nat) /\ Len(Append(jobs, j)) # 0
      BY <3>1 DEF jobs
    <3>3. Append(jobs, j) # <<>>
      BY <3>2, EmptySeq
    <3> QED
      BY <3>3 DEF jobs
  <2> QED
    BY <1>2, <1>5, <2>1 DEF JoinsMoment, NoEmptyMoment
<1>6. ASSUME NEW p \in DOMAIN ms, MakesMoment(ms, new, j, m, p)
      PROVE  NoEmptyMoment(new)
  <2> SUFFICES ASSUME NEW k \in DOMAIN new PROVE new[k].jobs # <<>>
    BY DEF NoEmptyMoment
  <2>1. k \in 1..(Len(ms) + 1)
    BY <1>2, <1>6 DEF MakesMoment
  <2>2. \/ k \in DOMAIN ms /\ new[k] = ms[k]
        \/ new[k] = NewMoment(j, m)
        \/ k - 1 \in DOMAIN ms /\ new[k] = ms[k - 1]
    <3>1. new[k] = IF k < p + 1 THEN ms[k]
                   ELSE IF k = p + 1 THEN NewMoment(j, m) ELSE ms[k - 1]
      BY <1>6, <2>1 DEF MakesMoment
    <3> QED
      BY <1>2, <2>1, <3>1
  <2> QED
    BY <1>3, <2>2 DEF NoEmptyMoment
<1> QED
  BY <1>1, <1>4, <1>5, <1>6 DEF new

LEMMA PipelineStarts ==
  ASSUME Init
  PROVE  PipelineInv
<1>1. job_sequence = <<>> /\ DOMAIN <<>> = {}
  BY DEF Init, ProgramInit
<1>2. \/ pc = "main" /\ gpc = "idle"
      \/ pc = "shell" /\ gpc = "args"
  BY DEF Init
<1> QED
  BY <1>1, <1>2 DEF PipelineInv, NoEmptyMoment, JobsLoaded, NetPlaces

\* How the place in the program comes about, as far as the dataset goes.
LEMMA PlaceSteps ==
  ASSUME ProgramStep
  PROVE  /\ pc # "shell" /\ pc' # "shell"
         /\ pc' \in JobsLoaded => pc \in JobsLoaded \/ EndOfJobs
         /\ (pc \in JobsLoaded \/ EndOfJobs) => ~OpenJobs /\ ~ParseLine
<1> USE DEF JobsLoaded, NetPlaces
<1>1. CASE Main \/ InitScheduler \/ Simulate
  BY <1>1 DEF Main, InitScheduler, InitReturns, Simulate, Goto, Fail, Crash, OpenJobs,
              ParseLine, EndOfJobs
<1>2. CASE LoadJobs
  BY <1>2 DEF LoadJobs, OpenJobs, ParseLine, EndOfJobs, Open, Goto, Fail, processVars
<1>3. CASE LoadNetwork
  BY <1>3 DEF LoadNetwork, OpenNodes, AtTop, NetworkLoaded, BareHeader, UnknownType, ReadP2P,
              ReadBus, MakeNode, NodeMissing, BusRead, Open, Goto, Fail, Crash, OpenJobs,
              ParseLine, EndOfJobs
<1>4. CASE PopulateNodeRegistry
  BY <1>4 DEF PopulateNodeRegistry, AllocateRegistry, RegisterNodes, AllRegistered, Goto,
              OpenJobs, ParseLine, EndOfJobs
<1>5. CASE RunRoundRobin
  BY <1>5 DEF RunRoundRobin, FirstTick, Distribute, Distributed, Schedule, Goto, Crash,
              OpenJobs, ParseLine, EndOfJobs
<1>6. CASE Destroy
  <2>1. pc \in Destroying
    BY <1>6 DEF Destroy, DestroyJobs, DestroyConnections, DestroyRegistry, DestroyScheduler,
                Destroying
  <2>2. pc' \in Over
    BY <1>6 DEF Destroy, DestroyJobs, DestroyConnections, DestroyRegistry, DestroyScheduler,
                Unset, Goto, Crash, Over, Destroying
  <2> QED
    BY <2>1, <2>2 DEF Over, Destroying, OpenJobs, ParseLine, EndOfJobs
<1> QED
  BY <1>1, <1>2, <1>3, <1>4, <1>5, <1>6 DEF ProgramStep

LEMMA PipelineKept ==
  ASSUME SequencerInv, PipelineInv, [Next]_vars
  PROVE  PipelineInv'
<1>1. CASE GeneratorNext /\ UNCHANGED <<programVars, sorted>>
  <2>1. UNCHANGED <<pc, job_file, job_count, job_sequence>>
    BY <1>1 DEF programVars, inputVars, processVars, sequenceVars
  <2>2. gpc \notin {"idle", "done"}
    BY <1>1 DEF GeneratorNext, Interpret, OpenOutput, WriteLine, EmptyRange, CloseOutput
  <2>3. pc = "shell"
    BY <2>2 DEF PipelineInv
  <2>4. gpc' = "done" => Len(lines') = number'["-c"]
    <3> SUFFICES ASSUME gpc' = "done" PROVE Len(lines') = number'["-c"]
      OBVIOUS
    <3>1. CloseOutput
      BY <1>1, <2>2 DEF GeneratorNext, Interpret, TakeFlag, TakeFileName, TakeNumber, TakeRange,
                        SecondBoundMissing, Misunderstood, OpenOutput, WriteLine, EmptyRange
    <3> QED
      BY <3>1 DEF CloseOutput, optionVars
  <2> QED
    BY <2>1, <2>3, <2>4 DEF PipelineInv
<1>2. CASE Feed /\ UNCHANGED <<generatorVars, sorted>>
  <2>1. PICK order \in Orders : job_file' = [openable |-> TRUE, lines |-> JobLines(order)]
    BY <1>2 DEF Feed
  <2>2. UNCHANGED <<lines, number, sorted, gpc, job_sequence>> /\ pc' = "main" /\ gpc = "done"
    BY <1>2 DEF Feed, Goto, generatorVars, optionVars, sequenceVars
  <2>3. Orders' = Orders /\ JobLines(order)' = JobLines(order)
    BY <2>2 DEF Orders, JobLines
  <2>4. \E o \in Orders' : job_file'.lines = JobLines(o)'
    BY <2>1, <2>3
  <2> QED
    BY <2>2, <2>4 DEF PipelineInv, JobsLoaded, NetPlaces
<1>3. CASE ProgramStep /\ UNCHANGED <<generatorVars, sorted>>
  <2>1. UNCHANGED <<lines, number, sorted, gpc>>
    BY <1>3 DEF generatorVars, optionVars
  <2>2. /\ pc # "shell" /\ pc' # "shell"
        /\ pc' \in JobsLoaded => pc \in JobsLoaded \/ EndOfJobs
        /\ (pc \in JobsLoaded \/ EndOfJobs) => ~OpenJobs /\ ~ParseLine
    BY <1>3, PlaceSteps
  <2>3. ~Feed
    BY <2>2 DEF Feed
  <2>4. UNCHANGED <<job_file, job_count, job_sequence>> \/ OpenJobs \/ ParseLine
    BY <2>3, SequencerSteps
  <2>5. job_file' = job_file
    BY <2>4 DEF OpenJobs, ParseLine
  <2>6. NoEmptyMoment(job_sequence')
    <3>1. CASE OpenJobs
      BY <3>1 DEF OpenJobs, NoEmptyMoment
    <3>2. CASE ParseLine
      <4>1. /\ job_count' \in Nat /\ job_sequence \in Seq(MomentType)
            /\ Moment(job_count') \in Nat
            /\ job_sequence' = AddJobMoment(job_sequence, job_count', Moment(job_count'))
        <5>1. job_count' \in 1..Len(job_file.lines) /\ job_file.lines \in Seq(JobLine)
          BY <3>2 DEF ParseLine, SequencerInv, ListInv
        <5>2. job_file.lines[job_count'] \in JobLine
          BY <5>1
        <5> QED
          BY <3>2, <5>1, <5>2 DEF ParseLine, SequencerInv, ListInv, Moment, JobLine
      <4> QED
        BY <4>1, AddKeepsFull DEF PipelineInv
    <3> QED
      BY <2>4, <3>1, <3>2 DEF PipelineInv
  <2>7. pc' \in JobsLoaded => job_count' = Len(job_file'.lines)
    BY <2>2, <2>4 DEF EndOfJobs, PipelineInv
  <2>8. gpc' = "done" => \E o \in Orders' : job_file'.lines = JobLines(o)'
    <3> SUFFICES ASSUME gpc' = "done"
                 PROVE  \E o \in Orders' : job_file'.lines = JobLines(o)'
      OBVIOUS
    <3>1. PICK o \in Orders : job_file.lines = JobLines(o)
      BY <2>1, <2>2 DEF PipelineInv
    <3>2. Orders' = Orders /\ JobLines(o)' = JobLines(o)
      BY <2>1 DEF Orders, JobLines
    <3> QED
      BY <2>5, <3>1, <3>2
  <2> QED
    BY <2>1, <2>2, <2>6, <2>7, <2>8 DEF PipelineInv
<1>4. CASE UNCHANGED vars
  <2>1. UNCHANGED <<pc, job_file, job_count, job_sequence, gpc, lines, number, sorted>>
    BY <1>4 DEF vars, programVars, inputVars, processVars, sequenceVars, generatorVars, optionVars
  <2>2. (\E o \in Orders : job_file.lines = JobLines(o))
          => \E o \in Orders' : job_file'.lines = JobLines(o)'
    BY <2>1 DEF Orders, JobLines
  <2> QED
    BY <2>1, <2>2 DEF PipelineInv
<1> QED
  BY <1>1, <1>2, <1>3, <1>4 DEF Next, Ended

\* What sort leaves has no line earlier than the first.
LEMMA SortedFile ==
  ASSUME SequencerInv, NEW order \in Orders, sorted, job_file.lines = JobLines(order)
  PROVE  /\ Len(job_file.lines) = Len(lines)
         /\ \A j \in 1..Len(lines) : /\ Moment(1) <= Moment(j)
                                    /\ Moment(j) < number["-t"]
<1>1. /\ lines \in Seq(LineType) /\ DOMAIN lines = 1..Len(lines) /\ Len(lines) \in Nat
      /\ \A k \in DOMAIN lines : LineInBounds(lines[k])
  BY InBoundsByLine DEF SequencerInv, GeneratorInv
<1>2. /\ order \in [DOMAIN lines -> DOMAIN lines]
      /\ \A i, k \in DOMAIN lines :
           i < k => lines[order[i]].moment <= lines[order[k]].moment
  BY DEF Orders
<1>3. \A k \in DOMAIN lines : /\ Moment(k) = lines[order[k]].moment
                              /\ order[k] \in DOMAIN lines
                              /\ lines[order[k]].moment \in Nat
  <2> SUFFICES ASSUME NEW k \in DOMAIN lines
               PROVE  /\ Moment(k) = lines[order[k]].moment
                      /\ order[k] \in DOMAIN lines
                      /\ lines[order[k]].moment \in Nat
    OBVIOUS
  <2>1. order[k] \in DOMAIN lines
    BY <1>2
  <2>2. lines[order[k]] \in LineType
    BY <1>1, <2>1
  <2> QED
    BY <2>1, <2>2 DEF Moment, JobLines, LineType
<1>4. Len(job_file.lines) = Len(lines)
  <2>1. DOMAIN job_file.lines = DOMAIN lines
    BY DEF JobLines
  <2>2. job_file.lines \in Seq(JobLine)
    BY DEF SequencerInv
  <2> QED
    BY <1>1, <2>1, <2>2
<1>5. ASSUME NEW j \in 1..Len(lines)
      PROVE  Moment(1) <= Moment(j) /\ Moment(j) < number["-t"]
  <2>1. 1 \in DOMAIN lines /\ j \in DOMAIN lines /\ (1 < j \/ j = 1)
    BY <1>1
  <2>2. Moment(1) <= Moment(j)
    BY <1>2, <1>3, <2>1
  <2>3. Moment(j) < number["-t"]
    BY <1>1, <1>3, <2>1 DEF LineInBounds
  <2> QED
    BY <2>2, <2>3
<1> QED
  BY <1>4, <1>5

\* For every command line and every answer of rand, and however sort breaks its
\* ties: what the pipeline of the README hands to the simulation is sorted, ends
\* before the finish time and holds every job that was asked for
\* (main.c:81-92, add_job_moment.c:69, simulation_step.c:21).
THEOREM SortedPipelineIsServed == Spec => []SortedPipelineFits
<1>1. Init => SequencerInv /\ PipelineInv
  BY SequencerStarts, PipelineStarts
<1>2. SequencerInv /\ PipelineInv /\ [Next]_vars => (SequencerInv /\ PipelineInv)'
  BY SequencerStepKeeps, PipelineKept
<1>3. SequencerInv /\ PipelineInv => SortedPipelineFits
  <2> SUFFICES ASSUME SequencerInv, PipelineInv, pc = "simulate", gpc = "done", sorted
               PROVE  SortedPipelineFits
    BY DEF SortedPipelineFits
  <2> DEFINE ms == job_sequence
             c  == number["-c"]
  <2>1. PICK order \in Orders : job_file.lines = JobLines(order)
    BY DEF PipelineInv
  <2>2. /\ Len(lines) = c /\ job_count = c
        /\ \A j \in 1..c : Moment(1) <= Moment(j) /\ Moment(j) < number["-t"]
    BY <2>1, SortedFile DEF PipelineInv, JobsLoaded
  <2>3. /\ ms \in Seq(MomentType) /\ NoEmptyMoment(ms)
        /\ \A j, m : Holds(ms, j, m) <=> j \in 1..c /\ m = Moment(j)
        /\ Ascending(ms)
    BY <2>2 DEF SequencerInv, ListInv, LinesHeld, FirstIsEarliest, PipelineInv
  <2>4. \A p \in DOMAIN ms : ms[p].jobs \in Seq(Nat)
    BY <2>3, ListTypes
  <2> HIDE DEF ms, c
  <2>5. ASSUME NEW p \in DOMAIN ms, NEW k \in DOMAIN ms[p].jobs
        PROVE  ms[p].jobs[k] \in 1..c /\ ms[p].time = Moment(ms[p].jobs[k])
    <3>1. Holds(ms, ms[p].jobs[k], ms[p].time)
      BY DEF Holds, HasJob
    <3> QED
      BY <2>3, <3>1
  <2>6. \A p \in DOMAIN ms : ms[p].time < number["-t"]
    <3> SUFFICES ASSUME NEW p \in DOMAIN ms PROVE ms[p].time < number["-t"]
      OBVIOUS
    <3>1. 1 \in DOMAIN ms[p].jobs
      BY <2>3, <2>4, EmptySeq DEF NoEmptyMoment
    <3> QED
      BY <2>2, <2>5, <3>1
  <2>7. UNION {ToSet(ms[p].jobs) : p \in DOMAIN ms} = 1..c
    <3>1. \A p \in DOMAIN ms : \A x : x \in ToSet(ms[p].jobs) <=> HasJob(ms[p].jobs, x)
      BY DEF ToSet, HasJob
    <3>2. ASSUME NEW x PROVE (\E p \in DOMAIN ms : HasJob(ms[p].jobs, x)) <=> x \in 1..c
      <4>1. ASSUME NEW p \in DOMAIN ms, HasJob(ms[p].jobs, x) PROVE x \in 1..c
        BY <2>5, <4>1 DEF HasJob
      <4>2. ASSUME x \in 1..c PROVE \E p \in DOMAIN ms : HasJob(ms[p].jobs, x)
        <5>1. Holds(ms, x, Moment(x))
          BY <2>3, <4>2
        <5> QED
          BY <5>1 DEF Holds
      <4> QED
        BY <4>1, <4>2
    <3> QED
      BY <3>1, <3>2
  <2> QED
    BY <2>3, <2>6, <2>7 DEF SortedPipelineFits, Position, Ascending, ms, c
<1> QED
  BY <1>1, <1>2, <1>3, PTL DEF Spec

-----------------------------------------------------------------------------
(***************************************************************************)
(* The types.  Most of them are what the invariants above already say; the *)
(* rest is that the registry holds lines of its file, and that the place   *)
(* in the connections is the first until the registry is filled.           *)
(***************************************************************************)
FilesTyped ==
  /\ job_file \in [openable : BOOLEAN, lines : Seq(JobLine)]
  /\ node_file \in [openable : BOOLEAN, lines : Seq(NetworkLine)]

LEMMA FilesTypedStart ==
  ASSUME Init
  PROVE  FilesTyped
<1>1. \/ \E w \in CsimWorlds : job_file = w.job_file
      \/ job_file = [openable |-> FALSE, lines |-> <<>>]
  BY DEF Init
<1>2. \E w \in CsimWorlds \cup PipelineWorlds : node_file = w.node_file
  BY DEF Init
<1>3. [openable |-> FALSE, lines |-> <<>>] \in [openable : BOOLEAN, lines : Seq(JobLine)]
  <2>1. <<>> \in Seq(JobLine)
    OBVIOUS
  <2> QED
    BY <2>1
<1>4. job_file \in [openable : BOOLEAN, lines : Seq(JobLine)]
  <2> DEFINE S == [openable : BOOLEAN, lines : Seq(JobLine)]
             e == [openable |-> FALSE, lines |-> <<>>]
  <2>1. \A w \in CsimWorlds : w.job_file \in S
    BY WorldsAssumption
  <2>2. (\E w \in CsimWorlds : job_file = w.job_file) \/ job_file = e
    BY <1>1
  <2> HIDE DEF S, e
  <2>3. job_file \in S
    BY <1>3, <2>1, <2>2 DEF S, e
  <2> QED
    BY <2>3 DEF S
<1>5. node_file \in [openable : BOOLEAN, lines : Seq(NetworkLine)]
  BY <1>2, WorldsAssumption
<1> QED
  BY <1>4, <1>5 DEF FilesTyped

LEMMA FilesTypedKept ==
  ASSUME FilesTyped, SequencerInv, [Next]_vars
  PROVE  FilesTyped'
<1>1. node_file' = node_file
  <2>1. CASE LoadNetwork
    BY <2>1 DEF LoadNetwork, OpenNodes, NetworkLoaded, BareHeader, UnknownType, ReadP2P,
                ReadBus, MakeNode, NodeMissing, BusRead, AtTop, BusFrame
  <2>2. CASE PopulateNodeRegistry
    BY <2>2 DEF PopulateNodeRegistry, AllocateRegistry, RegisterNodes, AllRegistered,
                RegistryFrame
  <2> QED
    BY <2>1, <2>2, NetworkSteps
<1>2. CASE Feed
  <2>1. PICK order \in Orders : job_file' = [openable |-> TRUE, lines |-> JobLines(order)]
    BY <1>2 DEF Feed
  <2>2. job_file'.lines \in Seq(JobLine)
    BY <1>2, FeedKeeps
  <2>3. JobLines(order) \in Seq(JobLine)
    BY <2>1, <2>2
  <2> HIDE DEF JobLines
  <2> QED
    BY <1>1, <2>1, <2>3 DEF FilesTyped
<1>3. CASE ~Feed
  <2>1. job_file' = job_file
    BY <1>3, SequencerSteps DEF OpenJobs, ParseLine
  <2> QED
    BY <1>1, <2>1 DEF FilesTyped
<1> QED
  BY <1>2, <1>3

-----------------------------------------------------------------------------
ProcessTyped ==
  /\ pc \in Places
  /\ status \in {EXIT_SUCCESS, EXIT_FAILURE}
  /\ unset \subseteq Pointers
  /\ cell \in Nat \ {0}
  /\ misused \in BOOLEAN
  /\ sorted \in BOOLEAN

LEMMA ProcessTypedStart ==
  ASSUME Init
  PROVE  ProcessTyped
<1>1. pc \in {"main", "shell"}
  BY DEF Init
<1>2. sorted = FALSE \/ \E w \in PipelineWorlds : sorted = w.sorted
  BY DEF Init
<1>3. sorted \in BOOLEAN
  BY <1>2, WorldsAssumption
<1>4. status = EXIT_SUCCESS /\ unset = Pointers /\ cell = 1 /\ misused = FALSE
  BY DEF Init, ProgramInit
<1>5. pc \in Places /\ status \in {EXIT_SUCCESS, EXIT_FAILURE} /\ cell \in Nat \ {0}
  BY <1>1, <1>4 DEF Places
<1>6. unset \subseteq Pointers /\ misused \in BOOLEAN
  BY <1>4, Zenon
<1> QED
  BY <1>3, <1>5, <1>6, Zenon DEF ProcessTyped

LEMMA FreedOnceOrNot ==
  ASSUME NEW blocks, Free(blocks), misused \in BOOLEAN
  PROVE  misused' \in BOOLEAN
<1>1. misused' = (misused \/ blocks \cap freed # {})
  BY DEF Free
<1> QED
  BY <1>1, Zenon

LEMMA ProcessTypedKept ==
  ASSUME ProcessTyped, [Next]_vars
  PROVE  ProcessTyped'
<1>1. sorted' = sorted
  BY DEF Next, Ended, vars
<1>2. CASE Main \/ InitScheduler \/ Simulate
  <2>1. cell' = cell /\ misused' = misused
    BY <1>2 DEF Main, InitScheduler, Simulate, destroyVars
  <2>2. pc' \in Places /\ status' \in {EXIT_SUCCESS, EXIT_FAILURE} /\ unset' \subseteq Pointers
    BY <1>2 DEF Main, InitScheduler, InitReturns, Simulate, Goto, Fail, Crash, SetPointer,
                ProcessTyped, Places
  <2> QED
    BY <1>1, <2>1, <2>2 DEF ProcessTyped
<1>3. CASE LoadJobs /\ UNCHANGED destroyVars
  BY <1>1, <1>3 DEF LoadJobs, OpenJobs, ParseLine, EndOfJobs, Open, Goto, Fail, SetPointer,
                    processVars, destroyVars, ProcessTyped, Places
<1>4. CASE LoadNetwork /\ UNCHANGED destroyVars
  <2>1. pc' \in Places /\ status' \in {EXIT_SUCCESS, EXIT_FAILURE} /\ unset' \subseteq Pointers
    BY <1>4 DEF LoadNetwork, OpenNodes, NetworkLoaded, BareHeader, UnknownType, ReadP2P,
                ReadBus, MakeNode, NodeMissing, BusRead, AtTop, BusFrame, Open, Goto, Fail,
                Crash, SetPointer, ProcessTyped, Places
  <2> QED
    BY <1>1, <1>4, <2>1 DEF ProcessTyped, destroyVars
<1>5. CASE PopulateNodeRegistry /\ UNCHANGED destroyVars
  BY <1>1, <1>5 DEF PopulateNodeRegistry, AllocateRegistry, RegisterNodes, AllRegistered,
                    RegistryFrame, Goto, SetPointer, destroyVars, ProcessTyped, Places
<1>6. CASE RunRoundRobin /\ UNCHANGED destroyVars
  BY <1>1, <1>6 DEF RunRoundRobin, FirstTick, Distribute, Distributed, Schedule,
                    RoundRobinFrame, Goto, Crash, destroyVars, ProcessTyped, Places
<1>7. CASE Destroy
  <2>1. unset' = unset
    BY <1>7 DEF Destroy, DestroyJobs, DestroyConnections, DestroyRegistry, DestroyScheduler,
                DestroyFrame
  <2>2. pc' \in Places /\ status' = status
    BY <1>7 DEF Destroy, DestroyJobs, DestroyConnections, DestroyRegistry, DestroyScheduler,
                Unset, Goto, Crash, ProcessTyped, Places
  <2>3. cell' \in {cell, cell + 1, 1}
    BY <1>7 DEF Destroy, DestroyJobs, DestroyConnections, DestroyRegistry, DestroyScheduler,
                Unset, destroyVars
  <2>4. misused' = misused \/ \E blocks : Free(blocks)
    BY <1>7, Zenon DEF Destroy, DestroyJobs, DestroyConnections, DestroyRegistry,
                       DestroyScheduler, Unset, destroyVars
  <2>5. misused' \in BOOLEAN
    BY <2>4, FreedOnceOrNot DEF ProcessTyped
  <2>6. cell' \in Nat \ {0}
    BY <2>3 DEF ProcessTyped
  <2> QED
    BY <1>1, <2>1, <2>2, <2>5, <2>6 DEF ProcessTyped
<1>8. CASE Feed
  BY <1>1, <1>8 DEF Feed, Goto, destroyVars, ProcessTyped, Places
<1>9. CASE UNCHANGED programVars
  BY <1>1, <1>9 DEF programVars, processVars, destroyVars, ProcessTyped
<1> QED
  BY <1>2, <1>3, <1>4, <1>5, <1>6, <1>7, <1>8, <1>9 DEF Next, Ended, vars, ProgramStep

-----------------------------------------------------------------------------
GeneratorTyped ==
  /\ \A name \in DOMAIN disk :
       disk[name] \in {"absent", "old", "locked", "truncated", "written"}
  /\ gpc \in {"idle", "args", "write", "done", "failed", "crashed"}

LEMMA GeneratorTypedStart ==
  ASSUME Init
  PROVE  GeneratorTyped
<1>1. \/ disk = <<>>
      \/ \E w \in PipelineWorlds : disk = w.disk
  BY DEF Init
<1>2. DOMAIN <<>> = {}
  OBVIOUS
<1>3. gpc \in {"idle", "args"}
  BY DEF Init
<1> QED
  BY <1>1, <1>2, <1>3, WorldsAssumption DEF GeneratorTyped

LEMMA GeneratorTypedKept ==
  ASSUME GeneratorTyped, [Next]_vars
  PROVE  GeneratorTyped'
<1>1. CASE Interpret
  BY <1>1 DEF Interpret, ArgsFrame, TakeFlag, TakeFileName, TakeNumber, TakeRange,
              SecondBoundMissing, Misunderstood, GeneratorTyped
<1>2. CASE WriteLine \/ EmptyRange
  BY <1>2 DEF WriteLine, EmptyRange, GeneratorTyped
<1>3. CASE OpenOutput \/ CloseOutput
  <2>1. \/ disk' = disk
        \/ disk' = [disk EXCEPT ![out_file_name] = "truncated"]
        \/ disk' = [disk EXCEPT ![out_file_name] = "written"]
    BY <1>3 DEF OpenOutput, CloseOutput
  <2>2. gpc' \in {"write", "failed", "done"}
    BY <1>3 DEF OpenOutput, CloseOutput
  <2> QED
    BY <2>1, <2>2 DEF GeneratorTyped
<1>4. CASE UNCHANGED generatorVars
  BY <1>4 DEF generatorVars, GeneratorTyped
<1> QED
  BY <1>1, <1>2, <1>3, <1>4 DEF Next, GeneratorNext, Ended, vars

-----------------------------------------------------------------------------
Unregistered ==
  {"shell", "main", "open_jobs", "job_line", "open_nodes", "connection", "node", "populate"}

NetTyped ==
  /\ line <= Len(Lines) + 1
  /\ \A i \in DOMAIN connections : connections[i].type = Lines[connections[i].header].kind
  /\ node_registry \in Seq(0..Len(Lines))
  /\ cons \in 1..(Len(connections) + 1)
  /\ registered \in Nat
  /\ pc \in Unregistered => cons = 1

LEMMA NetTypedStart ==
  ASSUME Init
  PROVE  NetTyped
<1>1. /\ connections = <<>> /\ line = 1 /\ node_registry = <<>> /\ cons = 1 /\ registered = 0
  BY DEF Init, ProgramInit
<1>2. DOMAIN <<>> = {} /\ Len(<<>>) = 0 /\ <<>> \in Seq(0..Len(Lines))
  OBVIOUS
<1>3. Len(Lines) \in Nat
  BY FilesTypedStart DEF FilesTyped, Lines
<1> QED
  BY <1>1, <1>2, <1>3 DEF NetTyped

LEMMA UnregisteredBefore ==
  ASSUME [Next]_vars, pc' \in Unregistered
  PROVE  pc \in Unregistered
<1> USE DEF Unregistered
<1>1. CASE Main \/ InitScheduler \/ Simulate
  BY <1>1 DEF Main, InitScheduler, InitReturns, Simulate, Goto, Fail, Crash
<1>2. CASE LoadJobs
  BY <1>2 DEF LoadJobs, OpenJobs, ParseLine, EndOfJobs, Open, Goto, Fail, processVars
<1>3. CASE LoadNetwork
  BY <1>3 DEF LoadNetwork, OpenNodes, AtTop, NetworkLoaded, BareHeader, UnknownType, ReadP2P,
              ReadBus, MakeNode, NodeMissing, BusRead, Open, Goto, Fail, Crash
<1>4. CASE PopulateNodeRegistry
  BY <1>4 DEF PopulateNodeRegistry, AllocateRegistry, RegisterNodes, AllRegistered, Goto
<1>5. CASE RunRoundRobin
  BY <1>5 DEF RunRoundRobin, FirstTick, Distribute, Distributed, Schedule, Goto, Crash
<1>6. CASE Destroy
  <2>1. pc \in Destroying
    BY <1>6 DEF Destroy, DestroyJobs, DestroyConnections, DestroyRegistry, DestroyScheduler,
                Destroying
  <2>2. pc' \in Over
    BY <1>6 DEF Destroy, DestroyJobs, DestroyConnections, DestroyRegistry, DestroyScheduler,
                Unset, Goto, Crash, Over, Destroying
  <2> QED
    BY <2>2 DEF Over, Destroying
<1>7. CASE Feed
  BY <1>7 DEF Feed
<1>8. CASE UNCHANGED programVars
  BY <1>8 DEF programVars, processVars
<1> QED
  BY <1>1, <1>2, <1>3, <1>4, <1>5, <1>6, <1>7, <1>8 DEF Next, Ended, vars, ProgramStep

LEMMA MadeFromLines ==
  ASSUME NetShape, NetTyped, FilesTyped, LoadNetwork
  PROVE  NetTyped'
<1>0. /\ connections \in Seq(ConnectionType) /\ line \in Nat /\ Len(Lines) \in Nat
      /\ DOMAIN connections = 1..Len(connections) /\ Len(connections) \in Nat
  BY DEF NetShape, NetTypes, FilesTyped, Lines
<1>1. pc \in Unregistered /\ UNCHANGED <<node_file, node_registry, cons, registered>>
  BY DEF LoadNetwork, OpenNodes, NetworkLoaded, BareHeader, UnknownType, ReadP2P, ReadBus,
         MakeNode, NodeMissing, BusRead, AtTop, BusFrame, registryVars, Unregistered
<1>2. cons = 1 /\ connections' \in Seq(ConnectionType)
  <2>1. NetShape'
    BY LoadNetworkKeepsShape
  <2> QED
    BY <1>1, <2>1 DEF NetTyped, NetShape, NetTypes
<1>3. cons' \in 1..(Len(connections') + 1)
  BY <1>1, <1>2, ConnectionTypes
<1>4. SUFFICES /\ line' <= Len(Lines) + 1
               /\ \A i \in DOMAIN connections' :
                    connections'[i].type = Lines[connections'[i].header].kind
  BY <1>1, <1>2, <1>3, <1>4 DEF NetTyped, Lines
<1>5. line <= Len(Lines) + 1
      /\ \A i \in DOMAIN connections : connections[i].type = Lines[connections[i].header].kind
  BY DEF NetTyped
<1>6. Kind # "end" => line + 1 <= Len(Lines) + 1
  BY <1>0 DEF Kind, Lines
<1>7. CASE OpenNodes
  <2>1. connections' = <<>> /\ line' = 1 /\ DOMAIN <<>> = {}
    BY <1>7 DEF OpenNodes
  <2> QED
    BY <1>0, <2>1
<1>8. CASE NetworkLoaded \/ BareHeader \/ NodeMissing \/ BusRead
  BY <1>5, <1>8 DEF NetworkLoaded, BareHeader, NodeMissing, BusRead
<1>9. CASE UnknownType
  BY <1>5, <1>6, <1>9 DEF UnknownType
<1>10. ASSUME NEW type \in {"bus", "p2p"}, AddInterconnectToList(type), Kind = type,
              line' = line + 1
       PROVE  /\ line' <= Len(Lines) + 1
              /\ \A i \in DOMAIN connections' :
                   connections'[i].type = Lines[connections'[i].header].kind
  <2> DEFINE c == [type |-> type, header |-> line, nodes |-> <<>>]
  <2>1. c.type = type /\ c.header = line /\ Lines[line].kind = type
    BY <1>10 DEF Kind, Lines
  <2>2. connections' = Append(connections, c)
    BY <1>10 DEF AddInterconnectToList
  <2> HIDE DEF c
  <2>3. \A i \in DOMAIN connections' :
          (i \in DOMAIN connections /\ connections'[i] = connections[i]) \/ connections'[i] = c
    BY <1>0, <2>2
  <2> QED
    BY <1>5, <1>6, <1>10, <2>1, <2>3
<1>11. CASE ReadP2P \/ ReadBus
  BY <1>10, <1>11 DEF ReadP2P, ReadBus
<1>12. CASE MakeNode
  <2>1. connections' = WithNode(connections, line) /\ line' = line + 1 /\ Kind # "end"
        /\ pc = "node"
    BY <1>12 DEF MakeNode, WithNode
  <2>2. connections # <<>>
    BY <2>1 DEF NetShape
  <2>3. /\ Len(connections') = Len(connections)
        /\ \A i \in DOMAIN connections : i # Len(connections) => connections'[i] = connections[i]
        /\ connections'[Len(connections)].type = connections[Len(connections)].type
        /\ connections'[Len(connections)].header = connections[Len(connections)].header
    BY <1>0, <2>1, <2>2, FromGrows
  <2>4. DOMAIN connections' = DOMAIN connections
    BY <1>0, <1>2, <2>3, ConnectionTypes
  <2> QED
    BY <1>0, <1>5, <1>6, <2>1, <2>3, <2>4
<1> QED
  BY <1>7, <1>8, <1>9, <1>11, <1>12 DEF LoadNetwork

\* The registry holds lines, or Stray where nothing was written.
LEMMA RegisteredFromLines ==
  ASSUME NetInv, NetTyped, FilesTyped, PopulateNodeRegistry
  PROVE  NetTyped'
<1>0. /\ connections \in Seq(ConnectionType) /\ node_count \in Nat /\ Len(Lines) \in Nat
      /\ DOMAIN connections = 1..Len(connections) /\ Len(connections) \in Nat
      /\ line <= Len(Lines) + 1 /\ line \in Nat
  BY DEF NetInv, NetShape, NetTypes, NetTyped, FilesTyped, Lines
<1>1. UNCHANGED <<node_file, line, node_count, connections>>
  BY DEF PopulateNodeRegistry, AllocateRegistry, RegisterNodes, AllRegistered, RegistryFrame
<1>2. pc' \notin Unregistered
  BY DEF PopulateNodeRegistry, AllocateRegistry, RegisterNodes, AllRegistered, Goto, Unregistered
<1>3. SUFFICES /\ node_registry' \in Seq(0..Len(Lines))
               /\ cons' \in 1..(Len(connections) + 1)
               /\ registered' \in Nat
  BY <1>1, <1>2, <1>3 DEF NetTyped, Lines
<1> DEFINE S == 0..Len(Lines)
<1>4. CASE AllocateRegistry
  <2>1. /\ node_registry' = [k \in 1..node_count |-> Stray] /\ cons' = 1 /\ registered' = 0
    BY <1>4 DEF AllocateRegistry
  <2>2. Stray \in S
    BY <1>0 DEF Stray
  <2> HIDE DEF S
  <2>3. node_registry' \in Seq(S)
    BY <1>0, <2>1, <2>2
  <2> QED
    BY <1>0, <2>1, <2>3 DEF S
<1>5. CASE RegisterNodes
  <2> DEFINE nodes == connections[cons].nodes
  <2>1. /\ pc = "register" /\ cons' = cons + 1 /\ registered' = registered + Len(nodes)
        /\ node_registry' = WrittenBehind(registered, nodes)
    BY <1>5 DEF RegisterNodes
  <2>2. cons \in DOMAIN connections /\ nodes \in Seq(Nat) /\ registered \in Nat
    BY <1>5, TurnWrites DEF NetInv
  <2>3. \A k \in DOMAIN nodes : nodes[k] \in S
    <3>1. connections[cons].header \in Nat /\ Len(nodes) \in Nat
      BY <1>0, <2>2, ConnectionTypes
    <3>2. /\ connections[cons].header + Len(nodes) < line
          /\ \A k \in DOMAIN nodes : nodes[k] = connections[cons].header + k
      BY <2>2 DEF NetInv, NetShape, InPlace
    <3>3. DOMAIN nodes = 1..Len(nodes)
      BY <2>2
    <3> HIDE DEF nodes
    <3> QED
      BY <1>0, <3>1, <3>2, <3>3
  <2>4. \A k \in 1..node_count : node_registry[k] \in S
    <3>1. DOMAIN node_registry = 1..node_count
      BY <2>1 DEF NetInv, Written
    <3>2. node_registry \in Seq(S)
      BY DEF NetTyped
    <3> HIDE DEF S
    <3>3. \A k \in DOMAIN node_registry : node_registry[k] \in S
      BY <3>2
    <3> QED
      BY <3>1, <3>3, Zenon
  <2> HIDE DEF nodes, S
  <2>5. node_registry' = [k \in 1..node_count |->
                           IF k > registered /\ k - registered \in DOMAIN nodes
                             THEN nodes[k - registered] ELSE node_registry[k]]
    BY <2>1 DEF WrittenBehind
  <2>6. \A k \in 1..node_count : node_registry'[k] \in S
    BY <2>3, <2>4, <2>5
  <2>7. node_registry' \in Seq(S)
    BY <1>0, <2>5, <2>6
  <2> QED
    BY <1>0, <2>1, <2>2, <2>7 DEF S
<1>6. CASE AllRegistered
  BY <1>6 DEF AllRegistered, registryVars, NetTyped
<1> QED
  BY <1>4, <1>5, <1>6 DEF PopulateNodeRegistry

LEMMA NetTypedKept ==
  ASSUME NetInv, NetTyped, FilesTyped, [Next]_vars
  PROVE  NetTyped'
<1>1. CASE UNCHANGED <<node_file, networkVars>>
  BY <1>1, UnregisteredBefore DEF networkVars, NetTyped, Lines
<1> QED
  BY <1>1, NetworkSteps, MadeFromLines, RegisteredFromLines DEF NetInv

-----------------------------------------------------------------------------
TypeInv ==
  /\ SequencerInv /\ QueueInv /\ NetInv
  /\ FilesTyped /\ ProcessTyped /\ GeneratorTyped /\ NetTyped

LEMMA ListTyped ==
  ASSUME SequencerInv, QueueInv, FilesTyped
  PROVE  SequenceTypeOK
<1> DEFINE ms == job_sequence
<1>1. /\ job_file.lines \in Seq(JobLine) /\ Len(job_file.lines) \in Nat
      /\ job_count \in 0..Len(job_file.lines) /\ ms \in Seq(MomentType)
      /\ \A j, m : Holds(ms, j, m) <=> j \in 1..job_count /\ m = Moment(j)
  BY DEF SequencerInv, ListInv, LinesHeld, QueueInv
<1>2. Jobs = 1..Len(job_file.lines)
  BY <1>1 DEF Jobs
<1>3. ASSUME NEW p \in DOMAIN ms
      PROVE  ms[p] \in [time : Nat, jobs : Seq(Jobs)]
  <2>1. ms[p] \in [time : Nat, jobs : Seq(Nat)] /\ ms[p].time \in Nat /\ ms[p].jobs \in Seq(Nat)
    BY <1>1, ListTypes DEF MomentType
  <2>2. ASSUME NEW k \in DOMAIN ms[p].jobs
        PROVE  ms[p].jobs[k] \in Jobs
    <3>1. Holds(ms, ms[p].jobs[k], ms[p].time)
      BY DEF Holds, HasJob
    <3>2. ms[p].jobs[k] \in 1..job_count
      BY <1>1, <3>1
    <3> QED
      BY <1>1, <1>2, <3>2
  <2> DEFINE jobs == ms[p].jobs
  <2>3. jobs \in Seq(Nat) /\ \A k \in DOMAIN jobs : jobs[k] \in Jobs
    BY <2>1, <2>2
  <2> HIDE DEF jobs
  <2>4. jobs \in Seq(Jobs)
    BY <2>3
  <2>5. ms[p] = [time |-> ms[p].time, jobs |-> ms[p].jobs]
    BY <2>1
  <2> QED
    BY <2>1, <2>4, <2>5 DEF jobs
<1>4. ms \in Seq([time : Nat, jobs : Seq(Jobs)])
  <2> DEFINE S == [time : Nat, jobs : Seq(Jobs)]
  <2>1. \A p \in DOMAIN ms : ms[p] \in S
    BY <1>3
  <2> HIDE DEF S, ms
  <2>2. ms \in Seq(S)
    BY <1>1, <2>1
  <2> QED
    BY <2>2 DEF S
<1> QED
  BY <1>1, <1>4 DEF SequenceTypeOK, FilesTyped

LEMMA QueueTyped ==
  ASSUME SequencerInv, QueueInv
  PROVE  RoundRobinTypeOK
<1>1. CASE FreshQueue
  <2>1. <<>> \in Seq(Jobs) /\ DOMAIN <<>> = {} /\ ToSet(<<>>) = {}
    BY DEF ToSet
  <2> QED
    BY <1>1, <2>1 DEF FreshQueue, RoundRobinTypeOK
<1>2. CASE ~FreshQueue
  <2>1. QueueSoFar /\ job_count # 0 /\ job_count <= Len(job_file.lines)
    BY <1>2 DEF QueueInv
  <2>2. FirstMoment \in Seq(Nat) /\ \A k \in 1..Len(FirstMoment) : FirstMoment[k] \in Jobs
    BY <2>1, FirstMomentIs
  <2>3. /\ jlist \in 1..(Len(FirstMoment) + 1)
        /\ pending \in Seq(Nat) /\ WayBack(pending, prev)
        /\ DOMAIN prev = ToSet(pending)
        /\ \A x : HasJob(pending, x) <=> \E k \in 1..(jlist - 1) : FirstMoment[k] = x
    BY <2>1 DEF QueueSoFar, InOrder
  <2>4. jlist \in Nat \ {0} /\ \A k \in 1..(jlist - 1) : k \in 1..Len(FirstMoment)
    BY <2>2, <2>3
  <2>5. ASSUME NEW p \in DOMAIN pending PROVE pending[p] \in Jobs
    <3>1. HasJob(pending, pending[p])
      BY DEF HasJob
    <3>2. PICK k \in 1..(jlist - 1) : FirstMoment[k] = pending[p]
      BY <2>3, <3>1
    <3> QED
      BY <2>2, <2>4, <3>2
  <2>6. pending \in Seq(Jobs)
    BY <2>3, <2>5
  <2>7. ASSUME NEW j \in DOMAIN prev PROVE prev[j] \in Jobs \cup {0}
    <3>1. PICK p \in DOMAIN pending : pending[p] = j
      BY <2>3 DEF ToSet
    <3>2. prev[j] = (IF p = 1 THEN 0 ELSE pending[p - 1]) \/ prev[j] = 0
      BY <2>3, <3>1 DEF WayBack
    <3>3. p # 1 => p - 1 \in DOMAIN pending
      BY <2>3
    <3> QED
      BY <2>5, <3>2, <3>3
  <2> QED
    BY <2>3, <2>4, <2>6, <2>7 DEF RoundRobinTypeOK
<1> QED
  BY <1>1, <1>2

LEMMA NetworkTyped ==
  ASSUME NetInv, NetTyped, FilesTyped
  PROVE  NetworkTypeOK
<1>1. /\ connections \in Seq(ConnectionType) /\ line \in Nat \ {0}
      /\ read_lines \in Nat /\ node_count \in Nat
      /\ InPlace(connections, line)
  BY DEF NetInv, NetShape, NetTypes
<1>2. /\ node_file.openable \in BOOLEAN /\ node_file.lines \in Seq(NetworkLine)
      /\ Lines = node_file.lines /\ Len(Lines) \in Nat /\ DOMAIN Lines = 1..Len(Lines)
  BY DEF FilesTyped, Lines
<1>3. line \in 1..(Len(Lines) + 1)
  BY <1>1, <1>2 DEF NetTyped
<1>4. ASSUME NEW i \in DOMAIN connections
      PROVE  connections[i].nodes \in Seq(DOMAIN Lines)
  <2> DEFINE nodes == connections[i].nodes
             h     == connections[i].header
             S     == DOMAIN Lines
  <2>1. h \in Nat /\ nodes \in Seq(Nat) /\ Len(nodes) \in Nat
    BY <1>1, ConnectionTypes
  <2>2. h + Len(nodes) < line /\ \A k \in DOMAIN nodes : nodes[k] = h + k
    BY <1>1 DEF InPlace
  <2> HIDE DEF h, nodes
  <2>3. DOMAIN nodes = 1..Len(nodes)
    BY <2>1
  <2>4. \A k \in DOMAIN nodes : nodes[k] \in S
    BY <1>2, <1>3, <2>1, <2>2, <2>3
  <2> HIDE DEF S
  <2>5. nodes \in Seq(S)
    BY <2>1, <2>4
  <2> QED
    BY <2>5 DEF nodes, S
<1>5. \A p \in DOMAIN node_file.lines : node_file.lines[p] \in NetworkLine
  BY <1>2
<1> QED
  BY <1>1, <1>2, <1>3, <1>4, <1>5 DEF NetworkTypeOK, NetTyped

\* Type correctness of csim with what feeds it: no step takes the loaders past
\* the end of their files, lists a node or a job that is not a line, or leaves
\* the places the program can be in.
THEOREM ToolchainTypeCorrect == Spec => []TypeOK
<1>1. Init => TypeInv
  BY SequencerStarts, QueueInvStarts, NetStarts, FilesTypedStart, ProcessTypedStart,
     GeneratorTypedStart, NetTypedStart DEF TypeInv
<1>2. TypeInv /\ [Next]_vars => TypeInv'
  BY SequencerStepKeeps, QueueInvKept, NetStepKeeps, FilesTypedKept, ProcessTypedKept,
     GeneratorTypedKept, NetTypedKept DEF TypeInv
<1>3. TypeInv => TypeOK
  <2> SUFFICES ASSUME TypeInv PROVE TypeOK
    OBVIOUS
  <2>1. ProgramTypeOK
    BY ListTyped, QueueTyped, NetworkTyped DEF TypeInv, ProcessTyped, ProgramTypeOK
  <2>2. GeneratorTypeOK
    BY DEF TypeInv, SequencerInv, GeneratorInv, GeneratorTyped, BoundsFit, GeneratorTypeOK,
           LineType
  <2> QED
    BY <2>1, <2>2 DEF TypeInv, ProcessTyped, TypeOK
<1> QED
  BY <1>1, <1>2, <1>3, PTL DEF Spec
=============================================================================
