---------------------------- MODULE DrawsProofs ----------------------------
(***************************************************************************)
(* What a rate and a list of rates do to a draw, for every Scale: which     *)
(* draws they catch and how many.  Draws are equally likely, so the number   *)
(* of draws caught, out of Scale, is the probability.                       *)
(***************************************************************************)
EXTENDS Draws, FiniteSetTheorems, TLAPS

\* A rate that some draw hits is positive.
LEMMA HitIsPositive == \A rate \in Int : MayHit(rate) => rate > 0
BY DEF MayHit, Hits

\* A rate that every draw hits is positive too.
LEMMA MissOrHit ==
    ASSUME NEW rate \in Int, ~ MayMiss(rate)
    PROVE  rate > 0
BY ScaleAssumption DEF MayMiss, Hits, Draw

\* No draw misses a certain rate.
LEMMA MissIsNotAlways ==
    ASSUME NEW rate \in Int, MayMiss(rate)
    PROVE  ~ Always(rate)
BY ScaleAssumption DEF MayMiss, Hits, Draw, Always

\* Neighbouring draws, from lo up to but not including hi.
LEMMA Band ==
    ASSUME NEW lo \in Int, NEW hi \in Int, lo <= hi
    PROVE  /\ IsFiniteSet(lo .. (hi - 1))
           /\ Cardinality(lo .. (hi - 1)) = hi - lo
<1>1. hi - 1 \in Int /\ (lo > hi - 1 <=> lo = hi)
  OBVIOUS
<1>2. QED BY <1>1, FS_Interval

\* A rate that is drawn on its own is hit by as many draws as it has parts; a
\* negative one by none, and one above 1 by all.
THEOREM IndependentShare ==
    ASSUME NEW rate \in Int
    PROVE  Cardinality({d \in Draw : Hits(rate, d)}) =
              IF rate <= 0 THEN 0 ELSE IF Always(rate) THEN Scale ELSE rate
<1> DEFINE hi == IF rate <= 0 THEN 0 ELSE IF rate >= Scale THEN Scale ELSE rate
<1>1. hi \in Int /\ 0 <= hi
  BY ScaleAssumption
<1>2. {d \in Draw : Hits(rate, d)} = 0 .. (hi - 1)
  BY ScaleAssumption DEF Draw, Hits
<1>3. Cardinality(0 .. (hi - 1)) = hi
  <2> HIDE DEF hi
  <2>1. Cardinality(0 .. (hi - 1)) = hi - 0
    BY <1>1, Band
  <2>2. QED BY <1>1, <2>1
<1>4. QED BY <1>2, <1>3 DEF Always

\* Sums that grow from a number that is not negative up to at most Scale, as
\* they do when no rate is negative and the rates leave no less than nothing.
Growing(sums) ==
    /\ sums \in Seq(Int) /\ Len(sums) > 0
    /\ \A i, j \in DOMAIN sums : i <= j => sums[i] <= sums[j]
    /\ sums[1] >= 0 /\ sums[Len(sums)] <= Scale

\* The sum a draw must have reached to fall in the i-th part.
Floor(sums, i) == IF i = 1 THEN 0 ELSE sums[i - 1]

\* Such sums are numbers, in order.
LEMMA GrowingSums ==
    ASSUME NEW sums, Growing(sums)
    PROVE  /\ \A i \in DOMAIN sums : sums[i] \in Int
           /\ \A i, j \in DOMAIN sums : i <= j => sums[i] <= sums[j]
<1>1. DOMAIN sums = 1 .. Len(sums) /\ \A i \in 1 .. Len(sums) : sums[i] \in Int
  BY DEF Growing
<1>2. QED BY <1>1 DEF Growing

\* The draws that fall in a part are neighbours, as many as the part is wide.
LEMMA PartShare ==
    ASSUME NEW sums, Growing(sums), NEW i \in DOMAIN sums
    PROVE  /\ {d \in Draw : FallsIn(sums, d, i)} =
                 Floor(sums, i) .. (sums[i] - 1)
           /\ IsFiniteSet({d \in Draw : FallsIn(sums, d, i)})
           /\ Cardinality({d \in Draw : FallsIn(sums, d, i)}) =
                 sums[i] - Floor(sums, i)
<1>1. /\ DOMAIN sums = 1 .. Len(sums) /\ Len(sums) \in Nat
      /\ \A j \in 1 .. Len(sums) : sums[j] \in Int
      /\ \A j, k \in 1 .. Len(sums) : j <= k => sums[j] <= sums[k]
      /\ sums[1] >= 0 /\ sums[Len(sums)] <= Scale /\ Len(sums) > 0
      /\ i \in 1 .. Len(sums) /\ Scale \in Int
  BY ScaleAssumption DEF Growing
<1>2. /\ Floor(sums, i) \in Int /\ sums[i] \in Int
      /\ 0 <= Floor(sums, i) /\ Floor(sums, i) <= sums[i]
      /\ sums[i] <= Scale
  <2>1. sums[1] <= sums[i] /\ sums[i] <= sums[Len(sums)]
    BY <1>1
  <2>2. CASE i = 1
    BY <1>1, <2>1, <2>2 DEF Floor
  <2>3. CASE i # 1
    <3>1. i - 1 \in 1 .. Len(sums) /\ i - 1 <= i /\ 1 <= i - 1
      BY <1>1, <2>3
    <3>2. sums[i - 1] \in Int /\ sums[1] <= sums[i - 1] /\ sums[i - 1] <= sums[i]
      BY <1>1, <3>1
    <3>3. QED BY <1>1, <2>1, <2>3, <3>2 DEF Floor
  <2>4. QED BY <2>2, <2>3
<1>3. ASSUME NEW d \in Draw
      PROVE  FallsIn(sums, d, i) <=> Floor(sums, i) <= d /\ d < sums[i]
  <2>1. d \in Int /\ d >= 0
    BY <1>3, ScaleAssumption DEF Draw
  <2>2. CASE i = 1
    BY <2>1, <2>2 DEF FallsIn, Floor
  <2>3. CASE i # 1
    <3>1. i - 1 \in 1 .. (i - 1) /\ i - 1 \in 1 .. Len(sums)
      BY <1>1, <2>3
    <3>2. \A j \in 1 .. (i - 1) :
             sums[j] \in Int /\ sums[j] <= sums[i - 1] /\ sums[i - 1] \in Int
      BY <1>1, <3>1
    <3>3. (\A j \in 1 .. (i - 1) : d >= sums[j]) <=> d >= sums[i - 1]
      BY <2>1, <3>1, <3>2
    <3>4. QED BY <2>1, <2>3, <3>2, <3>1, <3>3 DEF FallsIn, Floor
  <2>4. QED BY <2>2, <2>3
<1>4. {d \in Draw : FallsIn(sums, d, i)} = Floor(sums, i) .. (sums[i] - 1)
  BY <1>1, <1>2, <1>3 DEF Draw
<1>5. QED BY <1>2, <1>4, Band

\* The draws that fall past every sum are what the sums leave of Scale.
LEMMA RestShare ==
    ASSUME NEW sums, Growing(sums)
    PROVE  /\ {d \in Draw : FallsPast(sums, d)} =
                 sums[Len(sums)] .. (Scale - 1)
           /\ IsFiniteSet({d \in Draw : FallsPast(sums, d)})
           /\ Cardinality({d \in Draw : FallsPast(sums, d)}) =
                 Scale - sums[Len(sums)]
<1> DEFINE last == sums[Len(sums)]
<1>1. /\ DOMAIN sums = 1 .. Len(sums) /\ Len(sums) \in 1 .. Len(sums)
      /\ \A j \in 1 .. Len(sums) : sums[j] \in Int /\ sums[j] <= last
      /\ last \in Int /\ 0 <= last /\ last <= Scale /\ Scale \in Int
  BY ScaleAssumption DEF Growing
<1>2. ASSUME NEW d \in Draw PROVE FallsPast(sums, d) <=> last <= d
  <2>1. d \in Int
    BY <1>2, ScaleAssumption DEF Draw
  <2>2. QED BY <1>1, <2>1 DEF FallsPast
<1>3. {d \in Draw : FallsPast(sums, d)} = last .. (Scale - 1)
  BY <1>1, <1>2 DEF Draw
<1>4. QED BY <1>1, <1>3, Band

\* The running sums of three rates.
SumsOf3(r) ==
    <<r[1],
      r[1] + r[2],
      r[1] + r[2] + r[3]>>

\* Those of three rates grow, and each part is as wide as its rate.
LEMMA ThreeSums ==
    ASSUME NEW r, \A i \in 1 .. 3 : r[i] \in Nat, SumsOf3(r)[3] <= Scale
    PROVE  LET sums == SumsOf3(r)
           IN  /\ Growing(sums) /\ Len(sums) = 3 /\ DOMAIN sums = 1 .. 3
               /\ \A i \in 1 .. 3 : sums[i] - Floor(sums, i) = r[i]
<1> DEFINE sums == SumsOf3(r)
<1>1. /\ r[1] \in Nat /\ r[2] \in Nat /\ r[3] \in Nat
  OBVIOUS
<1>2. /\ sums \in Seq(Int) /\ Len(sums) = 3 /\ DOMAIN sums = 1 .. 3
      /\ \A j, k \in 1 .. 3 : j <= k => sums[j] <= sums[k]
      /\ sums[1] >= 0 /\ sums[3] <= Scale
  BY <1>1 DEF SumsOf3
<1>3. \A i \in 1 .. 3 : sums[i] - Floor(sums, i) = r[i]
  BY <1>1 DEF Floor, SumsOf3
<1> HIDE DEF sums
<1>4. Growing(sums)
  BY <1>2 DEF Growing
<1>5. QED BY <1>2, <1>3, <1>4 DEF sums

\* The running sums of six rates.
SumsOf6(r) ==
    <<r[1],
      r[1] + r[2],
      r[1] + r[2] + r[3],
      r[1] + r[2] + r[3] + r[4],
      r[1] + r[2] + r[3] + r[4] + r[5],
      r[1] + r[2] + r[3] + r[4] + r[5] + r[6]>>

\* So do those of six.
LEMMA SixSums ==
    ASSUME NEW r, \A i \in 1 .. 6 : r[i] \in Nat, SumsOf6(r)[6] <= Scale
    PROVE  LET sums == SumsOf6(r)
           IN  /\ Growing(sums) /\ Len(sums) = 6 /\ DOMAIN sums = 1 .. 6
               /\ \A i \in 1 .. 6 : sums[i] - Floor(sums, i) = r[i]
<1> DEFINE sums == SumsOf6(r)
<1>1. /\ r[1] \in Nat /\ r[2] \in Nat /\ r[3] \in Nat /\ r[4] \in Nat
      /\ r[5] \in Nat /\ r[6] \in Nat
  OBVIOUS
<1>2. /\ sums \in Seq(Int) /\ Len(sums) = 6 /\ DOMAIN sums = 1 .. 6
      /\ \A j, k \in 1 .. 6 : j <= k => sums[j] <= sums[k]
      /\ sums[1] >= 0 /\ sums[6] <= Scale
  BY <1>1 DEF SumsOf6
<1>3. \A i \in 1 .. 6 : sums[i] - Floor(sums, i) = r[i]
  BY <1>1 DEF Floor, SumsOf6
<1> HIDE DEF sums
<1>4. Growing(sums)
  BY <1>2 DEF Growing
<1>5. QED BY <1>2, <1>3, <1>4 DEF sums

\* The running sums of seven rates.
SumsOf7(r) ==
    <<r[1],
      r[1] + r[2],
      r[1] + r[2] + r[3],
      r[1] + r[2] + r[3] + r[4],
      r[1] + r[2] + r[3] + r[4] + r[5],
      r[1] + r[2] + r[3] + r[4] + r[5] + r[6],
      r[1] + r[2] + r[3] + r[4] + r[5] + r[6] + r[7]>>

\* So do those of seven.
LEMMA SevenSums ==
    ASSUME NEW r, \A i \in 1 .. 7 : r[i] \in Nat, SumsOf7(r)[7] <= Scale
    PROVE  LET sums == SumsOf7(r)
           IN  /\ Growing(sums) /\ Len(sums) = 7 /\ DOMAIN sums = 1 .. 7
               /\ \A i \in 1 .. 7 : sums[i] - Floor(sums, i) = r[i]
<1> DEFINE sums == SumsOf7(r)
<1>1. /\ r[1] \in Nat /\ r[2] \in Nat /\ r[3] \in Nat /\ r[4] \in Nat
      /\ r[5] \in Nat /\ r[6] \in Nat /\ r[7] \in Nat
  OBVIOUS
<1>2. /\ sums \in Seq(Int) /\ Len(sums) = 7 /\ DOMAIN sums = 1 .. 7
      /\ \A j, k \in 1 .. 7 : j <= k => sums[j] <= sums[k]
      /\ sums[1] >= 0 /\ sums[7] <= Scale
  BY <1>1 DEF SumsOf7
<1>3. \A i \in 1 .. 7 : sums[i] - Floor(sums, i) = r[i]
  BY <1>1 DEF Floor, SumsOf7
<1> HIDE DEF sums
<1>4. Growing(sums)
  BY <1>2 DEF Growing
<1>5. QED BY <1>2, <1>3, <1>4 DEF sums
=============================================================================
