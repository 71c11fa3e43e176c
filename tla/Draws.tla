------------------------------- MODULE Draws -------------------------------
(***************************************************************************)
(* The random draws of the simulator.  The code compares mrand.Float64(),  *)
(* a number of [0, 1), with configured rates.  A rate is modelled as a      *)
(* number of parts out of Scale and a draw as one of 0 .. Scale-1, so that  *)
(* a rate of 0 never hits, a rate of Scale always does, and every rate in   *)
(* between may do either.  The draws are equally likely, so the probability *)
(* of an outcome is the number of draws that lead to it, out of Scale;      *)
(* DrawsProofs counts them.                                                 *)
(***************************************************************************)
EXTENDS Integers, Sequences

CONSTANT Scale      \* parts in which a rate is expressed

ASSUME ScaleAssumption == Scale \in Nat \ {0}

Draw == 0 .. (Scale - 1)

\* An independent draw:  rate > 0 && mrand.Float64() < rate .
Hits(rate, d) == rate > 0 /\ d < rate

MayHit(rate)  == \E d \in Draw : Hits(rate, d)
MayMiss(rate) == \E d \in Draw : ~ Hits(rate, d)

\* A rate no draw escapes.
Always(rate) == rate >= Scale

(***************************************************************************)
(* A cumulative draw: one draw is compared in turn with the running sums of *)
(* several rates; the first sum above the draw selects.  The sums grow only *)
(* while the rates are not negative, which nothing checks on POST/PUT, so   *)
(* "first" is spelled out.                                                  *)
(***************************************************************************)
FallsIn(sums, d, i) == d < sums[i] /\ \A j \in 1 .. (i - 1) : d >= sums[j]

FallsPast(sums, d) == \A i \in DOMAIN sums : d >= sums[i]
============================================================================
