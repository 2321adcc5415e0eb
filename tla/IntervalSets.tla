---------------------------- MODULE IntervalSets ----------------------------
(***************************************************************************)
(* Sets of intervals of Bits values: ir/interval.cc, ir/interval_set.cc and *)
(* MinimizeIntervals of passes/range_query_engine.cc.                       *)
(*                                                                         *)
(* An interval is the pair <<lower bound, upper bound>> of values of width  *)
(* w >= 1 (the unique zero-width interval is left out); it is improper when *)
(* its bounds are swapped, and then wraps around.  An interval set is the   *)
(* sequence of its intervals.                                               *)
(***************************************************************************)
EXTENDS BitsOps

Lower(interval) == interval[1]

Upper(interval) == interval[2]

IsImproper(interval) == Upper(interval) < Lower(interval)

\* The elements of a set in some order.
AsSequence(S) == FoldSet(LAMBDA x, acc : Append(acc, x), <<>>, S)

\* Interval::Maximal and Interval::Precise.
Maximal(w) == <<0, AllOnes(w)>>

Precise(v) == <<v, v>>

\* operator<: lexicographic order of the bounds.
Before(l, r) ==
    \/ Lower(l) < Lower(r)
    \/ Lower(l) = Lower(r) /\ Upper(l) < Upper(r)

\* Overlaps and Abuts swap their arguments into that order first.
Overlaps(l, r) ==
    IF Before(r, l) THEN Upper(r) >= Lower(l) ELSE Upper(l) >= Lower(r)

Abuts(w, l, r) ==
    /\ ~Overlaps(l, r)
    /\ IF Before(r, l) THEN Add(w, Upper(r), 1) = Lower(l)
                       ELSE Add(w, Upper(l), 1) = Lower(r)

ConvexHull(l, r) ==
    <<IF Lower(r) < Lower(l) THEN Lower(r) ELSE Lower(l),
      IF Upper(r) > Upper(l) THEN Upper(r) ELSE Upper(l)>>

\* Interval::Intersect of intervals that overlap.
Meet(l, r) ==
    <<IF Lower(r) > Lower(l) THEN Lower(r) ELSE Lower(l),
      IF Upper(r) < Upper(l) THEN Upper(r) ELSE Upper(l)>>

\* Interval::Difference: the parts of l below and above r.
Difference(l, r) ==
    IF ~Overlaps(l, r)
    THEN <<l>>
    ELSE (IF Lower(l) < Lower(r) THEN << <<Lower(l), Lower(r) - 1>> >> ELSE <<>>)
           \o (IF Upper(r) < Upper(l) THEN << <<Upper(r) + 1, Upper(l)>> >> ELSE <<>>)

\* SizeBits: one bit wider than the bounds, so that the maximal interval fits.
SizeBits(w, interval) ==
    IF IsImproper(interval)
    THEN Truncate(w + 1, (AllOnes(w) - Lower(interval) + 1) + (Upper(interval) + 1))
    ELSE Truncate(w + 1, Upper(interval) - Lower(interval) + 1)

\* ForEachElement visits every value from the lower to the upper bound,
\* wrapping around when the interval is improper.
Points(w, interval) ==
    IF IsImproper(interval)
    THEN (Lower(interval) .. AllOnes(w)) \union (0 .. Upper(interval))
    ELSE Lower(interval) .. Upper(interval)

----------------------------------------------------------------------------
(* IntervalSet *)

\* The proper intervals an interval stands for.
ExpandImproper(w, interval) ==
    IF IsImproper(interval)
    THEN << <<0, Upper(interval)>>, <<Lower(interval), AllOnes(w)>> >>
    ELSE <<interval>>

\* One turn of the loop: the interval is merged into the one being built, or
\* starts the next one.
MergeInto(w, acc, interval) ==
    IF acc # <<>> /\ (Overlaps(Last(acc), interval) \/ Abuts(w, Last(acc), interval))
    THEN Append(Front(acc), ConvexHull(Last(acc), interval))
    ELSE Append(acc, interval)

Normalize(w, intervals) ==
    FoldLeft(LAMBDA acc, interval : MergeInto(w, acc, interval), <<>>,
             SortSeq(FlattenSeq([i \in DOMAIN intervals |-> ExpandImproper(w, intervals[i])]),
                     Before))

MaximalSet(w) == <<Maximal(w)>>

PreciseSet(v) == <<Precise(v)>>

LowerBound(set) == Min({Lower(set[i]) : i \in DOMAIN set})

UpperBound(set) == Max({Upper(set[i]) : i \in DOMAIN set})

\* IntervalSet::ConvexHull of a set that is not empty.
Hull(set) == <<LowerBound(set), UpperBound(set)>>

Combine(w, lhs, rhs) == Normalize(w, lhs \o rhs)

\* The loop of IntervalSet::Intersect.  What is left of the interval that
\* reaches further is inserted before it, and the interval itself stays in
\* the list after its remainders.
RECURSIVE IntersectFrom(_, _)
IntersectFrom(ls, rs) ==
    IF ls = <<>> \/ rs = <<>>
    THEN <<>>
    ELSE LET l == Head(ls)
             r == Head(rs)
             met == IF Overlaps(l, r) THEN <<Meet(l, r)>> ELSE <<>>
             rest(x, y) == IF Overlaps(l, r) THEN Difference(x, y) ELSE <<>>
         IN  CASE Upper(l) < Upper(r) -> met \o IntersectFrom(Tail(ls), rest(r, l) \o rs)
               [] Upper(r) < Upper(l) -> met \o IntersectFrom(rest(l, r) \o ls, Tail(rs))
               [] OTHER -> met \o IntersectFrom(Tail(ls), Tail(rs))

Intersect(w, lhs, rhs) == Normalize(w, IntersectFrom(lhs, rhs))

\* The intersection of the complements of the intervals.
Complement(w, set) ==
    FoldLeft(LAMBDA acc, interval :
               Intersect(w, acc, Normalize(w, Difference(Maximal(w), interval))),
             MaximalSet(w), set)

Size(w, set) ==
    FoldLeft(LAMBDA acc, interval : acc + SizeBits(w, interval), 0, set)

\* Fault: the size subtracted is one short.
IndexStepShort(w, acc, interval) ==
    CASE acc.found # <<>> -> acc
      [] acc.so_far < SizeBits(w, interval) ->
            [acc EXCEPT !.found = <<acc.so_far + Lower(interval)>>]
      [] OTHER -> [acc EXCEPT !.so_far = @ - SizeBits(w, interval) + 1]

\* Index: the intervals are passed over until the rest of the index falls
\* into one.
IndexStep(w, acc, interval) ==
    CASE acc.found # <<>> -> acc
      [] acc.so_far < SizeBits(w, interval) ->
            [acc EXCEPT !.found = <<acc.so_far + Lower(interval)>>]
      [] OTHER -> [acc EXCEPT !.so_far = @ - SizeBits(w, interval)]

Index(w, set, index) ==
    FoldLeft(LAMBDA acc, interval : IndexStep(w, acc, interval),
             [so_far |-> index, found |-> <<>>], set).found

Covers(w, set, v) == \E i \in DOMAIN set : v \in Points(w, set[i])

\* IsPrecise holds of the empty set too.
IsPrecise(set) ==
    \A i, j \in DOMAIN set : set[i] = set[j] /\ Lower(set[i]) = Upper(set[i])

IsMaximal(w, set) ==
    \E i \in DOMAIN set : Add(w, Upper(set[i]), 1) = Lower(set[i])

----------------------------------------------------------------------------
(* Bounding the number of intervals of a set. *)

\* ReduceByMerging: the places of the smallest elements, all but desired_size
\* of them, the earlier one of equals first.
PlacesToMerge(elements, desired_size) ==
    LET order == SortSeq([i \in DOMAIN elements |-> <<elements[i], i>>], Before)
    IN  {order[k][2] : k \in 1 .. Len(elements) - desired_size}

\* The last interval merged with interval i: the gap after interval j is
\* element j, so a run of gaps from i to j joins intervals i to j + 1.
RunEnd(places, i) ==
    Max({j \in places : j >= i /\ i .. j \subseteq places}) + 1

\* MinimizeIntervals: intervals with the smallest gaps between them are
\* replaced by their convex hull until "size" are left.
MergeRuns(w, intervals, places) ==
    Normalize(w, intervals
      \o AsSequence({ConvexHull(intervals[i], intervals[RunEnd(places, i)]) :
                       i \in {j \in places : j - 1 \notin places}}))

MinimizeIntervals(w, set, size) ==
    LET gaps(intervals) == [i \in 1 .. Len(intervals) - 1 |->
                              Sub(w, Lower(intervals[i + 1]), Upper(intervals[i]))]
        minimized(intervals) ==
          IF Len(intervals) <= 1
          THEN intervals
          ELSE MergeRuns(w, intervals, PlacesToMerge(gaps(intervals), size - 1))
    IN  minimized(Normalize(w, set))

=============================================================================
