--------------------------- MODULE ScheduleBounds ---------------------------
(***************************************************************************)
(* The earliest and latest cycle of every node of a function               *)
(* (xls/scheduling/schedule_bounds.cc), how the two are first computed,    *)
(* and the search for the shortest clock period that fits a number of      *)
(* stages (xls/scheduling/pipeline_schedule.cc, binary_search.cc).  The    *)
(* bounds are a record whose field ok turns FALSE at the first error       *)
(* status; the code returns there.  The rest of such a record is not used. *)
(***************************************************************************)
EXTENDS FunctionIr, FiniteSetsExt, TLC

CONSTANTS Delay,            \* GetOperationDelayInPs, by operation
          NoBound           \* stands for INT64_MAX, above every cycle

ASSUME DelayAssumption == Delay \in [Ops -> Nat] /\ NoBound \in Nat

\* GetOperationDelayInPs of DelayEstimatorWithInputDelay.  A function has no receives,
\* the one operation whose input delay it adds to what the delay model says.
delay(n) == Delay[op[n]]

MaxOf(S) == Max(S \cup {0})

FoldLeft(f(_, _), base, s) ==
    MapThenFoldSet(LAMBDA x, y : f(y, x), base, LAMBDA i : s[i], Max, DOMAIN s)

----------------------------------------------------------------------------
Reset ==
    [lb |-> [n \in nodes |-> 0], ub |-> [n \in nodes |-> NoBound],
     max_lower_bound |-> 0, ok |-> TRUE]

Failed(b) == [b EXCEPT !.ok = FALSE]

TightenNodeLb(b, n, value) ==
    IF ~b.ok \/ value > b.ub[n] THEN Failed(b)
    ELSE [b EXCEPT !.lb[n] = Max({@, value}), !.max_lower_bound = Max({@, value})]

TightenNodeUb(b, n, value) ==
    IF ~b.ok \/ value < b.lb[n] THEN Failed(b)
    ELSE [b EXCEPT !.ub[n] = Min({@, value})]

\* Tightens the upper bounds of all nodes of ns.
TightenUbs(b, ns, value) ==
    IF ~b.ok \/ \E n \in ns : value < b.lb[n] THEN Failed(b)
    ELSE [b EXCEPT !.ub = [n \in nodes |-> IF n \in ns THEN Min({@[n], value}) ELSE @[n]]]

TightenLbs(b, ns, value) ==
    IF ~b.ok \/ \E n \in ns : value > b.ub[n] THEN Failed(b)
    ELSE [b EXCEPT !.lb = [n \in nodes |-> IF n \in ns THEN Max({@[n], value}) ELSE @[n]],
                   !.max_lower_bound = IF ns = {} THEN @ ELSE Max({@, value})]

\* The bounds with the in-cycle delay at which each node starts (or, for the upper
\* bounds, from the end of the cycle).
Fresh(b) == [b |-> b, in_cycle |-> [n \in nodes |-> 0]]

\* The latest lower bound of n and its operands.
OperandBound(b, n) == Max({b.lb[n]} \cup {b.lb[o] : o \in Range(operands[n])})

\* When n can start in that cycle: after its operands of the cycle have finished.
StartInCycle(s, n, lb) ==
    MaxOf({s.in_cycle[o] + delay(o) : o \in {a \in Range(operands[n]) : s.b.lb[a] = lb}})

\* n follows its operands to lb, and moves on to the start of the next cycle if it
\* does not fit.
PlaceLower(s, n, lb, start, clock_period_ps) ==
    IF ~s.b.ok \/ delay(n) > clock_period_ps THEN [s EXCEPT !.b = Failed(@)]
    ELSE IF start + delay(n) <= clock_period_ps
    THEN [s EXCEPT !.b = TightenNodeLb(@, n, lb), !.in_cycle[n] = start]
    ELSE [s EXCEPT !.b = TightenNodeLb(TightenNodeLb(@, n, lb), n, lb + 1)]

LowerStep(s, n, clock_period_ps) ==
    LET lb == OperandBound(s.b, n)
    IN  PlaceLower(s, n, lb, StartInCycle(s, n, lb), clock_period_ps)

PropagateLowerBounds(b, clock_period_ps) ==
    FoldLeft(LAMBDA s, n : LowerStep(s, n, clock_period_ps), Fresh(b), TopoSort).b

\* The same over the users, from the end of the cycle backwards.
UserBound(b, n) == Min({b.ub[n]} \cup {b.ub[u] : u \in users[n]})

EndInCycle(s, n, ub) ==
    MaxOf({s.in_cycle[u] + delay(u) :
             u \in {v \in users[n] : s.b.ub[v] = ub /\ ub # NoBound}})

PlaceUpper(s, n, ub, end, clock_period_ps) ==
    IF ~s.b.ok \/ delay(n) > clock_period_ps THEN [s EXCEPT !.b = Failed(@)]
    ELSE IF end + delay(n) <= clock_period_ps
    THEN [s EXCEPT !.b = TightenNodeUb(@, n, ub), !.in_cycle[n] = end]
    ELSE [s EXCEPT !.b = TightenNodeUb(TightenNodeUb(@, n, ub), n, ub - 1)]

UpperStep(s, n, clock_period_ps) ==
    LET ub == UserBound(s.b, n)
    IN  PlaceUpper(s, n, ub, EndInCycle(s, n, ub), clock_period_ps)

PropagateUpperBounds(b, clock_period_ps) ==
    FoldLeft(LAMBDA s, n : UpperStep(s, n, clock_period_ps), Fresh(b),
             ReverseTopoSort).b

----------------------------------------------------------------------------
\* Fault: the parameters may be in any stage.
FirstStageNodesNone == {}

FirstStageNodes == {n \in nodes : op[n] = "param"}

FinalStageNodes == IF op[return_value] = "param" THEN {} ELSE {return_value}

\* The nodes of the final stage move to the last cycle, and their users after them.
FinalInLast(b, last, clock_period_ps) ==
    LET moved == {n \in FinalStageNodes : b.lb[n] # last} IN
    IF \E n \in moved : users[n] # {}
    THEN PropagateLowerBounds(TightenLbs(b, moved, last), clock_period_ps)
    ELSE TightenLbs(b, moved, last)

\* All nodes by the last cycle, the nodes of the first stage in the first.
SetUpperBounds(b, last, clock_period_ps) ==
    IF ~b.ok \/ b.max_lower_bound > last THEN Failed(b)
    ELSE PropagateUpperBounds(
            TightenUbs(TightenUbs(b, nodes, last), FirstStageNodes, 0), clock_period_ps)

WithinCycles(b, last, clock_period_ps) ==
    SetUpperBounds(FinalInLast(b, last, clock_period_ps), last, clock_period_ps)

\* The length is that of the lower bounds when none is asked for, which is 0 here.
WithinLength(b, clock_period_ps, schedule_length) ==
    IF ~b.ok \/ schedule_length \in 1..b.max_lower_bound THEN Failed(b)
    ELSE WithinCycles(b, IF schedule_length = 0 THEN b.max_lower_bound
                         ELSE schedule_length - 1, clock_period_ps)

ConstructBounds(clock_period_ps, schedule_length) ==
    WithinLength(PropagateLowerBounds(Reset, clock_period_ps),
                 clock_period_ps, schedule_length)

ComputeCriticalPath ==
    LET cp == FoldLeft(
                LAMBDA at, n : [at EXCEPT ![n] =
                    delay(n) + MaxOf({at[o] : o \in Range(operands[n])})],
                [n \in nodes |-> 0], TopoSort)
    IN  MaxOf({cp[n] : n \in nodes})

\* The loop of BinarySearchMinTrueWithStatus, in at most as many turns as the
\* interval is long.
BinarySearch(start, end, f) ==
    LET halve[i \in 0..end - start] ==
            IF i = 0 THEN [highest_false |-> start, lowest_true |-> end]
            ELSE LET s == halve[i - 1]
                     middle == s.highest_false + (s.lowest_true - s.highest_false) \div 2
                 IN  IF s.highest_false >= s.lowest_true - 1 THEN s
                     ELSE IF f[middle] THEN [s EXCEPT !.lowest_true = middle]
                     ELSE [s EXCEPT !.highest_false = middle]
    IN  halve[end - start].lowest_true

NoPeriod == -1              \* an error status in place of a period

BinarySearchMinTrue(start, end, f) ==
    IF start > end \/ ~f[end] THEN NoPeriod
    ELSE IF f[start] THEN start
    ELSE BinarySearch(start, end, f)

\* The critical path evenly distributed over the stages, rounded up.
search_start(cp, pipeline_stages) == (cp + pipeline_stages - 1) \div pipeline_stages

FitsStages(b, pipeline_stages) == b.ok /\ b.max_lower_bound < pipeline_stages

SearchPeriod(cp, pipeline_stages) ==
    LET fits == [p \in 0..cp |-> FitsStages(ConstructBounds(p, 0), pipeline_stages)]
    IN  BinarySearchMinTrue(search_start(cp, pipeline_stages), cp, fits)

FindMinimumClockPeriod(pipeline_stages) ==
    SearchPeriod(ComputeCriticalPath, pipeline_stages)
=============================================================================
