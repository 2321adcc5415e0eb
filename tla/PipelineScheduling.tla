------------------------- MODULE PipelineScheduling -------------------------
(***************************************************************************)
(* PipelineSchedule::Run (xls/scheduling/pipeline_schedule.cc) for a       *)
(* function: the clock period is fixed or found, the bounds constructed,   *)
(* and one of three strategies narrows them to a cycle per node.  ASAP     *)
(* takes the lower bounds.  RANDOM draws a cycle for one node after the    *)
(* other.  MIN_CUT (min_cut_scheduler.cc, function_partition.cc) cuts the  *)
(* nodes at one cycle boundary after the other, in several orders, and     *)
(* keeps the order with the fewest register bits.  The draw, and the       *)
(* choice among cuts of equal weight, are nondeterministic.                *)
(***************************************************************************)
EXTENDS ScheduleBounds

CONSTANT Options            \* the requests that are made

\* clock_period_ps and pipeline_stages are optional, 0 when absent.  percent is
\* clock_margin_percent with a clock period and period_relaxation_percent without.
ASSUME OptionsAssumption ==
    \A o \in Options :
        /\ o.strategy \in {"ASAP", "RANDOM", "MIN_CUT"}
        /\ o.clock_period_ps \in Nat /\ o.pipeline_stages \in Nat /\ o.percent \in Nat
        /\ o.clock_period_ps # 0 \/ o.pipeline_stages # 0
        /\ o.strategy = "ASAP" => o.pipeline_stages = 0

VARIABLES status,           \* "idle", the strategy that runs, "done" or "failed"
          request,          \* the options
          period,           \* the clock period after margin or relaxation
          bounds,           \* the bounds; those of the trial in MIN_CUT
          todo,             \* nodes to draw, or boundaries left to cut
          trials,           \* MIN_CUT: the start bounds, orders left, best so far
          cycle_map

scheduleVars == <<status, request, period, bounds, todo, trials, cycle_map>>

NoTrials == [start |-> <<>>, orders |-> <<>>, best |-> <<>>]

ScheduleInit ==
    /\ status = "idle" /\ request = <<>> /\ period = 0
    /\ bounds = <<>> /\ todo = <<>> /\ trials = NoTrials /\ cycle_map = <<>>

----------------------------------------------------------------------------
\* Percentages are rounded to the nearest integer.
Percent(value, percent) == (value * percent + 50) \div 100

WithMargin(p, percent) ==
    IF p - Percent(p, percent) <= 0 THEN NoPeriod ELSE p - Percent(p, percent)

Relaxed(p, percent) == IF p = NoPeriod THEN p ELSE p + Percent(p, percent)

ClockPeriod(o) ==
    IF o.clock_period_ps # 0 THEN WithMargin(o.clock_period_ps, o.percent)
    ELSE Relaxed(FindMinimumClockPeriod(o.pipeline_stages), o.percent)

\* Fault: the last cycle in place of the number of cycles.
ScheduleLengthShort(o, b) ==
    IF o.pipeline_stages # 0 THEN o.pipeline_stages ELSE b.max_lower_bound

ScheduleLength(o, b) ==
    IF o.pipeline_stages # 0 THEN o.pipeline_stages ELSE b.max_lower_bound + 1

----------------------------------------------------------------------------
(***************************************************************************)
(* Orders of the cycle boundaries.                                         *)
(***************************************************************************)
\* MiddleFirstOrder of first .. last, by the length of the interval.
MiddleFirstOrder(first, last) ==
    LET order[n \in 0..last - first, from \in 0..last] ==
            LET middle == (from + from + n) \div 2 IN
            IF n = 0 THEN <<from>>
            ELSE IF n = 1 THEN <<from, from + 1>>
            ELSE <<middle>> \o order[middle - 1 - from, from]
                            \o order[from + n - middle - 1, middle + 1]
    IN  order[last - first, first]

GetMinCutCycleOrders(length) ==
    LET forward == [i \in 1..length |-> i - 1] IN
    IF length <= 1 THEN <<forward>>
    ELSE IF length = 2 THEN <<forward, Reversed(forward)>>
    ELSE <<forward, Reversed(forward), MiddleFirstOrder(0, length - 1)>>

----------------------------------------------------------------------------
(***************************************************************************)
(* MinCostFunctionPartition: a cheapest cut through the partitionable      *)
(* nodes that no dependency crosses backwards.  Operands from outside are  *)
(* above the cut, users from outside below.  A node above it with a        *)
(* successor below it costs its width once, however many there are.        *)
(***************************************************************************)
CutCost(above, below) ==
    MapThenSumSet(LAMBDA n : Type[op[n]], {n \in above : users[n] \cap below # {}})

SourceSide(ns) == UNION {Range(operands[n]) : n \in ns} \ ns
SinkSide(ns)   == UNION {users[n] : n \in ns} \ (ns \cup SourceSide(ns))

\* What may lie above the cut.
Dicuts(ns) ==
    {first \in SUBSET ns :
        /\ \A n \in first : Range(operands[n]) \cap ns \subseteq first
        /\ \A n \in ns : op[n] = "param" => n \in first}

MinCostFunctionPartition(ns) ==
    LET cost(first) == CutCost(first \cup SourceSide(ns), (ns \ first) \cup SinkSide(ns))
    IN  {first \in Dicuts(ns) : \A other \in Dicuts(ns) : cost(first) <= cost(other)}

Partitionable(b, cycle) == {n \in nodes : b.lb[n] <= cycle /\ b.ub[n] >= cycle + 1}

CountInteriorPipelineRegisters(b) ==
    LET latest_use(n) == Max({b.lb[n]} \cup {b.lb[u] : u \in users[n]})
    IN  MapThenSumSet(LAMBDA n : Type[op[n]] * (latest_use(n) - b.lb[n]), nodes)

----------------------------------------------------------------------------
(***************************************************************************)
(* The checks at the end of Run.                                           *)
(***************************************************************************)
Verify(cycle) ==
    \A n \in nodes : n \in DOMAIN cycle /\ \A o \in Range(operands[n]) : cycle[o] <= cycle[n]

VerifyTiming(cycle, clock_period_ps) ==
    LET node_cp == FoldLeft(
            LAMBDA cp, n : [cp EXCEPT ![n] = delay(n) +
                MaxOf({cp[o] : o \in {a \in Range(operands[n]) : cycle[a] = cycle[n]}})],
            [n \in nodes |-> 0], TopoSort)
    IN  \A n \in nodes : node_cp[n] <= clock_period_ps

\* The constructor of PipelineSchedule checks that the length is enough.
LengthChecked(cycle) ==
    request.pipeline_stages # 0 => \A n \in nodes : cycle[n] < request.pipeline_stages

----------------------------------------------------------------------------
(***************************************************************************)
(* The steps.  An error status of any call ends Run.                       *)
(***************************************************************************)
Fail ==
    /\ status' = "failed"
    /\ bounds' = <<>> /\ todo' = <<>> /\ trials' = NoTrials /\ cycle_map' = <<>>

Finish(cycle) ==
    IF LengthChecked(cycle) /\ Verify(cycle) /\ VerifyTiming(cycle, period)
    THEN /\ status' = "done" /\ cycle_map' = cycle
         /\ bounds' = <<>> /\ todo' = <<>> /\ trials' = NoTrials
    ELSE Fail

\* The strategy starts from the period and the bounds.
StartFrom(o, p, b) ==
    LET orders == GetMinCutCycleOrders(ScheduleLength(o, b) - 1) IN
    /\ request' = o /\ period' = p
    /\ IF p = NoPeriod \/ ~b.ok THEN Fail
       ELSE /\ status' = o.strategy /\ bounds' = b /\ cycle_map' = <<>>
            /\ todo' = CASE o.strategy = "RANDOM"  -> TopoSort
                         [] o.strategy = "MIN_CUT" -> Head(orders)
                         [] o.strategy = "ASAP"    -> <<>>
            /\ trials' = IF o.strategy = "MIN_CUT"
                         THEN [start |-> b, orders |-> Tail(orders), best |-> <<>>]
                         ELSE NoTrials

StartWith(o, p) == StartFrom(o, p, ConstructBounds(p, o.pipeline_stages))

Start(o) == status = "idle" /\ StartWith(o, ClockPeriod(o))

Asap ==
    /\ status = "ASAP"
    /\ Finish(bounds.lb)
    /\ UNCHANGED <<request, period>>

\* The bounds once n is drawn for cycle.
Fixed(b, n, cycle) ==
    PropagateUpperBounds(TightenNodeUb(
        PropagateLowerBounds(TightenNodeLb(b, n, cycle), period), n, cycle), period)

\* The bounds b after the draw, unless they contradict each other.
Drawn(b, cycle) ==
    IF ~b.ok THEN Fail
    ELSE /\ bounds' = b
         /\ cycle_map' = (Head(todo) :> cycle) @@ cycle_map
         /\ todo' = Tail(todo)
         /\ UNCHANGED <<status, trials>>

Draw ==
    /\ status = "RANDOM"
    /\ IF todo = <<>> THEN Finish(cycle_map)
       ELSE \E cycle \in bounds.lb[Head(todo)]..bounds.ub[Head(todo)] :
                Drawn(Fixed(bounds, Head(todo), cycle), cycle)
    /\ UNCHANGED <<request, period>>

\* SplitAfterCycle and the two propagations.
Split(b, cycle, first) ==
    PropagateUpperBounds(PropagateLowerBounds(
        TightenLbs(TightenUbs(b, first, cycle),
                   Partitionable(b, cycle) \ first, cycle + 1), period), period)

WasCut(b) ==
    IF ~b.ok THEN Fail
    ELSE /\ bounds' = b /\ todo' = Tail(todo)
         /\ UNCHANGED <<status, trials, cycle_map>>

Cut ==
    /\ status = "MIN_CUT" /\ todo # <<>>
    /\ \E first \in MinCostFunctionPartition(Partitionable(bounds, Head(todo))) :
          WasCut(Split(bounds, Head(todo), first))
    /\ UNCHANGED <<request, period>>

\* The best of the trials so far, this one included.
Best ==
    LET trial == [lb |-> bounds.lb, registers |-> CountInteriorPipelineRegisters(bounds)]
    IN  IF trials.best = <<>> THEN trial
        ELSE IF trials.best.registers > trial.registers THEN trial
        ELSE trials.best

TrialEnd ==
    /\ status = "MIN_CUT" /\ todo = <<>>
    /\ IF bounds.lb # bounds.ub THEN Fail
       ELSE IF trials.orders = <<>> THEN Finish(Best.lb)
       ELSE /\ trials' = [trials EXCEPT !.best = Best, !.orders = Tail(@)]
            /\ bounds' = trials.start
            /\ todo' = Head(trials.orders)
            /\ UNCHANGED <<status, cycle_map>>
    /\ UNCHANGED <<request, period>>

----------------------------------------------------------------------------
(***************************************************************************)
(* What a schedule must be, independently of how it is found.              *)
(***************************************************************************)
\* When the value of each node is there, counted from the start of its cycle, along
\* dependencies of up to k steps.
Arrival(cycle) ==
    LET at[k \in 0..MaxNodes] ==
          IF k = 0 THEN [n \in nodes |-> delay(n)]
          ELSE [n \in nodes |-> delay(n) + MaxOf({at[k - 1][o] :
                  o \in {a \in Range(operands[n]) : cycle[a] = cycle[n]}})]
    IN  at[MaxNodes]

MeetsTiming(cycle, p) == LET at == Arrival(cycle) IN \A n \in nodes : at[n] <= p

InOrder(cycle) == \A n \in nodes : \A o \in Range(operands[n]) : cycle[o] <= cycle[n]

Schedules(p, length) ==
    {cycle \in [nodes -> 0..length - 1] :
        /\ InOrder(cycle)
        /\ \A n \in nodes : op[n] = "param" => cycle[n] = 0
        /\ op[return_value] # "param" => cycle[return_value] = length - 1
        /\ MeetsTiming(cycle, p)}

\* Some schedule does what is asked for.  Without a number of stages, no length up to
\* one stage per node is enough.
Feasible(p, length) ==
    IF length # 0 THEN Schedules(p, length) # {}
    ELSE \E l \in 1..Cardinality(nodes) : Schedules(p, l) # {}

\* The schedule that Run returns is one: it respects the dependencies, every path
\* within a stage meets the clock period, the parameters are in the first stage and
\* the return value in the last, for every draw and every choice of cuts.  A clock
\* period that was not given and is not relaxed is the shortest for which the stages
\* are enough.
ScheduleValid ==
    status = "done" =>
        LET length == IF request.pipeline_stages # 0 THEN request.pipeline_stages
                      ELSE Max({cycle_map[n] : n \in nodes}) + 1
        IN  /\ cycle_map \in Schedules(period, length)
            /\ request.clock_period_ps = 0 /\ request.percent = 0 /\ period > 0 =>
                  ~Feasible(period - 1, request.pipeline_stages)

\* Run fails only if no schedule exists.  In particular no draw and no cut of a
\* strategy runs into bounds that contradict each other, and no check at the end
\* fails, once the bounds could be constructed.
FailureMeansInfeasible ==
    status = "failed" =>
        \/ period # NoPeriod /\ ~Feasible(period, request.pipeline_stages)
        \/ period = NoPeriod /\ request.clock_period_ps # 0
=============================================================================
