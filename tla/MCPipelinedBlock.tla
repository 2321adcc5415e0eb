-------------------------- MODULE MCPipelinedBlock --------------------------
(* Small procs for PipelinedBlock, with every kind of port buffer.         *)
EXTENDS PipelinedBlock, TLC

(* The proc alternates between two states.  It receives on a in both.      *)
Proc(last, in_stage, b_when, out_stage, x_when, y_when) ==
  [last_stage |-> last,
   states     |-> {0, 1},
   init       |-> 0,
   next       |-> (0 :> 1 @@ 1 :> 0),
   in_stage   |-> in_stage,
   in_when    |-> ("a" :> {0, 1} @@ "b" :> b_when),
   out_stage  |-> out_stage,
   out_when   |-> ("x" :> x_when @@ "y" :> y_when)]

MCIns == {"a", "b"}
MCOuts == {"x", "y"}

(* Receives and sends in both stages of two.                               *)
Spread == Proc(1, "a" :> 0 @@ "b" :> 1, {1}, "x" :> 0 @@ "y" :> 1,
               {0, 1}, {0, 1})

(* Both sends in the middle stage of three, a receive after them.          *)
Middle == Proc(2, "a" :> 0 @@ "b" :> 2, {0}, "x" :> 1 @@ "y" :> 1,
               {0, 1}, {0})

(* One stage, and sends of which never two are active: no one-shot logic.  *)
Exclusive == Proc(0, "a" :> 0 @@ "b" :> 0, {1}, "x" :> 0 @@ "y" :> 0,
                  {0}, {1})

WithOptions(proc, in, out, reset_data) ==
  proc @@ [flop_inputs_kind |-> in, flop_outputs_kind |-> out,
           reset_data_path |-> reset_data]

(* Equal kinds on both sides, and each kind with another.                  *)
Equal == {<<kind, kind>> : kind \in IOKind}
Mixed == {<<"none", "flop">>, <<"flop", "zero_latency">>,
          <<"skid", "none">>, <<"zero_latency", "skid">>}

MCBlocks ==
  {WithOptions(Spread, pair[1], pair[2], pair \in Mixed) :
     pair \in Mixed \union Equal}
    \union
  {WithOptions(proc, pair[1], pair[2], pair[1] = "none") :
     proc \in {Middle, Exclusive}, pair \in Mixed}
============================================================================
