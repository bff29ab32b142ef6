------------------------------- MODULE PGain -------------------------------
(***************************************************************************)
(* pgain and pFL of streamcluster: local search for cheaper centers.       *)
(* pgain(x) asks whether a center at x would pay: every point nearer to x  *)
(* than to its center would switch, and a center whose other members would *)
(* cost less than z more at x would close.  The threads add up what each   *)
(* closing saves in the columns of work_mem, a row per thread, at a column *)
(* per center; the table of columns is built by counting, a prefix sum and *)
(* counting on.  If opening x pays, everybody carries it out.              *)
(***************************************************************************)
EXTENDS Facility, Sequences

CONSTANTS Iter,       \* calls of pgain in a pass of pFL: ITER * kmax * log(kmax)
          MaxFeasible \* room for feasible centers: ITER * kmin * log(kmin)

VARIABLES is_center, center_table, switch_membership, work_mem, gl_lower,
          gl_cost_of_opening_x, gl_number_of_centers_to_close,
          feasible

gainVars == <<is_center, center_table, switch_membership, work_mem, gl_lower,
              gl_cost_of_opening_x, gl_number_of_centers_to_close, feasible>>

columns == 0..num+1
emptyRow == [c \in columns |-> 0]

gainInit ==
  /\ is_center = [j \in indices |-> FALSE]
  /\ center_table = [j \in indices |-> 0]
  /\ switch_membership = [j \in indices |-> FALSE]
  /\ work_mem = [p \in pids |-> emptyRow]
  /\ gl_lower = emptyRow
  /\ gl_cost_of_opening_x = 0 /\ gl_number_of_centers_to_close = 0
  /\ feasible = <<>>

\* The point a thread considers, and its centers.
x(t) == feasible[(my[t].i % Len(feasible)) + 1]
Mine(t) == {j \in Block(t) : is_center[j]}

pointVars == <<point, assign, cost, k>>

-----------------------------------------------------------------------------
\* pFL is called; the next pass follows when the last one gained enough.
Search(t) ==
  /\ at[t] = "pFL"
  /\ my' = [my EXCEPT ![t].change = my[t].cost]
  /\ ReachBarrier(t, "pass")
  /\ UNCHANGED <<pointVars, gainVars>>

GainedEnough(t) == my[t].change * my[t].e > my[t].cost

Pass(t) ==
  /\ at[t] = "pass" /\ Released(t)
  /\ \/ /\ GainedEnough(t)
        /\ my' = [my EXCEPT ![t].change = 0, ![t].i = 0]
        /\ IF t = 0
             THEN \E f \in Bijection(1..Len(feasible), 1..Len(feasible)) :
                     feasible' = [j \in 1..Len(feasible) |-> feasible[f[j]]]
             ELSE UNCHANGED feasible
        /\ ReachBarrier(t, "pgain")
     \/ /\ ~GainedEnough(t)
        /\ GoOn(t, "found")
        /\ UNCHANGED <<my, feasible>>
  /\ UNCHANGED <<pointVars, is_center, center_table, switch_membership,
                 work_mem, gl_lower, gl_cost_of_opening_x,
                 gl_number_of_centers_to_close>>

-----------------------------------------------------------------------------
(* pgain, from barrier to barrier. *)
EnterGain(t) ==
  /\ at[t] = "pgain" /\ Released(t)
  /\ ReachBarrier(t, "allocate")
  /\ UNCHANGED <<pointVars, my, gainVars>>

Allocate(t) ==
  /\ at[t] = "allocate" /\ Released(t)
  /\ my' = [my EXCEPT ![t].K = k]
  /\ IF t = 0
       THEN gl_cost_of_opening_x' = 0 /\ gl_number_of_centers_to_close' = 0
       ELSE UNCHANGED <<gl_cost_of_opening_x, gl_number_of_centers_to_close>>
  /\ ReachBarrier(t, "count")
  /\ UNCHANGED <<pointVars, is_center, center_table, switch_membership,
                 work_mem, gl_lower, feasible>>

\* Number the centers of the block from zero.
Count(t) ==
  /\ at[t] = "count" /\ Released(t)
  /\ center_table' = [j \in indices |->
       IF j \in Mine(t) THEN Cardinality({m \in Mine(t) : m < j}) ELSE center_table[j]]
  /\ work_mem' = [work_mem EXCEPT ![t][0] = Cardinality(Mine(t))]
  /\ ReachBarrier(t, "prefix")
  /\ UNCHANGED <<pointVars, my, is_center, switch_membership, gl_lower,
                 gl_cost_of_opening_x, gl_number_of_centers_to_close, feasible>>

\* Thread 0: the number of centers in the blocks before each.
Prefix(t) ==
  /\ at[t] = "prefix" /\ Released(t)
  /\ work_mem' = IF t = 0
       THEN [p \in pids |-> [work_mem[p] EXCEPT ![0] =
               SumFunction([q \in 0..p-1 |-> work_mem[q][0]])]]
       ELSE work_mem
  /\ ReachBarrier(t, "table")
  /\ UNCHANGED <<pointVars, my, is_center, center_table, switch_membership,
                 gl_lower, gl_cost_of_opening_x, gl_number_of_centers_to_close,
                 feasible>>

Table(t) ==
  /\ at[t] = "table" /\ Released(t)
  /\ center_table' = [j \in indices |->
       IF j \in Mine(t) THEN center_table[j] + work_mem[t][0] ELSE center_table[j]]
  /\ switch_membership' = [j \in indices |-> j \notin Block(t) /\ switch_membership[j]]
  /\ work_mem' = [work_mem EXCEPT ![t] = emptyRow]
  /\ gl_lower' = IF t = 0 THEN emptyRow ELSE gl_lower
  /\ ReachBarrier(t, "lower")
  /\ UNCHANGED <<pointVars, my, is_center, gl_cost_of_opening_x,
                 gl_number_of_centers_to_close, feasible>>

\* Who is nearer to x would switch; the others bear on the closing of a center.
Switching(t) == {j \in Block(t) : CostAt(j, x(t)) < cost[j]}

Saving(t, c) ==
  SumFunction([j \in {j \in Block(t) \ Switching(t) : center_table[assign[j]] = c} |->
                 cost[j] - CostAt(j, x(t))])

Lower(t) ==
  /\ at[t] = "lower" /\ Released(t)
  /\ switch_membership' = [j \in indices |->
       j \in Switching(t) \/ switch_membership[j]]
  /\ my' = [my EXCEPT ![t].opening =
       SumFunction([j \in Switching(t) |-> CostAt(j, x(t)) - cost[j]])]
  /\ work_mem' = [work_mem EXCEPT ![t] = [c \in columns |-> @[c] + Saving(t, c)]]
  /\ ReachBarrier(t, "closing")
  /\ UNCHANGED <<pointVars, is_center, center_table, gl_lower,
                 gl_cost_of_opening_x, gl_number_of_centers_to_close, feasible>>

\* What closing the center j saves: all rows of its column, and z.
Low(t, j) ==
  my[t].z + SumFunction([p \in pids |-> work_mem[p][center_table[j]]])

Closed(t) == {j \in Mine(t) : Low(t, j) > 0}

Closing(t) ==
  /\ at[t] = "closing" /\ Released(t)
  /\ gl_lower' = [c \in columns |->
       IF \E j \in Mine(t) : center_table[j] = c
         THEN Low(t, CHOOSE j \in Mine(t) : center_table[j] = c) ELSE gl_lower[c]]
  /\ work_mem' = [work_mem EXCEPT
       ![t][my[t].K] = Cardinality(Closed(t)),
       ![t][my[t].K + 1] =
          my[t].opening - SumFunction([j \in Closed(t) |-> Low(t, j)])]
  /\ my' = [my EXCEPT ![t].opening = 0]
  /\ ReachBarrier(t, "aggregate")
  /\ UNCHANGED <<pointVars, is_center, center_table, switch_membership,
                 gl_cost_of_opening_x, gl_number_of_centers_to_close, feasible>>

Aggregate(t) ==
  /\ at[t] = "aggregate" /\ Released(t)
  /\ IF t = 0
       THEN /\ gl_number_of_centers_to_close' = gl_number_of_centers_to_close +
                 SumFunction([p \in pids |-> work_mem[p][my[t].K]])
            /\ gl_cost_of_opening_x' = my[t].z +
                 SumFunction([p \in pids |-> work_mem[p][my[t].K + 1]])
       ELSE UNCHANGED <<gl_cost_of_opening_x, gl_number_of_centers_to_close>>
  /\ ReachBarrier(t, "apply")
  /\ UNCHANGED <<pointVars, my, is_center, center_table, switch_membership,
                 work_mem, gl_lower, feasible>>

\* Opening x pays: carry it out for the block.
Opens == gl_cost_of_opening_x < 0

\* Faulty variant: a thread moves the members of a center by its own savings.
MovingByOwn(t) ==
  {j \in Block(t) : switch_membership[j] \/ work_mem[t][center_table[assign[j]]] > 0}

Moving(t) ==
  {j \in Block(t) : switch_membership[j] \/ gl_lower[center_table[assign[j]]] > 0}

Carry(t) ==
  /\ Opens
  /\ cost' = [j \in indices |-> IF j \in Moving(t) THEN CostAt(j, x(t)) ELSE cost[j]]
  /\ assign' = [j \in indices |-> IF j \in Moving(t) THEN x(t) ELSE assign[j]]
  /\ is_center' = [j \in indices |->
       IF j \in Block(t)
         THEN j = x(t) \/ (is_center[j] /\ gl_lower[center_table[j]] <= 0)
         ELSE is_center[j]]
  /\ k' = IF t = 0 THEN k + 1 - gl_number_of_centers_to_close ELSE k
  /\ UNCHANGED gl_cost_of_opening_x

\* The value of a center that would not pay is none.
LeaveAsIs(t) ==
  /\ ~Opens
  /\ gl_cost_of_opening_x' = IF t = 0 THEN 0 ELSE gl_cost_of_opening_x
  /\ UNCHANGED <<assign, cost, is_center, k>>

Apply(t) ==
  /\ at[t] = "apply" /\ Released(t)
  /\ Carry(t) \/ LeaveAsIs(t)
  /\ ReachBarrier(t, "gained")
  /\ UNCHANGED <<point, my, center_table, switch_membership, work_mem, gl_lower,
                 gl_number_of_centers_to_close, feasible>>

(* pgain returns; pFL adds up the gains and calls it again, or ends the pass *)
(* and takes them off the cost.                                              *)
Gained(t) ==
  /\ at[t] = "gained" /\ Released(t)
  /\ LET gain == my[t].change - gl_cost_of_opening_x IN
     IF my[t].i + 1 < Iter
       THEN /\ my' = [my EXCEPT ![t].change = gain, ![t].i = @ + 1]
            /\ ReachBarrier(t, "allocate")
       ELSE /\ my' = [my EXCEPT ![t].change = gain, ![t].i = 0, ![t].cost = @ - gain]
            /\ ReachBarrier(t, "pass")
  /\ work_mem' = IF t = 0 THEN [p \in pids |-> emptyRow] ELSE work_mem
  /\ UNCHANGED <<pointVars, is_center, center_table, switch_membership,
                 gl_lower, gl_cost_of_opening_x, gl_number_of_centers_to_close,
                 feasible>>

pFL(t) ==
  \/ Search(t) \/ Pass(t)
  \/ EnterGain(t) \/ Allocate(t) \/ Count(t) \/ Prefix(t) \/ Table(t) \/ Lower(t)
  \/ Closing(t) \/ Aggregate(t) \/ Apply(t) \/ Gained(t)
=============================================================================
