---------------------------- MODULE PhasesProofs ----------------------------
(***************************************************************************)
(* Proofs about the PARSEC barrier, for any finite set of threads, any size*)
(* of a round up to their number and any bound on the calls, and about     *)
(* streamcluster's loop over the stream, for any length of the stream, size*)
(* of a chunk and number of centers a search may find.                     *)
(***************************************************************************)
EXTENDS ParsecBarrier, StreamChunks, SumProofs, SequenceTheorems

-----------------------------------------------------------------------------
(***************************************************************************)
(* The PARSEC barrier.                                                     *)
(***************************************************************************)

Inside == {t \in Threads : round[t] # 0}

\* k rounds are complete.  While threads arrive the next one is open; while they
\* leave, all who are inside belong to the last one.
RoundsAre(k) ==
  /\ is_arrival_phase =>
       /\ entered = k * max + n /\ n < max
       /\ \A t \in Threads : round[t] \in {0, k + 1}
  /\ ~is_arrival_phase =>
       /\ entered = k * max /\ n > 0 /\ n < max
       /\ \A t \in Threads : round[t] \in {0, k}

BInv ==
  /\ BarrierTypeOK
  /\ \A t \in Threads : round[t] # 0 <=> pc[t] \in Departs
  /\ n = Cardinality(Inside)
  /\ \E k \in Nat : RoundsAre(k)

-----------------------------------------------------------------------------
LEMMA Multiples ==
  ASSUME NEW m \in Nat \ {0}, NEW k \in Nat, NEW x \in 0..(m - 1)
  PROVE  /\ (k * m + x) \div m = k
         /\ (k * m + m) % m = 0
<1>1. k * m + x \in Nat /\ k * m + m = (k + 1) * m /\ k * m + m \in Nat
  OBVIOUS
<1>2. (k * m + x) \div m = k
  BY <1>1
<1>3. ((k + 1) * m) \div m = k + 1
  OBVIOUS
<1>4. ((k + 1) * m) % m = 0
  BY <1>1, <1>3
<1> QED
  BY <1>1, <1>2, <1>4

LEMMA Constants == max \in Nat \ {0} /\ MaxRounds \in Nat
<1>1. Cardinality(Threads) \in Nat
  BY ParsecBarrierAssumption, FS_CardinalityType
<1>2. max \in Nat \ {0} /\ Cardinality(Threads) * MaxCalls \in Nat
  BY <1>1, ParsecBarrierAssumption
<1> QED
  BY <1>2 DEF MaxRounds

\* What the number inside does when a thread is counted in or out.
LEMMA InsideChanges ==
  ASSUME NEW S \in SUBSET Threads, NEW t \in Threads
  PROVE  /\ Cardinality(S) \in Nat
         /\ t \notin S => Cardinality(S \cup {t}) = Cardinality(S) + 1
         /\ t \in S => Cardinality(S \ {t}) = Cardinality(S) - 1
         /\ Cardinality(S) = 0 <=> S = {}
<1>1. IsFiniteSet(S)
  BY ParsecBarrierAssumption, FS_Subset
<1> QED
  BY <1>1, FS_CardinalityType, FS_AddElement, FS_RemoveElement, FS_EmptySet

\* Who is inside while threads arrive waits for them.
LEMMA CountInIs ==
  ASSUME BInv, NEW t \in Threads, pc[t] \notin Departs, CountIn(t),
         calls' \in [Threads -> 0..MaxCalls]
  PROVE  BInv' /\ (Rounds!Enter(t) \/ Rounds!Complete(t))
<1>1. PICK k \in Nat : RoundsAre(k)
  BY DEF BInv
<1>2. /\ is_arrival_phase /\ entered = k * max + n /\ n \in 0..(max - 1)
      /\ round \in [Threads -> Nat] /\ round[t] = 0
      /\ entered' = entered + 1 /\ entered' \in Nat
  <2>1. is_arrival_phase /\ entered' = entered + 1
    BY DEF CountIn, ArrivalOpen
  <2>2. round \in [Threads -> Nat] /\ round[t] = 0 /\ n \in Nat /\ entered \in Nat
    BY Constants DEF BInv, BarrierTypeOK
  <2>3. entered = k * max + n /\ n < max
    BY <1>1, <2>1 DEF RoundsAre
  <2> QED
    BY <2>1, <2>2, <2>3, Constants
<1>3. entered \div max = k
  BY <1>2, Multiples, Constants
<1>4. serial' \in [1..MaxRounds -> SUBSET Threads]
  BY DEF CountIn, BInv, BarrierTypeOK
<1>5. CASE ArriveAndWait(t)
  <2>1. /\ n + 1 < max /\ n' = n + 1 /\ is_arrival_phase'
        /\ round' = [round EXCEPT ![t] = k + 1]
        /\ pc' = [pc EXCEPT ![t] = "pollDepart"]
    BY <1>2, <1>3, <1>5 DEF ArriveAndWait, GoTo
  <2>2. BarrierTypeOK'
    <3>1. n' \in 0..max /\ k + 1 \in Nat
      BY <1>2, <2>1, Constants
    <3>2. round' \in [Threads -> Nat]
      BY <1>2, <2>1, <3>1
    <3>3. pc' \in [Threads -> {"out"} \cup Polls \cup Blocks]
      BY <2>1 DEF BInv, BarrierTypeOK, Polls
    <3> QED
      BY <1>2, <1>4, <2>1, <3>1, <3>2, <3>3 DEF BarrierTypeOK
  <2>3. \A u \in Threads : round'[u] # 0 <=> pc'[u] \in Departs
    BY <1>2, <2>1 DEF BInv, BarrierTypeOK, Departs
  <2>4. Inside' = Inside \cup {t} /\ t \notin Inside
    BY <1>2, <2>1 DEF Inside
  <2>5. n' = Cardinality(Inside')
    BY <2>1, <2>4, InsideChanges DEF BInv, Inside
  <2>6. RoundsAre(k)'
    <3>1. \A u \in Threads : round'[u] \in {0, k + 1}
      BY <1>1, <1>2, <2>1 DEF RoundsAre
    <3>2. entered' = k * max + n'
      BY <1>2, <2>1, Constants
    <3> QED
      BY <2>1, <3>1, <3>2, Constants, <1>2 DEF RoundsAre
  <2>7. Rounds!Enter(t)
    BY <1>2, <1>3, <2>1 DEF Rounds!Enter
  <2> QED
    BY <2>2, <2>3, <2>5, <2>6, <2>7 DEF BInv
<1>6. CASE ArriveLast(t)
  <2>1. /\ n + 1 = max /\ n' = n /\ is_arrival_phase' = (n = 0)
        /\ pc' = [u \in Threads |-> IF u = t THEN "out" ELSE Awake(u)]
        /\ round' = round
    BY <1>2, <1>6, Constants DEF ArriveLast, BroadcastAndGoTo
  <2>2. \A u \in Threads : pc[u] \in {"out"} \cup Polls \cup Blocks
    BY DEF BInv, BarrierTypeOK
  <2>3. BarrierTypeOK'
    BY <1>2, <1>4, <2>1, <2>2, Constants DEF BInv, BarrierTypeOK, Polls, Blocks, Awake
  <2>4. \A u \in Threads : round'[u] # 0 <=> pc'[u] \in Departs
    BY <1>2, <2>1, <2>2 DEF BInv, Departs, Awake, Polls, Blocks
  <2>5. n' = Cardinality(Inside')
    BY <2>1 DEF BInv, Inside
  <2>6. entered' = (k + 1) * max /\ k + 1 \in Nat
    BY <1>2, <2>1, Constants
  <2>7. n = 0 => \A u \in Threads : round'[u] = 0
    <3>1. ASSUME n = 0 PROVE Inside = {}
      <4>1. Inside \subseteq Threads /\ Cardinality(Inside) = 0
        BY <3>1 DEF Inside, BInv
      <4> QED
        BY <4>1, InsideChanges
    <3> QED
      BY <2>1, <3>1 DEF Inside
  <2>8. RoundsAre(k + 1)'
    <3>1. CASE n = 0
      <4>1. entered' = (k + 1) * max + n' /\ n' < max
        BY <2>1, <2>6, <3>1, Constants
      <4>2. is_arrival_phase'
        BY <2>1, <3>1
      <4> QED
        BY <2>7, <3>1, <4>1, <4>2 DEF RoundsAre
    <3>2. CASE n # 0
      <4>1. \A u \in Threads : round'[u] \in {0, k + 1}
        BY <1>1, <1>2, <2>1 DEF RoundsAre
      <4>2. n' > 0 /\ n' < max
        BY <1>2, <2>1, <3>2, Constants
      <4>3. ~is_arrival_phase'
        BY <2>1, <3>2
      <4> QED
        BY <2>6, <4>1, <4>2, <4>3 DEF RoundsAre
    <3> QED
      BY <3>1, <3>2
  <2>9. (entered + 1) % max = 0
    BY <1>2, <2>1, Multiples, Constants
  <2>10. Rounds!Complete(t)
    BY <1>2, <2>1, <2>9 DEF Rounds!Complete
  <2> QED
    BY <2>3, <2>4, <2>5, <2>6, <2>8, <2>10 DEF BInv
<1> QED
  BY <1>5, <1>6 DEF CountIn

LEMMA CountOutIs ==
  ASSUME BInv, NEW t \in Threads, pc[t] = "pollDepart", ~is_arrival_phase,
         CountOut(t, n), UNCHANGED <<calls, entered, serial>>
  PROVE  BInv' /\ Rounds!Leave(t)
<1>1. PICK k \in Nat : RoundsAre(k)
  BY DEF BInv
<1>2. /\ entered = k * max /\ n \in 1..(max - 1) /\ round \in [Threads -> Nat]
      /\ round[t] = k /\ round[t] # 0
      /\ n' = n - 1 /\ is_arrival_phase' = (n = 1)
      /\ round' = [round EXCEPT ![t] = 0]
  BY <1>1, Constants DEF RoundsAre, BInv, BarrierTypeOK, Departs, CountOut
<1>3. \A u \in Threads : pc[u] \in {"out"} \cup Polls \cup Blocks
  BY DEF BInv, BarrierTypeOK
<1>4. /\ pc' \in [Threads -> {"out"} \cup Polls \cup Blocks]
      /\ pc'[t] = "out"
      /\ \A u \in Threads \ {t} : pc'[u] \in Departs <=> pc[u] \in Departs
  <2>1. CASE n = 1
    BY <1>3, <2>1 DEF CountOut, BroadcastAndGoTo, Awake, Departs, Polls, Blocks
  <2>2. CASE n # 1
    BY <1>3, <2>2 DEF CountOut, GoTo, BInv, BarrierTypeOK
  <2> QED
    BY <2>1, <2>2
<1>5. BarrierTypeOK'
  <2>1. n' \in 0..max /\ is_arrival_phase' \in BOOLEAN
    BY <1>2, Constants
  <2>2. round' \in [Threads -> Nat]
    BY <1>2
  <2> QED
    BY <1>4, <2>1, <2>2 DEF BInv, BarrierTypeOK
<1>6. \A u \in Threads : round'[u] # 0 <=> pc'[u] \in Departs
  BY <1>2, <1>4 DEF BInv, Departs
<1>7. Inside' = Inside \ {t} /\ t \in Inside
  BY <1>2 DEF Inside
<1>8. n' = Cardinality(Inside')
  BY <1>2, <1>7, InsideChanges DEF BInv, Inside
<1>9. n = 1 => \A u \in Threads : round'[u] = 0
  <2>1. ASSUME n = 1 PROVE Inside' = {}
    <3>1. Inside' \subseteq Threads /\ Cardinality(Inside') = 0
      BY <1>2, <1>8, <2>1 DEF Inside
    <3> QED
      BY <3>1, InsideChanges
  <2> QED
    BY <2>1 DEF Inside
<1>10. RoundsAre(k)'
  <2>1. CASE n = 1
    <3>1. entered' = k * max + n' /\ n' < max
      BY <1>2, <2>1, Constants
    <3>2. is_arrival_phase'
      BY <1>2, <2>1
    <3> QED
      BY <1>9, <2>1, <3>1, <3>2 DEF RoundsAre
  <2>2. CASE n # 1
    <3>1. \A u \in Threads : round'[u] \in {0, k}
      BY <1>1, <1>2 DEF RoundsAre
    <3>2. n' > 0 /\ n' < max /\ entered' = k * max
      BY <1>2, <2>2, Constants
    <3>3. ~is_arrival_phase'
      BY <1>2, <2>2
    <3> QED
      BY <3>1, <3>2, <3>3 DEF RoundsAre
  <2> QED
    BY <2>1, <2>2
<1>11. Rounds!Leave(t)
  BY <1>2, Constants DEF Rounds!Leave
<1> QED
  BY <1>5, <1>6, <1>8, <1>10, <1>11 DEF BInv

\* A step that only moves a thread between polling and blocking.
LEMMA MoveIs ==
  ASSUME BInv, NEW t \in Threads, NEW place \in {"out"} \cup Polls \cup Blocks,
         GoTo(t, place), place \in Departs <=> pc[t] \in Departs,
         calls' \in [Threads -> 0..MaxCalls],
         UNCHANGED <<n, is_arrival_phase, entered, round, serial>>
  PROVE  BInv' /\ UNCHANGED Rounds!vars
<1>1. pc' \in [Threads -> {"out"} \cup Polls \cup Blocks]
      /\ \A u \in Threads : pc'[u] \in Departs <=> pc[u] \in Departs
  BY DEF GoTo, BInv, BarrierTypeOK
<1>2. BarrierTypeOK' /\ Inside' = Inside
  BY <1>1 DEF BInv, BarrierTypeOK, Inside
<1>3. \A k \in Nat : RoundsAre(k) => RoundsAre(k)'
  BY DEF RoundsAre
<1> QED
  BY <1>1, <1>2, <1>3 DEF BInv, Rounds!vars

LEMMA StepIs ==
  ASSUME BInv, [BarrierNext]_barrierVars
  PROVE  BInv' /\ [Rounds!Next]_(Rounds!vars)
<1> USE DEF Polls, Blocks, Departs
<1>1. ASSUME NEW t \in Threads, parsec_barrier_wait(t)
      PROVE  BInv' /\ [Rounds!Next]_(Rounds!vars)
  <2>1. calls' \in [Threads -> 0..MaxCalls] /\ pc[t] = "out"
    BY <1>1, ParsecBarrierAssumption DEF parsec_barrier_wait, BInv, BarrierTypeOK
  <2>2. CASE CountIn(t)
    BY <2>1, <2>2, CountInIs DEF Rounds!Next
  <2>3. CASE ~ArrivalOpen /\ GoTo(t, "pollArrive")
             /\ UNCHANGED <<n, is_arrival_phase, entered, round, serial>>
    BY <2>1, <2>3, MoveIs
  <2> QED
    BY <1>1, <2>2, <2>3 DEF parsec_barrier_wait
<1>2. ASSUME NEW t \in Threads, Arrive(t)
      PROVE  BInv' /\ [Rounds!Next]_(Rounds!vars)
  <2>1. calls' \in [Threads -> 0..MaxCalls] /\ pc[t] = "pollArrive"
    BY <1>2 DEF Arrive, BInv, BarrierTypeOK
  <2>2. CASE CountIn(t)
    BY <2>1, <2>2, CountInIs DEF Rounds!Next
  <2>3. CASE ~ArrivalOpen /\ GoTo(t, "blockArrive")
             /\ UNCHANGED <<n, is_arrival_phase, entered, round, serial>>
    BY <2>1, <2>3, MoveIs
  <2> QED
    BY <1>2, <2>2, <2>3 DEF Arrive
<1>3. ASSUME NEW t \in Threads, Depart(t)
      PROVE  BInv' /\ [Rounds!Next]_(Rounds!vars)
  <2>1. calls' \in [Threads -> 0..MaxCalls] /\ pc[t] = "pollDepart"
        /\ UNCHANGED <<calls, entered, serial>>
    BY <1>3 DEF Depart, BInv, BarrierTypeOK
  <2>2. CASE ~is_arrival_phase /\ CountOut(t, n)
    BY <2>1, <2>2, CountOutIs DEF Rounds!Next
  <2>3. CASE GoTo(t, "blockDepart") /\ UNCHANGED <<n, is_arrival_phase, round>>
    BY <2>1, <2>3, MoveIs
  <2> QED
    BY <1>3, <2>2, <2>3 DEF Depart
<1>4. ASSUME NEW t \in Threads, WakeSpuriously(t)
      PROVE  BInv' /\ [Rounds!Next]_(Rounds!vars)
  <2>1. calls' \in [Threads -> 0..MaxCalls]
    BY <1>4 DEF WakeSpuriously, BInv, BarrierTypeOK
  <2> QED
    BY <1>4, <2>1, MoveIs DEF WakeSpuriously, Awake
<1>5. CASE UNCHANGED barrierVars
  BY <1>5 DEF barrierVars, BInv, BarrierTypeOK, Inside, RoundsAre, Rounds!vars
<1> QED
  BY <1>1, <1>2, <1>3, <1>4, <1>5 DEF BarrierNext

LEMMA InitIs == parsec_barrier_init => BInv /\ Rounds!Init
<1> SUFFICES ASSUME parsec_barrier_init PROVE BInv /\ Rounds!Init
  OBVIOUS
<1> USE DEF parsec_barrier_init
<1>1. BarrierTypeOK
  BY Constants, ParsecBarrierAssumption DEF BarrierTypeOK
<1>2. n = Cardinality(Inside)
  BY FS_EmptySet DEF Inside
<1>3. RoundsAre(0)
  BY Constants DEF RoundsAre
<1> QED
  BY <1>1, <1>2, <1>3 DEF BInv, Departs, Rounds!Init

LEMMA BarrierInvariance == BarrierSpec => []BInv
BY InitIs, StepIs, PTL DEF BarrierSpec

\* The barrier keeps its rounds apart: it implements the abstract barrier.
THEOREM BarrierImplementsRounds == BarrierSpec => ImplementsRounds
BY InitIs, StepIs, BarrierInvariance, PTL DEF BarrierSpec, ImplementsRounds, Rounds!Spec

-----------------------------------------------------------------------------
\* The first thread of a round is its serial thread; the others are not.
LEMMA CountInSerial ==
  ASSUME BInv, OneSerialThread, NEW t \in Threads, CountIn(t)
  PROVE  OneSerialThread'
<1>1. PICK k \in Nat : RoundsAre(k)
  BY DEF BInv
<1>2. n \in Nat /\ is_arrival_phase /\ entered' = entered + 1
  BY Constants DEF CountIn, ArrivalOpen, BInv, BarrierTypeOK
<1>3. entered = k * max + n /\ n \in 0..(max - 1)
  BY <1>1, <1>2, Constants DEF RoundsAre
<1>4. entered \div max = k
  BY <1>3, Multiples, Constants
<1> SUFFICES ASSUME NEW r \in 1..MaxRounds
             PROVE  Cardinality(serial'[r]) = IF entered' > max * (r - 1) THEN 1 ELSE 0
  BY Constants DEF OneSerialThread
<1>5. r \in Nat /\ r - 1 \in Nat
  BY Constants
<1>6. serial \in [1..MaxRounds -> SUBSET Threads]
  BY DEF BInv, BarrierTypeOK
<1>7. Cardinality(serial[r]) = IF entered > max * (r - 1) THEN 1 ELSE 0
  BY DEF OneSerialThread
<1>8. CASE n = 0 /\ r = k + 1
  <2>1. entered = max * (r - 1) /\ entered' > max * (r - 1)
    BY <1>2, <1>3, <1>8, Constants
  <2>2. serial[r] = {}
    <3>1. serial[r] \subseteq Threads
      BY <1>6
    <3>2. Cardinality(serial[r]) = 0
      BY <1>3, <1>5, <1>7, <2>1, Constants
    <3> QED
      BY <3>1, <3>2, InsideChanges
  <2>3. serial'[r] = {t}
    BY <1>4, <1>6, <1>8, <2>2 DEF CountIn, IsMaster
  <2> QED
    BY <2>1, <2>3, FS_Singleton
<1>9. CASE ~(n = 0 /\ r = k + 1)
  <2>1. serial'[r] = serial[r]
    BY <1>4, <1>6, <1>9 DEF CountIn, IsMaster
  <2>2. entered # max * (r - 1)
    <3>1. CASE r - 1 <= k - 1
      <4>1. max * (r - 1) <= max * (k - 1)
        BY <1>5, <3>1, Constants
      <4> QED
        BY <1>3, <1>5, <4>1, Constants
    <3>2. CASE r - 1 = k
      BY <1>3, <1>5, <1>9, <3>2, Constants
    <3>3. CASE r - 1 >= k + 1
      <4>1. max * (r - 1) >= max * (k + 1)
        BY <1>5, <3>3, Constants
      <4> QED
        BY <1>3, <1>5, <4>1, Constants
    <3> QED
      BY <1>5, <3>1, <3>2, <3>3
  <2>3. max * (r - 1) \in Int /\ entered \in Int
    BY <1>3, <1>5, Constants
  <2> QED
    BY <1>2, <1>7, <2>1, <2>2, <2>3
<1> QED
  BY <1>8, <1>9

LEMMA StepSerial == BInv /\ OneSerialThread /\ [BarrierNext]_barrierVars => OneSerialThread'
<1> SUFFICES ASSUME BInv, OneSerialThread, [BarrierNext]_barrierVars
             PROVE  OneSerialThread'
  OBVIOUS
<1>1. ASSUME NEW t \in Threads, CountIn(t) PROVE OneSerialThread'
  BY <1>1, CountInSerial
<1>2. ASSUME UNCHANGED <<entered, serial>> PROVE OneSerialThread'
  BY <1>2 DEF OneSerialThread
<1> QED
  BY <1>1, <1>2
     DEF BarrierNext, barrierVars, parsec_barrier_wait, Arrive, Depart, WakeSpuriously

\* Exactly one thread of every round is told that it is the serial one.
THEOREM SerialThreadIsUnique == BarrierSpec => []OneSerialThread
<1>1. parsec_barrier_init => OneSerialThread
  <2> SUFFICES ASSUME parsec_barrier_init, NEW r \in 1..MaxRounds
               PROVE  Cardinality(serial[r]) = IF entered > max * (r - 1) THEN 1 ELSE 0
    BY DEF OneSerialThread
  <2>1. serial[r] = {} /\ entered = 0 /\ max * (r - 1) >= 0
    BY Constants DEF parsec_barrier_init
  <2> QED
    BY <2>1, FS_EmptySet, Constants
<1> QED
  BY <1>1, StepSerial, BarrierInvariance, PTL DEF BarrierSpec

-----------------------------------------------------------------------------
(***************************************************************************)
(* The stream.                                                             *)
(***************************************************************************)

\* The numbers of a sequence.
Numbers == Seq(Nat)

LEMMA WeightIs ==
  ASSUME NEW s \in Seq(Nat)
  PROVE  /\ Weight(s) = SumFunctionOnSet(s, 1..Len(s)) /\ Weight(s) \in Nat
         /\ IsFiniteSet(1..Len(s)) /\ \A j \in 1..Len(s) : s[j] \in Nat
<1>1. DOMAIN s = 1..Len(s) /\ Len(s) \in Nat /\ \A j \in 1..Len(s) : s[j] \in Nat
  OBVIOUS
<1>2. IsFiniteSet(1..Len(s))
  BY <1>1, FS_Interval
<1>3. Weight(s) = SumFunctionOnSet(s, 1..Len(s))
  BY <1>1, SumOfFunction DEF Weight
<1>4. SumFunctionOnSet(s, 1..Len(s)) \in Nat
  BY <1>1, <1>2, SumNatural
<1> QED BY <1>1, <1>2, <1>3, <1>4

\* The weight of two sequences, one behind the other.
LEMMA WeightOfBoth ==
  ASSUME NEW s \in Seq(Nat), NEW t \in Seq(Nat)
  PROVE  Weight(s \o t) = Weight(s) + Weight(t)
<1> DEFINE m == Len(s)
           len == Len(t)
           both == s \o t
           h == [j \in 1..len |-> m + j]
<1>1. m \in Nat /\ len \in Nat
  OBVIOUS
<1>2. /\ both \in Seq(Nat) /\ Len(both) = m + len
      /\ \A j \in 1..m : both[j] = s[j]
      /\ \A j \in 1..len : both[m + j] = t[j]
  <2>1. /\ both \in Seq(Nat) /\ Len(both) = m + len
        /\ \A j \in 1..m + len : both[j] = IF j <= m THEN s[j] ELSE t[j - m]
    BY ConcatProperties
  <2> HIDE DEF m, len, both
  <2>2. \A j \in 1..m : both[j] = s[j]
    BY <1>1, <2>1
  <2>3. ASSUME NEW j \in 1..len PROVE both[m + j] = t[j]
    <3>1. m + j \in 1..m + len /\ ~(m + j <= m) /\ m + j - m = j
      BY <1>1
    <3> DEFINE i == m + j
    <3>2. i \in 1..m + len /\ ~(i <= m) /\ i - m = j
      BY <1>1, <3>1
    <3> HIDE DEF i
    <3>3. both[i] = t[i - m]
      BY <2>1, <3>2
    <3> QED BY <3>2, <3>3 DEF i
  <2> QED BY <2>1, <2>2, <2>3
<1> HIDE DEF both
<1>3. Weight(both) = SumFunctionOnSet(both, 1..(m + len))
  BY <1>2, WeightIs
<1>4. /\ \A j \in 1..len : h[j] \in (m + 1)..(m + len)
      /\ \A i \in (m + 1)..(m + len) : \E j \in 1..len : h[j] = i
  <2> HIDE DEF m, len
  <2>1. ASSUME NEW i \in (m + 1)..(m + len) PROVE \E j \in 1..len : h[j] = i
    <3>1. i - m \in 1..len /\ m + (i - m) = i
      BY <1>1
    <3> QED BY <3>1
  <2> QED BY <1>1, <2>1
<1>5. SumFunctionOnSet(both, (m + 1)..(m + len)) = SumFunctionOnSet(t, 1..len)
  <2>1. IsFiniteSet(1..len) /\ \A j \in 1..len : t[j] \in Nat
    BY WeightIs
  <2>2. \A i, j \in 1..len : h[i] = h[j] => i = j
    BY <1>1
  <2>4. Renames(h, 1..len, (m + 1)..(m + len))
    <3> HIDE DEF h, len, m
    <3> QED BY <1>4, <2>2 DEF Renames
  <2>3. \A j \in 1..len : t[j] \in Int /\ both[h[j]] = t[j]
    BY <1>2, <2>1
  <2> HIDE DEF h, len
  <2> DEFINE S == 1..len
             T == (m + 1)..(m + len)
  <2>5. Renames(h, S, T) /\ IsFiniteSet(S) /\ \A j \in S : t[j] \in Int /\ both[h[j]] = t[j]
    BY <2>1, <2>3, <2>4
  <2> HIDE DEF S, T
  <2>6. SumFunctionOnSet(both, T) = SumFunctionOnSet(t, S)
    BY <2>5, SumRenamed
  <2> QED BY <2>6 DEF S, T
<1>6. SumFunctionOnSet(both, 1..m) = SumFunctionOnSet(s, 1..m)
  <2>1. IsFiniteSet(1..m) /\ \A j \in 1..m : both[j] = s[j] /\ s[j] \in Int
    BY <1>2, WeightIs
  <2> QED BY <2>1, SumEqual
<1>7. SumFunctionOnSet(both, 1..(m + len))
        = SumFunctionOnSet(both, 1..m) + SumFunctionOnSet(both, (m + 1)..(m + len))
  <2> HIDE DEF m, len
  <2>1. 1..(m + len) = (1..m) \cup ((m + 1)..(m + len)) /\ (1..m) \cap ((m + 1)..(m + len)) = {}
    BY <1>1
  <2>2. IsFiniteSet(1..m) /\ IsFiniteSet((m + 1)..(m + len))
    BY <1>1, FS_Interval
  <2>3. \A j \in (1..m) \cup ((m + 1)..(m + len)) : both[j] \in Int
    <3>1. \A j \in 1..(m + len) : both[j] \in Nat
      BY <1>2, WeightIs
    <3> QED BY <2>1, <3>1
  <2> DEFINE A == 1..m
             B == (m + 1)..(m + len)
  <2>4. SumFunctionOnSet(both, A \cup B) = SumFunctionOnSet(both, A) + SumFunctionOnSet(both, B)
    <3> HIDE DEF A, B
    <3> QED BY <2>1, <2>2, <2>3, SumUnion DEF A, B
  <2> QED BY <2>1, <2>4
<1>8. Weight(s) = SumFunctionOnSet(s, 1..m) /\ Weight(t) = SumFunctionOnSet(t, 1..len)
  BY WeightIs
<1> QED BY <1>3, <1>5, <1>6, <1>7, <1>8 DEF both

-----------------------------------------------------------------------------
\* contcenters keeps the weight: every point is with one median, and every
\* median is one of the contracted centers.
LEMMA ContractedKeepsWeight ==
  ASSUME NEW w \in Seq(Nat), NEW a \in [1..Len(w) -> 1..Len(w)]
  PROVE  Contracted(w, a) \in Seq(Nat) /\ Weight(Contracted(w, a)) = Weight(w)
<1> DEFINE len == Len(w)
           M == Medians(a)
           m == Cardinality(M)
           at(r) == CHOOSE c \in M : Cardinality({d \in M : d < c}) = r - 1
           P == [c \in M |-> {j \in 1..len : a[j] = c}]
           g == [c \in M |-> SumFunctionOnSet(w, P[c])]
           f == Contracted(w, a)
           h == [c \in M |-> Rank(M, c) + 1]
<1>1. /\ len \in Nat /\ IsFiniteSet(1..len) /\ DOMAIN a = 1..len
      /\ \A j \in 1..len : w[j] \in Nat /\ a[j] \in 1..len
  BY WeightIs
<1>2. M \in SUBSET (1..len) /\ IsFiniteSet(M) /\ m \in Nat
  <2>1. M \in SUBSET (1..len)
    BY <1>1 DEF Medians
  <2>2. IsFiniteSet(M)
    BY <1>1, <2>1, FS_Subset
  <2> QED BY <2>1, <2>2, FS_CardinalityType
<1>3. /\ \A c \in M : Rank(M, c) \in 0..(m - 1)
      /\ \A c, d \in M : Rank(M, c) = Rank(M, d) => c = d
      /\ \A r \in 0..(m - 1) : \E c \in M : Rank(M, c) = r
  <2>1. M \subseteq Int
    BY <1>1, <1>2
  <2> HIDE DEF M
  <2> QED BY <1>2, <2>1, Ranks
<1>4. \A c \in M : IsFiniteSet(P[c]) /\ g[c] \in Nat /\ \A j \in P[c] : w[j] \in Nat
  <2> TAKE c \in M
  <2>1. P[c] \in SUBSET (1..len)
    OBVIOUS
  <2>2. IsFiniteSet(P[c]) /\ \A j \in P[c] : w[j] \in Nat
    BY <1>1, <2>1, FS_Subset
  <2>3. SumFunctionOnSet(w, P[c]) \in Nat
    <3> HIDE DEF P
    <3> QED BY <2>2, SumNatural
  <2> QED BY <2>2, <2>3
<1>5. \A c \in M : h[c] \in 1..m /\ at(h[c]) = c
  <2> TAKE c \in M
  <2>1. Rank(M, c) \in 0..(m - 1)
    BY <1>3
  <2>2. h[c] \in 1..m /\ h[c] - 1 = Rank(M, c)
    BY <1>2, <2>1
  <2>3. at(h[c]) \in M /\ Rank(M, at(h[c])) = Rank(M, c)
    BY <2>2 DEF Rank
  <2> QED BY <1>3, <2>2, <2>3
<1>6. f = [r \in 1..m |-> SumFunctionOnSet(w, {j \in 1..len : a[j] = at(r)})]
  BY <1>1 DEF Contracted, ContractedWeight
<1>7. \A c \in M : f[h[c]] = g[c]
  <2> TAKE c \in M
  <2>1. h[c] \in 1..m /\ at(h[c]) = c
    BY <1>5
  <2>2. f[h[c]] = SumFunctionOnSet(w, {j \in 1..len : a[j] = at(h[c])})
    <3> HIDE DEF f, at, m, h
    <3> QED BY <1>6, <2>1
  <2> QED BY <2>1, <2>2
<1>8. (\A c \in M : h[c] \in 1..m) /\ \A r \in 1..m : \E c \in M : h[c] = r
  <2>1. ASSUME NEW r \in 1..m PROVE \E c \in M : h[c] = r
    <3>1. r - 1 \in 0..(m - 1)
      BY <1>2
    <3>2. PICK c \in M : Rank(M, c) = r - 1
      BY <1>3, <3>1
    <3>3. h[c] = r
      BY <1>2, <3>2
    <3> QED BY <3>3
  <2> HIDE DEF h, m, M
  <2> QED BY <1>5, <2>1
<1>9. f \in Seq(Nat) /\ Len(f) = m
  <2>1. \A r \in 1..m : f[r] \in Nat
    <3> HIDE DEF f, h, m, M, g
    <3> QED BY <1>4, <1>7, <1>8, ZenonT(60)
  <2>2. f = [r \in 1..m |-> f[r]]
    <3> HIDE DEF m, at, M
    <3> QED BY <1>6
  <2> HIDE DEF f, m
  <2> QED BY <1>2, <2>1, <2>2
<1>10. SumFunctionOnSet(f, 1..m) = SumFunctionOnSet(g, M)
  <2>1. \A c, d \in M : h[c] = h[d] => c = d
    <3>1. \A c \in M : Rank(M, c) \in Int /\ h[c] = Rank(M, c) + 1
      BY <1>3
    <3> HIDE DEF h, M
    <3> QED BY <1>3, <3>1
  <2>2. \A c \in M : g[c] \in Int /\ f[h[c]] = g[c]
    <3>1. \A c \in M : g[c] \in Nat
      BY <1>4
    <3> HIDE DEF f, g, h, M
    <3> QED BY <1>7, <3>1
  <2> HIDE DEF f, g, h, M, m
  <2> DEFINE T == 1..m
  <2>3. Renames(h, M, T) /\ IsFiniteSet(M)
    BY <1>2, <1>8, <2>1 DEF Renames
  <2> HIDE DEF T
  <2>4. SumFunctionOnSet(f, T) = SumFunctionOnSet(g, M)
    BY <2>2, <2>3, SumRenamed
  <2> QED BY <2>4 DEF T
<1>11. SumFunctionOnSet(g, M) = SumFunctionOnSet(w, 1..len)
  <2>1. (\A c \in M : P[c] \subseteq 1..len) /\ \A j \in 1..len : \E c \in M : j \in P[c]
    <3>1. \A j \in 1..len : a[j] \in M
      BY <1>1 DEF Medians
    <3> HIDE DEF M
    <3> QED BY <3>1
  <2>2. \A c, d \in M : c # d => P[c] \cap P[d] = {}
    OBVIOUS
  <2>3. \A c \in M : g[c] = SumFunctionOnSet(w, P[c])
    OBVIOUS
  <2>4. \A c \in M : IsFiniteSet(P[c])
    BY <1>4
  <2>5. \A j \in 1..len : w[j] \in Int
    BY <1>1
  <2> HIDE DEF P, M, g
  <2>6. Parts(P, M, 1..len)
    BY <2>1, <2>2, <2>4 DEF Parts
  <2> DEFINE S == 1..len
  <2>7. Parts(P, M, S) /\ IsFiniteSet(M) /\ \A j \in S : w[j] \in Int
    BY <1>2, <2>5, <2>6
  <2> HIDE DEF S
  <2>8. SumFunctionOnSet(g, M) = SumFunctionOnSet(w, S)
    BY <2>3, <2>7, SumByParts
  <2> QED BY <2>8 DEF S
<1>12. Weight(f) = SumFunctionOnSet(f, 1..m) /\ Weight(w) = SumFunctionOnSet(w, 1..len)
  <2> HIDE DEF f, m
  <2> QED BY <1>9, WeightIs DEF m
<1> QED BY <1>9, <1>10, <1>11, <1>12

\* A stream of new points weighs as much as there are points.
LEMMA WeightOfPoints ==
  ASSUME NEW len \in Nat
  PROVE  [j \in 1..len |-> 1] \in Seq(Nat) /\ Len([j \in 1..len |-> 1]) = len
         /\ Weight([j \in 1..len |-> 1]) = len
<1> DEFINE w == [j \in 1..len |-> 1]
<1>1. w \in Seq(Nat) /\ Len(w) = len /\ \A j \in 1..len : w[j] = 1
  OBVIOUS
<1>2. IsFiniteSet(1..len) /\ Cardinality(1..len) = len
  <2>1. Cardinality(1..len) = IF 1 > len THEN 0 ELSE len - 1 + 1
    BY FS_Interval
  <2> QED BY <2>1, FS_Interval
<1> HIDE DEF w
<1>3. SumFunctionOnSet(w, 1..len) = 1 * len
  BY <1>1, <1>2, SumConstant
<1>4. Weight(w) = len
  BY <1>1, <1>3, WeightIs
<1> QED BY <1>1, <1>4 DEF w

\* A search assigns every point to a center among the points.
LEMMA AssignmentsInto ==
  ASSUME NEW len \in Nat, NEW a \in Assignments(len)
  PROVE  a \in [1..len -> 1..len]
BY DEF Assignments

-----------------------------------------------------------------------------
(* The loop over the stream. *)

StreamTypeOK ==
  /\ left \in Nat /\ read \in Nat
  /\ kind \in {"sim", "file"}
  /\ state \in {"reading", "clustering", "done", "exit"}
  /\ centers \in Seq(Nat) /\ output \in Seq(Nat)

\* The stream is clustered only when all of it has been read: for a file, feof
\* is set by a chunk that comes up short.
AllRead == state \in {"clustering", "done"} => left = 0

StreamInv ==
  /\ StreamTypeOK /\ AllRead
  /\ state # "exit" => Weight(centers) = read
  /\ state = "done" => Weight(output) = read

LEMMA ChunkKeepsWeight ==
  ASSUME StreamInv, Chunk
  PROVE  StreamInv'
<1> DEFINE len == IF left < chunksize THEN left ELSE chunksize
<1>1. /\ len \in Nat /\ left - len \in Nat /\ read + len \in Nat
      /\ len < chunksize => left - len = 0
  BY StreamAssumption DEF StreamInv, StreamTypeOK
<1>2. /\ state = "reading" /\ left' = left - len /\ read' = read + len
      /\ kind' = kind /\ output' = output
      /\ eof' = IF kind = "sim" THEN left' = 0 ELSE len < chunksize
  BY DEF Chunk
<1> HIDE DEF len
<1>3. PICK a \in Assignments(len) :
        \/ state' = "exit" /\ centers' = centers
        \/ /\ centers' = centers \o Contracted([j \in 1..len |-> 1], a)
           /\ state' = IF eof' THEN "clustering" ELSE "reading"
  <2> USE DEF len
  <2>1. PICK a \in Assignments(len) :
          \/ /\ reported' + Len(centers) > centersize
             /\ state' = "exit"
             /\ UNCHANGED centers
          \/ /\ reported' + Len(centers) <= centersize
             /\ centers' = centers \o Contracted([j \in 1..len |-> 1], a)
             /\ state' = IF eof' THEN "clustering" ELSE "reading"
    BY DEF Chunk
  <2> QED BY <2>1
<1>4. eof' => left' = 0
  <2>1. kind = "sim" \/ kind # "sim"
    OBVIOUS
  <2>2. CASE kind = "sim"
    BY <1>2, <2>2
  <2>3. CASE kind # "sim"
    BY <1>1, <1>2, <2>3
  <2> QED BY <2>2, <2>3
<1>5. centers \in Seq(Nat) /\ output \in Seq(Nat) /\ Weight(centers) = read /\ read \in Nat
  BY <1>2 DEF StreamInv, StreamTypeOK
<1>6. CASE state' = "exit" /\ centers' = centers
  BY <1>1, <1>2, <1>4, <1>5, <1>6 DEF StreamInv, StreamTypeOK, AllRead
<1>7. CASE /\ centers' = centers \o Contracted([j \in 1..len |-> 1], a)
           /\ state' = IF eof' THEN "clustering" ELSE "reading"
  <2> DEFINE w == [j \in 1..len |-> 1]
             new == Contracted(w, a)
  <2>1. w \in Seq(Nat) /\ Len(w) = len /\ Weight(w) = len
    BY <1>1, WeightOfPoints
  <2>2. a \in [1..Len(w) -> 1..Len(w)]
    BY <1>1, <2>1, AssignmentsInto
  <2>3. new \in Seq(Nat) /\ Weight(new) = len
    <3> HIDE DEF w
    <3> QED BY <2>1, <2>2, ContractedKeepsWeight
  <2>4. centers' = centers \o new
    BY <1>7
  <2> HIDE DEF new
  <2>5. centers' \in Seq(Nat) /\ Weight(centers') = read'
    BY <1>2, <1>5, <2>3, <2>4, WeightOfBoth
  <2>6. state' \in {"clustering", "reading"} /\ (state' = "clustering" => left' = 0)
    BY <1>4, <1>7
  <2> QED
    BY <1>1, <1>2, <1>4, <1>5, <2>5, <2>6 DEF StreamInv, StreamTypeOK, AllRead, Weight
<1> QED BY <1>3, <1>6, <1>7

LEMMA FinalKeepsWeight ==
  ASSUME StreamInv, Final
  PROVE  StreamInv'
<1>1. /\ state = "clustering" /\ state' = "done"
      /\ UNCHANGED <<left, kind, eof, centers, read>>
  BY DEF Final
<1>2. centers \in Seq(Nat) /\ Len(centers) \in Nat /\ Weight(centers) = read /\ left = 0
  BY <1>1 DEF StreamInv, StreamTypeOK, AllRead
<1>3. PICK a \in Assignments(Len(centers)) : output' = Contracted(centers, a)
  BY DEF Final
<1>4. output' \in Seq(Nat) /\ Weight(output') = read
  BY <1>2, <1>3, AssignmentsInto, ContractedKeepsWeight
<1> QED
  BY <1>1, <1>2, <1>4 DEF StreamInv, StreamTypeOK, AllRead, Weight

\* Every point that was read has its weight in one of the centers, and in one
\* of the centers written, whatever the searches between have found.
THEOREM NoWeightLost == StreamSpec => []WeightKept
<1>1. streamInit => StreamInv
  <2> SUFFICES ASSUME streamInit PROVE StreamInv
    OBVIOUS
  <2>1. left \in Nat
    BY StreamAssumption DEF streamInit
  <2>2. << >> \in Seq(Nat) /\ Weight(<< >>) = 0
    <3>1. 1..Len(<< >>) = {} /\ << >> \in Seq(Nat)
      OBVIOUS
    <3> QED BY <3>1, WeightIs, SumEmpty
  <2> QED
    BY <2>1, <2>2 DEF streamInit, StreamInv, StreamTypeOK, AllRead
<1>2. StreamInv /\ [StreamNext]_streamVars => StreamInv'
  <2> SUFFICES ASSUME StreamInv, [StreamNext]_streamVars PROVE StreamInv'
    OBVIOUS
  <2>1. CASE UNCHANGED streamVars
    BY <2>1 DEF streamVars, StreamInv, StreamTypeOK, AllRead, Weight
  <2> QED
    BY <2>1, ChunkKeepsWeight, FinalKeepsWeight DEF StreamNext
<1>3. StreamInv => WeightKept
  BY DEF StreamInv, AllRead, WeightKept
<1> QED
  BY <1>1, <1>2, <1>3, PTL DEF StreamSpec

=============================================================================
