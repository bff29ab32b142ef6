------------------------- MODULE DedupPipelineProofs -------------------------
(* Theorems about DedupPipeline, in layers: each part of the inductive        *)
(* invariant is proved from the ones before it.                               *)
EXTENDS DedupPipeline, SumProofs, SequenceTheorems

-----------------------------------------------------------------------------
(* Numbers and sets. *)

\* Every nonempty set of natural numbers has a least element.
LEMMA LeastNumber ==
  ASSUME NEW T \in SUBSET Nat, T # {}
  PROVE  \E x \in T : \A y \in T : x <= y
<1> DEFINE U == {0..x : x \in T}
<1>1. IsWellFoundedOn(StrictSubsetOrdering(Nat), FiniteSubsetsOf(Nat))
  BY FS_StrictSubsetOrderingWellFounded
<1>2. U \subseteq FiniteSubsetsOf(Nat)
  <2>1. \A x \in Nat : IsFiniteSet(0..x) /\ 0..x \subseteq Nat
    BY FS_Interval
  <2> QED BY <2>1 DEF FiniteSubsetsOf
<1>3. U # {}
  OBVIOUS
<1>4. \A x, y \in Nat : y < x => <<0..y, 0..x>> \in StrictSubsetOrdering(Nat)
  <2> SUFFICES ASSUME NEW x \in Nat, NEW y \in Nat, y < x
               PROVE  <<0..y, 0..x>> \in StrictSubsetOrdering(Nat)
    OBVIOUS
  <2>1. 0..y \subseteq 0..x /\ x \in 0..x /\ x \notin 0..y
    OBVIOUS
  <2> QED BY <2>1 DEF StrictSubsetOrdering
<1> HIDE DEF U
<1>5. PICK m \in U : \A n \in U : <<n, m>> \notin StrictSubsetOrdering(Nat)
  BY <1>1, <1>2, <1>3, WFMin
<1>6. PICK x \in T : m = 0..x
  BY DEF U
<1>7. \A y \in T : 0..y \in U
  BY DEF U
<1>8. \A y \in T : ~(y < x)
  BY <1>4, <1>5, <1>6, <1>7
<1> QED BY <1>8

\* A nested function that changes at one place.
LEMMA ChangeAt ==
  ASSUME NEW A, NEW B, NEW C, NEW f \in [A -> [B -> C]],
         NEW a \in A, NEW b \in B, NEW v \in C,
         NEW g, g = [f EXCEPT ![a][b] = v]
  PROVE  /\ g \in [A -> [B -> C]]
         /\ g[a][b] = v
         /\ \A x \in A, y \in B : x # a \/ y # b => g[x][y] = f[x][y]
<1>1. g = [f EXCEPT ![a] = [f[a] EXCEPT ![b] = v]]
  OBVIOUS
<1>2. [f[a] EXCEPT ![b] = v] \in [B -> C]
  OBVIOUS
<1>3. g \in [A -> [B -> C]]
  BY <1>1, <1>2
<1>4. \A x \in A : g[x] = IF x = a THEN [f[a] EXCEPT ![b] = v] ELSE f[x]
  BY <1>1
<1>5. \A y \in B : [f[a] EXCEPT ![b] = v][y] = IF y = b THEN v ELSE f[a][y]
  OBVIOUS
<1> QED BY <1>3, <1>4, <1>5

-----------------------------------------------------------------------------
(* The constants. *)

\* There is a queue, and every thread has one.
LEMMA QueuesExist ==
  /\ NQueues \in Nat \ {0}
  /\ \A t \in Tids : QidOf(t) \in Qids
<1>1. NThreads \in Nat \ {0} /\ MaxThreadsPerQueue \in Nat \ {0}
  BY PipelineAssumption
<1> DEFINE D == NThreads \div MaxThreadsPerQueue
           R == NThreads % MaxThreadsPerQueue
<1>2. D \in Nat /\ R \in 0..(MaxThreadsPerQueue - 1) /\ NThreads = MaxThreadsPerQueue * D + R
  BY <1>1
<1>3. NQueues = D + (IF R # 0 THEN 1 ELSE 0)
  BY DEF NQueues
<1>4. R = 0 => D # 0
  BY <1>1, <1>2
<1>5. NQueues \in Nat \ {0}
  BY <1>2, <1>3, <1>4
<1>6. ASSUME NEW t \in Tids
      PROVE  QidOf(t) \in Qids
  <2>1. t \in Nat /\ t < NThreads
    BY <1>1 DEF Tids
  <2>2. QidOf(t) \in Nat /\ MaxThreadsPerQueue * QidOf(t) <= t
    BY <1>1, <2>1 DEF QidOf
  <2>3. MaxThreadsPerQueue * QidOf(t) < MaxThreadsPerQueue * D + R
    BY <2>1, <2>2, <1>1, <1>2
  <2>4. QidOf(t) < NQueues
    BY <2>2, <2>3, <1>1, <1>2, <1>3
  <2> QED BY <2>2, <2>4, <1>5 DEF Qids
<1> QED BY <1>5, <1>6

\* Coarse chunks are numbered from 0; Size is the number of fine ones in one.
CoarseIds == 0..(Len(Input) - 1)
Size(a)   == Len(Input[a + 1])

LEMMA InputShape ==
  /\ Len(Input) \in Nat
  /\ \A a \in CoarseIds : a \in Nat /\ Size(a) \in Nat \ {0}
  /\ DOMAIN Input = 1..Len(Input)
  /\ \A i \in DOMAIN Input : DOMAIN Input[i] = 1..Len(Input[i])
<1>1. Len(Input) \in Nat /\ DOMAIN Input = 1..Len(Input)
  BY PipelineAssumption
<1>2. ASSUME NEW i \in DOMAIN Input
      PROVE  Len(Input[i]) \in Nat \ {0} /\ DOMAIN Input[i] = 1..Len(Input[i])
  <2>1. Len(Input[i]) > 0 /\ Input[i] \in Seq({Input[i][j] : j \in DOMAIN Input[i]})
    BY PipelineAssumption
  <2> QED BY <2>1
<1>3. \A a \in CoarseIds : a \in Nat /\ a + 1 \in DOMAIN Input
  BY <1>1 DEF CoarseIds
<1> QED BY <1>1, <1>2, <1>3 DEF Size

\* A fine-grained chunk is a position of the input.
LEMMA ChunkShape ==
  /\ Chunks \subseteq [l1 : CoarseIds, l2 : Nat]
  /\ \A c \in Chunks : c.l2 < Size(c.l1)
  /\ \A a \in CoarseIds, j \in Nat : j < Size(a) => [l1 |-> a, l2 |-> j] \in Chunks
  /\ \A c \in Chunks : Content(c) \in Contents
<1>1. ASSUME NEW c \in Chunks
      PROVE  c \in [l1 : CoarseIds, l2 : Nat] /\ c.l2 < Size(c.l1)
  <2>1. PICK i \in DOMAIN Input : c \in {[l1 |-> i - 1, l2 |-> j - 1] : j \in DOMAIN Input[i]}
    BY DEF Chunks
  <2>2. PICK j \in DOMAIN Input[i] : c = [l1 |-> i - 1, l2 |-> j - 1]
    BY <2>1
  <2>3. i \in Int /\ j \in Int /\ i - 1 \in CoarseIds /\ j - 1 \in Nat /\ (i - 1) + 1 = i
    BY InputShape DEF CoarseIds
  <2>4. j - 1 < Len(Input[i])
    BY <2>3, InputShape
  <2> QED BY <2>2, <2>3, <2>4 DEF Size
<1>2. ASSUME NEW a \in CoarseIds, NEW j \in Nat, j < Size(a)
      PROVE  [l1 |-> a, l2 |-> j] \in Chunks
  <2>1. a + 1 \in DOMAIN Input /\ (a + 1) - 1 = a /\ (j + 1) - 1 = j
    BY InputShape DEF CoarseIds
  <2>2. j + 1 \in DOMAIN Input[a + 1]
    BY <1>2, <2>1, InputShape DEF Size
  <2>3. [l1 |-> (a + 1) - 1, l2 |-> (j + 1) - 1]
          \in {[l1 |-> (a + 1) - 1, l2 |-> k - 1] : k \in DOMAIN Input[a + 1]}
    BY <2>2
  <2> QED BY <2>1, <2>3 DEF Chunks
<1>3. \A c \in Chunks : Content(c) \in Contents
  BY DEF Contents
<1> QED BY <1>1, <1>2, <1>3

-----------------------------------------------------------------------------
(* The order of the chunks. *)

\* TreeFindMin finds the least of the kept chunks.
LEMMA SmallestIsLeast ==
  ASSUME NEW tree \in SUBSET Chunks, tree # {}
  PROVE  /\ Smallest(tree) \in tree
         /\ \A d \in tree : d = Smallest(tree) \/ sequence_lt(Smallest(tree), d)
<1>1. \A c \in tree : c \in [l1 : Nat, l2 : Nat]
  BY ChunkShape, InputShape
<1>2. PICK a \in {c.l1 : c \in tree} : \A x \in {c.l1 : c \in tree} : a <= x
  <2>1. {c.l1 : c \in tree} \in SUBSET Nat /\ {c.l1 : c \in tree} # {}
    BY <1>1
  <2> QED BY <2>1, LeastNumber
<1> DEFINE row == {c \in tree : c.l1 = a}
<1>3. PICK j \in {c.l2 : c \in row} : \A y \in {c.l2 : c \in row} : j <= y
  <2>1. {c.l2 : c \in row} \in SUBSET Nat /\ {c.l2 : c \in row} # {}
    BY <1>1
  <2> QED BY <2>1, LeastNumber
<1>4. PICK m \in row : m.l2 = j
  OBVIOUS
<1>5. \A d \in tree : d = m \/ sequence_lt(m, d)
  <2> SUFFICES ASSUME NEW d \in tree, d # m
               PROVE  sequence_lt(m, d)
    OBVIOUS
  <2>1. m.l1 = a /\ a <= d.l1 /\ d \in [l1 : Nat, l2 : Nat] /\ m \in [l1 : Nat, l2 : Nat]
    BY <1>1, <1>2
  <2>2. d.l1 = a => m.l2 <= d.l2
    BY <1>3, <1>4
  <2>3. d.l1 = a => m.l2 # d.l2
    BY <2>1
  <2> QED BY <2>1, <2>2, <2>3 DEF sequence_lt
<1>6. \E c \in tree : \A d \in tree : d = c \/ sequence_lt(c, d)
  BY <1>5
<1> QED BY <1>6 DEF Smallest

\* Sequence numbers are totally ordered.
LEMMA SequenceOrder ==
  ASSUME NEW c \in [l1 : Nat, l2 : Nat], NEW d \in [l1 : Nat, l2 : Nat]
  PROVE  /\ ~sequence_lt(c, c)
         /\ sequence_lt(c, d) \/ c = d \/ sequence_lt(d, c)
         /\ ~(sequence_lt(c, d) /\ sequence_lt(d, c))
BY DEF sequence_lt

-----------------------------------------------------------------------------
(* Sequences that are cut and joined. *)

\* A sequence is its first elements and the rest.
LEMMA Cut ==
  ASSUME NEW S, NEW s \in Seq(S), NEW n \in 0..Len(s)
  PROVE  /\ Prefix(s, n) \in Seq(S) /\ Len(Prefix(s, n)) = n
         /\ Rest(s, n) \in Seq(S) /\ Len(Rest(s, n)) = Len(s) - n
         /\ \A i \in 1..n : Prefix(s, n)[i] = s[i]
         /\ \A i \in 1..(Len(s) - n) : Rest(s, n)[i] = s[n + i]
<1>1. /\ Prefix(s, n) \in Seq(S) /\ Len(Prefix(s, n)) = n
      /\ \A i \in 1..n : Prefix(s, n)[i] = s[i]
  BY DEF Prefix
<1>2. Len(s) \in Nat /\ n + 1 \in 1..(Len(s) + 1)
  OBVIOUS
<1>3. /\ Rest(s, n) \in Seq(S) /\ Len(Rest(s, n)) = Len(s) - n
      /\ \A i \in 1..(Len(s) - n) : Rest(s, n)[i] = s[n + i]
  BY <1>2 DEF Rest
<1> QED BY <1>1, <1>3

LEMMA CutRange ==
  ASSUME NEW S, NEW s \in Seq(S), NEW n \in 0..Len(s)
  PROVE  /\ Range(s) = Range(Prefix(s, n)) \cup Range(Rest(s, n))
         /\ IsInjective(s) => /\ IsInjective(Prefix(s, n)) /\ IsInjective(Rest(s, n))
                              /\ Range(Prefix(s, n)) \cap Range(Rest(s, n)) = {}
         /\ n = Len(s) => Rest(s, n) = << >> /\ Prefix(s, n) = s
<1> DEFINE p == Prefix(s, n)
           r == Rest(s, n)
<1>1. /\ p \in Seq(S) /\ Len(p) = n /\ r \in Seq(S) /\ Len(r) = Len(s) - n
      /\ \A i \in 1..n : p[i] = s[i]
      /\ \A i \in 1..(Len(s) - n) : r[i] = s[n + i]
  BY Cut
<1>2. Len(s) \in Nat /\ DOMAIN s = 1..Len(s) /\ DOMAIN p = 1..n /\ DOMAIN r = 1..(Len(s) - n)
  BY <1>1
<1> HIDE DEF p, r
<1>3. Range(s) \subseteq Range(p) \cup Range(r)
  <2> SUFFICES ASSUME NEW i \in 1..Len(s)
               PROVE  s[i] \in Range(p) \cup Range(r)
    BY <1>2 DEF Range
  <2>1. CASE i <= n
    <3>1. i \in DOMAIN p /\ p[i] = s[i]
      BY <1>1, <1>2, <2>1
    <3> QED BY <3>1 DEF Range
  <2>2. CASE i > n
    <3>1. i - n \in 1..(Len(s) - n) /\ n + (i - n) = i
      BY <1>2, <2>2
    <3>2. i - n \in DOMAIN r /\ r[i - n] = s[i]
      BY <1>1, <1>2, <3>1
    <3> QED BY <3>2 DEF Range
  <2> QED BY <2>1, <2>2
<1>4. Range(p) \cup Range(r) \subseteq Range(s)
  <2>1. \A i \in DOMAIN p : p[i] \in Range(s)
    BY <1>1, <1>2 DEF Range
  <2>2. \A i \in DOMAIN r : n + i \in DOMAIN s /\ r[i] = s[n + i]
    BY <1>1, <1>2
  <2> QED BY <2>1, <2>2 DEF Range
<1>5. ASSUME IsInjective(s)
      PROVE  IsInjective(p) /\ IsInjective(r) /\ Range(p) \cap Range(r) = {}
  <2>1. IsInjective(p)
    BY <1>1, <1>2, <1>5 DEF IsInjective
  <2>2. \A i \in DOMAIN r : n + i \in DOMAIN s /\ n + i > n /\ r[i] = s[n + i]
    BY <1>1, <1>2
  <2>3. IsInjective(r)
    BY <1>2, <1>5, <2>2 DEF IsInjective
  <2>4. \A i \in DOMAIN p, j \in DOMAIN r : p[i] # r[j]
    BY <1>1, <1>2, <1>5, <2>2 DEF IsInjective
  <2> QED BY <2>1, <2>3, <2>4 DEF Range
<1>6. n = Len(s) => r = << >> /\ p = s
  BY <1>1, <1>2
<1> QED BY <1>3, <1>4, <1>5, <1>6 DEF p, r

LEMMA JoinRange ==
  ASSUME NEW S, NEW s \in Seq(S), NEW u \in Seq(S)
  PROVE  /\ s \o u \in Seq(S) /\ Len(s \o u) = Len(s) + Len(u)
         /\ Range(s \o u) = Range(s) \cup Range(u)
         /\ IsInjective(s) /\ IsInjective(u) /\ Range(s) \cap Range(u) = {}
              => IsInjective(s \o u)
<1> DEFINE j == s \o u
<1>1. /\ j \in Seq(S) /\ Len(j) = Len(s) + Len(u)
      /\ \A i \in 1..Len(s) : j[i] = s[i]
      /\ \A i \in 1..Len(j) : i > Len(s) => j[i] = u[i - Len(s)]
  OBVIOUS
<1>2. /\ Len(s) \in Nat /\ Len(u) \in Nat
      /\ DOMAIN s = 1..Len(s) /\ DOMAIN u = 1..Len(u) /\ DOMAIN j = 1..(Len(s) + Len(u))
  BY <1>1
<1> HIDE DEF j
<1>3. \A i \in DOMAIN j : \/ i \in DOMAIN s /\ j[i] = s[i]
                          \/ i > Len(s) /\ i - Len(s) \in DOMAIN u /\ j[i] = u[i - Len(s)]
  BY <1>1, <1>2
<1>4. \A i \in DOMAIN s : i \in DOMAIN j /\ j[i] = s[i]
  BY <1>1, <1>2
<1>5. \A i \in DOMAIN u : i + Len(s) \in DOMAIN j /\ j[i + Len(s)] = u[i]
  <2> SUFFICES ASSUME NEW i \in DOMAIN u
               PROVE  i + Len(s) \in DOMAIN j /\ j[i + Len(s)] = u[i]
    OBVIOUS
  <2>1. i + Len(s) \in 1..Len(j) /\ i + Len(s) > Len(s) /\ (i + Len(s)) - Len(s) = i
    BY <1>1, <1>2
  <2> QED BY <1>1, <1>2, <2>1
<1>6. Range(j) = Range(s) \cup Range(u)
  BY <1>3, <1>4, <1>5 DEF Range
<1>7. ASSUME IsInjective(s), IsInjective(u), Range(s) \cap Range(u) = {}
      PROVE  IsInjective(j)
  <2> SUFFICES ASSUME NEW x \in DOMAIN j, NEW y \in DOMAIN j, j[x] = j[y]
               PROVE  x = y
    BY DEF IsInjective
  <2>1. \A v \in DOMAIN s, w \in DOMAIN u : s[v] # u[w]
    BY <1>7 DEF Range
  <2>2. CASE x \in DOMAIN s /\ j[x] = s[x]
    BY <2>1, <2>2, <1>3, <1>7 DEF IsInjective
  <2>3. CASE x > Len(s) /\ x - Len(s) \in DOMAIN u /\ j[x] = u[x - Len(s)]
    <3>1. y > Len(s) /\ y - Len(s) \in DOMAIN u /\ j[y] = u[y - Len(s)]
      BY <2>1, <2>3, <1>3
    <3>2. x - Len(s) = y - Len(s)
      BY <2>3, <3>1, <1>7 DEF IsInjective
    <3> QED BY <3>2, <1>2
  <2> QED BY <1>3, <2>2, <2>3
<1> QED BY <1>1, <1>6, <1>7 DEF j

-----------------------------------------------------------------------------
(* Types. *)

Items          == CoarseIds \cup Chunks
ItemsOf(queue) == IF queue = "refine" THEN CoarseIds ELSE Chunks

Thread == [recv : Seq(Items), send : [Queues -> Seq(Chunks)],
           phase : {"loop", "drain", "done"}, l2 : Nat]

QueuesOK ==
  /\ que \in [Queues -> [Qids -> Seq(Items)]]
  /\ \A n \in Queues, q \in Qids : que[n][q] \in Seq(ItemsOf(n))

QueueTypeOK ==
  /\ QueuesOK
  /\ closed \in [Queues -> [Qids -> Nat]]
  /\ frag \in [sent : 0..Len(Input), qid : Qids, closed : 0..NQueues]

\* Whom a pool's threads send to.
Receivers(pool) ==
  CASE pool = "refine"      -> {"deduplicate"}
    [] pool = "deduplicate" -> {"compress", "reorder"}
    [] pool = "compress"    -> {"reorder"}

\* What a thread of a pool may look like; one that cuts a coarse chunk has
\* not reached its end.
ThreadOK(pool, me) ==
  /\ me \in Thread
  /\ me.recv \in Seq(ItemsOf(pool))
  /\ \A o \in Queues \ Receivers(pool) : me.send[o] = << >>
  /\ pool = "refine" => me.l2 < IF me.recv = << >> THEN 1 ELSE Size(Head(me.recv))

ThreadTypeOK ==
  /\ thread \in [Pools -> [Tids -> Thread]]
  /\ \A p \in Pools, t \in Tids : ThreadOK(p, thread[p][t])

Records == [type : {"TYPE_COMPRESS", "TYPE_FINGERPRINT"}, content : Contents]

ChunkTypeOK ==
  /\ cache \in [Contents -> Chunks \cup {None}]
  /\ ref \in [Chunks -> Chunks \cup {None}]
  /\ state \in [Chunks -> {"UNCOMPRESSED", "COMPRESSED", "FLUSHED"}]
  /\ file \in Seq(Records)

Anchors == UNION {[0..k -> Nat] : k \in Nat}

ReorderTypeOK ==
  /\ reorder \in [pc : {"receive", "write", "flush", "done", "mismatch", "out of bounds"},
                  recv : Seq(Chunks), qid : Qids, ended : Nat,
                  chunk : Chunks \cup {None}, next : [l1 : Nat, l2 : Nat],
                  perAnchor : Anchors, tree : SUBSET Chunks]
  /\ reorder.pc = "write" => reorder.chunk \in Chunks

PipelineTypeOK == QueueTypeOK /\ ThreadTypeOK /\ ChunkTypeOK /\ ReorderTypeOK

\* Only the named queue, or thread, changes.
OnlyQueue(n, q) ==
  \A m \in Queues, r \in Qids : m # n \/ r # q => que'[m][r] = que[m][r]

OnlyThread(p, t) ==
  \A r \in Pools, u \in Tids : r # p \/ u # t => thread'[r][u] = thread[r][u]

LEMMA QueueChange ==
  ASSUME QueuesOK, NEW n \in Queues, NEW q \in Qids, NEW v \in Seq(ItemsOf(n)),
         que' = [que EXCEPT ![n][q] = v]
  PROVE  /\ QueuesOK'
         /\ que'[n][q] = v
         /\ OnlyQueue(n, q)
<1>1. v \in Seq(Items)
  <2>1. ItemsOf(n) \subseteq Items
    BY DEF ItemsOf, Items
  <2> QED BY <2>1
<1>2. que \in [Queues -> [Qids -> Seq(Items)]]
  BY DEF QueuesOK
<1>3. /\ que' \in [Queues -> [Qids -> Seq(Items)]]
      /\ que'[n][q] = v
      /\ \A m \in Queues, r \in Qids : m # n \/ r # q => que'[m][r] = que[m][r]
  BY <1>1, <1>2, ChangeAt
<1>4. \A m \in Queues, r \in Qids : que'[m][r] \in Seq(ItemsOf(m))
  BY <1>3 DEF QueuesOK
<1> QED BY <1>3, <1>4 DEF OnlyQueue, QueuesOK

LEMMA ThreadChange ==
  ASSUME ThreadTypeOK, NEW p \in Pools, NEW t \in Tids, NEW v, ThreadOK(p, v),
         thread' = [thread EXCEPT ![p][t] = v]
  PROVE  /\ ThreadTypeOK'
         /\ thread'[p][t] = v
         /\ OnlyThread(p, t)
<1>1. v \in Thread /\ thread \in [Pools -> [Tids -> Thread]]
  BY DEF ThreadOK, ThreadTypeOK
<1>2. /\ thread' \in [Pools -> [Tids -> Thread]]
      /\ thread'[p][t] = v
      /\ \A r \in Pools, u \in Tids : r # p \/ u # t => thread'[r][u] = thread[r][u]
  BY <1>1, ChangeAt
<1>3. \A r \in Pools, u \in Tids : ThreadOK(r, thread'[r][u])
  BY <1>2 DEF ThreadTypeOK
<1> QED BY <1>2, <1>3 DEF OnlyThread, ThreadTypeOK

\* queue_enqueue moves as much as fits; the rest stays in the send buffer.
LEMMA EnqueueMoves ==
  ASSUME QueuesOK, NEW o \in Queues \ {"refine"}, NEW q \in Qids,
         NEW items \in Seq(Chunks), enqueue(o, q, items)
  PROVE  /\ QueuesOK'
         /\ OnlyQueue(o, q)
         /\ \E n \in 0..Len(items) :
              /\ que'[o][q] = que[o][q] \o Prefix(items, n)
              /\ notEnqueued(o, q, items) = Rest(items, n)
<1> DEFINE old  == que[o][q]
           room == QueueSize - Len(old)
           n    == Lesser(Len(items), room)
<1>1. old \in Seq(Chunks) /\ ItemsOf(o) = Chunks
  BY DEF QueuesOK, ItemsOf
<1>2. QueueSize \in Nat /\ Len(old) \in Nat /\ Len(items) \in Nat
  BY <1>1, PipelineAssumption
<1>3. room > 0 /\ room \in Nat
  BY <1>2 DEF enqueue
<1>4. n \in 0..Len(items)
  BY <1>2, <1>3 DEF Lesser
<1>5. que' = [que EXCEPT ![o][q] = old \o Prefix(items, n)]
  BY DEF enqueue
<1>6. old \o Prefix(items, n) \in Seq(ItemsOf(o))
  <2> HIDE DEF old, n
  <2>1. Prefix(items, n) \in Seq(Chunks)
    BY <1>4, Cut
  <2> QED BY <2>1, <1>1
<1>7. Rest(items, room) = Rest(items, n)
  <2>1. CASE Len(items) <= room
    <3>1. n = Len(items)
      BY <2>1 DEF Lesser
    <3>2. Rest(items, n) = << >>
      BY <3>1, <1>2 DEF Rest
    <3>3. Rest(items, room) = << >>
      <4> HIDE DEF room
      <4>1. room + 1 \in Int /\ Len(items) \in Int /\ Len(items) < room + 1
        BY <2>1, <1>2, <1>3
      <4>2. SubSeq(items, room + 1, Len(items)) = << >>
        BY <4>1, SubSeqEmpty
      <4> QED BY <4>2 DEF Rest
    <3> QED BY <3>2, <3>3
  <2>2. CASE ~(Len(items) <= room)
    BY <2>2 DEF Lesser
  <2> QED BY <2>1, <2>2
<1>8. /\ QueuesOK'
      /\ que'[o][q] = old \o Prefix(items, n)
      /\ OnlyQueue(o, q)
  <2> HIDE DEF old, n
  <2> QED BY <1>5, <1>6, QueueChange
<1> QED BY <1>4, <1>7, <1>8 DEF notEnqueued

-----------------------------------------------------------------------------
(* What each step of a thread does, in terms of the queues and the threads   *)
(* it changes.                                                               *)

LEMMA QueueNames ==
  /\ Pools \subseteq Queues /\ Queues = Pools \cup {"reorder"}
  /\ "refine" \in Pools /\ "deduplicate" \in Pools /\ "compress" \in Pools
  /\ "reorder" \notin Pools
  /\ \A p \in Pools : Terminates(p) \in Queues \ {"refine"}
  /\ Terminates("refine") = "deduplicate" /\ Terminates("deduplicate") = "compress"
  /\ Terminates("compress") = "reorder"
BY DEF Pools, Queues, Terminates, Outputs

LEMMA ThreadFacts ==
  ASSUME ThreadTypeOK, NEW p \in Pools, NEW t \in Tids
  PROVE  /\ thread[p][t] \in Thread
         /\ thread[p][t].recv \in Seq(ItemsOf(p))
         /\ thread[p][t].send \in [Queues -> Seq(Chunks)]
         /\ \A o \in Queues \ Receivers(p) : thread[p][t].send[o] = << >>
         /\ p = "refine" => thread[p][t].l2 < IF thread[p][t].recv = << >> THEN 1
                                              ELSE Size(Head(thread[p][t].recv))
         /\ QidOf(t) \in Qids
BY QueuesExist DEF ThreadTypeOK, ThreadOK, Thread

LEMMA FetchFacts ==
  ASSUME PipelineTypeOK, NEW p \in Pools, NEW t \in Tids, Fetch(p, t)
  PROVE  /\ PipelineTypeOK'
         /\ OnlyThread(p, t) /\ OnlyQueue(p, QidOf(t))
         /\ thread[p][t].recv = << >> /\ thread[p][t].phase = "loop"
         /\ thread'[p][t].send = thread[p][t].send
         /\ thread'[p][t].phase = "loop"
         /\ thread'[p][t].l2 = thread[p][t].l2
         /\ \E n \in 1..Len(que[p][QidOf(t)]) :
              /\ thread'[p][t].recv = Prefix(que[p][QidOf(t)], n)
              /\ que'[p][QidOf(t)] = Rest(que[p][QidOf(t)], n)
<1> DEFINE q   == QidOf(t)
           old == que[p][q]
           me  == thread[p][t]
           n   == Lesser(FetchLimit(p), Len(old))
           new == [me EXCEPT !.recv = Prefix(old, n)]
<1>1. /\ q \in Qids /\ p \in Queues /\ old \in Seq(ItemsOf(p)) /\ old # << >>
      /\ me \in Thread /\ me.recv = << >> /\ me.phase = "loop"
  BY ThreadFacts, QueueNames DEF PipelineTypeOK, QueueTypeOK, QueuesOK, Fetch, Ready
<1>2. n \in 1..Len(old)
  <2>1. FetchLimit(p) \in Nat \ {0}
    BY PipelineAssumption DEF FetchLimit
  <2>2. Len(old) \in Nat \ {0}
    BY <1>1
  <2> QED BY <2>1, <2>2 DEF Lesser
<1>3. /\ Prefix(old, n) \in Seq(ItemsOf(p)) /\ Len(Prefix(old, n)) = n
      /\ Rest(old, n) \in Seq(ItemsOf(p))
  <2> HIDE DEF old, n
  <2> QED BY <1>1, <1>2, Cut
<1>4. que' = [que EXCEPT ![p][q] = Rest(old, n)]
  BY DEF Fetch
<1>5. QueuesOK' /\ que'[p][q] = Rest(old, n) /\ OnlyQueue(p, q)
  <2> HIDE DEF old, n
  <2> QED BY <1>1, <1>3, <1>4, QueueChange DEF PipelineTypeOK, QueueTypeOK
<1>6. thread' = [thread EXCEPT ![p][t] = new]
  BY DEF Fetch
<1>7. /\ new.recv = Prefix(old, n) /\ new.send = me.send /\ new.phase = me.phase
      /\ new.l2 = me.l2
  BY <1>1 DEF Thread
<1>8. ThreadOK(p, new)
  <2>1. ItemsOf(p) \subseteq Items
    BY DEF ItemsOf, Items
  <2>2. Prefix(old, n) \in Seq(Items)
    BY <1>3, <2>1
  <2>3. new \in Thread
    <3> HIDE DEF old, n
    <3> QED BY <1>1, <2>2 DEF Thread
  <2>4. p = "refine" => new.l2 < IF new.recv = << >> THEN 1 ELSE Size(Head(new.recv))
    <3> SUFFICES ASSUME p = "refine"
                 PROVE  me.l2 < Size(Head(Prefix(old, n))) /\ Prefix(old, n) # << >>
      BY <1>7
    <3>1. me.l2 < 1 /\ me.l2 \in Nat
      BY <1>1, ThreadFacts DEF PipelineTypeOK, Thread
    <3>2. Prefix(old, n) # << >> /\ Head(Prefix(old, n)) \in CoarseIds
      <4> HIDE DEF old, n
      <4>1. Prefix(old, n) \in Seq(CoarseIds) /\ Len(Prefix(old, n)) > 0
        BY <1>2, <1>3 DEF ItemsOf
      <4> QED BY <4>1
    <3>3. Size(Head(Prefix(old, n))) \in Nat \ {0}
      BY <3>2, InputShape
    <3> QED BY <3>1, <3>2, <3>3
  <2>5. \A o \in Queues \ Receivers(p) : new.send[o] = << >>
    BY <1>7, ThreadFacts DEF PipelineTypeOK
  <2> HIDE DEF new
  <2> QED BY <1>3, <1>7, <2>3, <2>4, <2>5 DEF ThreadOK
<1>9. ThreadTypeOK' /\ thread'[p][t] = new /\ OnlyThread(p, t)
  <2> HIDE DEF new
  <2> QED BY <1>6, <1>8, ThreadChange DEF PipelineTypeOK
<1>10. UNCHANGED <<closed, frag, cache, ref, state, reorder, file>>
  BY DEF Fetch
<1>11. PipelineTypeOK'
  BY <1>5, <1>9, <1>10 DEF PipelineTypeOK, QueueTypeOK, ChunkTypeOK, ReorderTypeOK
<1> HIDE DEF new
<1> QED BY <1>1, <1>2, <1>5, <1>7, <1>9, <1>11

LEMMA EndOfInputFacts ==
  ASSUME PipelineTypeOK, NEW p \in Pools, NEW t \in Tids, EndOfInput(p, t)
  PROVE  /\ PipelineTypeOK'
         /\ OnlyThread(p, t)
         /\ thread[p][t].recv = << >> /\ thread[p][t].phase = "loop"
         /\ thread'[p][t].recv = << >>
         /\ thread'[p][t].send = thread[p][t].send
         /\ thread'[p][t].phase = "drain"
         /\ thread'[p][t].l2 = thread[p][t].l2
<1> DEFINE me  == thread[p][t]
           new == [me EXCEPT !.phase = "drain"]
<1>1. me \in Thread /\ me.recv = << >> /\ me.phase = "loop" /\ ThreadOK(p, me)
  BY ThreadFacts DEF PipelineTypeOK, ThreadTypeOK, EndOfInput, Ready
<1>2. thread' = [thread EXCEPT ![p][t] = new]
  BY DEF EndOfInput
<1>3. /\ new.recv = << >> /\ new.send = me.send /\ new.phase = "drain" /\ new.l2 = me.l2
      /\ new \in Thread
  BY <1>1 DEF Thread
<1>4. ThreadOK(p, new)
  <2> HIDE DEF new
  <2> QED BY <1>1, <1>3 DEF ThreadOK
<1>5. ThreadTypeOK' /\ thread'[p][t] = new /\ OnlyThread(p, t)
  <2> HIDE DEF new
  <2> QED BY <1>2, <1>4, ThreadChange DEF PipelineTypeOK
<1>6. UNCHANGED <<que, closed, frag, cache, ref, state, reorder, file>>
  BY DEF EndOfInput
<1>7. PipelineTypeOK'
  BY <1>5, <1>6 DEF PipelineTypeOK, QueueTypeOK, QueuesOK, ChunkTypeOK, ReorderTypeOK
<1> HIDE DEF new
<1> QED BY <1>1, <1>3, <1>5, <1>7

LEMMA ReceiverNames ==
  /\ \A p \in Pools : Receivers(p) \subseteq Queues \ {"refine"} /\ Terminates(p) \in Receivers(p)
  /\ \A p \in Pools : Receivers(p) = IF p = "refine" THEN {"deduplicate"}
                                     ELSE IF p = "deduplicate" THEN {"compress", "reorder"}
                                     ELSE {"reorder"}
BY DEF Receivers, Pools, Queues, Terminates, Outputs

LEMMA SendFacts ==
  ASSUME PipelineTypeOK, NEW p \in Pools, NEW t \in Tids, NEW o \in Queues, Send(p, t, o)
  PROVE  /\ PipelineTypeOK'
         /\ OnlyThread(p, t) /\ OnlyQueue(o, QidOf(t))
         /\ o \in Receivers(p) /\ o \in Queues \ {"refine"}
         /\ thread[p][t].send[o] # << >> /\ MustSend(p, t, o)
         /\ thread'[p][t].recv = thread[p][t].recv
         /\ thread'[p][t].phase = thread[p][t].phase
         /\ thread'[p][t].l2 = thread[p][t].l2
         /\ \A m \in Queues : m # o => thread'[p][t].send[m] = thread[p][t].send[m]
         /\ \E n \in 0..Len(thread[p][t].send[o]) :
              /\ que'[o][QidOf(t)] = que[o][QidOf(t)] \o Prefix(thread[p][t].send[o], n)
              /\ thread'[p][t].send[o] = Rest(thread[p][t].send[o], n)
<1> DEFINE q     == QidOf(t)
           me    == thread[p][t]
           items == me.send[o]
           left  == notEnqueued(o, q, items)
           new   == [me EXCEPT !.send = [me.send EXCEPT ![o] = left]]
<1>1. /\ q \in Qids /\ me \in Thread /\ items \in Seq(Chunks)
      /\ me.send \in [Queues -> Seq(Chunks)]
  BY ThreadFacts DEF PipelineTypeOK
<1>2. items # << >>
  BY <1>1, PipelineAssumption DEF Send, MustSend
<1>3. o \in Receivers(p) /\ o \in Queues \ {"refine"}
  BY <1>2, ThreadFacts, ReceiverNames DEF PipelineTypeOK
<1>4. enqueue(o, q, items) /\ MustSend(p, t, o)
  BY DEF Send
<1>5. QueuesOK' /\ OnlyQueue(o, q)
  BY <1>1, <1>3, <1>4, EnqueueMoves DEF PipelineTypeOK, QueueTypeOK
<1>6. PICK n \in 0..Len(items) : que'[o][q] = que[o][q] \o Prefix(items, n) /\ left = Rest(items, n)
  BY <1>1, <1>3, <1>4, EnqueueMoves DEF PipelineTypeOK, QueueTypeOK
<1>7. left \in Seq(Chunks)
  <2> HIDE DEF left, items
  <2> QED BY <1>1, <1>6, Cut
<1>8. thread' = [thread EXCEPT ![p][t] = new]
  BY DEF Send
<1>9. /\ new.recv = me.recv /\ new.phase = me.phase /\ new.l2 = me.l2
      /\ new.send[o] = left
      /\ \A m \in Queues : m # o => new.send[m] = me.send[m]
      /\ new \in Thread
  <2> HIDE DEF left
  <2> QED BY <1>1, <1>7 DEF Thread
<1>10. ThreadOK(p, new)
  <2> HIDE DEF new, left
  <2>1. ThreadOK(p, me)
    BY DEF PipelineTypeOK, ThreadTypeOK
  <2> QED BY <2>1, <1>3, <1>9 DEF ThreadOK
<1>11. ThreadTypeOK' /\ thread'[p][t] = new /\ OnlyThread(p, t)
  <2> HIDE DEF new
  <2> QED BY <1>8, <1>10, ThreadChange DEF PipelineTypeOK
<1>12. UNCHANGED <<closed, frag, cache, ref, state, reorder, file>>
  BY DEF Send
<1>13. PipelineTypeOK'
  BY <1>5, <1>11, <1>12 DEF PipelineTypeOK, QueueTypeOK, ChunkTypeOK, ReorderTypeOK
<1> HIDE DEF new, left
<1> QED BY <1>2, <1>3, <1>4, <1>5, <1>6, <1>9, <1>11, <1>13

\* A queue is announced to have ended by one more of its producers.
LEMMA TerminateFacts ==
  ASSUME QueueTypeOK, NEW n \in Queues, NEW q \in Qids, queue_terminate(n, q)
  PROVE  /\ closed' \in [Queues -> [Qids -> Nat]]
         /\ closed'[n][q] = closed[n][q] + 1
         /\ \A m \in Queues, r \in Qids : m # n \/ r # q => closed'[m][r] = closed[m][r]
<1>1. closed \in [Queues -> [Qids -> Nat]] /\ closed[n][q] + 1 \in Nat
  BY DEF QueueTypeOK
<1>2. closed' = [closed EXCEPT ![n][q] = closed[n][q] + 1]
  BY DEF queue_terminate
<1> QED BY <1>1, <1>2, ChangeAt

LEMMA ShutdownFacts ==
  ASSUME PipelineTypeOK, NEW p \in Pools, NEW t \in Tids, Shutdown(p, t)
  PROVE  /\ PipelineTypeOK'
         /\ OnlyThread(p, t)
         /\ thread[p][t].phase = "drain" /\ \A o \in Queues : thread[p][t].send[o] = << >>
         /\ thread'[p][t].recv = thread[p][t].recv
         /\ thread'[p][t].send = thread[p][t].send
         /\ thread'[p][t].phase = "done"
         /\ thread'[p][t].l2 = thread[p][t].l2
         /\ closed'[Terminates(p)][QidOf(t)] = closed[Terminates(p)][QidOf(t)] + 1
         /\ \A m \in Queues, r \in Qids :
              m # Terminates(p) \/ r # QidOf(t) => closed'[m][r] = closed[m][r]
<1> DEFINE me  == thread[p][t]
           new == [me EXCEPT !.phase = "done"]
<1>1. /\ me \in Thread /\ me.phase = "drain" /\ ThreadOK(p, me)
      /\ \A o \in Queues : me.send[o] = << >>
  BY ThreadFacts DEF PipelineTypeOK, ThreadTypeOK, Shutdown
<1>2. thread' = [thread EXCEPT ![p][t] = new]
  BY DEF Shutdown
<1>3. /\ new.recv = me.recv /\ new.send = me.send /\ new.phase = "done" /\ new.l2 = me.l2
      /\ new \in Thread
  BY <1>1 DEF Thread
<1>4. ThreadOK(p, new)
  <2> HIDE DEF new
  <2> QED BY <1>1, <1>3 DEF ThreadOK
<1>5. ThreadTypeOK' /\ thread'[p][t] = new /\ OnlyThread(p, t)
  <2> HIDE DEF new
  <2> QED BY <1>2, <1>4, ThreadChange DEF PipelineTypeOK
<1>6. UNCHANGED <<que, frag, cache, ref, state, reorder, file>>
  BY DEF Shutdown
<1>7. queue_terminate(Terminates(p), QidOf(t)) /\ Terminates(p) \in Queues /\ QidOf(t) \in Qids
  BY QueueNames, QueuesExist DEF Shutdown
<1>8. /\ closed' \in [Queues -> [Qids -> Nat]]
      /\ closed'[Terminates(p)][QidOf(t)] = closed[Terminates(p)][QidOf(t)] + 1
      /\ \A m \in Queues, r \in Qids :
           m # Terminates(p) \/ r # QidOf(t) => closed'[m][r] = closed[m][r]
  BY <1>7, TerminateFacts DEF PipelineTypeOK
<1>9. PipelineTypeOK'
  BY <1>5, <1>6, <1>8 DEF PipelineTypeOK, QueueTypeOK, QueuesOK, ChunkTypeOK, ReorderTypeOK
<1> HIDE DEF new
<1> QED BY <1>1, <1>3, <1>5, <1>8, <1>9

\* The chunk that FragmentRefine cuts off next.
NextCut(t) == [l1 |-> Head(thread["refine"][t].recv), l2 |-> thread["refine"][t].l2]

LEMMA CutFacts ==
  ASSUME PipelineTypeOK, NEW t \in Tids, FragmentRefine(t)
  PROVE  LET me  == thread["refine"][t]
             you == thread'["refine"][t]
             c   == NextCut(t)
         IN  /\ PipelineTypeOK'
             /\ OnlyThread("refine", t)
             /\ me.recv # << >> /\ c \in Chunks
             /\ me.phase = "loop" /\ you.phase = "loop"
             /\ you.send["deduplicate"] = Append(me.send["deduplicate"], c)
             /\ \A m \in Queues : m # "deduplicate" => you.send[m] = me.send[m]
             /\ IF me.l2 + 1 = Size(Head(me.recv))
                THEN you.recv = Tail(me.recv) /\ you.l2 = 0
                ELSE you.recv = me.recv /\ you.l2 = me.l2 + 1
<1> DEFINE me   == thread["refine"][t]
           c    == [l1 |-> Head(me.recv), l2 |-> me.l2]
           last == isLastL2Chunk(c)
           recv == IF last THEN Tail(me.recv) ELSE me.recv
           l2   == IF last THEN 0 ELSE me.l2 + 1
           buf  == [me.send EXCEPT !["deduplicate"] = Append(me.send["deduplicate"], c)]
           new  == [me EXCEPT !.send = buf, !.recv = recv, !.l2 = l2]
<1>1. /\ me \in Thread /\ me.recv \in Seq(CoarseIds) /\ me.recv # << >>
      /\ me.send \in [Queues -> Seq(Chunks)] /\ me.l2 \in Nat
      /\ \A o \in Queues \ {"deduplicate"} : me.send[o] = << >>
      /\ me.l2 < Size(Head(me.recv)) /\ me.phase = "loop"
  BY ThreadFacts, QueueNames, ReceiverNames
     DEF PipelineTypeOK, ItemsOf, FragmentRefine, Ready, Thread
<1>2. Head(me.recv) \in CoarseIds /\ Size(Head(me.recv)) \in Nat
  BY <1>1, InputShape
<1>3. c \in Chunks
  BY <1>1, <1>2, ChunkShape
<1>4. last <=> me.l2 + 1 = Size(Head(me.recv))
  BY DEF isLastL2Chunk, Size
<1>5. recv \in Seq(CoarseIds) /\ l2 \in Nat /\ l2 < IF recv = << >> THEN 1 ELSE Size(Head(recv))
  <2>1. CASE last
    <3>1. recv = Tail(me.recv) /\ l2 = 0
      BY <2>1
    <3>2. Tail(me.recv) \in Seq(CoarseIds)
      BY <1>1
    <3>3. recv \in Seq(CoarseIds)
      BY <3>1, <3>2
    <3> HIDE DEF recv, l2
    <3>4. recv # << >> => Head(recv) \in CoarseIds
      BY <3>3
    <3>5. recv # << >> => Size(Head(recv)) \in Nat \ {0}
      BY <3>4, InputShape
    <3>6. l2 = 0
      BY <3>1
    <3>7. recv # << >> => l2 < Size(Head(recv))
      BY <3>5, <3>6
    <3> QED BY <3>3, <3>6, <3>7
  <2>2. CASE ~last
    <3>1. recv = me.recv /\ l2 = me.l2 + 1
      BY <2>2
    <3>2. me.l2 + 1 # Size(Head(me.recv))
      BY <1>4, <2>2
    <3> HIDE DEF recv, l2
    <3> QED BY <1>1, <1>2, <3>1, <3>2
  <2> QED BY <2>1, <2>2
<1>6. /\ buf \in [Queues -> Seq(Chunks)]
      /\ buf["deduplicate"] = Append(me.send["deduplicate"], c)
      /\ \A m \in Queues : m # "deduplicate" => buf[m] = me.send[m]
  <2>1. Append(me.send["deduplicate"], c) \in Seq(Chunks) /\ "deduplicate" \in Queues
    BY <1>1, <1>3, QueueNames
  <2> HIDE DEF c
  <2> QED BY <1>1, <2>1
<1>7. thread' = [thread EXCEPT !["refine"][t] = new]
  BY DEF FragmentRefine
<1>8. /\ new.recv = recv /\ new.send = buf /\ new.phase = "loop" /\ new.l2 = l2
      /\ new \in Thread
  <2>1. recv \in Seq(Items)
    BY <1>5 DEF Items
  <2> HIDE DEF recv, buf, l2
  <2> QED BY <1>1, <1>5, <1>6, <2>1 DEF Thread
<1>9. ThreadOK("refine", new)
  <2>1. \A o \in Queues \ Receivers("refine") : buf[o] = << >>
    <3>1. \A o \in Queues \ Receivers("refine") : o \in Queues \ {"deduplicate"}
      BY DEF Receivers
    <3> HIDE DEF me, buf, c
    <3> QED BY <1>1, <1>6, <3>1
  <2> HIDE DEF new, recv, buf, l2
  <2> QED BY <1>5, <1>8, <2>1 DEF ThreadOK, ItemsOf
<1>10. ThreadTypeOK' /\ thread'["refine"][t] = new /\ OnlyThread("refine", t)
  <2> HIDE DEF new
  <2> QED BY <1>7, <1>9, ThreadChange, QueueNames DEF PipelineTypeOK
<1>11. UNCHANGED <<que, closed, frag, cache, ref, state, reorder, file>>
  BY DEF FragmentRefine
<1>12. PipelineTypeOK'
  BY <1>10, <1>11 DEF PipelineTypeOK, QueueTypeOK, QueuesOK, ChunkTypeOK, ReorderTypeOK
<1>13. IF me.l2 + 1 = Size(Head(me.recv))
       THEN recv = Tail(me.recv) /\ l2 = 0
       ELSE recv = me.recv /\ l2 = me.l2 + 1
  BY <1>4
<1>14. NextCut(t) = c
  BY DEF NextCut
<1> HIDE DEF new, recv, l2, buf, c
<1> QED BY <1>1, <1>3, <1>6, <1>8, <1>10, <1>12, <1>13, <1>14

\* A thread of the other pools hands its first chunk on.
HandsOn(p, t, o) ==
  LET me  == thread[p][t]
      you == thread'[p][t]
      c   == Head(me.recv)
  IN  /\ PipelineTypeOK'
      /\ OnlyThread(p, t)
      /\ me.recv \in Seq(Chunks) /\ me.recv # << >> /\ c \in Chunks
      /\ me.phase = "loop" /\ you.phase = "loop"
      /\ you.recv = Tail(me.recv) /\ you.l2 = me.l2
      /\ you.send[o] = Append(me.send[o], c)
      /\ \A m \in Queues : m # o => you.send[m] = me.send[m]

LEMMA HandOn ==
  ASSUME PipelineTypeOK, NEW p \in {"deduplicate", "compress"}, NEW t \in Tids,
         NEW o \in Receivers(p), ChunkTypeOK', UNCHANGED <<que, closed, frag, reorder>>,
         thread[p][t].recv # << >>, thread[p][t].phase = "loop",
         thread' = [thread EXCEPT ![p][t] =
                      [thread[p][t] EXCEPT
                         !.recv = Tail(thread[p][t].recv),
                         !.send = [thread[p][t].send EXCEPT
                                     ![o] = Append(thread[p][t].send[o], Head(thread[p][t].recv))]]]
  PROVE  HandsOn(p, t, o)
<1> DEFINE me   == thread[p][t]
           c    == Head(me.recv)
           recv == Tail(me.recv)
           buf  == [me.send EXCEPT ![o] = Append(me.send[o], c)]
           new  == [me EXCEPT !.recv = recv, !.send = buf]
<1>0. p \in Pools /\ p # "refine"
  BY QueueNames
<1>1. /\ p \in Pools /\ p # "refine"
      /\ me \in Thread /\ me.recv \in Seq(Chunks) /\ me.recv # << >>
      /\ me.send \in [Queues -> Seq(Chunks)] /\ me.phase = "loop"
      /\ \A m \in Queues \ Receivers(p) : me.send[m] = << >>
  BY <1>0, ThreadFacts DEF PipelineTypeOK, ItemsOf
<1>2. c \in Chunks /\ recv \in Seq(Chunks) /\ o \in Queues
  BY <1>1, ReceiverNames
<1>3. /\ buf \in [Queues -> Seq(Chunks)]
      /\ buf[o] = Append(me.send[o], c)
      /\ \A m \in Queues : m # o => buf[m] = me.send[m]
  <2>1. Append(me.send[o], c) \in Seq(Chunks)
    BY <1>1, <1>2
  <2> HIDE DEF c
  <2> QED BY <1>1, <1>2, <2>1
<1>4. /\ new.recv = recv /\ new.send = buf /\ new.phase = "loop" /\ new.l2 = me.l2
      /\ new \in Thread
  <2>1. recv \in Seq(Items)
    <3> HIDE DEF recv
    <3> QED BY <1>2 DEF Items
  <2> HIDE DEF recv, buf
  <2> QED BY <1>1, <1>3, <2>1 DEF Thread
<1>5. ThreadOK(p, new)
  <2>1. \A m \in Queues \ Receivers(p) : buf[m] = << >>
    <3> HIDE DEF buf
    <3> QED BY <1>1, <1>3
  <2> HIDE DEF new, recv, buf
  <2> QED BY <1>1, <1>2, <1>4, <2>1 DEF ThreadOK, ItemsOf
<1>6. ThreadTypeOK' /\ thread'[p][t] = new /\ OnlyThread(p, t)
  <2>1. thread' = [thread EXCEPT ![p][t] = new]
    OBVIOUS
  <2> HIDE DEF new
  <2> QED BY <2>1, <1>1, <1>5, ThreadChange DEF PipelineTypeOK
<1>7. PipelineTypeOK'
  BY <1>6 DEF PipelineTypeOK, QueueTypeOK, QueuesOK, ReorderTypeOK
<1> HIDE DEF new, recv, buf
<1> QED BY <1>1, <1>2, <1>3, <1>4, <1>6, <1>7 DEF HandsOn, recv

LEMMA DeduplicateFacts ==
  ASSUME PipelineTypeOK, NEW t \in Tids, Deduplicate(t)
  PROVE  LET c == Head(thread["deduplicate"][t].recv)
             x == Content(c)
             o == IF cache[x] = None THEN "compress" ELSE "reorder"
         IN  /\ HandsOn("deduplicate", t, o)
             /\ c \in Chunks /\ x \in Contents
             /\ IF cache[x] = None
                THEN cache' = [cache EXCEPT ![x] = c] /\ ref' = ref
                ELSE ref' = [ref EXCEPT ![c] = cache[x]] /\ cache' = cache
<1> DEFINE me == thread["deduplicate"][t]
           c  == Head(me.recv)
           x  == Content(c)
           o  == IF cache[x] = None THEN "compress" ELSE "reorder"
<1>1. me.recv \in Seq(Chunks) /\ me.recv # << >> /\ me.phase = "loop"
  BY ThreadFacts, QueueNames DEF PipelineTypeOK, ItemsOf, Deduplicate, Ready
<1>2. c \in Chunks /\ x \in Contents
  BY <1>1, ChunkShape
<1>3. IF cache[x] = None
      THEN cache' = [cache EXCEPT ![x] = c] /\ ref' = ref
      ELSE ref' = [ref EXCEPT ![c] = cache[x]] /\ cache' = cache
  BY DEF Deduplicate
<1>4. ChunkTypeOK'
  <2>1. UNCHANGED <<state, file>>
    BY DEF Deduplicate
  <2> HIDE DEF c, x
  <2> QED BY <1>2, <1>3, <2>1 DEF PipelineTypeOK, ChunkTypeOK
<1>5. UNCHANGED <<que, closed, frag, reorder>>
  BY DEF Deduplicate
<1>6. o \in Receivers("deduplicate")
  BY ReceiverNames, QueueNames
<1>7. thread' = [thread EXCEPT !["deduplicate"][t] =
                   [me EXCEPT !.recv = Tail(me.recv),
                              !.send = [me.send EXCEPT ![o] = Append(me.send[o], c)]]]
  BY DEF Deduplicate
<1>8. HandsOn("deduplicate", t, o)
  <2> HIDE DEF o
  <2> QED BY <1>1, <1>4, <1>5, <1>6, <1>7, HandOn
<1> QED BY <1>2, <1>3, <1>8

LEMMA CompressFacts ==
  ASSUME PipelineTypeOK, NEW t \in Tids, Compress(t)
  PROVE  /\ HandsOn("compress", t, "reorder")
         /\ Head(thread["compress"][t].recv) \in Chunks
         /\ state' = [state EXCEPT ![Head(thread["compress"][t].recv)] = "COMPRESSED"]
<1> DEFINE me == thread["compress"][t]
           c  == Head(me.recv)
<1>1. me.recv \in Seq(Chunks) /\ me.recv # << >> /\ me.phase = "loop"
  BY ThreadFacts, QueueNames DEF PipelineTypeOK, ItemsOf, Compress, Ready
<1>2. c \in Chunks
  BY <1>1
<1>3. state' = [state EXCEPT ![c] = "COMPRESSED"]
  BY DEF Compress
<1>4. ChunkTypeOK'
  <2>1. UNCHANGED <<cache, ref, file>>
    BY DEF Compress
  <2> HIDE DEF c
  <2> QED BY <1>2, <1>3, <2>1 DEF PipelineTypeOK, ChunkTypeOK
<1>5. UNCHANGED <<que, closed, frag, reorder>>
  BY DEF Compress
<1>6. "reorder" \in Receivers("compress")
  BY ReceiverNames, QueueNames
<1>7. thread' = [thread EXCEPT !["compress"][t] =
                   [me EXCEPT !.recv = Tail(me.recv),
                              !.send = [me.send EXCEPT !["reorder"] = Append(me.send["reorder"], c)]]]
  BY DEF Compress
<1> QED BY <1>1, <1>2, <1>3, <1>4, <1>5, <1>6, <1>7, HandOn

LEMMA FragmentSendFacts ==
  ASSUME PipelineTypeOK, FragmentSend
  PROVE  /\ PipelineTypeOK'
         /\ frag.sent \in CoarseIds /\ frag.qid \in Qids
         /\ OnlyQueue("refine", frag.qid)
         /\ que'["refine"][frag.qid] = Append(que["refine"][frag.qid], frag.sent)
         /\ frag'.sent = frag.sent + 1 /\ frag'.closed = frag.closed
<1> DEFINE q    == frag.qid
           x    == frag.sent
           old  == que["refine"][q]
           room == QueueSize - Len(old)
<1>1. /\ x \in Nat /\ x < Len(Input) /\ q \in Qids /\ Len(Input) \in Nat
      /\ frag \in [sent : 0..Len(Input), qid : Qids, closed : 0..NQueues]
      /\ old \in Seq(CoarseIds)
  BY InputShape, QueueNames
     DEF PipelineTypeOK, QueueTypeOK, QueuesOK, ItemsOf, FragmentSend
<1>2. x \in CoarseIds
  BY <1>1 DEF CoarseIds
<1>3. room \in Nat /\ room > 0
  <2>1. Len(old) < QueueSize /\ QueueSize \in Nat /\ Len(old) \in Nat
    BY <1>1, PipelineAssumption DEF FragmentSend, enqueue
  <2> QED BY <2>1
<1>4. Lesser(Len(<<x>>), room) = 1
  BY <1>3 DEF Lesser
<1>5. Prefix(<<x>>, 1) = <<x>>
  <2>1. <<x>> \in Seq({x}) /\ Len(<<x>>) = 1
    OBVIOUS
  <2> QED BY <2>1, SubSeqFull DEF Prefix
<1>6. que' = [que EXCEPT !["refine"][q] = old \o Prefix(<<x>>, Lesser(Len(<<x>>), room))]
  BY DEF FragmentSend, enqueue
<1>7. que' = [que EXCEPT !["refine"][q] = old \o <<x>>]
  BY <1>4, <1>5, <1>6
<1>8. old \o <<x>> = Append(old, x) /\ Append(old, x) \in Seq(ItemsOf("refine"))
  BY <1>1, <1>2, AppendIsConcat DEF ItemsOf
<1>9. QueuesOK' /\ que'["refine"][q] = Append(old, x) /\ OnlyQueue("refine", q)
  <2> HIDE DEF old
  <2> QED BY <1>1, <1>7, <1>8, QueueChange, QueueNames DEF PipelineTypeOK, QueueTypeOK
<1>10. (q + 1) % NQueues \in Qids
  <2>1. NQueues \in Nat \ {0} /\ q + 1 \in Nat
    BY <1>1, QueuesExist DEF Qids
  <2> QED BY <2>1 DEF Qids
<1>11. /\ frag' \in [sent : 0..Len(Input), qid : Qids, closed : 0..NQueues]
       /\ frag'.sent = x + 1 /\ frag'.closed = frag.closed
  <2>1. frag' = [frag EXCEPT !.sent = x + 1, !.qid = (q + 1) % NQueues]
    BY DEF FragmentSend
  <2>2. x + 1 \in 0..Len(Input)
    BY <1>1
  <2> QED BY <2>1, <2>2, <1>1, <1>10
<1>12. UNCHANGED <<closed, thread, cache, ref, state, reorder, file>>
  BY DEF FragmentSend
<1>13. PipelineTypeOK'
  BY <1>9, <1>11, <1>12 DEF PipelineTypeOK, QueueTypeOK, ThreadTypeOK, ChunkTypeOK, ReorderTypeOK
<1> QED BY <1>1, <1>2, <1>9, <1>11, <1>13

LEMMA FragmentTerminateFacts ==
  ASSUME PipelineTypeOK, FragmentTerminate
  PROVE  /\ PipelineTypeOK'
         /\ frag.sent = Len(Input) /\ frag.closed \in Qids
         /\ frag'.sent = frag.sent /\ frag'.closed = frag.closed + 1
         /\ closed'["refine"][frag.closed] = closed["refine"][frag.closed] + 1
         /\ \A m \in Queues, r \in Qids :
              m # "refine" \/ r # frag.closed => closed'[m][r] = closed[m][r]
<1>1. /\ frag \in [sent : 0..Len(Input), qid : Qids, closed : 0..NQueues]
      /\ frag.sent = Len(Input) /\ frag.closed < NQueues
  BY DEF PipelineTypeOK, QueueTypeOK, FragmentTerminate
<1>2. frag.closed \in Qids /\ NQueues \in Nat
  BY <1>1, QueuesExist DEF Qids
<1>3. /\ frag' \in [sent : 0..Len(Input), qid : Qids, closed : 0..NQueues]
      /\ frag'.sent = frag.sent /\ frag'.closed = frag.closed + 1
  <2>1. frag' = [frag EXCEPT !.closed = frag.closed + 1]
    BY DEF FragmentTerminate
  <2>2. frag.closed + 1 \in 0..NQueues
    BY <1>1, <1>2
  <2> QED BY <2>1, <2>2, <1>1
<1>4. /\ closed' \in [Queues -> [Qids -> Nat]]
      /\ closed'["refine"][frag.closed] = closed["refine"][frag.closed] + 1
      /\ \A m \in Queues, r \in Qids :
           m # "refine" \/ r # frag.closed => closed'[m][r] = closed[m][r]
  <2>1. queue_terminate("refine", frag.closed)
    BY DEF FragmentTerminate
  <2>2. QueueTypeOK /\ "refine" \in Queues
    BY QueueNames DEF PipelineTypeOK
  <2> QED BY <2>1, <2>2, <1>2, TerminateFacts
<1>5. UNCHANGED <<que, thread, cache, ref, state, reorder, file>>
  BY DEF FragmentTerminate
<1>6. PipelineTypeOK'
  BY <1>3, <1>4, <1>5
     DEF PipelineTypeOK, QueueTypeOK, QueuesOK, ThreadTypeOK, ChunkTypeOK, ReorderTypeOK
<1> QED BY <1>1, <1>2, <1>3, <1>4, <1>6

-----------------------------------------------------------------------------
(* What Reorder's steps do. *)

ReorderRec ==
  [pc : {"receive", "write", "flush", "done", "mismatch", "out of bounds"},
   recv : Seq(Chunks), qid : Qids, ended : Nat,
   chunk : Chunks \cup {None}, next : [l1 : Nat, l2 : Nat],
   perAnchor : Anchors, tree : SUBSET Chunks]

LEMMA AnchorsGrow ==
  ASSUME NEW f \in Anchors, NEW a \in Nat, NEW v \in Nat
  PROVE  /\ Grown(f, a) \in Anchors
         /\ \A x \in DOMAIN Grown(f, a) :
              Grown(f, a)[x] = IF x \in DOMAIN f THEN f[x] ELSE 0
         /\ DOMAIN f \subseteq DOMAIN Grown(f, a)
         /\ \A g \in Anchors : [g EXCEPT ![a] = v] \in Anchors
<1>1. PICK k \in Nat : f \in [0..k -> Nat]
  BY DEF Anchors
<1>2. Cardinality(DOMAIN f) = k + 1
  <2>1. Cardinality(0..k) = k + 1
    BY FS_Interval
  <2> QED BY <1>1, <2>1
<1> DEFINE g == [x \in 0..(2 * Cardinality(DOMAIN f) - 1) |-> IF x \in DOMAIN f THEN f[x] ELSE 0]
<1>3. /\ g \in [0..(2 * k + 1) -> Nat] /\ 2 * k + 1 \in Nat
      /\ \A x \in DOMAIN g : g[x] = IF x \in DOMAIN f THEN f[x] ELSE 0
      /\ DOMAIN f \subseteq DOMAIN g
  <2>1. 2 * Cardinality(DOMAIN f) - 1 = 2 * k + 1 /\ 0..k \subseteq 0..(2 * k + 1)
    BY <1>1, <1>2
  <2> QED BY <1>1, <2>1
<1>4. g \in Anchors
  BY <1>3 DEF Anchors
<1>5. Grown(f, a) = IF a \in DOMAIN f THEN f ELSE g
  BY DEF Grown
<1>6. ASSUME NEW h \in Anchors
      PROVE  [h EXCEPT ![a] = v] \in Anchors
  <2>1. PICK j \in Nat : h \in [0..j -> Nat]
    BY DEF Anchors
  <2>2. [h EXCEPT ![a] = v] \in [0..j -> Nat]
    BY <2>1
  <2> QED BY <2>2 DEF Anchors
<1> HIDE DEF g
<1> QED BY <1>3, <1>4, <1>5, <1>6

\* The chunk whose data a chunk has: itself, or the one found first.
Origin(c) == IF isDuplicate(c) THEN ref[c] ELSE c

LEMMA WriteFacts ==
  ASSUME ChunkTypeOK, NEW c \in Chunks, write_chunk_to_file(c), UNCHANGED <<cache, ref>>
  PROVE  LET orig == Origin(c)
         IN  /\ ChunkTypeOK'
             /\ orig \in Chunks /\ Content(orig) \in Contents
             /\ state[orig] \in {"COMPRESSED", "FLUSHED"}
             /\ IF state[orig] = "COMPRESSED"
                THEN /\ file' = Append(file, Data(Content(orig)))
                     /\ state' = [state EXCEPT ![orig] = "FLUSHED"]
                ELSE /\ file' = Append(file, Fingerprint(Content(orig)))
                     /\ state' = state
<1> DEFINE orig == Origin(c)
<1>1. orig \in Chunks
  BY DEF ChunkTypeOK, Origin, isDuplicate
<1>2. Content(orig) \in Contents
  BY <1>1, ChunkShape
<1>3. /\ state[orig] # "UNCOMPRESSED"
      /\ IF state[orig] = "COMPRESSED"
         THEN /\ file' = Append(file, Data(Content(orig)))
              /\ state' = [state EXCEPT ![orig] = "FLUSHED"]
         ELSE /\ file' = Append(file, Fingerprint(Content(orig)))
              /\ state' = state
  BY DEF write_chunk_to_file, Origin
<1> HIDE DEF orig
<1>4. state[orig] \in {"COMPRESSED", "FLUSHED"}
  BY <1>1, <1>3 DEF ChunkTypeOK
<1>5. Data(Content(orig)) \in Records /\ Fingerprint(Content(orig)) \in Records
  BY <1>2 DEF Data, Fingerprint, Records
<1>6. file' \in Seq(Records)
  <2>1. file \in Seq(Records)
    BY DEF ChunkTypeOK
  <2>2. \E r \in Records : file' = Append(file, r)
    BY <1>3, <1>5
  <2> QED BY <2>1, <2>2
<1>7. state' \in [Chunks -> {"UNCOMPRESSED", "COMPRESSED", "FLUSHED"}]
  BY <1>1, <1>3 DEF ChunkTypeOK
<1>8. ChunkTypeOK'
  BY <1>6, <1>7 DEF ChunkTypeOK
<1> QED BY <1>1, <1>2, <1>3, <1>4, <1>8 DEF orig

LEMMA ReorderRecord ==
  ASSUME ReorderTypeOK
  PROVE  /\ reorder \in ReorderRec
         /\ reorder.pc = "write" => reorder.chunk \in Chunks
         /\ reorder.recv \in Seq(Chunks) /\ reorder.qid \in Qids /\ reorder.ended \in Nat
         /\ reorder.next \in [l1 : Nat, l2 : Nat] /\ reorder.perAnchor \in Anchors
         /\ reorder.tree \in SUBSET Chunks
BY DEF ReorderTypeOK, ReorderRec

\* What Reorder keeps of the chunks while it asks for more.
SameTree == /\ reorder'.chunk = reorder.chunk /\ reorder'.next = reorder.next
            /\ reorder'.perAnchor = reorder.perAnchor /\ reorder'.tree = reorder.tree

LEMMA ReorderDequeueFacts ==
  ASSUME PipelineTypeOK, ReorderDequeue
  PROVE  /\ PipelineTypeOK'
         /\ reorder.pc = "receive" /\ reorder.recv = << >> /\ SameTree
         /\ reorder'.qid = (reorder.qid + 1) % NQueues
         /\ \/ /\ que["reorder"][reorder.qid] # << >>
               /\ reorder'.ended = 0 /\ reorder'.pc = "receive"
               /\ OnlyQueue("reorder", reorder.qid)
               /\ \E n \in 1..Len(que["reorder"][reorder.qid]) :
                    /\ reorder'.recv = Prefix(que["reorder"][reorder.qid], n)
                    /\ que'["reorder"][reorder.qid] = Rest(que["reorder"][reorder.qid], n)
            \/ /\ que["reorder"][reorder.qid] = << >> /\ que' = que
               /\ queue_isTerminated("reorder", reorder.qid)
               /\ reorder'.recv = << >>
               /\ reorder'.ended = reorder.ended + 1
               /\ reorder'.pc = IF reorder.ended + 1 = NQueues THEN "flush" ELSE "receive"
<1> DEFINE q     == reorder.qid
           items == que["reorder"][q]
           n     == Lesser(PerFetch, Len(items))
           turn  == (q + 1) % NQueues
<1>1. /\ reorder \in ReorderRec /\ reorder.pc = "receive" /\ reorder.recv = << >>
      /\ q \in Qids /\ items \in Seq(Chunks) /\ "reorder" \in Queues
  BY ReorderRecord, QueueNames DEF PipelineTypeOK, QueueTypeOK, QueuesOK, ItemsOf, ReorderDequeue
<1>2. turn \in Qids
  <2>1. NQueues \in Nat \ {0} /\ q + 1 \in Nat
    BY <1>1, QueuesExist DEF Qids
  <2> QED BY <2>1 DEF Qids
<1>3. UNCHANGED <<closed, frag, thread, cache, ref, state, file>>
  BY DEF ReorderDequeue
<1>4. CASE /\ items # << >>
           /\ que' = [que EXCEPT !["reorder"][q] = Rest(items, n)]
           /\ reorder' = [reorder EXCEPT !.qid = turn, !.recv = Prefix(items, n), !.ended = 0]
  <2>1. n \in 1..Len(items)
    BY <1>1, <1>4, PipelineAssumption DEF Lesser
  <2>2. Prefix(items, n) \in Seq(Chunks) /\ Rest(items, n) \in Seq(Chunks)
    <3> HIDE DEF items, n
    <3> QED BY <1>1, <2>1, Cut
  <2>3. Rest(items, n) \in Seq(ItemsOf("reorder"))
    BY <2>2 DEF ItemsOf
  <2>4. QueuesOK' /\ que'["reorder"][q] = Rest(items, n) /\ OnlyQueue("reorder", q)
    <3> HIDE DEF items, n
    <3> QED BY <1>1, <1>4, <2>3, QueueChange DEF PipelineTypeOK, QueueTypeOK
  <2>5. /\ reorder' \in ReorderRec /\ reorder'.pc = "receive" /\ reorder'.ended = 0
        /\ reorder'.recv = Prefix(items, n) /\ reorder'.qid = turn /\ SameTree
    <3> HIDE DEF items, n, turn
    <3> QED BY <1>1, <1>2, <1>4, <2>2 DEF ReorderRec, SameTree
  <2>6. PipelineTypeOK'
    BY <1>3, <2>4, <2>5
       DEF PipelineTypeOK, QueueTypeOK, ThreadTypeOK, ChunkTypeOK, ReorderTypeOK, ReorderRec
  <2> QED BY <1>1, <1>4, <2>1, <2>4, <2>5, <2>6
<1>5. CASE /\ items = << >> /\ que' = que
           /\ queue_isTerminated("reorder", q)
           /\ reorder' = [reorder EXCEPT !.qid = turn, !.ended = reorder.ended + 1,
                            !.pc = IF reorder.ended + 1 = NQueues THEN "flush" ELSE "receive"]
  <2>1. reorder.ended + 1 \in Nat
    BY ReorderRecord DEF PipelineTypeOK
  <2>2. /\ reorder' \in ReorderRec /\ reorder'.ended = reorder.ended + 1
        /\ reorder'.pc = IF reorder.ended + 1 = NQueues THEN "flush" ELSE "receive"
        /\ reorder'.recv = << >> /\ reorder'.qid = turn /\ SameTree
    <3> HIDE DEF turn
    <3> QED BY <1>1, <1>2, <1>5, <2>1 DEF ReorderRec, SameTree
  <2>3. PipelineTypeOK'
    BY <1>3, <1>5, <2>2
       DEF PipelineTypeOK, QueueTypeOK, QueuesOK, ThreadTypeOK, ChunkTypeOK, ReorderTypeOK, ReorderRec
  <2> QED BY <1>1, <1>5, <2>2, <2>3
<1>6. \/ /\ items # << >>
         /\ que' = [que EXCEPT !["reorder"][q] = Rest(items, n)]
         /\ reorder' = [reorder EXCEPT !.qid = turn, !.recv = Prefix(items, n), !.ended = 0]
      \/ /\ items = << >> /\ que' = que
         /\ queue_isTerminated("reorder", q)
         /\ reorder' = QueueEnded([reorder EXCEPT !.qid = turn])
  BY DEF ReorderDequeue
<1>7. QueueEnded([reorder EXCEPT !.qid = turn])
        = [reorder EXCEPT !.qid = turn, !.ended = reorder.ended + 1,
             !.pc = IF reorder.ended + 1 = NQueues THEN "flush" ELSE "receive"]
  <2> HIDE DEF turn
  <2> QED BY <1>1 DEF QueueEnded, ReorderRec
<1> QED BY <1>4, <1>5, <1>6, <1>7

\* What Reorder notes when it takes chunk c: the last fine chunk of a coarse
\* one tells how many there are.
Noted(c) ==
  /\ DOMAIN reorder.perAnchor \subseteq DOMAIN reorder'.perAnchor
  /\ c.l1 \in DOMAIN reorder'.perAnchor
  /\ \A x \in DOMAIN reorder'.perAnchor :
       reorder'.perAnchor[x] = IF x = c.l1 /\ isLastL2Chunk(c) THEN c.l2 + 1
                               ELSE IF x \in DOMAIN reorder.perAnchor
                               THEN reorder.perAnchor[x] ELSE 0

LEMMA ReorderTakeFacts ==
  ASSUME PipelineTypeOK, ReorderTake
  PROVE  LET c == Head(reorder.recv)
         IN  /\ PipelineTypeOK'
             /\ reorder.pc = "receive" /\ reorder.recv # << >> /\ c \in Chunks
             /\ reorder'.qid = reorder.qid /\ reorder'.ended = reorder.ended
             /\ reorder'.next = reorder.next
             /\ \/ reorder' = [reorder EXCEPT !.pc = "out of bounds"]
                \/ /\ reorder'.recv = Tail(reorder.recv) /\ Noted(c)
                   /\ IF c # reorder.next
                      THEN /\ reorder'.pc = "receive" /\ reorder'.chunk = reorder.chunk
                           /\ reorder'.tree = reorder.tree \cup {c}
                      ELSE /\ reorder'.pc = "write" /\ reorder'.chunk = c
                           /\ reorder'.tree = reorder.tree
<1> DEFINE c     == Head(reorder.recv)
           grown == Grown(reorder.perAnchor, c.l1)
           noted == IF isLastL2Chunk(c) THEN [grown EXCEPT ![c.l1] = c.l2 + 1] ELSE grown
           rest  == Tail(reorder.recv)
<1>1. /\ reorder \in ReorderRec /\ reorder.pc = "receive" /\ reorder.recv # << >>
      /\ reorder.recv \in Seq(Chunks) /\ reorder.perAnchor \in Anchors
      /\ reorder.tree \subseteq Chunks
  BY ReorderRecord DEF PipelineTypeOK, ReorderTake
<1>2. c \in Chunks /\ rest \in Seq(Chunks)
  BY <1>1
<1>3. c.l1 \in Nat /\ c.l2 + 1 \in Nat
  BY <1>2, ChunkShape, InputShape
<1>4. /\ grown \in Anchors /\ DOMAIN reorder.perAnchor \subseteq DOMAIN grown
      /\ \A x \in DOMAIN grown :
           grown[x] = IF x \in DOMAIN reorder.perAnchor THEN reorder.perAnchor[x] ELSE 0
  <2> HIDE DEF c
  <2> QED BY <1>1, <1>3, AnchorsGrow
<1>5. /\ noted \in Anchors /\ DOMAIN noted = DOMAIN grown
      /\ \A x \in DOMAIN noted :
           noted[x] = IF x = c.l1 /\ isLastL2Chunk(c) THEN c.l2 + 1 ELSE grown[x]
  <2> HIDE DEF grown, c
  <2>1. [grown EXCEPT ![c.l1] = c.l2 + 1] \in Anchors
    BY <1>1, <1>3, <1>4, AnchorsGrow
  <2> QED BY <1>4, <2>1
<1>6. UNCHANGED <<que, closed, frag, thread, cache, ref, state, file>>
  BY DEF ReorderTake
<1>7. ASSUME reorder' \in ReorderRec, reorder'.pc = "write" => reorder'.chunk \in Chunks
      PROVE  PipelineTypeOK'
  BY <1>6, <1>7 DEF PipelineTypeOK, QueueTypeOK, QueuesOK, ThreadTypeOK, ChunkTypeOK,
                    ReorderTypeOK, ReorderRec
<1>8. CASE reorder' = [reorder EXCEPT !.pc = "out of bounds"]
  <2>1. /\ reorder' \in ReorderRec /\ reorder'.pc # "write"
        /\ reorder'.qid = reorder.qid /\ reorder'.ended = reorder.ended
        /\ reorder'.next = reorder.next
    BY <1>1, <1>8 DEF ReorderRec
  <2> QED BY <1>1, <1>2, <1>7, <1>8, <2>1
<1>9. CASE /\ c.l1 \in DOMAIN grown /\ c # reorder.next
           /\ reorder' = [reorder EXCEPT !.recv = rest, !.perAnchor = noted,
                                         !.tree = reorder.tree \cup {c}]
  <2>1. reorder.tree \cup {c} \in SUBSET Chunks
    BY <1>1, <1>2
  <2>2. /\ reorder' \in ReorderRec /\ reorder'.pc = "receive" /\ reorder'.chunk = reorder.chunk
        /\ reorder'.tree = reorder.tree \cup {c} /\ reorder'.recv = rest
        /\ reorder'.perAnchor = noted
        /\ reorder'.qid = reorder.qid /\ reorder'.ended = reorder.ended
        /\ reorder'.next = reorder.next
    <3> HIDE DEF noted, rest, c
    <3> QED BY <1>1, <1>2, <1>5, <1>9, <2>1 DEF ReorderRec
  <2>3. Noted(c)
    <3> HIDE DEF noted, grown, c
    <3> QED BY <1>4, <1>5, <1>9, <2>2 DEF Noted
  <2> HIDE DEF noted, grown
  <2> QED BY <1>1, <1>2, <1>7, <1>9, <2>2, <2>3
<1>10. CASE /\ c.l1 \in DOMAIN grown /\ c = reorder.next
            /\ reorder' = [reorder EXCEPT !.recv = rest, !.perAnchor = noted,
                                          !.chunk = c, !.pc = "write"]
  <2>2. /\ reorder' \in ReorderRec /\ reorder'.pc = "write" /\ reorder'.chunk = c
        /\ reorder'.tree = reorder.tree /\ reorder'.recv = rest
        /\ reorder'.perAnchor = noted
        /\ reorder'.qid = reorder.qid /\ reorder'.ended = reorder.ended
        /\ reorder'.next = reorder.next
    <3> HIDE DEF noted, rest, c
    <3> QED BY <1>1, <1>2, <1>5, <1>10 DEF ReorderRec
  <2>3. Noted(c)
    <3> HIDE DEF noted, grown, c
    <3> QED BY <1>4, <1>5, <1>10, <2>2 DEF Noted
  <2> HIDE DEF noted, grown
  <2> QED BY <1>1, <1>2, <1>7, <1>10, <2>2, <2>3
<1>11. reorder' = IF c.l1 \notin DOMAIN grown
                  THEN [reorder EXCEPT !.pc = "out of bounds"]
                  ELSE IF c # reorder.next
                  THEN [reorder EXCEPT !.recv = rest, !.perAnchor = noted,
                                       !.tree = reorder.tree \cup {c}]
                  ELSE [reorder EXCEPT !.recv = rest, !.perAnchor = noted,
                                       !.chunk = c, !.pc = "write"]
  <2>1. reorder' = IF c.l1 \notin DOMAIN grown
                   THEN [reorder EXCEPT !.pc = "out of bounds"]
                   ELSE IF c # reorder.next
                   THEN [[reorder EXCEPT !.recv = rest, !.perAnchor = noted]
                           EXCEPT !.tree = @ \cup {c}]
                   ELSE [[reorder EXCEPT !.recv = rest, !.perAnchor = noted]
                           EXCEPT !.chunk = c, !.pc = "write"]
    BY DEF ReorderTake, InBounds
  <2> HIDE DEF noted, grown, c, rest
  <2>2. /\ [[reorder EXCEPT !.recv = rest, !.perAnchor = noted] EXCEPT !.tree = @ \cup {c}]
             = [reorder EXCEPT !.recv = rest, !.perAnchor = noted,
                               !.tree = reorder.tree \cup {c}]
        /\ [[reorder EXCEPT !.recv = rest, !.perAnchor = noted] EXCEPT !.chunk = c, !.pc = "write"]
             = [reorder EXCEPT !.recv = rest, !.perAnchor = noted,
                               !.chunk = c, !.pc = "write"]
    BY <1>1 DEF ReorderRec
  <2> QED BY <2>1, <2>2
<1> HIDE DEF noted, grown, c, rest
<1> QED BY <1>8, <1>9, <1>10, <1>11 DEF c, rest

\* Reorder takes the chunk after the one written out of the tree, if it has it.
LEMMA ReorderWriteFacts ==
  ASSUME PipelineTypeOK, ReorderWrite
  PROVE  LET next == Successor(reorder.next, reorder.perAnchor)
         IN  /\ PipelineTypeOK'
             /\ reorder.pc = "write" /\ reorder.chunk \in Chunks
             /\ write_chunk_to_file(reorder.chunk)
             /\ reorder'.recv = reorder.recv /\ reorder'.qid = reorder.qid
             /\ reorder'.ended = reorder.ended /\ reorder'.perAnchor = reorder.perAnchor
             /\ reorder'.next = next /\ next \in [l1 : Nat, l2 : Nat]
             /\ \/ /\ next \in reorder.tree /\ reorder'.pc = "write" /\ reorder'.chunk = next
                   /\ reorder'.tree = reorder.tree \ {next}
                \/ /\ reorder'.pc = "receive" /\ reorder'.tree = reorder.tree
                   /\ reorder.tree # {} => Smallest(reorder.tree) # next
<1> DEFINE next == Successor(reorder.next, reorder.perAnchor)
           more == reorder.tree # {} /\ Smallest(reorder.tree) = next
<1>1. /\ reorder \in ReorderRec /\ reorder.pc = "write" /\ reorder.chunk \in Chunks
      /\ reorder.tree \in SUBSET Chunks /\ reorder.next \in [l1 : Nat, l2 : Nat]
  BY ReorderRecord DEF PipelineTypeOK, ReorderWrite
<1>2. next \in [l1 : Nat, l2 : Nat]
  BY <1>1 DEF Successor
<1>3. more => next \in reorder.tree
  BY <1>1, SmallestIsLeast
<1>4. write_chunk_to_file(reorder.chunk) /\ UNCHANGED <<que, closed, frag, thread, cache, ref>>
  BY DEF ReorderWrite
<1>5. ChunkTypeOK'
  BY <1>1, <1>4, WriteFacts DEF PipelineTypeOK
<1>6. reorder' = [reorder EXCEPT !.next  = next,
                                 !.pc    = IF more THEN "write" ELSE "receive",
                                 !.chunk = IF more THEN next ELSE None,
                                 !.tree  = IF more THEN reorder.tree \ {next} ELSE reorder.tree]
  BY DEF ReorderWrite
<1> HIDE DEF next
<1>7. /\ reorder' \in ReorderRec
      /\ reorder'.recv = reorder.recv /\ reorder'.qid = reorder.qid
      /\ reorder'.ended = reorder.ended /\ reorder'.perAnchor = reorder.perAnchor
      /\ reorder'.next = next
      /\ reorder'.pc = IF more THEN "write" ELSE "receive"
      /\ reorder'.chunk = IF more THEN next ELSE None
      /\ reorder'.tree = IF more THEN reorder.tree \ {next} ELSE reorder.tree
  <2>1. (IF more THEN next ELSE None) \in Chunks \cup {None}
    BY <1>1, <1>3
  <2>2. (IF more THEN reorder.tree \ {next} ELSE reorder.tree) \in SUBSET Chunks
    BY <1>1
  <2> HIDE DEF more
  <2> QED BY <1>1, <1>2, <1>6, <2>1, <2>2 DEF ReorderRec
<1>8. reorder'.pc = "write" => reorder'.chunk \in Chunks
  BY <1>1, <1>3, <1>7
<1>9. PipelineTypeOK'
  BY <1>4, <1>5, <1>7, <1>8
     DEF PipelineTypeOK, QueueTypeOK, QueuesOK, ThreadTypeOK, ReorderTypeOK, ReorderRec
<1> QED BY <1>1, <1>2, <1>3, <1>4, <1>7, <1>9 DEF next

LEMMA ReorderFlushFacts ==
  ASSUME PipelineTypeOK, ReorderFlush
  PROVE  /\ PipelineTypeOK'
         /\ reorder.pc = "flush"
         /\ reorder'.recv = reorder.recv /\ reorder'.qid = reorder.qid
         /\ reorder'.ended = reorder.ended /\ reorder'.perAnchor = reorder.perAnchor
         /\ \/ /\ reorder.next \in reorder.tree /\ write_chunk_to_file(reorder.next)
               /\ reorder'.pc = "flush"
               /\ reorder'.next = Successor(reorder.next, reorder.perAnchor)
               /\ reorder'.tree = reorder.tree \ {reorder.next}
            \/ /\ UNCHANGED <<state, file>>
               /\ reorder'.pc = IF reorder.tree = {} THEN "done" ELSE "mismatch"
               /\ reorder'.next = reorder.next /\ reorder'.tree = reorder.tree
<1> DEFINE next == Successor(reorder.next, reorder.perAnchor)
<1>1. /\ reorder \in ReorderRec /\ reorder.pc = "flush"
      /\ reorder.tree \in SUBSET Chunks /\ reorder.next \in [l1 : Nat, l2 : Nat]
  BY ReorderRecord DEF PipelineTypeOK, ReorderFlush
<1>2. next \in [l1 : Nat, l2 : Nat]
  BY <1>1 DEF Successor
<1>3. UNCHANGED <<que, closed, frag, thread, cache, ref>>
  BY DEF ReorderFlush
<1>4. CASE /\ reorder.tree # {} /\ Smallest(reorder.tree) = reorder.next
           /\ write_chunk_to_file(reorder.next)
           /\ reorder' = [reorder EXCEPT !.tree = reorder.tree \ {reorder.next},
                                         !.next = next]
  <2>1. reorder.next \in reorder.tree
    BY <1>1, <1>4, SmallestIsLeast
  <2>2. ChunkTypeOK'
    BY <1>1, <1>3, <1>4, <2>1, WriteFacts DEF PipelineTypeOK
  <2>3. reorder.tree \ {reorder.next} \in SUBSET Chunks
    BY <1>1
  <2>4. /\ reorder' \in ReorderRec
        /\ reorder'.recv = reorder.recv /\ reorder'.qid = reorder.qid
        /\ reorder'.ended = reorder.ended /\ reorder'.perAnchor = reorder.perAnchor
        /\ reorder'.pc = "flush" /\ reorder'.next = next
        /\ reorder'.tree = reorder.tree \ {reorder.next}
    <3> HIDE DEF next
    <3> QED BY <1>1, <1>2, <1>4, <2>3 DEF ReorderRec
  <2>5. PipelineTypeOK'
    BY <1>3, <2>2, <2>4
       DEF PipelineTypeOK, QueueTypeOK, QueuesOK, ThreadTypeOK, ReorderTypeOK, ReorderRec
  <2> QED BY <1>1, <1>4, <2>1, <2>4, <2>5
<1>5. CASE /\ UNCHANGED <<state, file>>
           /\ reorder' = [reorder EXCEPT
                            !.pc = IF reorder.tree = {} THEN "done" ELSE "mismatch"]
  <2>1. /\ reorder' \in ReorderRec
        /\ reorder'.recv = reorder.recv /\ reorder'.qid = reorder.qid
        /\ reorder'.ended = reorder.ended /\ reorder'.perAnchor = reorder.perAnchor
        /\ reorder'.pc = IF reorder.tree = {} THEN "done" ELSE "mismatch"
        /\ reorder'.next = reorder.next /\ reorder'.tree = reorder.tree
    BY <1>1, <1>5 DEF ReorderRec
  <2>2. PipelineTypeOK'
    BY <1>3, <1>5, <2>1
       DEF PipelineTypeOK, QueueTypeOK, QueuesOK, ThreadTypeOK, ChunkTypeOK, ReorderTypeOK, ReorderRec
  <2> QED BY <1>1, <1>5, <2>1, <2>2
<1>6. \/ /\ reorder.tree # {} /\ Smallest(reorder.tree) = reorder.next
         /\ write_chunk_to_file(reorder.next)
         /\ reorder' = [reorder EXCEPT !.tree = reorder.tree \ {reorder.next},
                                       !.next = next]
      \/ /\ UNCHANGED <<state, file>>
         /\ reorder' = [reorder EXCEPT
                          !.pc = IF reorder.tree = {} THEN "done" ELSE "mismatch"]
  BY DEF ReorderFlush
<1> QED BY <1>4, <1>5, <1>6

-----------------------------------------------------------------------------
(* The pipeline's variables have their types. *)

LEMMA TypeInit ==
  ASSUME Init
  PROVE  PipelineTypeOK
<1>1. QueueTypeOK
  <2>1. 0 \in 0..Len(Input) /\ 0 \in Qids /\ 0 \in 0..NQueues
    BY InputShape, QueuesExist DEF Qids
  <2> QED BY <2>1 DEF Init, QueueTypeOK, QueuesOK
<1>2. ThreadTypeOK
  <2>1. \A p \in Pools : ThreadOK(p, InitThread(p))
    <3> SUFFICES ASSUME NEW p \in Pools
                 PROVE  ThreadOK(p, InitThread(p))
      OBVIOUS
    <3>1. InitThread(p) \in Thread /\ InitThread(p).recv = << >> /\ InitThread(p).l2 = 0
      BY DEF InitThread, Thread
    <3>2. \A o \in Queues : InitThread(p).send[o] = << >>
      BY DEF InitThread
    <3> QED BY <3>1, <3>2 DEF ThreadOK
  <2>2. thread = [p \in Pools |-> [t \in Tids |-> InitThread(p)]]
    BY DEF Init
  <2> QED BY <2>1, <2>2 DEF ThreadTypeOK, ThreadOK
<1>3. ChunkTypeOK
  BY DEF Init, ChunkTypeOK
<1>4. ReorderTypeOK
  <2>1. [a \in 0..(AnchorsInit - 1) |-> 0] \in Anchors
    <3>1. AnchorsInit - 1 \in Nat
      BY PipelineAssumption
    <3> QED BY <3>1 DEF Anchors
  <2>2. 0 \in Qids
    BY QueuesExist DEF Qids
  <2>3. reorder = [pc |-> "receive", recv |-> << >>, qid |-> 0, ended |-> 0,
                   chunk |-> None, next |-> [l1 |-> 0, l2 |-> 0],
                   perAnchor |-> [a \in 0..(AnchorsInit - 1) |-> 0], tree |-> {}]
    BY DEF Init
  <2> QED BY <2>1, <2>2, <2>3 DEF ReorderTypeOK
<1> QED BY <1>1, <1>2, <1>3, <1>4 DEF PipelineTypeOK

LEMMA TypeStep ==
  ASSUME PipelineTypeOK, [Next]_vars
  PROVE  PipelineTypeOK'
<1>1. CASE UNCHANGED vars
  BY <1>1 DEF vars, PipelineTypeOK, QueueTypeOK, QueuesOK, ThreadTypeOK, ChunkTypeOK, ReorderTypeOK
<1>2. CASE Fragment
  BY <1>2, FragmentSendFacts, FragmentTerminateFacts DEF Fragment
<1>3. ASSUME NEW p \in Pools, NEW t \in Tids, Worker(p, t)
      PROVE  PipelineTypeOK'
  <2>1. CASE Fetch(p, t)
    BY <2>1, FetchFacts
  <2>2. CASE EndOfInput(p, t)
    BY <2>2, EndOfInputFacts
  <2>3. CASE \E o \in Queues : Send(p, t, o)
    BY <2>3, SendFacts
  <2>4. CASE Shutdown(p, t)
    BY <2>4, ShutdownFacts
  <2>5. CASE FragmentRefine(t)
    BY <2>5, CutFacts
  <2>6. CASE Deduplicate(t)
    BY <2>6, DeduplicateFacts DEF HandsOn
  <2>7. CASE Compress(t)
    BY <2>7, CompressFacts DEF HandsOn
  <2> QED BY <1>3, <2>1, <2>2, <2>3, <2>4, <2>5, <2>6, <2>7 DEF Worker
<1>4. CASE Reorder
  BY <1>4, ReorderDequeueFacts, ReorderTakeFacts, ReorderWriteFacts, ReorderFlushFacts DEF Reorder
<1>5. CASE Joined
  BY <1>1, <1>5 DEF Joined
<1> QED BY <1>1, <1>2, <1>3, <1>4, <1>5 DEF Next

\* The pipeline's variables keep their types; above all a thread that cuts a
\* coarse chunk never runs over its end, and it sends to its own outputs only.
THEOREM PipelineTypes == Spec => []PipelineTypeOK
<1>1. Init => PipelineTypeOK
  BY TypeInit
<1>2. PipelineTypeOK /\ [Next]_vars => PipelineTypeOK'
  BY TypeStep
<1> QED BY <1>1, <1>2, PTL DEF Spec

-----------------------------------------------------------------------------
(* Termination.  A queue counts its producers; that it has ended means that  *)
(* they have all returned.                                                   *)

ThreadsOf(q)      == {t \in Tids : QidOf(t) = q}
ReturnedOf(p, q)  == {t \in ThreadsOf(q) : thread[p][t].phase = "done"}
AllReturned(p, q) == \A t \in ThreadsOf(q) : thread[p][t].phase = "done"

Ended(n, q) == IF n = "refine" THEN q < frag.closed
               ELSE \A p \in Pools : Terminates(p) = n => AllReturned(p, q)

\* A queue is terminated as often as producers have returned, these have
\* nothing left to send, and who has seen the end of a queue has emptied it.
ClosedInv ==
  /\ \A p \in Pools, q \in Qids :
       closed[Terminates(p)][q] = Cardinality(ReturnedOf(p, q))
  /\ \A q \in Qids : closed["refine"][q] = IF q < frag.closed THEN 1 ELSE 0
  /\ frag.closed > 0 => frag.sent = Len(Input)
  /\ \A p \in Pools, t \in Tids :
       thread[p][t].phase # "loop" =>
          /\ Ended(p, QidOf(t))
          /\ que[p][QidOf(t)] = << >> /\ thread[p][t].recv = << >>
  /\ \A p \in Pools, t \in Tids :
       thread[p][t].phase = "done" => \A o \in Queues : thread[p][t].send[o] = << >>

\* The producers that Encode announces for a queue are the threads it has.
LEMMA ThreadsCounted ==
  ASSUME NEW q \in Qids
  PROVE  IsFiniteSet(ThreadsOf(q)) /\ Cardinality(ThreadsOf(q)) = ThreadsPerQueue(q)
<1> DEFINE N == NThreads
           M == MaxThreadsPerQueue
           D == N \div M
           R == N % M
           B == M * q
<1>1. N \in Nat \ {0} /\ M \in Nat \ {0} /\ NQueues \in Nat
  BY PipelineAssumption, QueuesExist
<1>2. D \in Nat /\ R \in 0..(M - 1) /\ N = M * D + R
  BY <1>1
<1>3. q \in Nat /\ q < NQueues /\ NQueues = D + (IF R # 0 THEN 1 ELSE 0)
  BY <1>1 DEF Qids, NQueues
<1>4. B \in Nat
  BY <1>1, <1>3
<1>5. \A t \in Nat : QidOf(t) = q <=> B <= t /\ t < B + M
  <2> SUFFICES ASSUME NEW t \in Nat
               PROVE  QidOf(t) = q <=> B <= t /\ t < B + M
    OBVIOUS
  <2>1. /\ t \div M \in Nat /\ M * (t \div M) <= t /\ t < M * (t \div M) + M
    BY <1>1
  <2>2. t \div M < q => M * (t \div M) + M <= B
    BY <2>1, <1>1, <1>3
  <2>3. q < t \div M => B + M <= M * (t \div M)
    BY <2>1, <1>1, <1>3
  <2> QED BY <2>1, <2>2, <2>3, <1>1, <1>3, <1>4 DEF QidOf
<1>6. CASE q < NQueues - 1 \/ R = 0
  <2>1. q + 1 <= D
    BY <1>1, <1>2, <1>3, <1>6
  <2>2. B + M <= M * D
    BY <2>1, <1>1, <1>2, <1>3
  <2>3. ThreadsOf(q) = B..(B + M - 1)
    BY <1>1, <1>2, <1>4, <1>5, <2>2 DEF ThreadsOf, Tids
  <2>4. IsFiniteSet(B..(B + M - 1)) /\ Cardinality(B..(B + M - 1)) = M
    <3> HIDE DEF B, M
    <3>1. B \in Int /\ B + M - 1 \in Int /\ ~(B > B + M - 1) /\ (B + M - 1) - B + 1 = M
      BY <1>1, <1>4
    <3> QED BY <3>1, FS_Interval
  <2>5. ThreadsPerQueue(q) = M
    BY <1>6 DEF ThreadsPerQueue
  <2> QED BY <2>3, <2>4, <2>5
<1>7. CASE ~(q < NQueues - 1 \/ R = 0)
  <2>1. q = D /\ R # 0
    BY <1>1, <1>2, <1>3, <1>7
  <2>2. N = B + R
    BY <2>1, <1>2
  <2>3. ThreadsOf(q) = B..(B + R - 1)
    <3> HIDE DEF B, R
    <3> QED BY <1>1, <1>2, <1>4, <1>5, <2>2 DEF ThreadsOf, Tids
  <2>4. IsFiniteSet(B..(B + R - 1)) /\ Cardinality(B..(B + R - 1)) = R
    <3> HIDE DEF B, R
    <3>1. B \in Int /\ B + R - 1 \in Int /\ ~(B > B + R - 1) /\ (B + R - 1) - B + 1 = R
      BY <1>2, <1>4, <2>1
    <3> QED BY <3>1, FS_Interval
  <2>5. ThreadsPerQueue(q) = R
    BY <1>7 DEF ThreadsPerQueue
  <2> QED BY <2>3, <2>4, <2>5
<1> QED BY <1>6, <1>7

\* queue_isTerminated tells exactly that every producer has returned.
LEMMA TerminatedIsEnded ==
  ASSUME PipelineTypeOK, ClosedInv, NEW n \in Queues, NEW q \in Qids
  PROVE  queue_isTerminated(n, q) <=> Ended(n, q)
<1>1. CASE n = "refine"
  BY <1>1 DEF queue_isTerminated, NProducers, Ended, ClosedInv
<1>2. ASSUME NEW p \in Pools, n = Terminates(p)
      PROVE  queue_isTerminated(n, q) <=> Ended(n, q)
  <2>1. n # "refine" /\ \A r \in Pools : Terminates(r) = n <=> r = p
    BY <1>2 DEF Terminates, Outputs, Pools
  <2>2. Ended(n, q) <=> AllReturned(p, q)
    BY <2>1 DEF Ended
  <2>3. queue_isTerminated(n, q)
          <=> Cardinality(ReturnedOf(p, q)) = Cardinality(ThreadsOf(q))
    BY <1>2, <2>1, ThreadsCounted DEF queue_isTerminated, NProducers, ClosedInv
  <2>4. ReturnedOf(p, q) \in SUBSET ThreadsOf(q) /\ IsFiniteSet(ThreadsOf(q))
    BY ThreadsCounted DEF ReturnedOf
  <2>5. Cardinality(ReturnedOf(p, q)) = Cardinality(ThreadsOf(q))
          <=> ReturnedOf(p, q) = ThreadsOf(q)
    BY <2>4, FS_Subset
  <2>6. ReturnedOf(p, q) = ThreadsOf(q) <=> AllReturned(p, q)
    BY DEF ReturnedOf, AllReturned
  <2> QED BY <2>2, <2>3, <2>5, <2>6
<1>3. n = "refine" \/ \E p \in Pools : n = Terminates(p)
  BY DEF Queues, Pools, Terminates, Outputs
<1> QED BY <1>1, <1>2, <1>3

\* No thread has anything to send to a queue that has ended.  The reorder
\* queue counts the compression threads only; but the deduplication threads
\* return before these.
LEMMA NothingSentAfterEnd ==
  ASSUME PipelineTypeOK, ClosedInv, NEW p \in Pools, NEW t \in Tids, NEW o \in Queues,
         Ended(o, QidOf(t))
  PROVE  thread[p][t].send[o] = << >>
<1> SUFFICES ASSUME thread[p][t].send[o] # << >>
             PROVE  FALSE
  OBVIOUS
<1>1. o \in Receivers(p) /\ o # "refine" /\ t \in ThreadsOf(QidOf(t))
  BY ThreadFacts, ReceiverNames DEF PipelineTypeOK, ThreadsOf
<1>2. ~AllReturned(p, QidOf(t))
  BY <1>1 DEF AllReturned, ClosedInv
<1>3. Terminates(p) # o
  BY <1>1, <1>2 DEF Ended
<1>4. p = "deduplicate" /\ o = "reorder"
  BY <1>1, <1>3, ReceiverNames, QueueNames DEF Pools
<1>5. thread["compress"][t].phase = "done"
  BY <1>1, <1>4, QueueNames DEF Ended, AllReturned
<1>6. Ended("compress", QidOf(t))
  BY <1>5, QueueNames DEF ClosedInv
<1>7. AllReturned("deduplicate", QidOf(t))
  BY <1>6, QueueNames DEF Ended
<1> QED BY <1>2, <1>4, <1>7

LEMMA ClosedInit ==
  ASSUME Init
  PROVE  ClosedInv
<1>1. /\ \A n \in Queues, q \in Qids : closed[n][q] = 0 /\ que[n][q] = << >>
      /\ frag.closed = 0
      /\ \A p \in Pools, t \in Tids : thread[p][t].phase = "loop"
  BY DEF Init, InitThread
<1>2. \A p \in Pools, q \in Qids : Cardinality(ReturnedOf(p, q)) = 0
  <2>1. \A p \in Pools, q \in Qids : ReturnedOf(p, q) = {}
    BY <1>1 DEF ReturnedOf, ThreadsOf
  <2> QED BY <2>1, FS_EmptySet
<1>3. \A q \in Qids : ~(q < 0)
  BY QueuesExist DEF Qids
<1> QED BY <1>1, <1>2, <1>3, QueueNames DEF ClosedInv

\* The counters and the phases as they were: the counting part goes on to hold.
SamePhases == \A p \in Pools, t \in Tids : thread'[p][t].phase = "done" <=> thread[p][t].phase = "done"

LEMMA SameCounts ==
  ASSUME ClosedInv, SamePhases, closed' = closed, frag'.closed = frag.closed,
         frag'.closed > 0 => frag'.sent = frag.sent
  PROVE  /\ \A p \in Pools, q \in Qids :
              closed'[Terminates(p)][q] = Cardinality(ReturnedOf(p, q)')
         /\ \A q \in Qids : closed'["refine"][q] = IF q < frag'.closed THEN 1 ELSE 0
         /\ frag'.closed > 0 => frag'.sent = Len(Input)
         /\ \A n \in Queues, q \in Qids : Ended(n, q)' <=> Ended(n, q)
<1>1. \A p \in Pools, q \in Qids : ReturnedOf(p, q)' = ReturnedOf(p, q)
  BY DEF SamePhases, ReturnedOf, ThreadsOf
<1>2. \A n \in Queues, q \in Qids : Ended(n, q)' <=> Ended(n, q)
  BY DEF SamePhases, Ended, AllReturned, ThreadsOf
<1> QED BY <1>1, <1>2 DEF ClosedInv

\* What is left to show of a step that leaves counters and phases alone.
LEMMA ClosedFrame ==
  ASSUME ClosedInv, SamePhases, closed' = closed, frag'.closed = frag.closed,
         frag'.closed > 0 => frag'.sent = frag.sent,
         \A p \in Pools, t \in Tids :
           thread'[p][t].phase # "loop" =>
             Ended(p, QidOf(t)) /\ que'[p][QidOf(t)] = << >> /\ thread'[p][t].recv = << >>,
         \A p \in Pools, t \in Tids :
           thread'[p][t].phase = "done" => \A o \in Queues : thread'[p][t].send[o] = << >>
  PROVE  ClosedInv'
<1>1. \A p \in Pools, t \in Tids : p \in Queues /\ QidOf(t) \in Qids
  BY QueueNames, QueuesExist
<1>2. /\ \A p \in Pools, q \in Qids :
           closed'[Terminates(p)][q] = Cardinality(ReturnedOf(p, q)')
      /\ \A q \in Qids : closed'["refine"][q] = IF q < frag'.closed THEN 1 ELSE 0
      /\ frag'.closed > 0 => frag'.sent = Len(Input)
      /\ \A n \in Queues, q \in Qids : Ended(n, q)' <=> Ended(n, q)
  BY SameCounts
<1>3. \A p \in Pools, t \in Tids : thread'[p][t].phase # "loop" => Ended(p, QidOf(t))'
  BY <1>1, <1>2
<1> QED BY <1>2, <1>3 DEF ClosedInv

\* A thread takes from its queue, cuts or hands on a chunk: it is in its loop.
LEMMA ClosedLoop ==
  ASSUME PipelineTypeOK, ClosedInv, NEW p \in Pools, NEW t \in Tids,
         OnlyThread(p, t), thread[p][t].phase = "loop", thread'[p][t].phase = "loop",
         \/ que' = que
         \/ OnlyQueue(p, QidOf(t)) /\ que'[p][QidOf(t)] = << >>
         \/ /\ OnlyQueue(p, QidOf(t)) /\ que[p][QidOf(t)] # << >>,
         UNCHANGED <<closed, frag>>
  PROVE  ClosedInv'
<1>1. SamePhases
  BY DEF SamePhases, OnlyThread
<1>2. ASSUME NEW r \in Pools, NEW u \in Tids, thread'[r][u].phase # "loop"
      PROVE  /\ Ended(r, QidOf(u)) /\ que'[r][QidOf(u)] = << >> /\ thread'[r][u].recv = << >>
             /\ thread'[r][u] = thread[r][u]
  <2>1. r # p \/ u # t
    BY <1>2
  <2>2. thread'[r][u] = thread[r][u]
    BY <2>1 DEF OnlyThread
  <2>3. Ended(r, QidOf(u)) /\ que[r][QidOf(u)] = << >> /\ thread[r][u].recv = << >>
    BY <1>2, <2>2 DEF ClosedInv
  <2>4. que'[r][QidOf(u)] = << >>
    BY <2>3, QueueNames, QueuesExist DEF OnlyQueue
  <2> QED BY <2>2, <2>3, <2>4
<1>3. \A r \in Pools, u \in Tids :
        thread'[r][u].phase # "loop" =>
          Ended(r, QidOf(u)) /\ que'[r][QidOf(u)] = << >> /\ thread'[r][u].recv = << >>
  BY <1>2
<1>4. \A r \in Pools, u \in Tids :
        thread'[r][u].phase = "done" => \A o \in Queues : thread'[r][u].send[o] = << >>
  BY <1>2 DEF ClosedInv
<1> QED BY <1>1, <1>3, <1>4, ClosedFrame

LEMMA ClosedStep ==
  ASSUME PipelineTypeOK, ClosedInv, [Next]_vars
  PROVE  ClosedInv'
<1>1. ASSUME UNCHANGED <<que, closed, frag, thread>>
      PROVE  ClosedInv'
  BY <1>1 DEF ClosedInv, ReturnedOf, Ended, AllReturned
<1>2. CASE FragmentSend
  <2>1. /\ frag.sent \in CoarseIds /\ frag'.closed = frag.closed
        /\ OnlyQueue("refine", frag.qid) /\ thread' = thread /\ closed' = closed
    BY <1>2, FragmentSendFacts DEF FragmentSend
  <2>2. ~(frag.closed > 0)
    BY <2>1, InputShape DEF CoarseIds, ClosedInv
  <2>3. \A q \in Qids : ~Ended("refine", q)
    BY <2>2, QueuesExist DEF Ended, Qids, PipelineTypeOK, QueueTypeOK
  <2>4. SamePhases
    BY <2>1 DEF SamePhases
  <2>5. ASSUME NEW p \in Pools, NEW t \in Tids, thread'[p][t].phase # "loop"
        PROVE  Ended(p, QidOf(t)) /\ que'[p][QidOf(t)] = << >> /\ thread'[p][t].recv = << >>
    <3>1. Ended(p, QidOf(t)) /\ que[p][QidOf(t)] = << >> /\ thread[p][t].recv = << >>
      BY <2>1, <2>5 DEF ClosedInv
    <3>2. p # "refine" /\ p \in Queues /\ QidOf(t) \in Qids
      BY <2>3, <3>1, QueueNames, QueuesExist
    <3> QED BY <2>1, <3>1, <3>2 DEF OnlyQueue
  <2>6. \A p \in Pools, t \in Tids :
          thread'[p][t].phase = "done" => \A o \in Queues : thread'[p][t].send[o] = << >>
    BY <2>1 DEF ClosedInv
  <2>7. frag'.closed > 0 => frag'.sent = frag.sent
    BY <2>1, <2>2
  <2> QED BY <2>1, <2>4, <2>5, <2>6, <2>7, ClosedFrame
<1>3. CASE FragmentTerminate
  <2> DEFINE z == frag.closed
  <2>1. /\ frag.sent = Len(Input) /\ z \in Qids /\ frag'.sent = frag.sent
        /\ frag'.closed = z + 1 /\ UNCHANGED <<que, thread>>
        /\ closed'["refine"][z] = closed["refine"][z] + 1
        /\ \A m \in Queues, r \in Qids :
             m # "refine" \/ r # z => closed'[m][r] = closed[m][r]
    BY <1>3, FragmentTerminateFacts DEF FragmentTerminate
  <2>2. \A q \in Qids : q \in Nat /\ (q < z + 1 <=> q < z \/ q = z)
    BY <2>1, QueuesExist DEF Qids
  <2>3. \A p \in Pools, q \in Qids :
          closed'[Terminates(p)][q] = Cardinality(ReturnedOf(p, q)')
    <3>1. \A p \in Pools, q \in Qids : ReturnedOf(p, q)' = ReturnedOf(p, q)
      BY <2>1 DEF ReturnedOf
    <3>2. \A p \in Pools, q \in Qids : closed'[Terminates(p)][q] = closed[Terminates(p)][q]
      BY <2>1, QueueNames
    <3> QED BY <3>1, <3>2 DEF ClosedInv
  <2>4. \A q \in Qids : closed'["refine"][q] = IF q < frag'.closed THEN 1 ELSE 0
    <3> SUFFICES ASSUME NEW q \in Qids
                 PROVE  closed'["refine"][q] = IF q < frag'.closed THEN 1 ELSE 0
      OBVIOUS
    <3>1. closed["refine"][q] = IF q < z THEN 1 ELSE 0
      BY DEF ClosedInv
    <3>2. CASE q = z
      BY <2>1, <2>2, <3>1, <3>2
    <3>3. CASE q # z
      BY <2>1, <2>2, <3>1, <3>3, QueueNames
    <3> QED BY <3>2, <3>3
  <2>5. \A n \in Queues, q \in Qids : Ended(n, q) => Ended(n, q)'
    BY <2>1, <2>2 DEF Ended, AllReturned
  <2>6. \A p \in Pools, t \in Tids :
          thread'[p][t].phase # "loop" =>
             /\ Ended(p, QidOf(t))'
             /\ que'[p][QidOf(t)] = << >> /\ thread'[p][t].recv = << >>
    BY <2>1, <2>5, QueueNames, QueuesExist DEF ClosedInv
  <2>7. \A p \in Pools, t \in Tids :
          thread'[p][t].phase = "done" => \A o \in Queues : thread'[p][t].send[o] = << >>
    BY <2>1 DEF ClosedInv
  <2> QED BY <2>1, <2>3, <2>4, <2>6, <2>7 DEF ClosedInv
<1>4. ASSUME NEW p \in Pools, NEW t \in Tids, Fetch(p, t)
      PROVE  ClosedInv'
  <2>1. que[p][QidOf(t)] # << >> /\ UNCHANGED <<closed, frag>>
    BY <1>4 DEF Fetch
  <2> QED BY <1>4, <2>1, FetchFacts, ClosedLoop
<1>5. ASSUME NEW p \in Pools, NEW t \in Tids, EndOfInput(p, t)
      PROVE  ClosedInv'
  <2>1. /\ OnlyThread(p, t) /\ thread[p][t].phase = "loop" /\ thread'[p][t].phase = "drain"
        /\ thread'[p][t].recv = << >> /\ que[p][QidOf(t)] = << >>
        /\ UNCHANGED <<que, closed, frag>> /\ queue_isTerminated(p, QidOf(t))
    BY <1>5, EndOfInputFacts DEF EndOfInput
  <2>2. Ended(p, QidOf(t))
    BY <2>1, TerminatedIsEnded, QueueNames, QueuesExist
  <2>3. SamePhases
    BY <2>1 DEF SamePhases, OnlyThread
  <2>4. ASSUME NEW r \in Pools, NEW u \in Tids, thread'[r][u].phase # "loop"
        PROVE  Ended(r, QidOf(u)) /\ que'[r][QidOf(u)] = << >> /\ thread'[r][u].recv = << >>
    <3>1. CASE r = p /\ u = t
      BY <2>1, <2>2, <3>1
    <3>2. CASE r # p \/ u # t
      BY <2>1, <2>4, <3>2 DEF OnlyThread, ClosedInv
    <3> QED BY <3>1, <3>2
  <2>5. ASSUME NEW r \in Pools, NEW u \in Tids, thread'[r][u].phase = "done"
        PROVE  \A o \in Queues : thread'[r][u].send[o] = << >>
    <3>1. r # p \/ u # t
      BY <2>1, <2>5
    <3> QED BY <2>1, <2>5, <3>1 DEF OnlyThread, ClosedInv
  <2> QED BY <2>1, <2>3, <2>4, <2>5, ClosedFrame
<1>6. ASSUME NEW p \in Pools, NEW t \in Tids, NEW o \in Queues, Send(p, t, o)
      PROVE  ClosedInv'
  <2>1. /\ OnlyThread(p, t) /\ OnlyQueue(o, QidOf(t)) /\ thread[p][t].send[o] # << >>
        /\ thread'[p][t].recv = thread[p][t].recv
        /\ thread'[p][t].phase = thread[p][t].phase
        /\ UNCHANGED <<closed, frag>>
    <3>1. UNCHANGED <<closed, frag>>
      BY <1>6 DEF Send
    <3> QED BY <1>6, <3>1, SendFacts, ZenonT(60)
  <2>2. ~Ended(o, QidOf(t))
    BY <2>1, NothingSentAfterEnd
  <2>3. thread[p][t].phase # "done"
    BY <2>1 DEF ClosedInv
  <2>4. SamePhases
    BY <2>1 DEF SamePhases, OnlyThread
  <2>5. ASSUME NEW r \in Pools, NEW u \in Tids, thread'[r][u].phase # "loop"
        PROVE  Ended(r, QidOf(u)) /\ que'[r][QidOf(u)] = << >> /\ thread'[r][u].recv = << >>
    <3>1. thread[r][u].phase # "loop" /\ thread'[r][u].recv = thread[r][u].recv
      BY <2>1, <2>5 DEF OnlyThread
    <3>2. Ended(r, QidOf(u)) /\ que[r][QidOf(u)] = << >> /\ thread[r][u].recv = << >>
      BY <3>1 DEF ClosedInv
    <3>3. r # o \/ QidOf(u) # QidOf(t)
      BY <2>2, <3>2
    <3> QED BY <2>1, <3>1, <3>2, <3>3, QueueNames, QueuesExist DEF OnlyQueue
  <2>6. ASSUME NEW r \in Pools, NEW u \in Tids, thread'[r][u].phase = "done"
        PROVE  \A m \in Queues : thread'[r][u].send[m] = << >>
    <3>1. r # p \/ u # t
      BY <2>1, <2>3, <2>6
    <3> QED BY <2>1, <2>6, <3>1 DEF OnlyThread, ClosedInv
  <2> QED BY <2>1, <2>4, <2>5, <2>6, ClosedFrame
<1>7. ASSUME NEW p \in Pools, NEW t \in Tids, Shutdown(p, t)
      PROVE  ClosedInv'
  <2> DEFINE z == QidOf(t)
  <2>1. /\ OnlyThread(p, t) /\ thread[p][t].phase = "drain" /\ thread'[p][t].phase = "done"
        /\ \A o \in Queues : thread[p][t].send[o] = << >>
        /\ thread'[p][t].send = thread[p][t].send /\ thread'[p][t].recv = thread[p][t].recv
        /\ UNCHANGED <<que, frag>> /\ z \in Qids
        /\ closed'[Terminates(p)][z] = closed[Terminates(p)][z] + 1
        /\ \A m \in Queues, r \in Qids :
             m # Terminates(p) \/ r # z => closed'[m][r] = closed[m][r]
    BY <1>7, ShutdownFacts, QueuesExist DEF Shutdown
  <2>2. \A r \in Pools, u \in Tids : thread[r][u].phase = "done" => thread'[r][u].phase = "done"
    BY <2>1 DEF OnlyThread
  <2>3. \A r \in Pools, q \in Qids :
          closed'[Terminates(r)][q] = Cardinality(ReturnedOf(r, q)')
    <3> SUFFICES ASSUME NEW r \in Pools, NEW q \in Qids
                 PROVE  closed'[Terminates(r)][q] = Cardinality(ReturnedOf(r, q)')
      OBVIOUS
    <3>1. closed[Terminates(r)][q] = Cardinality(ReturnedOf(r, q))
      BY DEF ClosedInv
    <3>2. CASE r = p /\ q = z
      <4>1. ReturnedOf(p, z)' = ReturnedOf(p, z) \cup {t} /\ t \notin ReturnedOf(p, z)
        BY <2>1 DEF ReturnedOf, ThreadsOf, OnlyThread
      <4>2. IsFiniteSet(ReturnedOf(p, z))
        <5>1. ReturnedOf(p, z) \in SUBSET ThreadsOf(z)
          BY DEF ReturnedOf
        <5> QED BY <2>1, <5>1, ThreadsCounted, FS_Subset
      <4>3. Cardinality(ReturnedOf(p, z) \cup {t}) = Cardinality(ReturnedOf(p, z)) + 1
        BY <4>1, <4>2, FS_AddElement
      <4> QED BY <2>1, <3>1, <3>2, <4>1, <4>3
    <3>3. CASE ~(r = p /\ q = z)
      <4>1. ReturnedOf(r, q)' = ReturnedOf(r, q)
        BY <2>1, <3>3 DEF ReturnedOf, ThreadsOf, OnlyThread
      <4>2. Terminates(r) # Terminates(p) \/ q # z
        BY <3>3, QueueNames DEF Pools
      <4> QED BY <2>1, <3>1, <4>1, <4>2, QueueNames
    <3> QED BY <3>2, <3>3
  <2>4. \A q \in Qids : closed'["refine"][q] = IF q < frag'.closed THEN 1 ELSE 0
    BY <2>1, QueueNames DEF ClosedInv
  <2>5. \A n \in Queues, q \in Qids : Ended(n, q) => Ended(n, q)'
    BY <2>1, <2>2 DEF Ended, AllReturned, ThreadsOf
  <2>6. ASSUME NEW r \in Pools, NEW u \in Tids, thread'[r][u].phase # "loop"
        PROVE  /\ Ended(r, QidOf(u))'
               /\ que'[r][QidOf(u)] = << >> /\ thread'[r][u].recv = << >>
    <3>1. thread[r][u].phase # "loop" /\ thread'[r][u].recv = thread[r][u].recv
      BY <2>1, <2>6 DEF OnlyThread
    <3> QED BY <2>1, <2>5, <3>1, QueueNames, QueuesExist DEF ClosedInv
  <2>7. ASSUME NEW r \in Pools, NEW u \in Tids, thread'[r][u].phase = "done"
        PROVE  \A o \in Queues : thread'[r][u].send[o] = << >>
    <3>1. CASE r = p /\ u = t
      BY <2>1, <3>1
    <3>2. CASE r # p \/ u # t
      BY <2>1, <2>7, <3>2 DEF OnlyThread, ClosedInv
    <3> QED BY <3>1, <3>2
  <2> QED BY <2>1, <2>3, <2>4, <2>6, <2>7 DEF ClosedInv
<1>8. ASSUME NEW p \in Pools, NEW t \in Tids,
             \/ p = "refine" /\ FragmentRefine(t)
             \/ p = "deduplicate" /\ Deduplicate(t)
             \/ p = "compress" /\ Compress(t)
      PROVE  ClosedInv'
  <2>1. OnlyThread(p, t) /\ thread[p][t].phase = "loop" /\ thread'[p][t].phase = "loop"
    <3>1. CASE p = "refine" /\ FragmentRefine(t)
      BY <3>1, CutFacts
    <3>2. CASE p = "deduplicate" /\ Deduplicate(t)
      BY <3>2, DeduplicateFacts DEF HandsOn
    <3>3. CASE p = "compress" /\ Compress(t)
      BY <3>3, CompressFacts DEF HandsOn
    <3> QED BY <1>8, <3>1, <3>2, <3>3
  <2>2. UNCHANGED <<que, closed, frag>>
    BY <1>8 DEF FragmentRefine, Deduplicate, Compress
  <2> QED BY <2>1, <2>2, ClosedLoop
<1>9. CASE Reorder
  <2>1. UNCHANGED <<closed, frag, thread>>
    BY <1>9 DEF Reorder, ReorderDequeue, ReorderTake, ReorderWrite, ReorderFlush
  <2>2. que' = que \/ OnlyQueue("reorder", reorder.qid)
    BY <1>9, ReorderDequeueFacts
       DEF Reorder, ReorderDequeue, ReorderTake, ReorderWrite, ReorderFlush
  <2>3. \A p \in Pools, q \in Qids : que'[p][q] = que[p][q]
    BY <2>2, QueueNames DEF OnlyQueue
  <2>4. SamePhases
    BY <2>1 DEF SamePhases
  <2>5. \A p \in Pools, t \in Tids :
          thread'[p][t].phase # "loop" =>
            Ended(p, QidOf(t)) /\ que'[p][QidOf(t)] = << >> /\ thread'[p][t].recv = << >>
    BY <2>1, <2>3, QueuesExist DEF ClosedInv
  <2>6. \A p \in Pools, t \in Tids :
          thread'[p][t].phase = "done" => \A o \in Queues : thread'[p][t].send[o] = << >>
    BY <2>1 DEF ClosedInv
  <2> QED BY <2>1, <2>4, <2>5, <2>6, ClosedFrame
<1>10. CASE UNCHANGED vars
  BY <1>1, <1>10 DEF vars
<1>11. CASE Joined
  BY <1>10, <1>11 DEF Joined
<1>12. \/ Fragment \/ Reorder \/ Joined \/ UNCHANGED vars
       \/ \E p \in Pools, t \in Tids : Worker(p, t)
  BY DEF Next
<1> QED BY <1>2, <1>3, <1>4, <1>5, <1>6, <1>7, <1>8, <1>9, <1>10, <1>11, <1>12
        DEF Fragment, Worker

\* The assert in queue_enqueue: nobody enqueues on a queue that is terminated,
\* for any numbers of threads, queues and chunks.
THEOREM NoEnqueueAfterTermination == Spec => []EnqueueBeforeTermination
<1>1. PipelineTypeOK /\ ClosedInv => EnqueueBeforeTermination
  <2> SUFFICES ASSUME PipelineTypeOK, ClosedInv,
                      NEW p \in Pools, NEW t \in Tids, NEW o \in Queues,
                      MustSend(p, t, o), queue_isTerminated(o, QidOf(t))
               PROVE  FALSE
    BY DEF EnqueueBeforeTermination
  <2>1. Ended(o, QidOf(t))
    BY TerminatedIsEnded, QueuesExist
  <2>2. thread[p][t].send[o] # << >>
    BY ThreadFacts, PipelineAssumption DEF MustSend, PipelineTypeOK
  <2> QED BY <2>1, <2>2, NothingSentAfterEnd
<1>2. Init => PipelineTypeOK /\ ClosedInv
  BY TypeInit, ClosedInit
<1>3. (PipelineTypeOK /\ ClosedInv) /\ [Next]_vars => (PipelineTypeOK /\ ClosedInv)'
  BY TypeStep, ClosedStep
<1> QED BY <1>1, <1>2, <1>3, PTL DEF Spec

-----------------------------------------------------------------------------
(* Where the chunks are. *)

LEMMA TakeFirst ==
  ASSUME NEW S, NEW s \in Seq(S), s # << >>
  PROVE  /\ Head(s) \in S /\ Tail(s) \in Seq(S)
         /\ Range(s) = {Head(s)} \cup Range(Tail(s))
         /\ IsInjective(s) => IsInjective(Tail(s)) /\ Head(s) \notin Range(Tail(s))
<1>1. 1 \in 0..Len(s) /\ Len(s) > 0
  OBVIOUS
<1>2. Tail(s) = Rest(s, 1)
  BY TailIsSubSeq DEF Rest
<1>3. Range(Prefix(s, 1)) = {Head(s)}
  <2>1. Prefix(s, 1) \in Seq(S) /\ Len(Prefix(s, 1)) = 1 /\ Prefix(s, 1)[1] = s[1]
    BY <1>1 DEF Prefix
  <2>2. DOMAIN Prefix(s, 1) = {1} /\ Head(s) = s[1]
    BY <2>1, <1>1
  <2> QED BY <2>1, <2>2 DEF Range
<1>4. /\ Range(s) = {Head(s)} \cup Range(Rest(s, 1))
      /\ IsInjective(s) => IsInjective(Rest(s, 1)) /\ Head(s) \notin Range(Rest(s, 1))
  <2>1. 1 \in 0..Len(s)
    BY <1>1
  <2>2. /\ Range(s) = Range(Prefix(s, 1)) \cup Range(Rest(s, 1))
        /\ IsInjective(s) => /\ IsInjective(Prefix(s, 1)) /\ IsInjective(Rest(s, 1))
                             /\ Range(Prefix(s, 1)) \cap Range(Rest(s, 1)) = {}
    BY <2>1, CutRange
  <2> QED BY <1>3, <2>2
<1>5. Head(s) \in S /\ Tail(s) \in Seq(S)
  OBVIOUS
<1> QED BY <1>2, <1>4, <1>5

LEMMA AddLast ==
  ASSUME NEW S, NEW s \in Seq(S), NEW x \in S
  PROVE  /\ Append(s, x) \in Seq(S)
         /\ Range(Append(s, x)) = Range(s) \cup {x}
         /\ IsInjective(s) /\ x \notin Range(s) => IsInjective(Append(s, x))
<1>1. <<x>> \in Seq(S) /\ Append(s, x) = s \o <<x>>
  BY AppendIsConcat
<1>2. Range(<<x>>) = {x} /\ IsInjective(<<x>>)
  BY DEF Range, IsInjective
<1> DEFINE u == <<x>>
<1> HIDE DEF u
<1>3. u \in Seq(S) /\ Append(s, x) = s \o u /\ Range(u) = {x} /\ IsInjective(u)
  BY <1>1, <1>2 DEF u
<1>4. /\ s \o u \in Seq(S) /\ Range(s \o u) = Range(s) \cup Range(u)
      /\ IsInjective(s) /\ IsInjective(u) /\ Range(s) \cap Range(u) = {} => IsInjective(s \o u)
  BY <1>3, JoinRange
<1> QED BY <1>3, <1>4

\* The fine-grained chunks of a queue, of coarse ones in front of FragmentRefine.
FineOf(n, s) == IF n = "refine" THEN {c \in Chunks : c.l1 \in Range(s)} ELSE Range(s)

\* What a thread has received and not handed on: a coarse chunk counts for the
\* fine ones that are still to be cut off.
Pending(p, me) ==
  IF p = "refine"
  THEN {c \in Chunks : c.l1 \in Range(me.recv) /\ (c.l1 = Head(me.recv) => c.l2 >= me.l2)}
  ELSE Range(me.recv)

Unsent  == {c \in Chunks : c.l1 >= frag.sent}
Written == {c \in Chunks : sequence_lt(c, reorder.next)}
InHand  == IF reorder.pc = "write" THEN {reorder.chunk} ELSE {}

InRecv(p, t)    == [at |-> "recv",  of |-> p, no |-> t, to |-> "none"]
InSend(p, t, o) == [at |-> "send",  of |-> p, no |-> t, to |-> o]
InQueue(n, q)   == [at |-> "queue", of |-> n, no |-> q, to |-> "none"]
Place(name)     == [at |-> name, of |-> "none", no |-> 0, to |-> "none"]
Names           == {"unsent", "received", "tree", "hand", "written"}

Locations ==
  {InRecv(p, t) : p \in Pools, t \in Tids}
    \cup {InSend(p, t, o) : p \in Pools, t \in Tids, o \in Queues}
    \cup {InQueue(n, q) : n \in Queues, q \in Qids}
    \cup {Place(name) : name \in Names}

\* The chunks at a location.
Held(l) ==
  CASE l.at = "recv"     -> Pending(l.of, thread[l.of][l.no])
    [] l.at = "send"     -> Range(thread[l.of][l.no].send[l.to])
    [] l.at = "queue"    -> FineOf(l.of, que[l.of][l.no])
    [] l.at = "unsent"   -> Unsent
    [] l.at = "received" -> Range(reorder.recv)
    [] l.at = "tree"     -> reorder.tree
    [] l.at = "hand"     -> InHand
    [] l.at = "written"  -> Written

\* Every chunk is at one location and at no other.
Partition(held) ==
  \A c \in Chunks :
     \E l \in Locations : c \in held[l] /\ \A m \in Locations : c \in held[m] => m = l

AllHeld == [l \in Locations |-> Held(l)]

\* No chunk is lost, and none is in two places at a time.
OnceInv ==
  /\ Partition(AllHeld)
  /\ \A p \in Pools, t \in Tids : IsInjective(thread[p][t].recv)
  /\ \A p \in Pools, t \in Tids, o \in Queues : IsInjective(thread[p][t].send[o])
  /\ \A n \in Queues, q \in Qids : IsInjective(que[n][q])
  /\ IsInjective(reorder.recv)

\* Chunks M go from src to dst.
Moved(l, held, src, dst, M) ==
  IF l = src THEN held \ M ELSE IF l = dst THEN held \cup M ELSE held

LEMMA MoveKeeps ==
  ASSUME NEW h, NEW g, Partition(h), NEW src \in Locations, NEW dst \in Locations,
         src # dst, NEW M, M \subseteq h[src],
         \A l \in Locations : g[l] = Moved(l, h[l], src, dst, M)
  PROVE  Partition(g)
<1> SUFFICES ASSUME NEW c \in Chunks
             PROVE  \E l \in Locations : c \in g[l] /\ \A m \in Locations : c \in g[m] => m = l
  BY DEF Partition
<1>1. PICK l \in Locations : c \in h[l] /\ \A m \in Locations : c \in h[m] => m = l
  BY DEF Partition
<1>2. CASE c \in M
  <2>1. l = src
    BY <1>1, <1>2
  <2>2. c \in g[dst] /\ \A m \in Locations : c \in g[m] => m = dst
    BY <1>1, <1>2, <2>1 DEF Moved
  <2> QED BY <2>2
<1>3. CASE c \notin M
  <2>1. \A m \in Locations : c \in g[m] <=> c \in h[m]
    BY <1>3 DEF Moved
  <2> QED BY <1>1, <2>1
<1> QED BY <1>2, <1>3

LEMMA Places ==
  /\ \A p \in Pools, t \in Tids : InRecv(p, t) \in Locations
  /\ \A p \in Pools, t \in Tids, o \in Queues : InSend(p, t, o) \in Locations
  /\ \A n \in Queues, q \in Qids : InQueue(n, q) \in Locations
  /\ \A name \in Names : Place(name) \in Locations
BY DEF Locations

LEMMA PlacesDiffer ==
  /\ \A p, r, t, u : InRecv(p, t) = InRecv(r, u) <=> p = r /\ t = u
  /\ \A p, r, t, u, o, m : InSend(p, t, o) = InSend(r, u, m) <=> p = r /\ t = u /\ o = m
  /\ \A n, m, q, r : InQueue(n, q) = InQueue(m, r) <=> n = m /\ q = r
  /\ \A x, y : Place(x) = Place(y) <=> x = y
  /\ \A p, r, t, u, o : InRecv(p, t) # InSend(r, u, o)
  /\ \A p, n, t, q : InRecv(p, t) # InQueue(n, q)
  /\ \A p, n, t, q, o : InSend(p, t, o) # InQueue(n, q)
  /\ \A p, t : \A x \in Names : InRecv(p, t) # Place(x) /\ InQueue(p, t) # Place(x)
  /\ \A p, t, o : \A x \in Names : InSend(p, t, o) # Place(x)
<1>1. /\ \A p, r, t, u : InRecv(p, t) = InRecv(r, u) <=> p = r /\ t = u
      /\ \A n, m, q, r : InQueue(n, q) = InQueue(m, r) <=> n = m /\ q = r
      /\ \A x, y : Place(x) = Place(y) <=> x = y
  BY DEF InRecv, InQueue, Place
<1>2. \A p, r, t, u, o, m : InSend(p, t, o) = InSend(r, u, m) <=> p = r /\ t = u /\ o = m
  BY DEF InSend
<1>3. /\ \A p, r, t, u, o : InRecv(p, t) # InSend(r, u, o)
      /\ \A p, n, t, q : InRecv(p, t) # InQueue(n, q)
      /\ \A p, n, t, q, o : InSend(p, t, o) # InQueue(n, q)
  BY DEF InRecv, InSend, InQueue
<1>4. /\ \A p, t : \A x \in Names : InRecv(p, t) # Place(x) /\ InQueue(p, t) # Place(x)
      /\ \A p, t, o : \A x \in Names : InSend(p, t, o) # Place(x)
  BY DEF Names, Place, InRecv, InSend, InQueue
<1> QED BY <1>1, <1>2, <1>3, <1>4

LEMMA HeldAt ==
  /\ \A p \in Pools, t \in Tids : Held(InRecv(p, t)) = Pending(p, thread[p][t])
  /\ \A p \in Pools, t \in Tids, o \in Queues :
       Held(InSend(p, t, o)) = Range(thread[p][t].send[o])
  /\ \A n \in Queues, q \in Qids : Held(InQueue(n, q)) = FineOf(n, que[n][q])
  /\ Held(Place("unsent")) = Unsent /\ Held(Place("received")) = Range(reorder.recv)
  /\ Held(Place("tree")) = reorder.tree /\ Held(Place("hand")) = InHand
  /\ Held(Place("written")) = Written
BY DEF Held, InRecv, InSend, InQueue, Place

LEMMA HeldAtNext ==
  /\ \A p \in Pools, t \in Tids : Held(InRecv(p, t))' = Pending(p, thread'[p][t])
  /\ \A p \in Pools, t \in Tids, o \in Queues :
       Held(InSend(p, t, o))' = Range(thread'[p][t].send[o])
  /\ \A n \in Queues, q \in Qids : Held(InQueue(n, q))' = FineOf(n, que'[n][q])
  /\ Held(Place("unsent"))' = Unsent' /\ Held(Place("received"))' = Range(reorder'.recv)
  /\ Held(Place("tree"))' = reorder'.tree /\ Held(Place("hand"))' = InHand'
  /\ Held(Place("written"))' = Written'
BY DEF Held, InRecv, InSend, InQueue, Place

\* Location by location, what a move means for the variables.
LEMMA MoveHeld ==
  ASSUME NEW src, NEW dst, NEW M,
         \A p \in Pools, t \in Tids :
           Pending(p, thread'[p][t]) = Moved(InRecv(p, t), Pending(p, thread[p][t]), src, dst, M),
         \A p \in Pools, t \in Tids, o \in Queues :
           Range(thread'[p][t].send[o])
             = Moved(InSend(p, t, o), Range(thread[p][t].send[o]), src, dst, M),
         \A n \in Queues, q \in Qids :
           FineOf(n, que'[n][q]) = Moved(InQueue(n, q), FineOf(n, que[n][q]), src, dst, M),
         Unsent' = Moved(Place("unsent"), Unsent, src, dst, M),
         Range(reorder'.recv) = Moved(Place("received"), Range(reorder.recv), src, dst, M),
         reorder'.tree = Moved(Place("tree"), reorder.tree, src, dst, M),
         InHand' = Moved(Place("hand"), InHand, src, dst, M),
         Written' = Moved(Place("written"), Written, src, dst, M)
  PROVE  \A l \in Locations : Held(l)' = Moved(l, Held(l), src, dst, M)
<1> SUFFICES ASSUME NEW l \in Locations
             PROVE  Held(l)' = Moved(l, Held(l), src, dst, M)
  OBVIOUS
<1>1. CASE \E p \in Pools, t \in Tids : l = InRecv(p, t)
  BY <1>1, HeldAt, HeldAtNext
<1>2. CASE \E p \in Pools, t \in Tids, o \in Queues : l = InSend(p, t, o)
  BY <1>2, HeldAt, HeldAtNext
<1>3. CASE \E n \in Queues, q \in Qids : l = InQueue(n, q)
  BY <1>3, HeldAt, HeldAtNext
<1>4. CASE \E name \in Names : l = Place(name)
  BY <1>4, HeldAt, HeldAtNext DEF Names
<1>5. \/ \E p \in Pools, t \in Tids : l = InRecv(p, t)
      \/ \E p \in Pools, t \in Tids, o \in Queues : l = InSend(p, t, o)
      \/ \E n \in Queues, q \in Qids : l = InQueue(n, q)
      \/ \E name \in Names : l = Place(name)
  BY DEF Locations
<1> QED BY <1>1, <1>2, <1>3, <1>4, <1>5

LEMMA MovePartition ==
  ASSUME OnceInv, NEW src \in Locations, NEW dst \in Locations, src # dst,
         NEW M, M \subseteq Held(src),
         \A l \in Locations : Held(l)' = Moved(l, Held(l), src, dst, M)
  PROVE  Partition(AllHeld)'
<1>1. Partition(AllHeld) /\ \A l \in Locations : AllHeld[l] = Held(l)
  BY DEF OnceInv, AllHeld
<1>2. \A l \in Locations : AllHeld'[l] = Held(l)'
  BY DEF AllHeld
<1>3. \A l \in Locations : AllHeld'[l] = Moved(l, AllHeld[l], src, dst, M)
  BY <1>1, <1>2
<1>4. M \subseteq AllHeld[src]
  BY <1>1
<1>5. Partition(AllHeld')
  BY <1>1, <1>3, <1>4, MoveKeeps
<1> QED BY <1>5

\* A place of thread t of pool p, or its queue q of those that n names.
Near(l, p, t, n, q) ==
  l = InRecv(p, t) \/ l = InQueue(n, q) \/ \E o \in Queues : l = InSend(p, t, o)

\* Chunks M move between what a pool thread has and one queue.
Shifts(p, t, n, q, src, dst, M) ==
  /\ OnlyThread(p, t) /\ OnlyQueue(n, q) /\ reorder' = reorder /\ Unsent' = Unsent
  /\ src \in Locations /\ dst \in Locations /\ src # dst /\ M \subseteq Held(src)
  /\ Near(src, p, t, n, q) /\ Near(dst, p, t, n, q)
  /\ Pending(p, thread'[p][t]) = Moved(InRecv(p, t), Pending(p, thread[p][t]), src, dst, M)
  /\ \A o \in Queues : Range(thread'[p][t].send[o])
                           = Moved(InSend(p, t, o), Range(thread[p][t].send[o]), src, dst, M)
  /\ FineOf(n, que'[n][q]) = Moved(InQueue(n, q), FineOf(n, que[n][q]), src, dst, M)

LEMMA ThreadMove ==
  ASSUME PipelineTypeOK, OnceInv, NEW p \in Pools, NEW t \in Tids,
         NEW n \in Queues, NEW q \in Qids, NEW src, NEW dst, NEW M,
         Shifts(p, t, n, q, src, dst, M)
  PROVE  /\ Partition(AllHeld)'
         /\ \A l \in Locations : Held(l)' = Moved(l, Held(l), src, dst, M)
<1> USE DEF Shifts
<1>1. \A r \in Pools, u \in Tids :
        Pending(r, thread'[r][u]) = Moved(InRecv(r, u), Pending(r, thread[r][u]), src, dst, M)
  <2> SUFFICES ASSUME NEW r \in Pools, NEW u \in Tids, r # p \/ u # t
               PROVE  /\ thread'[r][u] = thread[r][u]
                      /\ InRecv(r, u) # src /\ InRecv(r, u) # dst
    BY DEF Moved
  <2>1. InRecv(r, u) # src /\ InRecv(r, u) # dst
    BY PlacesDiffer DEF Near
  <2> QED BY <2>1 DEF OnlyThread
<1>2. \A r \in Pools, u \in Tids, o \in Queues :
        Range(thread'[r][u].send[o])
          = Moved(InSend(r, u, o), Range(thread[r][u].send[o]), src, dst, M)
  <2> SUFFICES ASSUME NEW r \in Pools, NEW u \in Tids, NEW o \in Queues, r # p \/ u # t
               PROVE  /\ thread'[r][u] = thread[r][u]
                      /\ InSend(r, u, o) # src /\ InSend(r, u, o) # dst
    BY ZenonT(60) DEF Moved
  <2>1. InSend(r, u, o) # src /\ InSend(r, u, o) # dst
    BY PlacesDiffer DEF Near
  <2> QED BY <2>1 DEF OnlyThread
<1>3. \A m \in Queues, r \in Qids :
        FineOf(m, que'[m][r]) = Moved(InQueue(m, r), FineOf(m, que[m][r]), src, dst, M)
  <2> SUFFICES ASSUME NEW m \in Queues, NEW r \in Qids, m # n \/ r # q
               PROVE  /\ que'[m][r] = que[m][r]
                      /\ InQueue(m, r) # src /\ InQueue(m, r) # dst
    BY DEF Moved
  <2>1. InQueue(m, r) # src /\ InQueue(m, r) # dst
    BY PlacesDiffer DEF Near
  <2> QED BY <2>1 DEF OnlyQueue
<1>4. \A name \in Names : Place(name) # src /\ Place(name) # dst
  BY PlacesDiffer DEF Near
<1>5. /\ Unsent' = Moved(Place("unsent"), Unsent, src, dst, M)
      /\ Range(reorder'.recv) = Moved(Place("received"), Range(reorder.recv), src, dst, M)
      /\ reorder'.tree = Moved(Place("tree"), reorder.tree, src, dst, M)
      /\ InHand' = Moved(Place("hand"), InHand, src, dst, M)
      /\ Written' = Moved(Place("written"), Written, src, dst, M)
  <2>1. InHand' = InHand /\ Written' = Written
    BY DEF InHand, Written
  <2> QED BY <1>4, <2>1 DEF Moved, Names
<1>6. \A l \in Locations : Held(l)' = Moved(l, Held(l), src, dst, M)
  BY <1>1, <1>2, <1>3, <1>5, MoveHeld
<1>7. Partition(AllHeld)'
  BY <1>6, MovePartition
<1> QED BY <1>6, <1>7

\* Chunks M move between places of Reorder's and its queues.
ReorderShifts(src, dst, M) ==
  /\ thread' = thread /\ frag' = frag
  /\ src \in Locations /\ dst \in Locations /\ src # dst /\ M \subseteq Held(src)
  /\ {src, dst} \subseteq {InQueue("reorder", r) : r \in Qids}
                           \cup {Place(name) : name \in Names \ {"unsent"}}
  /\ \A n \in Queues, q \in Qids :
       FineOf(n, que'[n][q]) = Moved(InQueue(n, q), FineOf(n, que[n][q]), src, dst, M)
  /\ Range(reorder'.recv) = Moved(Place("received"), Range(reorder.recv), src, dst, M)
  /\ reorder'.tree = Moved(Place("tree"), reorder.tree, src, dst, M)
  /\ InHand' = Moved(Place("hand"), InHand, src, dst, M)
  /\ Written' = Moved(Place("written"), Written, src, dst, M)

LEMMA ReorderMove ==
  ASSUME PipelineTypeOK, OnceInv, NEW src, NEW dst, NEW M, ReorderShifts(src, dst, M)
  PROVE  /\ Partition(AllHeld)'
         /\ \A l \in Locations : Held(l)' = Moved(l, Held(l), src, dst, M)
<1>1. \A r, u, o : /\ InRecv(r, u) # src /\ InRecv(r, u) # dst
                   /\ InSend(r, u, o) # src /\ InSend(r, u, o) # dst
  BY PlacesDiffer DEF ReorderShifts
<1>2. Place("unsent") # src /\ Place("unsent") # dst
  <2>1. \A q \in Qids : InQueue("reorder", q) # Place("unsent")
    BY PlacesDiffer DEF Names
  <2>2. \A name \in Names \ {"unsent"} : Place(name) # Place("unsent")
    BY PlacesDiffer
  <2> QED BY <2>1, <2>2 DEF ReorderShifts
<1>3. \A r \in Pools, u \in Tids :
        Pending(r, thread'[r][u]) = Moved(InRecv(r, u), Pending(r, thread[r][u]), src, dst, M)
  BY <1>1 DEF Moved, ReorderShifts
<1>4. \A r \in Pools, u \in Tids, o \in Queues :
        Range(thread'[r][u].send[o])
          = Moved(InSend(r, u, o), Range(thread[r][u].send[o]), src, dst, M)
  BY <1>1 DEF Moved, ReorderShifts
<1>5. Unsent' = Moved(Place("unsent"), Unsent, src, dst, M)
  BY <1>2 DEF Moved, Unsent, ReorderShifts
<1>6. \A l \in Locations : Held(l)' = Moved(l, Held(l), src, dst, M)
  BY <1>3, <1>4, <1>5, MoveHeld DEF ReorderShifts
<1>7. Partition(AllHeld)'
  BY <1>6, MovePartition DEF ReorderShifts
<1> QED BY <1>6, <1>7

LEMMA FineSplit ==
  ASSUME NEW n, NEW s, NEW p, NEW r, Range(s) = Range(p) \cup Range(r)
  PROVE  /\ FineOf(n, s) = FineOf(n, p) \cup FineOf(n, r)
         /\ Range(p) \cap Range(r) = {} => FineOf(n, r) = FineOf(n, s) \ FineOf(n, p)
BY DEF FineOf

LEMMA FetchMoves ==
  ASSUME PipelineTypeOK, OnceInv, NEW p \in Pools, NEW t \in Tids, Fetch(p, t)
  PROVE  /\ OnceInv'
         /\ \E M : /\ M \subseteq Held(InQueue(p, QidOf(t)))
                  /\ \A l \in Locations :
                       Held(l)' = Moved(l, Held(l), InQueue(p, QidOf(t)), InRecv(p, t), M)
<1> DEFINE q   == QidOf(t)
           old == que[p][q]
           src == InQueue(p, q)
           dst == InRecv(p, t)
<1>1. /\ OnlyThread(p, t) /\ OnlyQueue(p, q) /\ thread[p][t].recv = << >>
      /\ thread'[p][t].send = thread[p][t].send /\ thread'[p][t].l2 = thread[p][t].l2
      /\ UNCHANGED <<frag, reorder>>
  <2>1. UNCHANGED <<frag, reorder>>
    BY DEF Fetch
  <2> QED BY <2>1, FetchFacts
<1>2. PICK n \in 1..Len(old) : thread'[p][t].recv = Prefix(old, n) /\ que'[p][q] = Rest(old, n)
  BY FetchFacts
<1>3. p \in Queues /\ q \in Qids /\ old \in Seq(ItemsOf(p)) /\ n \in 0..Len(old) /\ IsInjective(old)
  BY <1>2, QueueNames, QueuesExist DEF PipelineTypeOK, QueueTypeOK, QueuesOK, OnceInv
<1> DEFINE pre  == Prefix(old, n)
           post == Rest(old, n)
           M    == FineOf(p, pre)
<1>4. /\ Range(old) = Range(pre) \cup Range(post) /\ Range(pre) \cap Range(post) = {}
      /\ IsInjective(pre) /\ IsInjective(post)
  <2> HIDE DEF old
  <2> QED BY <1>3, CutRange
<1> HIDE DEF pre, post, old
<1>5. FineOf(p, old) = M \cup FineOf(p, post) /\ FineOf(p, post) = FineOf(p, old) \ M
  BY <1>4, FineSplit
<1>6. Pending(p, thread[p][t]) = {}
  <2>1. Range(<< >>) = {}
    BY DEF Range
  <2> QED BY <1>1, <2>1 DEF Pending
<1>7. Pending(p, thread'[p][t]) = M
  <2>1. CASE p = "refine"
    <3>1. thread'[p][t].l2 = 0
      <4>1. thread[p][t].l2 \in Nat /\ thread[p][t].l2 < 1
        BY <1>1, <2>1, ThreadFacts DEF PipelineTypeOK, Thread
      <4> QED BY <1>1, <4>1
    <3>2. \A c \in Chunks : c.l2 >= 0
      BY ChunkShape
    <3> QED BY <1>2, <2>1, <3>1, <3>2 DEF Pending, FineOf, pre
  <2>2. CASE p # "refine"
    BY <1>2, <2>2 DEF Pending, FineOf, pre
  <2> QED BY <2>1, <2>2
<1>8. /\ src \in Locations /\ dst \in Locations /\ src # dst /\ Held(src) = FineOf(p, old)
      /\ \A o \in Queues : InSend(p, t, o) # src /\ InSend(p, t, o) # dst
  BY <1>3, Places, PlacesDiffer, HeldAt DEF old
<1>9. M \subseteq Held(src)
  BY <1>5, <1>8
<1>10. Unsent' = Unsent
  BY <1>1 DEF Unsent
<1>11. Pending(p, thread'[p][t]) = Moved(dst, Pending(p, thread[p][t]), src, dst, M)
  BY <1>6, <1>7, <1>8 DEF Moved
<1>12. \A o \in Queues : Range(thread'[p][t].send[o])
                           = Moved(InSend(p, t, o), Range(thread[p][t].send[o]), src, dst, M)
  BY <1>1, <1>8 DEF Moved
<1>13. FineOf(p, que'[p][q]) = Moved(src, FineOf(p, que[p][q]), src, dst, M)
  BY <1>2, <1>5, <1>8 DEF Moved, old, post
<1>14. /\ Partition(AllHeld)'
       /\ \A l \in Locations : Held(l)' = Moved(l, Held(l), src, dst, M)
  <2>1. Near(src, p, t, p, q) /\ Near(dst, p, t, p, q)
    BY DEF Near
  <2>2. Shifts(p, t, p, q, src, dst, M)
    <3> HIDE DEF M
    <3> QED BY <1>1, <1>8, <1>9, <1>10, <1>11, <1>12, <1>13, <2>1 DEF Shifts
  <2> HIDE DEF M, src, dst
  <2> QED BY <1>3, <2>2, ThreadMove
<1>15. \A r \in Pools, u \in Tids : IsInjective(thread'[r][u].recv)
  BY <1>1, <1>2, <1>4 DEF OnceInv, OnlyThread, pre
<1>16. \A r \in Pools, u \in Tids, o \in Queues : IsInjective(thread'[r][u].send[o])
  BY <1>1 DEF OnceInv, OnlyThread
<1>17. \A m \in Queues, r \in Qids : IsInjective(que'[m][r])
  BY <1>1, <1>2, <1>4 DEF OnceInv, OnlyQueue, post
<1>18. IsInjective(reorder'.recv)
  BY <1>1 DEF OnceInv
<1>19. OnceInv'
  BY <1>14, <1>15, <1>16, <1>17, <1>18 DEF OnceInv
<1> QED BY <1>9, <1>14, <1>19

LEMMA HeldApart ==
  ASSUME OnceInv, NEW l \in Locations, NEW m \in Locations, NEW c \in Chunks,
         c \in Held(l), c \in Held(m)
  PROVE  l = m
BY DEF OnceInv, Partition, AllHeld

LEMMA SendMoves ==
  ASSUME PipelineTypeOK, OnceInv, NEW p \in Pools, NEW t \in Tids, NEW o \in Queues,
         Send(p, t, o)
  PROVE  /\ OnceInv'
         /\ \E M : /\ M \subseteq Held(InSend(p, t, o))
                  /\ \A l \in Locations :
                       Held(l)' = Moved(l, Held(l), InSend(p, t, o), InQueue(o, QidOf(t)), M)
<1> DEFINE q     == QidOf(t)
           items == thread[p][t].send[o]
           old   == que[o][q]
           src   == InSend(p, t, o)
           dst   == InQueue(o, q)
<1>1. /\ OnlyThread(p, t) /\ OnlyQueue(o, q) /\ o # "refine"
      /\ thread'[p][t].recv = thread[p][t].recv /\ thread'[p][t].l2 = thread[p][t].l2
      /\ \A m \in Queues : m # o => thread'[p][t].send[m] = thread[p][t].send[m]
      /\ UNCHANGED <<frag, reorder>>
  <2>1. UNCHANGED <<frag, reorder>>
    BY DEF Send
  <2>2. OnlyThread(p, t) /\ OnlyQueue(o, q) /\ o \in Queues \ {"refine"}
    BY SendFacts
  <2>3. /\ thread'[p][t].recv = thread[p][t].recv /\ thread'[p][t].l2 = thread[p][t].l2
        /\ \A m \in Queues : m # o => thread'[p][t].send[m] = thread[p][t].send[m]
    BY SendFacts, ZenonT(60)
  <2> QED BY <2>1, <2>2, <2>3
<1>2. PICK n \in 0..Len(items) : /\ que'[o][q] = old \o Prefix(items, n)
                                 /\ thread'[p][t].send[o] = Rest(items, n)
  BY SendFacts, ZenonT(60)
<1>3. /\ q \in Qids /\ items \in Seq(Chunks) /\ old \in Seq(Chunks)
      /\ IsInjective(items) /\ IsInjective(old)
  BY <1>1, ThreadFacts, QueuesExist DEF PipelineTypeOK, QueueTypeOK, QueuesOK, ItemsOf, OnceInv
<1> DEFINE pre  == Prefix(items, n)
           post == Rest(items, n)
           M    == Range(pre)
<1>4. /\ Range(items) = M \cup Range(post) /\ M \cap Range(post) = {}
      /\ IsInjective(pre) /\ IsInjective(post) /\ pre \in Seq(Chunks)
  <2> HIDE DEF items
  <2> QED BY <1>3, CutRange, Cut
<1>5. /\ src \in Locations /\ dst \in Locations /\ src # dst
      /\ Held(src) = Range(items) /\ Held(dst) = Range(old)
      /\ InRecv(p, t) # src /\ InRecv(p, t) # dst
      /\ \A m \in Queues : m # o => InSend(p, t, m) # src
      /\ \A m \in Queues : InSend(p, t, m) # dst
  BY <1>1, <1>3, Places, PlacesDiffer, HeldAt DEF FineOf
<1> HIDE DEF pre, post, items, old
<1>6. Range(items) \cap Range(old) = {}
  <2> SUFFICES ASSUME NEW c, c \in Range(items), c \in Range(old)
               PROVE  FALSE
    OBVIOUS
  <2>1. c \in Chunks
    BY <1>3 DEF Range
  <2> QED BY <1>5, <2>1, HeldApart
<1>7. /\ Range(old \o pre) = Range(old) \cup M
      /\ IsInjective(old \o pre)
  <2>1. Range(old) \cap Range(pre) = {}
    BY <1>4, <1>6
  <2> QED BY <1>3, <1>4, <2>1, JoinRange
<1>8. M \subseteq Held(src) /\ Unsent' = Unsent
  BY <1>1, <1>4, <1>5 DEF Unsent
<1>9. Pending(p, thread'[p][t]) = Moved(InRecv(p, t), Pending(p, thread[p][t]), src, dst, M)
  BY <1>1, <1>5 DEF Moved, Pending
<1>10. \A m \in Queues : Range(thread'[p][t].send[m])
                           = Moved(InSend(p, t, m), Range(thread[p][t].send[m]), src, dst, M)
  <2>1. Range(thread'[p][t].send[o]) = Range(thread[p][t].send[o]) \ M
    BY <1>2, <1>4 DEF items, post
  <2> QED BY <1>1, <1>5, <2>1 DEF Moved
<1>11. FineOf(o, que'[o][q]) = Moved(dst, FineOf(o, que[o][q]), src, dst, M)
  BY <1>1, <1>2, <1>5, <1>7 DEF Moved, FineOf, old, pre
<1>12. Near(src, p, t, o, q) /\ Near(dst, p, t, o, q)
  BY DEF Near
<1>13. /\ Partition(AllHeld)'
       /\ \A l \in Locations : Held(l)' = Moved(l, Held(l), src, dst, M)
  <2>1. Shifts(p, t, o, q, src, dst, M)
    <3> HIDE DEF M
    <3> QED BY <1>1, <1>5, <1>8, <1>9, <1>10, <1>11, <1>12 DEF Shifts
  <2> HIDE DEF M, src, dst
  <2> QED BY <1>3, <2>1, ThreadMove
<1>14. \A r \in Pools, u \in Tids : IsInjective(thread'[r][u].recv)
  BY <1>1 DEF OnceInv, OnlyThread
<1>15. \A r \in Pools, u \in Tids, m \in Queues : IsInjective(thread'[r][u].send[m])
  BY <1>1, <1>2, <1>4 DEF OnceInv, OnlyThread, post
<1>16. \A m \in Queues, r \in Qids : IsInjective(que'[m][r])
  BY <1>1, <1>2, <1>7 DEF OnceInv, OnlyQueue, old, pre
<1>17. IsInjective(reorder'.recv)
  BY <1>1 DEF OnceInv
<1>18. OnceInv'
  BY <1>13, <1>14, <1>15, <1>16, <1>17 DEF OnceInv
<1> QED BY <1>8, <1>13, <1>18

\* A thread passes one chunk from its receive buffer to a send buffer.
LEMMA PassMoves ==
  ASSUME PipelineTypeOK, OnceInv, NEW p \in Pools, NEW t \in Tids, NEW o \in Queues,
         NEW c \in Chunks, OnlyThread(p, t), UNCHANGED <<que, frag, reorder>>,
         c \in Pending(p, thread[p][t]),
         Pending(p, thread'[p][t]) = Pending(p, thread[p][t]) \ {c},
         IsInjective(thread'[p][t].recv),
         thread'[p][t].send[o] = Append(thread[p][t].send[o], c),
         \A m \in Queues : m # o => thread'[p][t].send[m] = thread[p][t].send[m]
  PROVE  /\ OnceInv'
         /\ \A l \in Locations : Held(l)' = Moved(l, Held(l), InRecv(p, t), InSend(p, t, o), {c})
<1> DEFINE src == InRecv(p, t)
           dst == InSend(p, t, o)
           buf == thread[p][t].send[o]
           q   == QidOf(t)
<1>1. /\ src \in Locations /\ dst \in Locations /\ src # dst
      /\ Held(src) = Pending(p, thread[p][t]) /\ Held(dst) = Range(buf)
      /\ p \in Queues /\ q \in Qids /\ InQueue(p, q) # src /\ InQueue(p, q) # dst
      /\ \A m \in Queues : m # o => InSend(p, t, m) # dst
      /\ \A m \in Queues : InSend(p, t, m) # src
  <2>1. src \in Locations /\ dst \in Locations
    BY Places
  <2>2. Held(src) = Pending(p, thread[p][t]) /\ Held(dst) = Range(buf)
    BY HeldAt
  <2>3. p \in Queues /\ q \in Qids
    BY QueueNames, QueuesExist
  <2>4. src # dst /\ InQueue(p, q) # src /\ InQueue(p, q) # dst
    BY ONLY PlacesDiffer
  <2>5. \A m \in Queues : InSend(p, t, m) # src /\ (m # o => InSend(p, t, m) # dst)
    BY ONLY PlacesDiffer
  <2> QED BY <2>1, <2>2, <2>3, <2>4, <2>5
<1>2. buf \in Seq(Chunks) /\ IsInjective(buf) /\ c \notin Range(buf)
  <2>1. buf \in Seq(Chunks)
    BY ThreadFacts DEF PipelineTypeOK
  <2>2. IsInjective(buf)
    BY DEF OnceInv
  <2>3. c \in Held(src)
    BY <1>1
  <2>4. c \notin Held(dst)
    BY <1>1, <2>3, HeldApart
  <2> QED BY <1>1, <2>1, <2>2, <2>4
<1>3. Range(Append(buf, c)) = Range(buf) \cup {c} /\ IsInjective(Append(buf, c))
  <2> HIDE DEF buf
  <2> QED BY <1>2, AddLast, SMTT(30)
<1>4. Unsent' = Unsent /\ {c} \subseteq Held(src) /\ OnlyQueue(p, q)
  BY <1>1 DEF Unsent, OnlyQueue
<1>5. Pending(p, thread'[p][t]) = Moved(src, Pending(p, thread[p][t]), src, dst, {c})
  BY DEF Moved
<1>6. \A m \in Queues : Range(thread'[p][t].send[m])
                          = Moved(InSend(p, t, m), Range(thread[p][t].send[m]), src, dst, {c})
  BY <1>1, <1>3 DEF Moved
<1>7. /\ Partition(AllHeld)'
      /\ \A l \in Locations : Held(l)' = Moved(l, Held(l), src, dst, {c})
  <2>1. Near(src, p, t, p, q) /\ Near(dst, p, t, p, q)
    BY DEF Near
  <2>2. FineOf(p, que'[p][q]) = Moved(InQueue(p, q), FineOf(p, que[p][q]), src, dst, {c})
    BY <1>1 DEF Moved
  <2>3. Shifts(p, t, p, q, src, dst, {c})
    <3> HIDE DEF q
    <3> QED BY <1>1, <1>4, <1>5, <1>6, <2>1, <2>2 DEF Shifts
  <2>4. p \in Pools /\ t \in Tids /\ p \in Queues /\ q \in Qids /\ PipelineTypeOK /\ OnceInv
    BY <1>1
  <2> HIDE DEF src, dst, q
  <2> QED BY ONLY <2>3, <2>4, ThreadMove
<1>8. \A r \in Pools, u \in Tids : IsInjective(thread'[r][u].recv)
  BY DEF OnceInv, OnlyThread
<1>9. \A r \in Pools, u \in Tids, m \in Queues : IsInjective(thread'[r][u].send[m])
  BY <1>3, ZenonT(60) DEF OnceInv, OnlyThread
<1>10. (\A m \in Queues, r \in Qids : IsInjective(que'[m][r])) /\ IsInjective(reorder'.recv)
  BY DEF OnceInv
<1>11. OnceInv'
  BY <1>7, <1>8, <1>9, <1>10 DEF OnceInv
<1> QED BY <1>7, <1>11

\* At the start every chunk is before Fragment.
LEMMA OnceInit ==
  ASSUME Init
  PROVE  OnceInv
<1>1. /\ \A n \in Queues, q \in Qids : que[n][q] = << >>
      /\ \A p \in Pools, t \in Tids : thread[p][t].recv = << >>
      /\ \A p \in Pools, t \in Tids, o \in Queues : thread[p][t].send[o] = << >>
  BY DEF Init, InitThread
<1>2. /\ frag.sent = 0 /\ reorder.pc = "receive" /\ reorder.recv = << >> /\ reorder.tree = {}
      /\ reorder.next = [l1 |-> 0, l2 |-> 0]
  BY DEF Init
<1>3. Range(<< >>) = {} /\ IsInjective(<< >>)
  BY DEF Range, IsInjective
<1>4. \A c \in Chunks : c.l1 \in Nat /\ c.l2 \in Nat
  BY ChunkShape, InputShape
<1>5. /\ \A n \in Queues, q \in Qids : FineOf(n, que[n][q]) = {}
      /\ \A p \in Pools, t \in Tids : Pending(p, thread[p][t]) = {}
      /\ \A p \in Pools, t \in Tids, o \in Queues : Range(thread[p][t].send[o]) = {}
  BY <1>1, <1>3 DEF FineOf, Pending
<1>6. Unsent = Chunks /\ Written = {} /\ InHand = {} /\ Range(reorder.recv) = {}
  BY <1>2, <1>3, <1>4 DEF Unsent, Written, InHand, sequence_lt
<1>7. \A l \in Locations : l # Place("unsent") => Held(l) = {}
  <2> SUFFICES ASSUME NEW l \in Locations, l # Place("unsent")
               PROVE  Held(l) = {}
    OBVIOUS
  <2>1. CASE \E p \in Pools, t \in Tids : l = InRecv(p, t)
    BY <2>1, <1>5, HeldAt
  <2>2. CASE \E p \in Pools, t \in Tids, o \in Queues : l = InSend(p, t, o)
    BY <2>2, <1>5, HeldAt
  <2>3. CASE \E n \in Queues, q \in Qids : l = InQueue(n, q)
    BY <2>3, <1>5, HeldAt
  <2>4. CASE \E name \in Names : l = Place(name)
    BY <2>4, <1>2, <1>6, HeldAt DEF Names
  <2> QED BY <2>1, <2>2, <2>3, <2>4 DEF Locations
<1>8. Partition(AllHeld)
  <2>1. Place("unsent") \in Locations /\ Held(Place("unsent")) = Chunks
    BY <1>6, Places, HeldAt DEF Names
  <2> QED BY <1>7, <2>1 DEF Partition, AllHeld
<1> QED BY <1>1, <1>2, <1>3, <1>8 DEF OnceInv

\* Fragment sends a coarse chunk, and with it the fine ones it will be cut into.
LEMMA FragmentSendMoves ==
  ASSUME PipelineTypeOK, OnceInv, FragmentSend
  PROVE  OnceInv'
<1> DEFINE a   == frag.sent
           q   == frag.qid
           old == que["refine"][q]
           src == Place("unsent")
           dst == InQueue("refine", q)
           M   == {c \in Chunks : c.l1 = a}
<1>1. /\ a \in CoarseIds /\ q \in Qids /\ OnlyQueue("refine", q) /\ frag'.sent = a + 1
      /\ que'["refine"][q] = Append(old, a)
  BY FragmentSendFacts
<1>2. thread' = thread /\ reorder' = reorder
  BY DEF FragmentSend
<1>3. "refine" \in Queues /\ old \in Seq(CoarseIds) /\ IsInjective(old)
  BY <1>1, QueueNames DEF PipelineTypeOK, QueueTypeOK, QueuesOK, ItemsOf, OnceInv
<1>4. src \in Locations /\ dst \in Locations /\ src # dst
  BY <1>1, <1>3, Places, PlacesDiffer DEF Names
<1>5. Held(src) = Unsent /\ Held(dst) = {c \in Chunks : c.l1 \in Range(old)}
  BY <1>1, <1>3, HeldAt DEF FineOf
<1>6. a \notin Range(old)
  <2>1. [l1 |-> a, l2 |-> 0] \in Chunks
    BY <1>1, ChunkShape, InputShape
  <2>2. [l1 |-> a, l2 |-> 0] \in Held(src)
    BY <1>1, <1>5, <2>1, InputShape DEF Unsent
  <2> QED BY <1>4, <1>5, <2>1, <2>2, HeldApart
<1>7. Range(Append(old, a)) = Range(old) \cup {a} /\ IsInjective(Append(old, a))
  <2> HIDE DEF old, a
  <2> QED BY <1>1, <1>3, <1>6, AddLast
<1>8. M \subseteq Held(src)
  BY <1>1, <1>5, InputShape DEF Unsent
<1>9. Unsent' = Unsent \ M
  <2>1. \A c \in Chunks : c.l1 \in Nat
    BY ChunkShape, InputShape
  <2>2. a \in Nat
    BY <1>1, InputShape
  <2> QED BY <1>1, <2>1, <2>2 DEF Unsent
<1>10. \A p \in Pools, t \in Tids :
         Pending(p, thread'[p][t]) = Moved(InRecv(p, t), Pending(p, thread[p][t]), src, dst, M)
  BY <1>2, PlacesDiffer DEF Moved, Names
<1>11. \A p \in Pools, t \in Tids, o \in Queues :
         Range(thread'[p][t].send[o])
           = Moved(InSend(p, t, o), Range(thread[p][t].send[o]), src, dst, M)
  BY <1>2, PlacesDiffer DEF Moved, Names
<1>12. \A n \in Queues, r \in Qids :
         FineOf(n, que'[n][r]) = Moved(InQueue(n, r), FineOf(n, que[n][r]), src, dst, M)
  <2> SUFFICES ASSUME NEW n \in Queues, NEW r \in Qids
               PROVE  FineOf(n, que'[n][r]) = Moved(InQueue(n, r), FineOf(n, que[n][r]), src, dst, M)
    OBVIOUS
  <2>1. InQueue(n, r) # src
    BY PlacesDiffer DEF Names
  <2>2. CASE n = "refine" /\ r = q
    <3>1. FineOf("refine", que'["refine"][q]) = FineOf("refine", old) \cup M
      BY <1>1, <1>7 DEF FineOf
    <3> QED BY <2>1, <2>2, <3>1 DEF Moved
  <2>3. CASE n # "refine" \/ r # q
    BY <1>1, <2>1, <2>3, PlacesDiffer DEF Moved, OnlyQueue
  <2> QED BY <2>2, <2>3
<1>13. \A name \in Names : Place(name) # dst /\ (Place(name) = src => name = "unsent")
  BY PlacesDiffer
<1>14. /\ Unsent' = Moved(Place("unsent"), Unsent, src, dst, M)
       /\ Range(reorder'.recv) = Moved(Place("received"), Range(reorder.recv), src, dst, M)
       /\ reorder'.tree = Moved(Place("tree"), reorder.tree, src, dst, M)
       /\ InHand' = Moved(Place("hand"), InHand, src, dst, M)
       /\ Written' = Moved(Place("written"), Written, src, dst, M)
  <2>1. InHand' = InHand /\ Written' = Written
    BY <1>2 DEF InHand, Written
  <2> QED BY <1>2, <1>9, <1>13, <2>1 DEF Moved, Names
<1>15. \A l \in Locations : Held(l)' = Moved(l, Held(l), src, dst, M)
  <2> HIDE DEF src, dst, M
  <2> QED BY <1>10, <1>11, <1>12, <1>14, MoveHeld
<1>16. Partition(AllHeld)'
  <2> HIDE DEF src, dst, M
  <2> QED BY <1>4, <1>8, <1>15, MovePartition
<1>17. /\ \A p \in Pools, t \in Tids : IsInjective(thread'[p][t].recv)
       /\ \A p \in Pools, t \in Tids, o \in Queues : IsInjective(thread'[p][t].send[o])
       /\ IsInjective(reorder'.recv)
  BY <1>2 DEF OnceInv
<1>18. \A n \in Queues, r \in Qids : IsInjective(que'[n][r])
  BY <1>1, <1>7 DEF OnceInv, OnlyQueue
<1> QED BY <1>16, <1>17, <1>18 DEF OnceInv

\* FragmentRefine passes the chunk it cuts off on to the next stage.
LEMMA CutMoves ==
  ASSUME PipelineTypeOK, OnceInv, NEW t \in Tids, FragmentRefine(t)
  PROVE  /\ OnceInv'
         /\ \A l \in Locations :
              Held(l)' = Moved(l, Held(l), InRecv("refine", t), InSend("refine", t, "deduplicate"),
                               {NextCut(t)})
<1> DEFINE me  == thread["refine"][t]
           you == thread'["refine"][t]
           c   == NextCut(t)
           a   == Head(me.recv)
<1>1. /\ OnlyThread("refine", t) /\ me.recv # << >> /\ c \in Chunks
      /\ you.send["deduplicate"] = Append(me.send["deduplicate"], c)
      /\ \A m \in Queues : m # "deduplicate" => you.send[m] = me.send[m]
  BY CutFacts
<1>2. IF me.l2 + 1 = Size(a) THEN you.recv = Tail(me.recv) /\ you.l2 = 0
      ELSE you.recv = me.recv /\ you.l2 = me.l2 + 1
  BY CutFacts
<1>3. c.l1 = a /\ c.l2 = me.l2
  BY DEF NextCut
<1>4. UNCHANGED <<que, frag, reorder>>
  BY DEF FragmentRefine
<1>5. me.recv \in Seq(CoarseIds) /\ me.l2 \in Nat /\ IsInjective(me.recv)
  BY QueueNames, ThreadFacts DEF PipelineTypeOK, ItemsOf, Thread, OnceInv
<1> DEFINE rest == Tail(me.recv)
<1>6. /\ Range(me.recv) = {a} \cup Range(rest) /\ a \notin Range(rest) /\ IsInjective(rest)
  <2> HIDE DEF me
  <2> QED BY <1>1, <1>5, TakeFirst
<1>7. \A d \in Chunks : /\ d.l2 \in Nat /\ d.l2 < Size(d.l1) /\ Size(d.l1) \in Nat
                        /\ (d # c => d.l1 # a \/ d.l2 # me.l2)
  <2>1. \A d \in Chunks : d \in [l1 : CoarseIds, l2 : Nat]
    BY ChunkShape
  <2>2. \A d \in Chunks : d.l1 = c.l1 /\ d.l2 = c.l2 => d = c
    BY <1>1, <2>1
  <2> QED BY <1>3, <2>1, <2>2, ChunkShape, InputShape
<1> HIDE DEF me, you, c, a, rest
<1>8. Pending("refine", me)
        = {d \in Chunks : d.l1 \in Range(me.recv) /\ (d.l1 = a => d.l2 >= me.l2)}
  BY DEF Pending, a
<1>9. c \in Pending("refine", me)
  BY <1>1, <1>3, <1>5, <1>6, <1>8
<1>10. Pending("refine", you) = Pending("refine", me) \ {c} /\ IsInjective(you.recv)
  <2>1. CASE me.l2 + 1 = Size(a)
    <3>1. you.recv = rest /\ you.l2 = 0
      BY <1>2, <2>1 DEF rest, a
    <3>2. Pending("refine", you) = {d \in Chunks : d.l1 \in Range(rest)}
      BY <3>1, <1>7 DEF Pending
    <3>3. \A d \in Chunks : d.l1 = a /\ d.l2 >= me.l2 => d.l2 = me.l2
      BY <1>5, <1>7, <2>1
    <3> QED BY <1>3, <1>6, <1>7, <1>8, <3>1, <3>2, <3>3
  <2>2. CASE me.l2 + 1 # Size(a)
    <3>1. you.recv = me.recv /\ you.l2 = me.l2 + 1
      BY <1>2, <2>2
    <3>2. Pending("refine", you)
            = {d \in Chunks : d.l1 \in Range(me.recv) /\ (d.l1 = a => d.l2 >= me.l2 + 1)}
      BY <3>1 DEF Pending, a
    <3>3. \A d \in Chunks : d.l1 = a /\ d.l2 >= me.l2 /\ d # c => d.l2 >= me.l2 + 1
      BY <1>5, <1>7
    <3>4. \A d \in Chunks : d.l1 = a /\ d.l2 >= me.l2 + 1 => d.l2 >= me.l2 /\ d # c
      BY <1>3, <1>5, <1>7
    <3> QED BY <1>3, <1>5, <1>8, <3>1, <3>2, <3>3, <3>4
  <2> QED BY <2>1, <2>2
<1>11. "refine" \in Pools /\ "deduplicate" \in Queues
  BY QueueNames
<1> QED BY <1>1, <1>4, <1>9, <1>10, <1>11, PassMoves DEF me, you, c

\* A thread of the other pools passes its first chunk on.
LEMMA HandMoves ==
  ASSUME PipelineTypeOK, OnceInv, NEW p \in {"deduplicate", "compress"}, NEW t \in Tids,
         NEW o \in Queues, HandsOn(p, t, o), UNCHANGED <<que, frag, reorder>>
  PROVE  /\ OnceInv'
         /\ \A l \in Locations :
              Held(l)' = Moved(l, Held(l), InRecv(p, t), InSend(p, t, o),
                               {Head(thread[p][t].recv)})
<1> DEFINE s == thread[p][t].recv
           c == Head(s)
<1>1. /\ OnlyThread(p, t) /\ s \in Seq(Chunks) /\ s # << >> /\ c \in Chunks
      /\ thread'[p][t].recv = Tail(s)
      /\ thread'[p][t].send[o] = Append(thread[p][t].send[o], c)
      /\ \A m \in Queues : m # o => thread'[p][t].send[m] = thread[p][t].send[m]
  BY DEF HandsOn
<1>2. p \in Pools /\ p # "refine"
  BY QueueNames
<1>3. IsInjective(s)
  BY <1>2 DEF OnceInv
<1>4. Range(s) = {c} \cup Range(Tail(s)) /\ IsInjective(Tail(s)) /\ c \notin Range(Tail(s))
  <2> HIDE DEF s
  <2> QED BY <1>1, <1>3, TakeFirst
<1>5. Pending(p, thread[p][t]) = Range(s) /\ Pending(p, thread'[p][t]) = Range(Tail(s))
  BY <1>1, <1>2 DEF Pending
<1>6. /\ c \in Pending(p, thread[p][t]) /\ IsInjective(thread'[p][t].recv)
      /\ Pending(p, thread'[p][t]) = Pending(p, thread[p][t]) \ {c}
  BY <1>1, <1>4, <1>5
<1> HIDE DEF s, c
<1> QED BY <1>1, <1>2, <1>6, PassMoves, ZenonT(60) DEF s, c

\* Reorder's own places and its queues differ.
LEMMA ReorderPlaces ==
  /\ \A x, y \in Names : Place(x) \in Locations /\ (Place(x) = Place(y) => x = y)
  /\ \A q \in Qids : InQueue("reorder", q) \in Locations
  /\ \A n, q : \A x \in Names : InQueue(n, q) # Place(x)
BY Places, PlacesDiffer, QueueNames

LEMMA DequeueMoves ==
  ASSUME PipelineTypeOK, OnceInv, ReorderDequeue
  PROVE  OnceInv'
<1> DEFINE q   == reorder.qid
           old == que["reorder"][q]
           src == InQueue("reorder", q)
           dst == Place("received")
<1>1. /\ reorder.recv = << >> /\ reorder'.tree = reorder.tree /\ q \in Qids
      /\ reorder.pc # "write" /\ reorder'.pc # "write" /\ reorder'.next = reorder.next
  <2>1. q \in Qids
    BY ReorderRecord DEF PipelineTypeOK
  <2>2. /\ reorder.pc = "receive" /\ reorder.recv = << >> /\ reorder'.tree = reorder.tree
        /\ reorder'.next = reorder.next
    BY ReorderDequeueFacts DEF SameTree
  <2>3. reorder'.pc # "write"
    BY ReorderDequeueFacts
  <2> QED BY <2>1, <2>2, <2>3
<1>2. thread' = thread /\ frag' = frag
  BY DEF ReorderDequeue
<1>3. InHand = {} /\ InHand' = {} /\ Written' = Written /\ Range(reorder.recv) = {}
  <2>1. Range(<< >>) = {}
    BY DEF Range
  <2> QED BY <1>1, <2>1 DEF InHand, Written
<1>4. "reorder" \in Queues /\ old \in Seq(Chunks) /\ IsInjective(old)
  BY <1>1, QueueNames DEF PipelineTypeOK, QueueTypeOK, QueuesOK, ItemsOf, OnceInv
<1>5. src \in Locations /\ dst \in Locations /\ src # dst /\ Held(src) = Range(old)
  BY <1>1, <1>4, ReorderPlaces, HeldAt DEF Names, FineOf
<1>6. \A x \in Names : Place(x) # src /\ (Place(x) = dst => x = "received")
  BY ReorderPlaces DEF Names
<1> DEFINE OK(M) ==
             /\ M \subseteq Held(src)
             /\ Range(reorder'.recv) = M /\ IsInjective(reorder'.recv)
             /\ \A n \in Queues, r \in Qids :
                  FineOf(n, que'[n][r]) = Moved(InQueue(n, r), FineOf(n, que[n][r]), src, dst, M)
             /\ \A n \in Queues, r \in Qids : IsInjective(que'[n][r])
<1>7. ASSUME que' = que, reorder'.recv = << >>
      PROVE  OK({})
  <2>1. Range(<< >>) = {} /\ IsInjective(<< >>)
    BY DEF Range, IsInjective
  <2> HIDE DEF src, dst
  <2> QED BY <1>7, <2>1 DEF Moved, OnceInv
<1>8. ASSUME OnlyQueue("reorder", q),
             NEW n \in 1..Len(old), reorder'.recv = Prefix(old, n),
             que'["reorder"][q] = Rest(old, n)
      PROVE  OK(Range(Prefix(old, n)))
  <2> DEFINE M == Range(Prefix(old, n))
  <2>1. /\ Range(old) = M \cup Range(Rest(old, n)) /\ M \cap Range(Rest(old, n)) = {}
        /\ IsInjective(Prefix(old, n)) /\ IsInjective(Rest(old, n))
    <3> HIDE DEF old
    <3> QED BY <1>4, CutRange
  <2>2. \A m \in Queues, r \in Qids : IsInjective(que'[m][r])
    BY <1>8, <2>1 DEF OnlyQueue, OnceInv
  <2>3. FineOf("reorder", que'["reorder"][q]) = FineOf("reorder", old) \ M
    BY <1>8, <2>1 DEF FineOf
  <2> HIDE DEF M, dst
  <2>4. \A m \in Queues, r \in Qids :
          FineOf(m, que'[m][r]) = Moved(InQueue(m, r), FineOf(m, que[m][r]), src, dst, M)
    <3> SUFFICES ASSUME NEW m \in Queues, NEW r \in Qids
                 PROVE  FineOf(m, que'[m][r])
                          = Moved(InQueue(m, r), FineOf(m, que[m][r]), src, dst, M)
      OBVIOUS
    <3>1. InQueue(m, r) # dst
      BY ReorderPlaces DEF dst, Names
    <3>2. CASE m = "reorder" /\ r = q
      BY <2>3, <3>2 DEF Moved
    <3>3. CASE m # "reorder" \/ r # q
      BY <1>8, <3>1, <3>3, PlacesDiffer DEF Moved, OnlyQueue
    <3> QED BY <3>2, <3>3
  <2> QED BY <1>5, <1>8, <2>1, <2>2, <2>4 DEF M
<1>9. \E M : OK(M)
  <2> HIDE DEF OK, src, dst
  <2>1. \/ que' = que /\ reorder'.recv = << >>
        \/ OnlyQueue("reorder", q) /\ \E n \in 1..Len(old) :
              reorder'.recv = Prefix(old, n) /\ que'["reorder"][q] = Rest(old, n)
    BY ReorderDequeueFacts
  <2>2. CASE OnlyQueue("reorder", q) /\ \E n \in 1..Len(old) :
               reorder'.recv = Prefix(old, n) /\ que'["reorder"][q] = Rest(old, n)
    <3> HIDE DEF old
    <3>1. PICK n \in 1..Len(old) :
            reorder'.recv = Prefix(old, n) /\ que'["reorder"][q] = Rest(old, n)
      BY <2>2
    <3>2. OK(Range(Prefix(old, n)))
      BY <1>8, <2>2, <3>1
    <3> QED BY <3>2
  <2> QED BY <1>7, <2>1, <2>2
<1>10. PICK M : OK(M)
  BY <1>9
<1>11. ReorderShifts(src, dst, M)
  <2>1. src \in {InQueue("reorder", r) : r \in Qids}
    BY <1>1
  <2>2. dst \in {Place(name) : name \in Names \ {"unsent"}}
    BY DEF Names
  <2>3. /\ Range(reorder'.recv) = Moved(Place("received"), Range(reorder.recv), src, dst, M)
        /\ reorder'.tree = Moved(Place("tree"), reorder.tree, src, dst, M)
        /\ InHand' = Moved(Place("hand"), InHand, src, dst, M)
        /\ Written' = Moved(Place("written"), Written, src, dst, M)
    BY <1>1, <1>3, <1>6, <1>10 DEF Moved, Names
  <2> HIDE DEF src, dst
  <2> QED BY <1>2, <1>5, <1>10, <2>1, <2>2, <2>3 DEF ReorderShifts
<1>12. /\ Partition(AllHeld)'
       /\ \A l \in Locations : Held(l)' = Moved(l, Held(l), src, dst, M)
  <2> HIDE DEF src, dst
  <2> QED BY <1>11, ReorderMove
<1> QED BY <1>2, <1>10, <1>12 DEF OnceInv

\* A step that leaves every place as it is.
LEMMA NothingMoves ==
  ASSUME OnceInv, que' = que,
         \A p \in Pools, t \in Tids : /\ thread'[p][t].recv = thread[p][t].recv
                                      /\ thread'[p][t].send = thread[p][t].send
                                      /\ thread'[p][t].l2 = thread[p][t].l2,
         Unsent' = Unsent, reorder'.recv = reorder.recv, reorder'.tree = reorder.tree,
         InHand' = InHand, Written' = Written
  PROVE  OnceInv' /\ \A l \in Locations : Held(l)' = Held(l)
<1>1. \A p \in Pools, t \in Tids : Pending(p, thread'[p][t]) = Pending(p, thread[p][t])
  BY DEF Pending
<1>2. \A l \in Locations : Held(l)' = Held(l)
  <2> SUFFICES ASSUME NEW l \in Locations
               PROVE  Held(l)' = Held(l)
    OBVIOUS
  <2>1. CASE \E p \in Pools, t \in Tids : l = InRecv(p, t)
    BY <1>1, <2>1, HeldAt, HeldAtNext
  <2>2. CASE \E p \in Pools, t \in Tids, o \in Queues : l = InSend(p, t, o)
    BY <2>2, HeldAt, HeldAtNext
  <2>3. CASE \E n \in Queues, q \in Qids : l = InQueue(n, q)
    BY <2>3, HeldAt, HeldAtNext
  <2>4. CASE \E name \in Names : l = Place(name)
    BY <2>4, HeldAt, HeldAtNext DEF Names
  <2> QED BY <2>1, <2>2, <2>3, <2>4 DEF Locations
<1>3. AllHeld' = AllHeld
  BY <1>2 DEF AllHeld
<1>4. OnceInv'
  BY <1>3 DEF OnceInv, Partition
<1> QED BY <1>2, <1>4

\* Reorder takes a chunk: it waits in the tree, or is in hand to be written.
LEMMA TakeMoves ==
  ASSUME PipelineTypeOK, OnceInv, ReorderTake
  PROVE  OnceInv'
<1> DEFINE c    == Head(reorder.recv)
           rest == Tail(reorder.recv)
           src  == Place("received")
<1>1. thread' = thread /\ frag' = frag /\ que' = que
  BY DEF ReorderTake
<1>2. /\ reorder.pc = "receive" /\ reorder.recv # << >> /\ c \in Chunks
      /\ reorder'.next = reorder.next
      /\ \/ reorder' = [reorder EXCEPT !.pc = "out of bounds"]
         \/ /\ reorder'.recv = rest
            /\ IF c # reorder.next
               THEN reorder'.pc = "receive" /\ reorder'.tree = reorder.tree \cup {c}
               ELSE /\ reorder'.pc = "write" /\ reorder'.chunk = c
                    /\ reorder'.tree = reorder.tree
  BY ReorderTakeFacts
<1>3. reorder.recv \in Seq(Chunks) /\ reorder \in ReorderRec
  BY ReorderRecord DEF PipelineTypeOK
<1>4. Range(reorder.recv) = {c} \cup Range(rest) /\ c \notin Range(rest) /\ IsInjective(rest)
  BY <1>2, <1>3, TakeFirst DEF OnceInv
<1>5. Written' = Written /\ InHand = {}
  BY <1>2 DEF Written, InHand
<1>6. /\ src \in Locations /\ Held(src) = Range(reorder.recv)
      /\ src \in {Place(name) : name \in Names \ {"unsent"}}
  BY ReorderPlaces, HeldAt DEF Names
<1> HIDE DEF c, rest
<1>7. ASSUME NEW dst \in {Place("tree"), Place("hand")}, reorder'.recv = rest,
             reorder'.tree = IF dst = Place("tree") THEN reorder.tree \cup {c} ELSE reorder.tree,
             InHand' = IF dst = Place("hand") THEN {c} ELSE {}
      PROVE  OnceInv'
  <2>1. /\ dst \in Locations /\ src # dst /\ dst \in {Place(name) : name \in Names \ {"unsent"}}
    BY ReorderPlaces DEF Names
  <2>2. \A n \in Queues, q \in Qids :
          FineOf(n, que'[n][q]) = Moved(InQueue(n, q), FineOf(n, que[n][q]), src, dst, {c})
    BY <1>1, ReorderPlaces DEF Moved, Names
  <2>3. Place("tree") # Place("hand") /\ Place("written") # src /\ Place("written") # dst
    BY ReorderPlaces DEF Names
  <2>4. Place("tree") # src /\ Place("hand") # src
    BY ReorderPlaces DEF Names
  <2>5. /\ Range(reorder'.recv) = Moved(Place("received"), Range(reorder.recv), src, dst, {c})
        /\ reorder'.tree = Moved(Place("tree"), reorder.tree, src, dst, {c})
        /\ InHand' = Moved(Place("hand"), InHand, src, dst, {c})
        /\ Written' = Moved(Place("written"), Written, src, dst, {c})
    BY <1>4, <1>5, <1>7, <2>3, <2>4 DEF Moved
  <2>6. ReorderShifts(src, dst, {c})
    <3> HIDE DEF src
    <3> QED BY <1>1, <1>4, <1>6, <2>1, <2>2, <2>5 DEF ReorderShifts
  <2>7. Partition(AllHeld)'
    BY <2>6, ReorderMove
  <2> QED BY <1>1, <1>4, <1>7, <2>7 DEF OnceInv
<1>8. CASE reorder' = [reorder EXCEPT !.pc = "out of bounds"]
  <2>1. /\ reorder'.recv = reorder.recv /\ reorder'.tree = reorder.tree
        /\ reorder'.pc # "write" /\ reorder'.chunk = reorder.chunk
    BY <1>3, <1>8 DEF ReorderRec
  <2>2. InHand' = InHand /\ Unsent' = Unsent
    BY <1>1, <1>5, <2>1 DEF InHand, Unsent
  <2> QED BY <1>1, <1>5, <2>1, <2>2, NothingMoves
<1>9. CASE /\ reorder'.recv = rest /\ c # reorder.next
           /\ reorder'.pc = "receive" /\ reorder'.tree = reorder.tree \cup {c}
  <2>1. InHand' = {} /\ Place("tree") # Place("hand")
    BY <1>9, ReorderPlaces DEF InHand, Names
  <2> QED BY <1>7, <1>9, <2>1
<1>10. CASE /\ reorder'.recv = rest /\ reorder'.pc = "write" /\ reorder'.chunk = c
            /\ reorder'.tree = reorder.tree
  <2>1. InHand' = {c} /\ Place("tree") # Place("hand")
    BY <1>10, ReorderPlaces DEF InHand, Names
  <2> QED BY <1>7, <1>10, <2>1
<1> QED BY <1>2, <1>8, <1>9, <1>10

-----------------------------------------------------------------------------
(* The order in which Reorder writes. *)

End   == [l1 |-> Len(Input), l2 |-> 0]
Taken == reorder.tree \cup Written \cup InHand

\* What is written next is no chunk that waits in the tree.
NextInv ==
  /\ reorder.pc = "write" => reorder.chunk = reorder.next
  /\ reorder.next \in Chunks \cup {End}
  /\ reorder.next \notin reorder.tree

\* chunks_per_anchor tells the size of a coarse chunk, or nothing yet; of one
\* whose last fine chunk has been taken it tells the size.
AnchorInv ==
  /\ \A a \in DOMAIN reorder.perAnchor :
       reorder.perAnchor[a] # 0 => a \in CoarseIds /\ reorder.perAnchor[a] = Size(a)
  /\ \A c \in Taken : /\ c.l1 \in DOMAIN reorder.perAnchor
                      /\ isLastL2Chunk(c) => reorder.perAnchor[c.l1] = Size(c.l1)

\* The sequence number that Reorder goes on to is the one of the next chunk.
LEMMA NextChunk ==
  ASSUME NEW s \in Chunks, NEW f, s.l1 \in DOMAIN f,
         f[s.l1] # 0 => f[s.l1] = Size(s.l1),
         isLastL2Chunk(s) => f[s.l1] = Size(s.l1)
  PROVE  /\ Successor(s, f) \in Chunks \cup {End}
         /\ \A c \in Chunks : sequence_lt(c, Successor(s, f)) <=> sequence_lt(c, s) \/ c = s
<1>1. /\ s.l1 \in CoarseIds /\ s.l2 \in Nat /\ s.l2 < Size(s.l1) /\ Size(s.l1) \in Nat \ {0}
      /\ s.l1 \in Nat /\ Len(Input) \in Nat /\ s.l1 < Len(Input)
  BY ChunkShape, InputShape DEF CoarseIds
<1>2. isLastL2Chunk(s) <=> s.l2 + 1 = Size(s.l1)
  BY DEF isLastL2Chunk, Size
<1>3. \A c \in Chunks : /\ c.l1 \in CoarseIds /\ c.l1 \in Nat /\ c.l1 < Len(Input)
                        /\ c.l2 \in Nat /\ c.l2 < Size(c.l1)
                        /\ (c.l1 = s.l1 /\ c.l2 = s.l2 <=> c = s)
  <2>1. \A c \in Chunks : c \in [l1 : CoarseIds, l2 : Nat] /\ c.l2 < Size(c.l1)
    BY ChunkShape
  <2>2. \A a \in CoarseIds : a \in Nat /\ a < Len(Input)
    BY <1>1 DEF CoarseIds
  <2>3. \A c \in Chunks : c.l1 = s.l1 /\ c.l2 = s.l2 <=> c = s
    BY <2>1
  <2> QED BY <2>1, <2>2, <2>3
<1>4. CASE s.l2 + 1 = Size(s.l1)
  <2>1. Successor(s, f) = [l1 |-> s.l1 + 1, l2 |-> 0]
    BY <1>1, <1>2, <1>4 DEF Successor
  <2>2. [l1 |-> s.l1 + 1, l2 |-> 0] \in Chunks \cup {End}
    <3>1. CASE s.l1 + 1 = Len(Input)
      BY <3>1 DEF End
    <3>2. CASE s.l1 + 1 # Len(Input)
      <4>1. s.l1 + 1 \in CoarseIds
        BY <1>1, <3>2 DEF CoarseIds
      <4>2. Size(s.l1 + 1) \in Nat \ {0}
        BY <4>1, InputShape
      <4> QED BY <4>1, <4>2, ChunkShape
    <3> QED BY <3>1, <3>2
  <2>3. \A c \in Chunks :
          sequence_lt(c, [l1 |-> s.l1 + 1, l2 |-> 0]) <=> sequence_lt(c, s) \/ c = s
    <3> SUFFICES ASSUME NEW c \in Chunks
                 PROVE  sequence_lt(c, [l1 |-> s.l1 + 1, l2 |-> 0]) <=> sequence_lt(c, s) \/ c = s
      OBVIOUS
    <3>1. sequence_lt(c, [l1 |-> s.l1 + 1, l2 |-> 0]) <=> c.l1 < s.l1 + 1
      BY <1>3 DEF sequence_lt
    <3>2. c.l1 = s.l1 => c.l2 < s.l2 \/ c.l2 = s.l2
      BY <1>1, <1>3, <1>4
    <3> QED BY <1>1, <1>3, <3>1, <3>2 DEF sequence_lt
  <2> QED BY <2>1, <2>2, <2>3
<1>5. CASE s.l2 + 1 # Size(s.l1)
  <2>1. Successor(s, f) = [l1 |-> s.l1, l2 |-> s.l2 + 1]
    BY <1>1, <1>5 DEF Successor
  <2>2. [l1 |-> s.l1, l2 |-> s.l2 + 1] \in Chunks
    <3>1. s.l2 + 1 \in Nat /\ s.l2 + 1 < Size(s.l1)
      BY <1>1, <1>5
    <3> QED BY <1>1, <3>1, ChunkShape
  <2>3. \A c \in Chunks :
          sequence_lt(c, [l1 |-> s.l1, l2 |-> s.l2 + 1]) <=> sequence_lt(c, s) \/ c = s
    BY <1>1, <1>3 DEF sequence_lt
  <2> QED BY <2>1, <2>2, <2>3
<1> QED BY <1>4, <1>5

\* When Reorder writes, the chunk in hand becomes the last one written.
LEMMA WrittenGrows ==
  ASSUME PipelineTypeOK, NextInv, AnchorInv, reorder.pc = "write",
         reorder'.next = Successor(reorder.next, reorder.perAnchor)
  PROVE  /\ reorder.next \in Chunks /\ reorder.chunk = reorder.next
         /\ reorder'.next \in Chunks \cup {End}
         /\ Written' = Written \cup {reorder.next}
         /\ reorder.next \notin Written
<1>1. reorder.chunk \in Chunks /\ reorder.chunk = reorder.next
  BY ReorderRecord DEF PipelineTypeOK, NextInv
<1>2. reorder.next \in Taken
  BY <1>1 DEF Taken, InHand
<1>3. /\ reorder.next.l1 \in DOMAIN reorder.perAnchor
      /\ isLastL2Chunk(reorder.next) =>
           reorder.perAnchor[reorder.next.l1] = Size(reorder.next.l1)
      /\ reorder.perAnchor[reorder.next.l1] # 0 =>
           reorder.perAnchor[reorder.next.l1] = Size(reorder.next.l1)
  BY <1>2 DEF AnchorInv
<1>4. /\ reorder'.next \in Chunks \cup {End}
      /\ \A c \in Chunks : sequence_lt(c, reorder'.next)
                             <=> sequence_lt(c, reorder.next) \/ c = reorder.next
  <2> HIDE DEF End
  <2> QED BY <1>1, <1>3, NextChunk
<1>5. Written' = Written \cup {reorder.next}
  BY <1>1, <1>4 DEF Written
<1>6. reorder.next \notin Written
  <2>1. reorder.next.l1 \in Nat /\ reorder.next.l2 \in Nat
    BY <1>1, ChunkShape, InputShape
  <2> QED BY <2>1 DEF Written, sequence_lt
<1> QED BY <1>1, <1>4, <1>5, <1>6

\* Reorder writes the chunk in hand and may take the one after it from the tree.
LEMMA WriteMoves ==
  ASSUME PipelineTypeOK, OnceInv, NextInv, AnchorInv, ReorderWrite
  PROVE  OnceInv'
<1> DEFINE next == Successor(reorder.next, reorder.perAnchor)
           c    == reorder.chunk
           src  == Place("hand")
           dst  == Place("written")
<1>1. thread' = thread /\ frag' = frag /\ que' = que
  BY DEF ReorderWrite
<1>2. /\ reorder.pc = "write" /\ reorder'.recv = reorder.recv /\ reorder'.next = next
      /\ \/ /\ next \in reorder.tree /\ reorder'.pc = "write" /\ reorder'.chunk = next
            /\ reorder'.tree = reorder.tree \ {next}
         \/ reorder'.pc = "receive" /\ reorder'.tree = reorder.tree
  BY ReorderWriteFacts
<1>3. InHand = {c} /\ Written' = Written \cup {c} /\ Unsent' = Unsent
  BY <1>1, <1>2, WrittenGrows DEF InHand, Unsent
<1> HIDE DEF next, c
<1>4. /\ src \in Locations /\ dst \in Locations /\ src # dst /\ Held(src) = {c}
      /\ \A n, q : InQueue(n, q) # src /\ InQueue(n, q) # dst
      /\ Place("tree") \in Locations
  BY <1>3, ReorderPlaces, HeldAt DEF Names
<1>5. /\ Place("received") # src /\ Place("received") # dst
      /\ Place("tree") # src /\ Place("tree") # dst
  BY ReorderPlaces DEF Names
<1>6. \A n \in Queues, q \in Qids :
        FineOf(n, que'[n][q]) = Moved(InQueue(n, q), FineOf(n, que[n][q]), src, dst, {c})
  BY <1>1, <1>4 DEF Moved
<1>7. CASE reorder'.pc = "receive" /\ reorder'.tree = reorder.tree
  <2>1. /\ Range(reorder'.recv) = Moved(Place("received"), Range(reorder.recv), src, dst, {c})
        /\ reorder'.tree = Moved(Place("tree"), reorder.tree, src, dst, {c})
    BY <1>2, <1>5, <1>7 DEF Moved
  <2>2. /\ InHand' = Moved(Place("hand"), InHand, src, dst, {c})
        /\ Written' = Moved(Place("written"), Written, src, dst, {c})
    BY <1>3, <1>4, <1>7 DEF Moved, InHand
  <2>3. {src, dst} \subseteq {Place(name) : name \in Names \ {"unsent"}}
    BY DEF Names
  <2>4. ReorderShifts(src, dst, {c})
    <3> HIDE DEF src, dst
    <3> QED BY <1>1, <1>4, <1>6, <2>1, <2>2, <2>3 DEF ReorderShifts
  <2>5. Partition(AllHeld)'
    BY <2>4, ReorderMove
  <2> QED BY <1>1, <1>2, <2>5 DEF OnceInv
<1>8. CASE /\ next \in reorder.tree /\ reorder'.pc = "write" /\ reorder'.chunk = next
           /\ reorder'.tree = reorder.tree \ {next}
  <2> DEFINE tree == Place("tree")
             g    == [l \in Locations |-> Moved(l, Held(l), src, dst, {c})]
  <2>1. Partition(g)
    <3>1. Partition(AllHeld) /\ \A l \in Locations : AllHeld[l] = Held(l)
      BY DEF OnceInv, AllHeld
    <3>2. \A l \in Locations : g[l] = Moved(l, AllHeld[l], src, dst, {c})
      BY <3>1
    <3>3. {c} \subseteq AllHeld[src]
      BY <1>4, <3>1
    <3> HIDE DEF g, src, dst
    <3> QED BY <1>4, <3>1, <3>2, <3>3, MoveKeeps
  <2>2. InHand' = {next} /\ Held(tree) = reorder.tree /\ tree \in Locations /\ tree # src
    BY <1>4, <1>5, <1>8, HeldAt DEF InHand
  <2>3. \A l \in Locations : Held(l)' = Moved(l, g[l], tree, src, {next})
    <3> SUFFICES ASSUME NEW l \in Locations
                 PROVE  Held(l)' = Moved(l, Moved(l, Held(l), src, dst, {c}), tree, src, {next})
      OBVIOUS
    <3>1. CASE \E p \in Pools, t \in Tids : l = InRecv(p, t)
      BY <1>1, <3>1, HeldAt, HeldAtNext, PlacesDiffer DEF Moved, Names
    <3>2. CASE \E p \in Pools, t \in Tids, o \in Queues : l = InSend(p, t, o)
      BY <1>1, <3>2, HeldAt, HeldAtNext, PlacesDiffer DEF Moved, Names
    <3>3. CASE \E n \in Queues, q \in Qids : l = InQueue(n, q)
      BY <1>1, <3>3, HeldAt, HeldAtNext, PlacesDiffer DEF Moved, Names
    <3>4. CASE l = Place("unsent") \/ l = Place("received")
      <4>1. l # src /\ l # dst /\ l # tree
        BY <3>4, ReorderPlaces DEF Names
      <4>2. Held(l)' = Held(l)
        BY <1>2, <1>3, <3>4, HeldAt, HeldAtNext
      <4> HIDE DEF src, dst, tree
      <4> QED BY <4>1, <4>2 DEF Moved
    <3>5. CASE l = tree
      BY <1>5, <1>8, <3>5, HeldAt, HeldAtNext DEF Moved
    <3>6. CASE l = src
      BY <1>3, <1>5, <2>2, <3>6, HeldAt, HeldAtNext DEF Moved
    <3>7. CASE l = dst
      BY <1>3, <1>4, <1>5, <3>7, HeldAt, HeldAtNext DEF Moved
    <3> QED BY <3>1, <3>2, <3>3, <3>4, <3>5, <3>6, <3>7 DEF Locations, Names
  <2>4. {next} \subseteq g[tree]
    BY <1>5, <1>8, <2>2 DEF Moved
  <2>5. \A l \in Locations : AllHeld'[l] = Moved(l, g[l], tree, src, {next})
    BY <2>3 DEF AllHeld
  <2>6. Partition(AllHeld')
    <3> HIDE DEF g, src, dst, tree
    <3> QED BY <1>4, <2>1, <2>2, <2>4, <2>5, MoveKeeps
  <2> QED BY <1>1, <1>2, <2>6 DEF OnceInv
<1> QED BY <1>2, <1>7, <1>8

\* A step of a single thread of a pool, by the action it takes.
LEMMA WorkerSteps ==
  ASSUME NEW p \in Pools, NEW t \in Tids, Worker(p, t)
  PROVE  \/ Fetch(p, t) \/ EndOfInput(p, t) \/ Shutdown(p, t)
         \/ \E o \in Queues : Send(p, t, o)
         \/ p = "refine" /\ FragmentRefine(t)
         \/ p = "deduplicate" /\ Deduplicate(t)
         \/ p = "compress" /\ Compress(t)
BY DEF Worker

\* No chunk is lost or doubled by a step of a pool's thread ...
LEMMA WorkerOnce ==
  ASSUME PipelineTypeOK, OnceInv, NEW p \in Pools, NEW t \in Tids, Worker(p, t)
  PROVE  OnceInv'
<1>1. CASE Fetch(p, t)
  BY <1>1, FetchMoves
<1>2. CASE \E o \in Queues : Send(p, t, o)
  BY <1>2, SendMoves
<1>3. CASE EndOfInput(p, t) \/ Shutdown(p, t)
  <2>1. /\ thread'[p][t].recv = thread[p][t].recv /\ thread'[p][t].send = thread[p][t].send
        /\ thread'[p][t].l2 = thread[p][t].l2 /\ OnlyThread(p, t)
    BY <1>3, EndOfInputFacts, ShutdownFacts
  <2>2. UNCHANGED <<que, frag, reorder>>
    BY <1>3 DEF EndOfInput, Shutdown
  <2>3. \A r \in Pools, u \in Tids : /\ thread'[r][u].recv = thread[r][u].recv
                                     /\ thread'[r][u].send = thread[r][u].send
                                     /\ thread'[r][u].l2 = thread[r][u].l2
    BY <2>1 DEF OnlyThread
  <2>4. Unsent' = Unsent /\ InHand' = InHand /\ Written' = Written
    BY <2>2 DEF Unsent, InHand, Written
  <2> QED BY <2>2, <2>3, <2>4, NothingMoves
<1>4. CASE FragmentRefine(t)
  BY <1>4, CutMoves
<1>5. CASE Deduplicate(t)
  <2>1. UNCHANGED <<que, frag, reorder>>
    BY <1>5 DEF Deduplicate
  <2> QED BY <1>5, <2>1, DeduplicateFacts, HandMoves, QueueNames
<1>6. CASE Compress(t)
  <2>1. UNCHANGED <<que, frag, reorder>>
    BY <1>6 DEF Compress
  <2> QED BY <1>6, <2>1, CompressFacts, HandMoves, QueueNames
<1> QED BY <1>1, <1>2, <1>3, <1>4, <1>5, <1>6, WorkerSteps

\* ... nor by one of Fragment's.
LEMMA FragmentOnce ==
  ASSUME PipelineTypeOK, OnceInv, Fragment
  PROVE  OnceInv'
<1>1. CASE FragmentSend
  BY <1>1, FragmentSendMoves
<1>2. CASE FragmentTerminate
  <2>1. frag'.sent = frag.sent /\ UNCHANGED <<que, thread, reorder>>
    BY <1>2, FragmentTerminateFacts DEF FragmentTerminate
  <2>2. Unsent' = Unsent /\ InHand' = InHand /\ Written' = Written
    BY <2>1 DEF Unsent, InHand, Written
  <2> QED BY <2>1, <2>2, NothingMoves
<1> QED BY <1>1, <1>2 DEF Fragment

\* How many queues ago Reorder asked queue q.
Ago(q) == IF q < reorder.qid THEN reorder.qid - 1 - q ELSE reorder.qid - 1 - q + NQueues

\* The queues that Reorder found to have ended, in a row, are empty for good;
\* when these are all queues, it has every chunk and has written it.
EndInv ==
  /\ \A q \in Qids : Ago(q) < reorder.ended => Ended("reorder", q) /\ que["reorder"][q] = << >>
  /\ IF reorder.pc \in {"flush", "done"}
     THEN reorder.tree = {} /\ Written = Chunks
     ELSE reorder.ended < NQueues /\ reorder.pc # "mismatch"

\* Every chunk written is one record.
FileInv == IsFiniteSet(Written) /\ Len(file) = Cardinality(Written)

OrderInv == NextInv /\ AnchorInv /\ EndInv

LEMMA AgoNext ==
  ASSUME NEW q \in Qids, reorder.qid \in Qids, reorder'.qid = (reorder.qid + 1) % NQueues
  PROVE  /\ Ago(q) \in 0..(NQueues - 1)
         /\ q = reorder.qid \/ Ago(q)' = Ago(q) + 1
<1>1. NQueues \in Nat \ {0} /\ q \in 0..(NQueues - 1) /\ reorder.qid \in 0..(NQueues - 1)
  BY QueuesExist DEF Qids
<1>2. reorder'.qid = IF reorder.qid + 1 = NQueues THEN 0 ELSE reorder.qid + 1
  BY <1>1
<1>3. Ago(q)' = IF q < reorder'.qid THEN reorder'.qid - 1 - q ELSE reorder'.qid - 1 - q + NQueues
  BY DEF Ago
<1> QED BY <1>1, <1>2, <1>3 DEF Ago

\* A reorder queue that has ended and is empty stays so.
LEMMA EndStays ==
  ASSUME PipelineTypeOK, ClosedInv, [Next]_vars, NEW q \in Qids,
         Ended("reorder", q), que["reorder"][q] = << >>
  PROVE  Ended("reorder", q)' /\ que'["reorder"][q] = << >>
<1>1. ASSUME que'["reorder"][q] = << >>,
             \A p \in Pools, t \in Tids : thread[p][t].phase = "done" => thread'[p][t].phase = "done"
      PROVE  Ended("reorder", q)' /\ que'["reorder"][q] = << >>
  BY <1>1 DEF Ended, AllReturned, ThreadsOf
<1>2. ASSUME NEW p \in Pools, NEW t \in Tids, Worker(p, t)
      PROVE  Ended("reorder", q)' /\ que'["reorder"][q] = << >>
  <2>1. CASE Fetch(p, t)
    <3>1. /\ OnlyThread(p, t) /\ OnlyQueue(p, QidOf(t)) /\ thread[p][t].phase = "loop"
      BY <2>1, FetchFacts
    <3> QED BY <1>1, <3>1, QueueNames DEF OnlyThread, OnlyQueue
  <2>2. CASE \E o \in Queues : Send(p, t, o)
    <3>1. PICK o \in Queues : Send(p, t, o)
      BY <2>2
    <3>2. /\ OnlyThread(p, t) /\ OnlyQueue(o, QidOf(t)) /\ thread[p][t].send[o] # << >>
          /\ thread'[p][t].phase = thread[p][t].phase
      BY <3>1, SendFacts, ZenonT(60)
    <3>3. o # "reorder" \/ QidOf(t) # q
      BY <3>2, NothingSentAfterEnd
    <3> QED BY <1>1, <3>2, <3>3, QueueNames DEF OnlyThread, OnlyQueue
  <2>3. CASE EndOfInput(p, t) \/ Shutdown(p, t)
    <3>1. OnlyThread(p, t) /\ (thread[p][t].phase = "loop" \/ thread'[p][t].phase = "done")
      BY <2>3, EndOfInputFacts, ShutdownFacts
    <3>2. que' = que
      BY <2>3 DEF EndOfInput, Shutdown
    <3> QED BY <1>1, <3>1, <3>2 DEF OnlyThread
  <2>4. CASE p = "refine" /\ FragmentRefine(t)
    <3>1. OnlyThread("refine", t) /\ thread["refine"][t].phase = "loop"
      BY <2>4, CutFacts
    <3>2. que' = que
      BY <2>4 DEF FragmentRefine
    <3> QED BY <1>1, <3>1, <3>2 DEF OnlyThread
  <2>5. CASE (p = "deduplicate" /\ Deduplicate(t)) \/ (p = "compress" /\ Compress(t))
    <3>1. \E o \in Queues : HandsOn(p, t, o)
      BY <2>5, DeduplicateFacts, CompressFacts, QueueNames
    <3>2. OnlyThread(p, t) /\ thread[p][t].phase = "loop"
      BY <3>1 DEF HandsOn
    <3>3. que' = que
      BY <2>5 DEF Deduplicate, Compress
    <3> QED BY <1>1, <3>2, <3>3 DEF OnlyThread
  <2> QED BY <1>2, <2>1, <2>2, <2>3, <2>4, <2>5, WorkerSteps
<1>3. CASE Fragment
  <2>1. thread' = thread
    BY <1>3 DEF Fragment, FragmentSend, FragmentTerminate
  <2>2. que'["reorder"][q] = que["reorder"][q]
    <3>1. CASE FragmentSend
      BY <3>1, FragmentSendFacts, QueueNames DEF OnlyQueue
    <3>2. CASE FragmentTerminate
      BY <3>2 DEF FragmentTerminate
    <3> QED BY <1>3, <3>1, <3>2 DEF Fragment
  <2> QED BY <1>1, <2>1, <2>2
<1>4. CASE Reorder
  <2>1. thread' = thread
    BY <1>4 DEF Reorder, ReorderDequeue, ReorderTake, ReorderWrite, ReorderFlush
  <2>2. que'["reorder"][q] = que["reorder"][q]
    <3>1. CASE ReorderDequeue
      BY <3>1, ReorderDequeueFacts, QueueNames DEF OnlyQueue
    <3>2. CASE ReorderTake \/ ReorderWrite \/ ReorderFlush
      BY <3>2 DEF ReorderTake, ReorderWrite, ReorderFlush
    <3> QED BY <1>4, <3>1, <3>2 DEF Reorder
  <2> QED BY <1>1, <2>1, <2>2
<1>5. CASE UNCHANGED vars
  BY <1>1, <1>5 DEF vars
<1>6. CASE Joined
  BY <1>5, <1>6 DEF Joined
<1> QED BY <1>2, <1>3, <1>4, <1>5, <1>6 DEF Next

\* When a pool's threads have all returned, nothing is left at them.
LEMMA PoolDrained ==
  ASSUME PipelineTypeOK, ClosedInv, NEW p \in Pools, \A q \in Qids : AllReturned(p, q)
  PROVE  /\ \A q \in Qids : Ended(p, q) /\ que[p][q] = << >>
         /\ \A t \in Tids : thread[p][t].recv = << >>
         /\ \A t \in Tids, o \in Queues : thread[p][t].send[o] = << >>
<1>1. \A t \in Tids : thread[p][t].phase = "done"
  BY QueuesExist DEF AllReturned, ThreadsOf
<1>2. \A q \in Qids : \E t \in Tids : QidOf(t) = q
  <2> SUFFICES ASSUME NEW q \in Qids
               PROVE  ThreadsOf(q) # {}
    BY DEF ThreadsOf
  <2>1. Cardinality(ThreadsOf(q)) = ThreadsPerQueue(q)
    BY ThreadsCounted
  <2>2. ThreadsPerQueue(q) # 0
    BY PipelineAssumption DEF ThreadsPerQueue
  <2> QED BY <2>1, <2>2, FS_EmptySet
<1>3. \A t \in Tids : /\ Ended(p, QidOf(t))
                      /\ que[p][QidOf(t)] = << >> /\ thread[p][t].recv = << >>
  BY <1>1 DEF ClosedInv
<1>4. \A t \in Tids, o \in Queues : thread[p][t].send[o] = << >>
  BY <1>1 DEF ClosedInv
<1> QED BY <1>2, <1>3, <1>4

\* When all reorder queues have ended and are empty, and Reorder has nothing
\* received, there is nothing left anywhere.
LEMMA AllWritten ==
  ASSUME PipelineTypeOK, ClosedInv, OnceInv, NextInv,
         \A q \in Qids : Ended("reorder", q) /\ que["reorder"][q] = << >>,
         reorder.pc # "write", reorder.recv = << >>
  PROVE  reorder.tree = {} /\ Written = Chunks
<1>1. \A n \in {"reorder", "compress", "deduplicate", "refine"} :
        \A q \in Qids : Ended(n, q) /\ que[n][q] = << >>
  <2>1. \A q \in Qids : AllReturned("compress", q)
    BY QueueNames DEF Ended
  <2>2. \A q \in Qids : Ended("compress", q) /\ que["compress"][q] = << >>
    BY <2>1, PoolDrained, QueueNames
  <2>3. \A q \in Qids : AllReturned("deduplicate", q)
    BY <2>2, QueueNames DEF Ended
  <2>4. \A q \in Qids : Ended("deduplicate", q) /\ que["deduplicate"][q] = << >>
    BY <2>3, PoolDrained, QueueNames
  <2>5. \A q \in Qids : AllReturned("refine", q)
    BY <2>4, QueueNames DEF Ended
  <2>6. \A q \in Qids : Ended("refine", q) /\ que["refine"][q] = << >>
    BY <2>5, PoolDrained, QueueNames
  <2> QED BY <2>2, <2>4, <2>6
<1>2. \A p \in Pools, q \in Qids : AllReturned(p, q)
  BY <1>1, QueueNames DEF Ended, Pools
<1>3. \A p \in Pools : /\ \A t \in Tids : thread[p][t].recv = << >>
                       /\ \A t \in Tids, o \in Queues : thread[p][t].send[o] = << >>
  BY <1>2, PoolDrained
<1>4. Range(<< >>) = {}
  BY DEF Range
<1>5. \A n \in Queues, q \in Qids : que[n][q] = << >>
  BY <1>1 DEF Queues, Pools
<1>6. Unsent = {}
  <2>1. Ended("refine", 0) /\ frag.closed \in Nat
    BY <1>1, QueuesExist DEF Qids, PipelineTypeOK, QueueTypeOK
  <2>2. frag.sent = Len(Input)
    BY <2>1 DEF Ended, ClosedInv
  <2>3. \A c \in Chunks : c.l1 \in CoarseIds
    BY ChunkShape
  <2> QED BY <2>2, <2>3, InputShape DEF Unsent, CoarseIds
<1>7. \A c \in Chunks : c \in reorder.tree \/ c \in Written
  <2> SUFFICES ASSUME NEW c \in Chunks
               PROVE  c \in reorder.tree \/ c \in Written
    OBVIOUS
  <2>1. PICK l \in Locations : c \in Held(l)
    BY DEF OnceInv, Partition, AllHeld
  <2>2. CASE \E p \in Pools, t \in Tids : l = InRecv(p, t)
    <3>1. \A p \in Pools, t \in Tids : Pending(p, thread[p][t]) = {}
      BY <1>3, <1>4 DEF Pending
    <3> QED BY <2>1, <2>2, <3>1, HeldAt
  <2>3. CASE \E p \in Pools, t \in Tids, o \in Queues : l = InSend(p, t, o)
    BY <1>3, <1>4, <2>1, <2>3, HeldAt
  <2>4. CASE \E n \in Queues, q \in Qids : l = InQueue(n, q)
    <3>1. \A n \in Queues, q \in Qids : FineOf(n, que[n][q]) = {}
      BY <1>4, <1>5 DEF FineOf
    <3> QED BY <2>1, <2>4, <3>1, HeldAt
  <2>5. CASE \E name \in Names : l = Place(name)
    <3>1. InHand = {} /\ Range(reorder.recv) = {}
      BY <1>4 DEF InHand
    <3> QED BY <1>6, <2>1, <2>5, <3>1, HeldAt DEF Names
  <2> QED BY <2>2, <2>3, <2>4, <2>5 DEF Locations
<1>8. reorder.next \notin Chunks
  <2> SUFFICES ASSUME reorder.next \in Chunks
               PROVE  FALSE
    OBVIOUS
  <2>1. reorder.next \in Written
    BY <1>7 DEF NextInv
  <2>2. reorder.next.l1 \in Nat /\ reorder.next.l2 \in Nat
    BY ChunkShape, InputShape
  <2> QED BY <2>1, <2>2 DEF Written, sequence_lt
<1>9. Written = Chunks
  <2>1. reorder.next = End
    BY <1>8 DEF NextInv
  <2>2. \A c \in Chunks : c.l1 < Len(Input)
    BY ChunkShape, InputShape DEF CoarseIds
  <2> QED BY <2>1, <2>2 DEF Written, End, sequence_lt
<1>10. reorder.tree = {}
  <2> SUFFICES ASSUME NEW c \in reorder.tree
               PROVE  FALSE
    OBVIOUS
  <2>1. c \in Chunks
    BY ReorderRecord DEF PipelineTypeOK
  <2>2. /\ c \in Held(Place("tree")) /\ c \in Held(Place("written"))
        /\ Place("tree") \in Locations /\ Place("written") \in Locations
        /\ Place("tree") # Place("written")
    BY <1>9, <2>1, HeldAt, ReorderPlaces DEF Names
  <2> QED BY <2>1, <2>2, HeldApart
<1> QED BY <1>9, <1>10

LEMMA OrderInit ==
  ASSUME Init
  PROVE  OrderInv /\ FileInv
<1>1. /\ reorder.pc = "receive" /\ reorder.tree = {} /\ reorder.next = [l1 |-> 0, l2 |-> 0]
      /\ reorder.ended = 0 /\ reorder.qid = 0
      /\ \A a \in DOMAIN reorder.perAnchor : reorder.perAnchor[a] = 0
      /\ file = << >>
  BY DEF Init
<1>2. Written = {}
  <2>1. \A c \in Chunks : c.l1 \in Nat /\ c.l2 \in Nat
    BY ChunkShape, InputShape
  <2> QED BY <1>1, <2>1 DEF Written, sequence_lt
<1>3. NextInv
  <2>1. CASE Len(Input) = 0
    BY <1>1, <2>1 DEF NextInv, End
  <2>2. CASE Len(Input) # 0
    <3>1. 0 \in CoarseIds
      BY <2>2, InputShape DEF CoarseIds
    <3>2. 0 < Size(0)
      BY <3>1, InputShape
    <3>3. [l1 |-> 0, l2 |-> 0] \in Chunks
      BY <3>1, <3>2, ChunkShape
    <3> QED BY <1>1, <3>3 DEF NextInv
  <2> QED BY <2>1, <2>2
<1>4. AnchorInv
  BY <1>1, <1>2 DEF AnchorInv, Taken, InHand
<1>5. EndInv
  <2>1. NQueues \in Nat \ {0} /\ 0 \in Qids
    BY QueuesExist DEF Qids
  <2>2. \A q \in Qids : ~(Ago(q) < 0)
    BY <1>1, <2>1 DEF Ago, Qids
  <2> QED BY <1>1, <2>1, <2>2 DEF EndInv
<1>6. FileInv
  BY <1>1, <1>2, FS_EmptySet DEF FileInv
<1> QED BY <1>3, <1>4, <1>5, <1>6 DEF OrderInv

\* A step of the other threads leaves Reorder's order alone.
LEMMA OthersOrder ==
  ASSUME PipelineTypeOK, ClosedInv, OrderInv, [Next]_vars, reorder' = reorder
  PROVE  OrderInv'
<1>1. Written' = Written /\ InHand' = InHand /\ Taken' = Taken
  BY DEF Written, InHand, Taken
<1>2. NextInv' /\ AnchorInv'
  BY <1>1 DEF OrderInv, NextInv, AnchorInv
<1>3. \A q \in Qids : Ago(q)' = Ago(q)
  BY DEF Ago
<1>4. EndInv'
  BY <1>1, <1>3, EndStays DEF OrderInv, EndInv
<1> QED BY <1>2, <1>4 DEF OrderInv

LEMMA DequeueOrder ==
  ASSUME PipelineTypeOK, ClosedInv, OnceInv, OrderInv, ReorderDequeue
  PROVE  OrderInv'
<1> DEFINE q0 == reorder.qid
<1>1. /\ reorder.pc = "receive" /\ reorder.recv = << >>
      /\ reorder'.next = reorder.next /\ reorder'.perAnchor = reorder.perAnchor
      /\ reorder'.tree = reorder.tree /\ reorder'.qid = (q0 + 1) % NQueues
  BY ReorderDequeueFacts DEF SameTree
<1>2. reorder'.pc \in {"receive", "flush"}
  BY ReorderDequeueFacts
<1>3. q0 \in Qids /\ reorder.ended \in Nat /\ NQueues \in Nat \ {0}
  BY ReorderRecord, QueuesExist DEF PipelineTypeOK
<1>4. Written' = Written /\ InHand' = {} /\ InHand = {} /\ Taken' = Taken
  BY <1>1, <1>2 DEF Written, InHand, Taken
<1>5. NextInv' /\ AnchorInv'
  BY <1>1, <1>2, <1>4 DEF OrderInv, NextInv, AnchorInv
<1>6. \A q \in Qids : /\ Ago(q) \in 0..(NQueues - 1) /\ (q = q0 \/ Ago(q)' = Ago(q) + 1)
  BY <1>1, <1>3, AgoNext
<1>7. [Next]_vars
  BY DEF Next, Reorder
<1>8. \A q \in Qids : Ago(q) < reorder.ended => Ended("reorder", q) /\ que["reorder"][q] = << >>
  BY DEF OrderInv, EndInv
<1>9. CASE reorder'.ended = 0 /\ reorder'.pc = "receive"
  <2>1. reorder'.qid \in Qids
    BY <1>1, <1>3 DEF Qids
  <2>2. \A q \in Qids : ~(Ago(q)' < 0)
    BY <1>3, <2>1 DEF Ago, Qids
  <2> QED BY <1>3, <1>5, <1>9, <2>2 DEF OrderInv, EndInv
<1>10. CASE /\ que["reorder"][q0] = << >> /\ que' = que /\ queue_isTerminated("reorder", q0)
            /\ reorder'.ended = reorder.ended + 1
            /\ reorder'.pc = IF reorder.ended + 1 = NQueues THEN "flush" ELSE "receive"
  <2>1. Ended("reorder", q0)
    BY <1>3, <1>10, TerminatedIsEnded, QueueNames
  <2>2. ASSUME NEW q \in Qids, Ago(q)' < reorder'.ended
        PROVE  Ended("reorder", q)' /\ que'["reorder"][q] = << >>
    <3>1. Ended("reorder", q) /\ que["reorder"][q] = << >>
      <4>1. CASE q = q0
        BY <1>10, <2>1, <4>1
      <4>2. CASE q # q0
        <5>1. Ago(q) < reorder.ended
          BY <1>3, <1>6, <1>10, <2>2, <4>2
        <5> QED BY <1>8, <5>1
      <4> QED BY <4>1, <4>2
    <3> QED BY <1>7, <3>1, EndStays
  <2>3. ASSUME reorder.ended + 1 = NQueues
        PROVE  reorder.tree = {} /\ Written = Chunks
    <3>1. \A q \in Qids : Ended("reorder", q) /\ que["reorder"][q] = << >>
      <4> SUFFICES ASSUME NEW q \in Qids
                   PROVE  Ended("reorder", q) /\ que["reorder"][q] = << >>
        OBVIOUS
      <4>1. CASE q = q0
        BY <1>10, <2>1, <4>1
      <4>2. CASE q # q0
        <5>1. reorder'.qid \in Qids
          BY <1>1, <1>3 DEF Qids
        <5>2. Ago(q)' <= NQueues - 1
          BY <1>3, <5>1 DEF Ago, Qids
        <5>3. Ago(q) < reorder.ended
          BY <1>3, <1>6, <2>3, <4>2, <5>2
        <5> QED BY <1>8, <5>3
      <4> QED BY <4>1, <4>2
    <3> QED BY <1>1, <3>1, AllWritten DEF OrderInv
  <2>4. reorder.ended < NQueues
    BY <1>1 DEF OrderInv, EndInv
  <2>5. IF reorder'.pc \in {"flush", "done"}
        THEN reorder'.tree = {} /\ Written' = Chunks
        ELSE reorder'.ended < NQueues /\ reorder'.pc # "mismatch"
    BY <1>1, <1>3, <1>4, <1>10, <2>3, <2>4
  <2> QED BY <1>5, <2>2, <2>5 DEF OrderInv, EndInv
<1> QED BY <1>9, <1>10, ReorderDequeueFacts

LEMMA TakeOrder ==
  ASSUME PipelineTypeOK, ClosedInv, OrderInv, ReorderTake
  PROVE  OrderInv'
<1> DEFINE c == Head(reorder.recv)
<1>1. /\ reorder.pc = "receive" /\ c \in Chunks /\ reorder'.next = reorder.next
      /\ reorder'.qid = reorder.qid /\ reorder'.ended = reorder.ended
      /\ \/ reorder' = [reorder EXCEPT !.pc = "out of bounds"]
         \/ /\ reorder'.recv = Tail(reorder.recv) /\ Noted(c)
            /\ IF c # reorder.next
               THEN /\ reorder'.pc = "receive" /\ reorder'.chunk = reorder.chunk
                    /\ reorder'.tree = reorder.tree \cup {c}
               ELSE /\ reorder'.pc = "write" /\ reorder'.chunk = c
                    /\ reorder'.tree = reorder.tree
  BY ReorderTakeFacts
<1>2. [Next]_vars
  BY DEF Next, Reorder
<1>3. \A q \in Qids : Ago(q)' = Ago(q)
  BY <1>1 DEF Ago
<1>4. /\ \A q \in Qids : Ago(q)' < reorder'.ended =>
                           Ended("reorder", q)' /\ que'["reorder"][q] = << >>
      /\ reorder'.ended < NQueues
  BY <1>1, <1>2, <1>3, EndStays DEF OrderInv, EndInv
<1>5. Written' = Written /\ InHand = {}
  BY <1>1 DEF Written, InHand
<1> HIDE DEF c
<1>6. CASE reorder' = [reorder EXCEPT !.pc = "out of bounds"]
  <2>1. /\ reorder'.pc = "out of bounds" /\ reorder'.tree = reorder.tree
        /\ reorder'.perAnchor = reorder.perAnchor
    BY <1>6, ReorderRecord DEF ReorderRec, PipelineTypeOK
  <2>2. Taken' = Taken
    BY <1>5, <2>1 DEF Taken, InHand
  <2>3. NextInv' /\ AnchorInv'
    BY <1>1, <2>1, <2>2 DEF OrderInv, NextInv, AnchorInv
  <2> QED BY <1>4, <2>1, <2>3 DEF OrderInv, EndInv
<1>7. CASE /\ Noted(c)
           /\ IF c # reorder.next
              THEN /\ reorder'.pc = "receive" /\ reorder'.chunk = reorder.chunk
                   /\ reorder'.tree = reorder.tree \cup {c}
              ELSE /\ reorder'.pc = "write" /\ reorder'.chunk = c
                   /\ reorder'.tree = reorder.tree
  <2>1. reorder'.pc \in {"receive", "write"}
    BY <1>7
  <2>2. NextInv'
    BY <1>1, <1>7 DEF OrderInv, NextInv
  <2>3. Taken' = Taken \cup {c}
    BY <1>5, <1>7 DEF Taken, InHand
  <2>4. c.l1 \in CoarseIds /\ (isLastL2Chunk(c) <=> c.l2 + 1 = Size(c.l1))
    BY <1>1, ChunkShape DEF isLastL2Chunk, Size
  <2>5. \A a \in DOMAIN reorder'.perAnchor :
          reorder'.perAnchor[a] # 0 => a \in CoarseIds /\ reorder'.perAnchor[a] = Size(a)
    <3> SUFFICES ASSUME NEW a \in DOMAIN reorder'.perAnchor, reorder'.perAnchor[a] # 0
                 PROVE  a \in CoarseIds /\ reorder'.perAnchor[a] = Size(a)
      OBVIOUS
    <3>1. CASE a = c.l1 /\ isLastL2Chunk(c)
      BY <1>7, <2>4, <3>1 DEF Noted
    <3>2. CASE ~(a = c.l1 /\ isLastL2Chunk(c))
      <4>1. a \in DOMAIN reorder.perAnchor /\ reorder'.perAnchor[a] = reorder.perAnchor[a]
        BY <1>7, <3>2 DEF Noted
      <4> QED BY <4>1 DEF OrderInv, AnchorInv
    <3> QED BY <3>1, <3>2
  <2>6. ASSUME NEW d \in Taken'
        PROVE  /\ d.l1 \in DOMAIN reorder'.perAnchor
               /\ isLastL2Chunk(d) => reorder'.perAnchor[d.l1] = Size(d.l1)
    <3>1. CASE d = c
      BY <1>7, <2>4, <3>1 DEF Noted
    <3>2. CASE d \in Taken
      <4>1. /\ d.l1 \in DOMAIN reorder.perAnchor
            /\ isLastL2Chunk(d) => reorder.perAnchor[d.l1] = Size(d.l1)
        BY <3>2 DEF OrderInv, AnchorInv
      <4>2. d.l1 \in DOMAIN reorder'.perAnchor
        BY <1>7, <4>1 DEF Noted
      <4>3. CASE d.l1 = c.l1 /\ isLastL2Chunk(c)
        BY <1>7, <2>4, <4>2, <4>3 DEF Noted
      <4>4. CASE ~(d.l1 = c.l1 /\ isLastL2Chunk(c))
        BY <1>7, <4>1, <4>2, <4>4 DEF Noted
      <4> QED BY <4>2, <4>3, <4>4
    <3> QED BY <2>3, <2>6, <3>1, <3>2
  <2>7. AnchorInv'
    BY <2>5, <2>6 DEF AnchorInv
  <2> QED BY <1>4, <2>1, <2>2, <2>7 DEF OrderInv, EndInv
<1> QED BY <1>1, <1>6, <1>7

LEMMA WriteOrder ==
  ASSUME PipelineTypeOK, ClosedInv, OnceInv, OrderInv, ReorderWrite
  PROVE  OrderInv'
<1> DEFINE next == Successor(reorder.next, reorder.perAnchor)
           old  == reorder.next
<1>1. /\ reorder.pc = "write" /\ reorder'.qid = reorder.qid /\ reorder'.ended = reorder.ended
      /\ reorder'.perAnchor = reorder.perAnchor /\ reorder'.next = next
      /\ \/ /\ next \in reorder.tree /\ reorder'.pc = "write" /\ reorder'.chunk = next
            /\ reorder'.tree = reorder.tree \ {next}
         \/ /\ reorder'.pc = "receive" /\ reorder'.tree = reorder.tree
            /\ reorder.tree # {} => Smallest(reorder.tree) # next
  BY ReorderWriteFacts
<1>2. /\ old \in Chunks /\ reorder.chunk = old /\ next \in Chunks \cup {End}
      /\ Written' = Written \cup {old} /\ old \notin Written
  <2> HIDE DEF End
  <2> QED BY <1>1, WrittenGrows DEF OrderInv
<1>3. InHand = {old} /\ old \notin reorder.tree
  BY <1>1, <1>2 DEF InHand, OrderInv, NextInv
<1>4. reorder.tree \in SUBSET Chunks
  BY ReorderRecord DEF PipelineTypeOK
<1> HIDE DEF next, old, End
<1>5. ASSUME reorder'.tree = reorder.tree, next \in reorder.tree,
             Smallest(reorder.tree) # next
      PROVE  FALSE
  <2> DEFINE least == Smallest(reorder.tree)
  <2>1. least \in reorder.tree /\ sequence_lt(least, next)
    BY <1>4, <1>5, SmallestIsLeast
  <2>2. least \in Written \/ least = old
    BY <1>1, <1>2, <1>4, <2>1 DEF Written
  <2>3. least \in Held(Place("tree")) /\ (least \in Written => least \in Held(Place("written")))
    BY <2>1, HeldAt
  <2>4. Place("tree") # Place("written") /\ {Place("tree"), Place("written")} \subseteq Locations
    BY ReorderPlaces DEF Names
  <2>5. least \notin Written
    BY <1>4, <2>1, <2>3, <2>4, HeldApart
  <2> QED BY <1>3, <2>1, <2>2, <2>5
<1>6. NextInv'
  <2>1. reorder'.next \notin reorder'.tree
    BY <1>1, <1>5
  <2>2. reorder'.pc = "write" => reorder'.chunk = reorder'.next
    BY <1>1
  <2> QED BY <1>1, <1>2, <2>1, <2>2 DEF NextInv
<1>7. Taken' = Taken
  <2>1. CASE reorder'.pc = "write" /\ next \in reorder.tree /\ reorder'.chunk = next
               /\ reorder'.tree = reorder.tree \ {next}
    BY <1>2, <1>3, <2>1 DEF Taken, InHand
  <2>2. CASE reorder'.pc = "receive" /\ reorder'.tree = reorder.tree
    BY <1>2, <1>3, <2>2 DEF Taken, InHand
  <2> QED BY <1>1, <2>1, <2>2
<1>8. AnchorInv'
  BY <1>1, <1>7 DEF OrderInv, AnchorInv
<1>9. EndInv'
  <2>1. [Next]_vars
    BY DEF Next, Reorder
  <2>2. \A q \in Qids : Ago(q)' = Ago(q)
    BY <1>1 DEF Ago
  <2>3. reorder'.pc \in {"write", "receive"}
    BY <1>1
  <2> QED BY <1>1, <2>1, <2>2, <2>3, EndStays DEF OrderInv, EndInv
<1> QED BY <1>6, <1>8, <1>9 DEF OrderInv

\* After its loop Reorder has nothing to flush.
LEMMA FlushIsIdle ==
  ASSUME PipelineTypeOK, OrderInv, ReorderFlush
  PROVE  /\ reorder.pc = "flush" /\ reorder'.pc = "done" /\ UNCHANGED <<state, file>>
         /\ reorder'.recv = reorder.recv /\ reorder'.tree = reorder.tree
         /\ reorder'.next = reorder.next /\ reorder'.perAnchor = reorder.perAnchor
         /\ reorder'.qid = reorder.qid /\ reorder'.ended = reorder.ended
         /\ UNCHANGED <<que, closed, frag, thread, cache, ref>>
<1>1. reorder.pc = "flush" /\ reorder.tree = {}
  BY ReorderFlushFacts DEF OrderInv, EndInv
<1>2. UNCHANGED <<que, closed, frag, thread, cache, ref>>
  BY DEF ReorderFlush
<1> QED BY <1>1, <1>2, ReorderFlushFacts

LEMMA FlushOrder ==
  ASSUME PipelineTypeOK, ClosedInv, OnceInv, OrderInv, ReorderFlush
  PROVE  OrderInv' /\ OnceInv'
<1>1. /\ reorder.pc = "flush" /\ reorder'.pc = "done"
      /\ reorder'.recv = reorder.recv /\ reorder'.tree = reorder.tree
      /\ reorder'.next = reorder.next /\ reorder'.perAnchor = reorder.perAnchor
      /\ reorder'.qid = reorder.qid /\ reorder'.ended = reorder.ended
      /\ que' = que /\ thread' = thread /\ frag' = frag
  BY FlushIsIdle
<1>2. InHand = {} /\ InHand' = {} /\ Written' = Written /\ Taken' = Taken /\ Unsent' = Unsent
  BY <1>1 DEF InHand, Written, Taken, Unsent
<1>3. OnceInv'
  BY <1>1, <1>2, NothingMoves
<1>4. NextInv' /\ AnchorInv'
  BY <1>1, <1>2 DEF OrderInv, NextInv, AnchorInv
<1>5. EndInv'
  <2>1. [Next]_vars
    BY DEF Next, Reorder
  <2>2. \A q \in Qids : Ago(q)' = Ago(q)
    BY <1>1 DEF Ago
  <2>3. reorder'.tree = {} /\ Written' = Chunks
    BY <1>1, <1>2 DEF OrderInv, EndInv
  <2> QED BY <1>1, <2>1, <2>2, <2>3, EndStays DEF OrderInv, EndInv
<1> QED BY <1>3, <1>4, <1>5 DEF OrderInv

LEMMA FlowStep ==
  ASSUME PipelineTypeOK, ClosedInv, OnceInv, OrderInv, [Next]_vars
  PROVE  OnceInv' /\ OrderInv'
<1>1. CASE Fragment
  <2>1. reorder' = reorder
    BY <1>1 DEF Fragment, FragmentSend, FragmentTerminate
  <2> QED BY <1>1, <2>1, FragmentOnce, OthersOrder
<1>2. ASSUME NEW p \in Pools, NEW t \in Tids, Worker(p, t)
      PROVE  OnceInv' /\ OrderInv'
  <2>1. reorder' = reorder
    BY <1>2 DEF Worker, Fetch, EndOfInput, Send, Shutdown, FragmentRefine, Deduplicate, Compress
  <2> QED BY <1>2, <2>1, WorkerOnce, OthersOrder
<1>3. CASE ReorderDequeue
  BY <1>3, DequeueMoves, DequeueOrder
<1>4. CASE ReorderTake
  BY <1>4, TakeMoves, TakeOrder
<1>5. CASE ReorderWrite
  BY <1>5, WriteMoves, WriteOrder DEF OrderInv
<1>6. CASE ReorderFlush
  BY <1>6, FlushOrder
<1>7. CASE UNCHANGED vars
  <2>1. Unsent' = Unsent /\ InHand' = InHand /\ Written' = Written
    BY <1>7 DEF vars, Unsent, InHand, Written
  <2>2. UNCHANGED <<que, thread, reorder>>
    BY <1>7 DEF vars
  <2>3. OnceInv'
    BY <2>1, <2>2, NothingMoves
  <2> QED BY <2>2, <2>3, OthersOrder
<1>8. CASE Joined
  BY <1>7, <1>8 DEF Joined
<1> QED BY <1>1, <1>2, <1>3, <1>4, <1>5, <1>6, <1>7, <1>8 DEF Next, Reorder

\* A record is written for the chunk that becomes the last one written, and
\* for no other reason.
LEMMA OneRecordEach ==
  ASSUME PipelineTypeOK, OrderInv, [Next]_vars
  PROVE  \/ ReorderWrite
         \/ file' = file /\ reorder'.next = reorder.next /\ Written' = Written
<1>1. ASSUME file' = file, reorder'.next = reorder.next
      PROVE  file' = file /\ reorder'.next = reorder.next /\ Written' = Written
  BY <1>1 DEF Written
<1>2. CASE Fragment
  BY <1>1, <1>2 DEF Fragment, FragmentSend, FragmentTerminate
<1>3. ASSUME NEW p \in Pools, NEW t \in Tids, Worker(p, t)
      PROVE  file' = file /\ reorder'.next = reorder.next /\ Written' = Written
  BY <1>1, <1>3 DEF Worker, Fetch, EndOfInput, Send, Shutdown, FragmentRefine, Deduplicate, Compress
<1>4. CASE ReorderDequeue
  BY <1>1, <1>4, ReorderDequeueFacts DEF SameTree, ReorderDequeue
<1>5. CASE ReorderTake
  BY <1>1, <1>5, ReorderTakeFacts DEF ReorderTake
<1>6. CASE ReorderFlush
  BY <1>1, <1>6, FlushIsIdle
<1>7. CASE UNCHANGED vars
  BY <1>1, <1>7 DEF vars
<1>8. CASE Joined
  BY <1>7, <1>8 DEF Joined
<1> QED BY <1>2, <1>3, <1>4, <1>5, <1>6, <1>7, <1>8 DEF Next, Reorder

LEMMA FileStep ==
  ASSUME PipelineTypeOK, OrderInv, FileInv, [Next]_vars
  PROVE  FileInv'
<1>1. CASE ReorderWrite
  <2>1. /\ reorder.chunk = reorder.next /\ Written' = Written \cup {reorder.next}
        /\ reorder.next \notin Written
    BY <1>1, ReorderWriteFacts, WrittenGrows DEF OrderInv
  <2>2. Len(file') = Len(file) + 1
    <3>1. /\ reorder.chunk \in Chunks /\ write_chunk_to_file(reorder.chunk)
          /\ UNCHANGED <<cache, ref>>
      BY <1>1, ReorderWriteFacts DEF ReorderWrite
    <3>2. \E r : file' = Append(file, r)
      BY <3>1, WriteFacts DEF PipelineTypeOK
    <3>3. file \in Seq(Records)
      BY DEF PipelineTypeOK, ChunkTypeOK
    <3> QED BY <3>2, <3>3
  <2>3. IsFiniteSet(Written') /\ Cardinality(Written') = Cardinality(Written) + 1
    BY <2>1, FS_AddElement DEF FileInv
  <2> QED BY <2>2, <2>3 DEF FileInv
<1>2. CASE file' = file /\ Written' = Written
  BY <1>2 DEF FileInv
<1> QED BY <1>1, <1>2, OneRecordEach

PipelineInv == PipelineTypeOK /\ ClosedInv /\ OnceInv /\ OrderInv /\ FileInv

LEMMA PipelineInvariant == Spec => []PipelineInv
<1>1. Init => PipelineInv
  BY TypeInit, ClosedInit, OnceInit, OrderInit DEF PipelineInv
<1>2. PipelineInv /\ [Next]_vars => PipelineInv'
  BY TypeStep, ClosedStep, FlowStep, FileStep DEF PipelineInv
<1> QED BY <1>1, <1>2, PTL DEF Spec

\* From the input to the output file every chunk is in one place, in one only,
\* and only once, whatever the numbers of threads, queues and chunks.
THEOREM NoChunkLostOrDoubled == Spec => []OnceInv
<1>1. PipelineInv => OnceInv
  BY DEF PipelineInv
<1> QED BY <1>1, PipelineInvariant, PTL

\* The L1/L2 mismatch exits of Reorder are never taken, and it leaves its loop
\* with every chunk written and none left to flush.
THEOREM EveryChunkWritten == Spec => []NothingMissing
<1>1. PipelineInv => NothingMissing
  BY DEF PipelineInv, OrderInv, EndInv, FileInv, NothingMissing
<1> QED BY <1>1, PipelineInvariant, PTL

-----------------------------------------------------------------------------
(* Which chunks are compressed and which are written as fingerprints. *)

\* Where a chunk is after it was found to be the first with its content and
\* before it is compressed.
ForCompression(l) ==
  \/ \E t \in Tids : l = InSend("deduplicate", t, "compress")
  \/ \E q \in Qids : l = InQueue("compress", q)
  \/ \E t \in Tids : l = InRecv("compress", t)

Originals == {c \in Chunks : \E l \in Locations : ForCompression(l) /\ c \in Held(l)}

\* The hash table has one chunk per content, which every other one with that
\* content refers to; it alone is compressed, once, and is written after that.
CacheInv ==
  /\ \A x \in Contents : cache[x] # None => Content(cache[x]) = x
  /\ \A c \in Chunks : ref[c] # None => Content(ref[c]) = Content(c)
  /\ \A c \in Chunks : state[c] # "UNCOMPRESSED" => cache[Content(c)] = c
  /\ \A c \in Originals : cache[Content(c)] = c /\ state[c] = "UNCOMPRESSED"

LEMMA CompressionPlaces ==
  /\ \A p \in Pools, t \in Tids : ForCompression(InRecv(p, t)) <=> p = "compress"
  /\ \A p \in Pools, t \in Tids, o \in Queues :
       ForCompression(InSend(p, t, o)) <=> p = "deduplicate" /\ o = "compress"
  /\ \A n \in Queues, q \in Qids : ForCompression(InQueue(n, q)) <=> n = "compress"
BY PlacesDiffer DEF ForCompression

LEMMA OriginalsMove ==
  ASSUME NEW src \in Locations, NEW dst \in Locations, NEW M, M \subseteq Held(src),
         \A l \in Locations : Held(l)' = Moved(l, Held(l), src, dst, M),
         ForCompression(dst) => ForCompression(src)
  PROVE  Originals' \subseteq Originals
<1> SUFFICES ASSUME NEW c \in Chunks, NEW l \in Locations, ForCompression(l), c \in Held(l)'
             PROVE  c \in Originals
  BY DEF Originals
<1>1. c \in Held(l) \/ (l = dst /\ c \in Held(src))
  BY DEF Moved
<1> QED BY <1>1 DEF Originals

LEMMA OriginalsEnter ==
  ASSUME NEW src \in Locations, NEW dst \in Locations, NEW d,
         \A l \in Locations : Held(l)' = Moved(l, Held(l), src, dst, {d})
  PROVE  Originals' \subseteq Originals \cup {d}
<1> SUFFICES ASSUME NEW c \in Chunks, NEW l \in Locations, ForCompression(l), c \in Held(l)'
             PROVE  c \in Originals \cup {d}
  BY DEF Originals
<1>1. c \in Held(l) \/ c = d
  BY DEF Moved
<1> QED BY <1>1 DEF Originals

LEMMA OriginalsLeave ==
  ASSUME OnceInv, NEW src \in Locations, NEW dst \in Locations, NEW d \in Chunks, d \in Held(src),
         ForCompression(src), ~ForCompression(dst),
         \A l \in Locations : Held(l)' = Moved(l, Held(l), src, dst, {d})
  PROVE  d \in Originals /\ Originals' \subseteq Originals \ {d}
<1>1. d \in Originals
  BY DEF Originals
<1>2. ASSUME NEW c \in Chunks, NEW l \in Locations, ForCompression(l), c \in Held(l)'
      PROVE  c \in Originals /\ c # d
  <2>1. c \in Held(l) /\ (l = src => c # d)
    BY <1>2 DEF Moved
  <2>2. c # d
    BY <2>1, HeldApart
  <2> QED BY <1>2, <2>1, <2>2 DEF Originals
<1> QED BY <1>1, <1>2 DEF Originals

LEMMA CacheInit ==
  ASSUME Init
  PROVE  CacheInv
<1>1. /\ \A n \in Queues, q \in Qids : que[n][q] = << >>
      /\ \A p \in Pools, t \in Tids : thread[p][t].recv = << >>
      /\ \A p \in Pools, t \in Tids, o \in Queues : thread[p][t].send[o] = << >>
  BY DEF Init, InitThread
<1>2. Range(<< >>) = {}
  BY DEF Range
<1>3. /\ \A q \in Qids : Held(InQueue("compress", q)) = {}
      /\ \A t \in Tids : Held(InRecv("compress", t)) = {}
      /\ \A t \in Tids : Held(InSend("deduplicate", t, "compress")) = {}
  BY <1>1, <1>2, HeldAt, QueueNames DEF FineOf, Pending
<1>4. Originals = {}
  BY <1>3 DEF Originals, ForCompression
<1>5. /\ cache = [x \in Contents |-> None] /\ ref = [c \in Chunks |-> None]
      /\ state = [c \in Chunks |-> "UNCOMPRESSED"]
  BY DEF Init
<1> QED BY <1>4, <1>5 DEF CacheInv

LEMMA CacheKeeps ==
  ASSUME CacheInv, UNCHANGED <<cache, ref, state>>, Originals' \subseteq Originals
  PROVE  CacheInv'
BY DEF CacheInv

\* Steps that leave what is compressed alone.
LEMMA SameOriginals ==
  ASSUME \A q \in Qids : que'["compress"][q] = que["compress"][q], thread' = thread
  PROVE  Originals' = Originals
<1>1. /\ \A q \in Qids : Held(InQueue("compress", q))' = Held(InQueue("compress", q))
      /\ \A t \in Tids : Held(InRecv("compress", t))' = Held(InRecv("compress", t))
      /\ \A t \in Tids : Held(InSend("deduplicate", t, "compress"))'
                           = Held(InSend("deduplicate", t, "compress"))
  BY HeldAt, HeldAtNext, QueueNames
<1> QED BY <1>1 DEF Originals, ForCompression

LEMMA DeduplicateCache ==
  ASSUME PipelineTypeOK, OnceInv, CacheInv, NEW t \in Tids, Deduplicate(t)
  PROVE  CacheInv'
<1> DEFINE c   == Head(thread["deduplicate"][t].recv)
           x   == Content(c)
           o   == IF cache[x] = None THEN "compress" ELSE "reorder"
           src == InRecv("deduplicate", t)
           dst == InSend("deduplicate", t, o)
<1>1. /\ HandsOn("deduplicate", t, o) /\ c \in Chunks /\ x \in Contents
      /\ IF cache[x] = None THEN cache' = [cache EXCEPT ![x] = c] /\ ref' = ref
         ELSE ref' = [ref EXCEPT ![c] = cache[x]] /\ cache' = cache
  BY DeduplicateFacts
<1>2. state' = state /\ UNCHANGED <<que, frag, reorder>>
  BY DEF Deduplicate
<1>3. "deduplicate" \in Pools /\ o \in Queues
  BY QueueNames
<1>4. src \in Locations /\ dst \in Locations
  BY <1>3, Places
<1>5. \A l \in Locations : Held(l)' = Moved(l, Held(l), src, dst, {c})
  <2> HIDE DEF o
  <2> QED BY <1>1, <1>2, <1>3, HandMoves
<1>6. ForCompression(dst) <=> cache[x] = None
  BY <1>3, CompressionPlaces
<1>7. /\ cache \in [Contents -> Chunks \cup {None}] /\ ref \in [Chunks -> Chunks \cup {None}]
      /\ \A d \in Chunks : Content(d) \in Contents
  BY ChunkShape DEF PipelineTypeOK, ChunkTypeOK
<1>8. CASE cache[x] = None
  <2>1. Originals' \subseteq Originals \cup {c}
    <3> HIDE DEF c, src, dst
    <3> QED BY <1>4, <1>5, OriginalsEnter
  <2>2. \A d \in Originals : d \in Chunks
    BY DEF Originals
  <2> HIDE DEF c, src, dst, o
  <2>3. \A d \in Chunks : cache[Content(d)] = d => Content(d) # x
    BY <1>8, NoneIsNoChunk
  <2>4. state[c] = "UNCOMPRESSED"
    BY <1>1, <2>3 DEF CacheInv, x
  <2>5. \A y \in Contents : cache'[y] = IF y = x THEN c ELSE cache[y]
    BY <1>1, <1>7, <1>8
  <2>6. Content(c) = x
    BY DEF x
  <2> HIDE DEF x
  <2>7. \A y \in Contents : cache'[y] # None => Content(cache'[y]) = y
    BY <2>5, <2>6 DEF CacheInv
  <2>8. \A d \in Chunks : state'[d] # "UNCOMPRESSED" => cache'[Content(d)] = d
    BY <1>2, <1>7, <2>3, <2>5 DEF CacheInv
  <2>9. \A d \in Originals' : cache'[Content(d)] = d /\ state'[d] = "UNCOMPRESSED"
    BY <1>1, <1>2, <1>7, <2>1, <2>2, <2>3, <2>4, <2>5, <2>6 DEF CacheInv
  <2>10. \A d \in Chunks : ref'[d] # None => Content(ref'[d]) = Content(d)
    BY <1>1, <1>8 DEF CacheInv
  <2> QED BY <2>7, <2>8, <2>9, <2>10 DEF CacheInv
<1>9. CASE cache[x] # None
  <2>1. Originals' \subseteq Originals
    <3>1. src \in Locations /\ ~ForCompression(src) /\ ~ForCompression(dst)
      BY <1>3, <1>4, <1>6, <1>9, CompressionPlaces
    <3>2. ASSUME NEW d \in Chunks, NEW l \in Locations, ForCompression(l), d \in Held(l)'
          PROVE  d \in Held(l)
      BY <1>5, <3>1, <3>2 DEF Moved
    <3> QED BY <3>2 DEF Originals
  <2> HIDE DEF c, src, dst, o
  <2>2. \A d \in Chunks : ref'[d] = IF d = c THEN cache[x] ELSE ref[d]
    BY <1>1, <1>7, <1>9
  <2>3. Content(cache[x]) = Content(c)
    BY <1>1, <1>9 DEF CacheInv, x
  <2>4. cache' = cache
    BY <1>1, <1>9
  <2>5. \A d \in Chunks : ref'[d] # None => Content(ref'[d]) = Content(d)
    BY <2>2, <2>3 DEF CacheInv
  <2> QED BY <1>2, <2>1, <2>4, <2>5 DEF CacheInv
<1> QED BY <1>8, <1>9

LEMMA CompressCache ==
  ASSUME PipelineTypeOK, OnceInv, CacheInv, NEW t \in Tids, Compress(t)
  PROVE  /\ CacheInv'
         /\ \A d \in Chunks : state'[d] = "FLUSHED" <=> state[d] = "FLUSHED"
<1> DEFINE c   == Head(thread["compress"][t].recv)
           src == InRecv("compress", t)
           dst == InSend("compress", t, "reorder")
<1>1. HandsOn("compress", t, "reorder") /\ c \in Chunks
      /\ state' = [state EXCEPT ![c] = "COMPRESSED"]
  BY CompressFacts
<1>2. UNCHANGED <<que, frag, reorder, cache, ref>>
  BY DEF Compress
<1>3. "compress" \in Pools /\ "reorder" \in Queues /\ "compress" # "refine"
  BY QueueNames
<1>4. src \in Locations /\ dst \in Locations /\ ForCompression(src) /\ ~ForCompression(dst)
  BY <1>3, Places, CompressionPlaces
<1>5. \A l \in Locations : Held(l)' = Moved(l, Held(l), src, dst, {c})
  BY <1>1, <1>2, <1>3, HandMoves
<1>6. c \in Held(src)
  <2>1. Held(src) = Range(thread["compress"][t].recv)
    BY <1>3, HeldAt DEF Pending
  <2>2. thread["compress"][t].recv \in Seq(Chunks) /\ thread["compress"][t].recv # << >>
    BY <1>1 DEF HandsOn
  <2> QED BY <2>1, <2>2, TakeFirst
<1> HIDE DEF c, src, dst
<1>7. c \in Originals /\ Originals' \subseteq Originals \ {c}
  BY <1>1, <1>4, <1>5, <1>6, OriginalsLeave
<1>8. \A d \in Originals : d \in Chunks
  BY DEF Originals
<1>9. state \in [Chunks -> {"UNCOMPRESSED", "COMPRESSED", "FLUSHED"}]
  BY DEF PipelineTypeOK, ChunkTypeOK
<1>10. \A d \in Chunks : state'[d] = IF d = c THEN "COMPRESSED" ELSE state[d]
  BY <1>1, <1>9
<1>11. cache[Content(c)] = c
  BY <1>7 DEF CacheInv
<1>12. \A d \in Chunks : state'[d] # "UNCOMPRESSED" => cache'[Content(d)] = d
  BY <1>2, <1>10, <1>11 DEF CacheInv
<1>13. \A d \in Originals' : cache'[Content(d)] = d /\ state'[d] = "UNCOMPRESSED"
  BY <1>2, <1>7, <1>8, <1>10 DEF CacheInv
<1>14. \A d \in Chunks : state'[d] = "FLUSHED" <=> state[d] = "FLUSHED"
  BY <1>7, <1>10 DEF CacheInv
<1> QED BY <1>2, <1>12, <1>13, <1>14 DEF CacheInv

LEMMA WorkerCache ==
  ASSUME PipelineTypeOK, OnceInv, CacheInv, NEW p \in Pools, NEW t \in Tids, Worker(p, t)
  PROVE  CacheInv'
<1>1. CASE Fetch(p, t)
  <2>1. UNCHANGED <<cache, ref, state>>
    BY <1>1 DEF Fetch
  <2>2. PICK M : /\ M \subseteq Held(InQueue(p, QidOf(t)))
                 /\ \A l \in Locations :
                      Held(l)' = Moved(l, Held(l), InQueue(p, QidOf(t)), InRecv(p, t), M)
    BY <1>1, FetchMoves
  <2>3. /\ InQueue(p, QidOf(t)) \in Locations /\ InRecv(p, t) \in Locations
        /\ ForCompression(InRecv(p, t)) => ForCompression(InQueue(p, QidOf(t)))
    BY Places, CompressionPlaces, QueueNames, QueuesExist
  <2> QED BY <2>1, <2>2, <2>3, OriginalsMove, CacheKeeps
<1>2. ASSUME NEW o \in Queues, Send(p, t, o)
      PROVE  CacheInv'
  <2>1. UNCHANGED <<cache, ref, state>> /\ o \in Receivers(p)
    BY <1>2, SendFacts DEF Send
  <2>2. PICK M : /\ M \subseteq Held(InSend(p, t, o))
                 /\ \A l \in Locations :
                      Held(l)' = Moved(l, Held(l), InSend(p, t, o), InQueue(o, QidOf(t)), M)
    BY <1>2, SendMoves
  <2>3. /\ InQueue(o, QidOf(t)) \in Locations /\ InSend(p, t, o) \in Locations
        /\ ForCompression(InQueue(o, QidOf(t))) => ForCompression(InSend(p, t, o))
    <3>1. o = "compress" => p = "deduplicate"
      BY <2>1, ReceiverNames
    <3> QED BY <3>1, Places, CompressionPlaces, QueuesExist
  <2> QED BY <2>1, <2>2, <2>3, OriginalsMove, CacheKeeps
<1>3. CASE EndOfInput(p, t) \/ Shutdown(p, t)
  <2>1. /\ thread'[p][t].recv = thread[p][t].recv /\ thread'[p][t].send = thread[p][t].send
        /\ thread'[p][t].l2 = thread[p][t].l2 /\ OnlyThread(p, t)
    BY <1>3, EndOfInputFacts, ShutdownFacts
  <2>2. UNCHANGED <<que, frag, reorder, cache, ref, state>>
    BY <1>3 DEF EndOfInput, Shutdown
  <2>3. \A r \in Pools, u \in Tids : /\ thread'[r][u].recv = thread[r][u].recv
                                     /\ thread'[r][u].send = thread[r][u].send
                                     /\ thread'[r][u].l2 = thread[r][u].l2
    BY <2>1 DEF OnlyThread
  <2>4. Unsent' = Unsent /\ InHand' = InHand /\ Written' = Written
    BY <2>2 DEF Unsent, InHand, Written
  <2>5. \A l \in Locations : Held(l)' = Held(l)
    BY <2>2, <2>3, <2>4, NothingMoves
  <2>6. Originals' = Originals
    BY <2>5 DEF Originals
  <2> QED BY <2>2, <2>6, CacheKeeps
<1>4. CASE p = "refine" /\ FragmentRefine(t)
  <2>1. UNCHANGED <<cache, ref, state>>
    BY <1>4 DEF FragmentRefine
  <2>2. \A l \in Locations :
          Held(l)' = Moved(l, Held(l), InRecv("refine", t), InSend("refine", t, "deduplicate"),
                           {NextCut(t)})
    BY <1>4, CutMoves
  <2>3. ~ForCompression(InRecv("refine", t)) /\ ~ForCompression(InSend("refine", t, "deduplicate"))
    BY CompressionPlaces, QueueNames
  <2>4. ASSUME NEW d \in Chunks, NEW l \in Locations, ForCompression(l), d \in Held(l)'
        PROVE  d \in Held(l)
    BY <2>2, <2>3, <2>4 DEF Moved
  <2>5. Originals' \subseteq Originals
    BY <2>4 DEF Originals
  <2> QED BY <2>1, <2>5, CacheKeeps
<1> QED BY <1>1, <1>2, <1>3, <1>4, DeduplicateCache, CompressCache, WorkerSteps

Before(c) == {d \in Chunks : sequence_lt(d, c)}

\* The data of a content is in the file when its chunk is flushed, once and
\* before any fingerprint of it; record after record the file has the contents
\* of the chunks written.
DataInv ==
  /\ \A c \in Chunks : state[c] = "FLUSHED" =>
                         \E i \in 1..Len(file) : file[i] = Data(Content(c))
  /\ \A i \in 1..Len(file) :
       file[i].type = "TYPE_COMPRESS" =>
         cache[file[i].content] # None /\ state[cache[file[i].content]] = "FLUSHED"
  /\ StoredOnce(file)
  /\ \A i \in 1..Len(file) : Resolvable(file, i)
  /\ \A c \in Written : /\ Cardinality(Before(c)) < Len(file)
                        /\ file[Cardinality(Before(c)) + 1].content = Content(c)

LEMMA DataInit ==
  ASSUME Init
  PROVE  DataInv
<1>1. file = << >> /\ \A c \in Chunks : state[c] = "UNCOMPRESSED"
  BY DEF Init
<1>2. Written = {}
  <2>1. \A c \in Chunks : c.l1 \in Nat /\ c.l2 \in Nat
    BY ChunkShape, InputShape
  <2>2. reorder.next = [l1 |-> 0, l2 |-> 0]
    BY DEF Init
  <2> QED BY <2>1, <2>2 DEF Written, sequence_lt
<1> QED BY <1>1, <1>2 DEF DataInv, StoredOnce

LEMMA DataKeeps ==
  ASSUME PipelineTypeOK, DataInv, file' = file, Written' = Written,
         \A c \in Chunks : state'[c] = "FLUSHED" <=> state[c] = "FLUSHED",
         \A x \in Contents : cache[x] # None => cache'[x] = cache[x]
  PROVE  DataInv'
<1>1. \A i \in 1..Len(file) : file[i].content \in Contents
  <2>1. file \in Seq(Records)
    BY DEF PipelineTypeOK, ChunkTypeOK
  <2>2. \A i \in 1..Len(file) : file[i] \in Records
    BY <2>1
  <2> QED BY <2>2 DEF Records
<1>2. cache \in [Contents -> Chunks \cup {None}]
  BY DEF PipelineTypeOK, ChunkTypeOK
<1>3. ASSUME NEW i \in 1..Len(file'), file'[i].type = "TYPE_COMPRESS"
      PROVE  cache'[file'[i].content] # None /\ state'[cache'[file'[i].content]] = "FLUSHED"
  <2>1. cache[file[i].content] # None /\ state[cache[file[i].content]] = "FLUSHED"
    BY <1>3 DEF DataInv
  <2>2. cache'[file[i].content] = cache[file[i].content] /\ cache[file[i].content] \in Chunks
    BY <1>1, <1>2, <2>1
  <2> QED BY <2>1, <2>2
<1>4. \A c \in Chunks : state'[c] = "FLUSHED" => \E i \in 1..Len(file') : file'[i] = Data(Content(c))
  BY DEF DataInv
<1> QED BY <1>3, <1>4 DEF DataInv, Before

\* One more record: the data of a content that is not in the file yet, or a
\* fingerprint of one that is.
Fits(f, x, r) ==
  \/ r = Data(x) /\ \A i \in 1..Len(f) : f[i] # Data(x)
  \/ r = Fingerprint(x) /\ \E i \in 1..Len(f) : f[i] = Data(x)

Sound(f) == StoredOnce(f) /\ \A i \in 1..Len(f) : Resolvable(f, i)

Extension(f, x, r, g) ==
  f \in Seq(Records) /\ Sound(f) /\ x \in Contents /\ Fits(f, x, r) /\ g = Append(f, r)

LEMMA OneMore ==
  ASSUME NEW f, NEW x, NEW r, NEW g, Extension(f, x, r, g)
  PROVE  Sound(g)
<1> USE DEF Sound, Extension
<1>1. r \in Records /\ r.content = x
  BY DEF Records, Fits, Data, Fingerprint
<1>2. /\ Len(g) = Len(f) + 1 /\ g[Len(f) + 1] = r /\ Len(f) \in Nat
      /\ \A i \in 1..Len(f) : g[i] = f[i]
  BY <1>1
<1>3. \A i \in 1..Len(g) : i \in 1..Len(f) \/ i = Len(f) + 1
  BY <1>2
<1>4. StoredOnce(g)
  <2> SUFFICES ASSUME NEW i \in 1..Len(g), NEW j \in 1..Len(g),
                      g[i].type = "TYPE_COMPRESS", g[i] = g[j]
               PROVE  i = j
    BY DEF StoredOnce
  <2>1. CASE i \in 1..Len(f) /\ j \in 1..Len(f)
    BY <1>2, <2>1 DEF StoredOnce
  <2>2. CASE i = Len(f) + 1 \/ j = Len(f) + 1
    <3>1. g[i] = r
      BY <1>2, <2>2
    <3>2. r = Data(x)
      BY <3>1 DEF Fits, Fingerprint
    <3>3. \A k \in 1..Len(f) : g[k] # r
      BY <1>2, <3>2 DEF Fits, Data, Fingerprint
    <3> QED BY <1>3, <3>1, <3>3
  <2> QED BY <1>3, <2>1, <2>2
<1>5. ASSUME NEW i \in 1..Len(g)
      PROVE  Resolvable(g, i)
  <2>1. CASE i \in 1..Len(f)
    <3>1. Resolvable(f, i) /\ g[i] = f[i]
      BY <1>2, <2>1
    <3>2. \A j \in 1..(i - 1) : j \in 1..Len(f)
      BY <1>2, <2>1
    <3> QED BY <1>2, <3>1, <3>2 DEF Resolvable
  <2>2. CASE i = Len(f) + 1
    <3>1. g[i] = r /\ i - 1 = Len(f)
      BY <1>2, <2>2
    <3>2. r.type = "TYPE_FINGERPRINT" => \E j \in 1..Len(f) : f[j] = Data(x)
      BY DEF Fits, Data, Fingerprint
    <3> QED BY <1>1, <1>2, <3>1, <3>2 DEF Resolvable
  <2> QED BY <1>3, <2>1, <2>2
<1> QED BY <1>2, <1>4, <1>5

LEMMA WriteData ==
  ASSUME PipelineTypeOK, OrderInv, FileInv, CacheInv, DataInv, ReorderWrite
  PROVE  CacheInv' /\ DataInv'
<1> DEFINE c    == reorder.chunk
           orig == Origin(c)
           x    == Content(orig)
           n    == Len(file)
<1>1. /\ reorder.pc = "write" /\ c \in Chunks /\ write_chunk_to_file(c)
      /\ reorder'.next = Successor(reorder.next, reorder.perAnchor)
  BY ReorderWriteFacts
<1>2. UNCHANGED <<que, closed, frag, thread, cache, ref>>
  BY DEF ReorderWrite
<1>3. /\ orig \in Chunks /\ x \in Contents /\ state[orig] \in {"COMPRESSED", "FLUSHED"}
      /\ IF state[orig] = "COMPRESSED"
         THEN file' = Append(file, Data(x)) /\ state' = [state EXCEPT ![orig] = "FLUSHED"]
         ELSE file' = Append(file, Fingerprint(x)) /\ state' = state
  BY <1>1, <1>2, WriteFacts DEF PipelineTypeOK
<1>4. x = Content(c)
  BY <1>1 DEF CacheInv, Origin, isDuplicate
<1>5. cache[x] = orig
  BY <1>3 DEF CacheInv
<1>6. file \in Seq(Records) /\ n \in Nat
  BY DEF PipelineTypeOK, ChunkTypeOK
<1>7. state \in [Chunks -> {"UNCOMPRESSED", "COMPRESSED", "FLUSHED"}]
  BY DEF PipelineTypeOK, ChunkTypeOK
<1>8. c = reorder.next /\ Written' = Written \cup {c} /\ Written = Before(c)
  BY <1>1, WrittenGrows DEF OrderInv, Written, Before
<1> HIDE DEF c, orig, x
<1>9. \A d \in Chunks : state'[d] = IF d = orig THEN "FLUSHED" ELSE state[d]
  BY <1>3, <1>7
<1>10. PICK r : /\ file' = Append(file, r) /\ r \in {Data(x), Fingerprint(x)}
                /\ r = Data(x) <=> state[orig] = "COMPRESSED"
  BY <1>3 DEF Data, Fingerprint
<1>11. Fits(file, x, r)
  <2>1. CASE state[orig] = "COMPRESSED"
    <3>1. ASSUME NEW i \in 1..n, file[i] = Data(x)
          PROVE  FALSE
      <4>1. file[i].type = "TYPE_COMPRESS" /\ file[i].content = x
        BY <3>1 DEF Data
      <4>2. state[cache[x]] = "FLUSHED"
        BY <3>1, <4>1 DEF DataInv
      <4> QED BY <1>5, <2>1, <4>2
    <3> QED BY <1>10, <2>1, <3>1 DEF Fits
  <2>2. CASE state[orig] = "FLUSHED"
    <3>1. \E i \in 1..n : file[i] = Data(x)
      BY <1>3, <2>2 DEF DataInv, x
    <3> QED BY <1>10, <2>2, <3>1 DEF Fits
  <2> QED BY <1>3, <2>1, <2>2
<1>12. /\ StoredOnce(file') /\ \A i \in 1..Len(file') : Resolvable(file', i)
       /\ Len(file') = n + 1 /\ file'[n + 1] = r /\ \A i \in 1..n : file'[i] = file[i]
  <2>1. Sound(file)
    BY DEF DataInv, Sound
  <2>2. Extension(file, x, r, file')
    BY <1>3, <1>6, <1>10, <1>11, <2>1 DEF Extension
  <2>3. Sound(file')
    BY <2>2, OneMore
  <2>4. r \in Records
    BY <1>3, <1>10 DEF Records, Data, Fingerprint
  <2>5. Len(file') = n + 1 /\ file'[n + 1] = r /\ \A i \in 1..n : file'[i] = file[i]
    BY <1>6, <1>10, <2>4
  <2> QED BY <2>3, <2>5 DEF Sound
<1>13. r.content = x /\ (r.type = "TYPE_COMPRESS" => r = Data(x))
  BY <1>10 DEF Data, Fingerprint
<1>14. \A i \in 1..Len(file') : i \in 1..n \/ i = n + 1
  BY <1>6, <1>12
<1>15. ASSUME NEW d \in Chunks, state'[d] = "FLUSHED"
       PROVE  \E i \in 1..Len(file') : file'[i] = Data(Content(d))
  <2>1. CASE state[d] = "FLUSHED"
    <3>1. PICK i \in 1..n : file[i] = Data(Content(d))
      BY <2>1 DEF DataInv
    <3>2. i \in 1..Len(file') /\ file'[i] = Data(Content(d))
      BY <1>6, <1>12, <3>1
    <3> QED BY <3>2
  <2>2. CASE state[d] # "FLUSHED"
    <3>1. d = orig /\ state[orig] = "COMPRESSED"
      BY <1>3, <1>9, <1>15, <2>2
    <3>2. file'[n + 1] = Data(Content(d)) /\ n + 1 \in 1..Len(file')
      BY <1>6, <1>10, <1>12, <3>1 DEF x
    <3> QED BY <3>2
  <2> QED BY <2>1, <2>2
<1>16. ASSUME NEW i \in 1..Len(file'), file'[i].type = "TYPE_COMPRESS"
       PROVE  cache'[file'[i].content] # None /\ state'[cache'[file'[i].content]] = "FLUSHED"
  <2>1. CASE i \in 1..n
    <3>1. cache[file[i].content] # None /\ state[cache[file[i].content]] = "FLUSHED"
      BY <1>12, <1>16, <2>1 DEF DataInv
    <3>2. cache[file[i].content] \in Chunks
      <4>1. file[i] \in Records
        BY <1>6, <2>1
      <4>2. file[i].content \in Contents
        BY <4>1 DEF Records
      <4> QED BY <3>1, <4>2 DEF PipelineTypeOK, ChunkTypeOK
    <3> QED BY <1>2, <1>9, <1>12, <2>1, <3>1, <3>2
  <2>2. CASE i = n + 1
    <3>1. file'[i].content = x /\ cache'[x] = orig /\ orig # None
      BY <1>2, <1>3, <1>5, <1>12, <1>13, <2>2, NoneIsNoChunk
    <3> QED BY <1>3, <1>9, <3>1
  <2> QED BY <1>14, <2>1, <2>2
<1>17. ASSUME NEW d \in Written'
       PROVE  /\ Cardinality(Before(d)) < Len(file')
              /\ file'[Cardinality(Before(d)) + 1].content = Content(d)
  <2>1. CASE d \in Written
    <3>1. Cardinality(Before(d)) < n /\ file[Cardinality(Before(d)) + 1].content = Content(d)
      BY <2>1 DEF DataInv
    <3>2. Cardinality(Before(d)) \in Nat
      <4>1. Before(d) \subseteq Written
        <5>1. c.l1 \in Nat /\ c.l2 \in Nat /\ \A b \in Chunks : b.l1 \in Nat /\ b.l2 \in Nat
          BY <1>1, ChunkShape, InputShape
        <5>2. d \in Chunks /\ sequence_lt(d, c)
          BY <1>8, <2>1 DEF Written
        <5> QED BY <1>8, <5>1, <5>2 DEF Before, sequence_lt
      <4>2. IsFiniteSet(Before(d))
        BY <4>1, FS_Subset DEF FileInv
      <4> QED BY <4>2, FS_CardinalityType
    <3>3. Cardinality(Before(d)) + 1 \in 1..n
      BY <1>6, <3>1, <3>2
    <3> QED BY <1>6, <1>12, <3>1, <3>2, <3>3
  <2>2. CASE d = c
    <3>1. Cardinality(Before(d)) = n
      BY <1>8, <2>2 DEF FileInv
    <3> QED BY <1>4, <1>6, <1>12, <1>13, <2>2, <3>1
  <2> QED BY <1>8, <1>17, <2>1, <2>2
<1>18. DataInv'
  <2>1. \A d : Before(d)' = Before(d)
    BY DEF Before
  <2> QED BY <1>12, <1>15, <1>16, <1>17, <2>1 DEF DataInv
<1>19. CacheInv'
  <2>1. Originals' = Originals
    BY <1>2, SameOriginals
  <2>2. \A d \in Chunks : state'[d] # "UNCOMPRESSED" => cache'[Content(d)] = d
    BY <1>2, <1>3, <1>9 DEF CacheInv
  <2>3. \A d \in Originals' : cache'[Content(d)] = d /\ state'[d] = "UNCOMPRESSED"
    <3>1. \A d \in Originals : d \in Chunks /\ d # orig
      BY <1>3 DEF CacheInv, Originals
    <3> QED BY <1>2, <1>9, <2>1, <3>1 DEF CacheInv
  <2> QED BY <1>2, <2>2, <2>3 DEF CacheInv
<1> QED BY <1>18, <1>19

LEMMA DataStep ==
  ASSUME PipelineInv, CacheInv, DataInv, [Next]_vars
  PROVE  CacheInv' /\ DataInv'
<1> USE DEF PipelineInv
<1>1. CASE ReorderWrite
  BY <1>1, WriteData
<1>2. ASSUME NEW p \in Pools, NEW t \in Tids, Worker(p, t)
      PROVE  CacheInv' /\ DataInv'
  <2>1. CacheInv'
    BY <1>2, WorkerCache
  <2>2. file' = file /\ Written' = Written
    <3>1. file' = file /\ reorder' = reorder
      BY <1>2, ZenonT(60) DEF Worker, Fetch, EndOfInput, Send, Shutdown, FragmentRefine, Deduplicate, Compress
    <3> QED BY <3>1 DEF Written
  <2>3. \A c \in Chunks : state'[c] = "FLUSHED" <=> state[c] = "FLUSHED"
    <3>1. CASE Compress(t)
      BY <3>1, CompressCache
    <3>2. CASE state' = state
      BY <3>2
    <3> QED BY <1>2, <3>1, <3>2
            DEF Worker, Fetch, EndOfInput, Send, Shutdown, FragmentRefine, Deduplicate
  <2>4. \A y \in Contents : cache[y] # None => cache'[y] = cache[y]
    <3>1. CASE Deduplicate(t)
      <4>1. cache \in [Contents -> Chunks \cup {None}]
        BY DEF PipelineTypeOK, ChunkTypeOK
      <4> QED BY <3>1, <4>1, DeduplicateFacts
    <3>2. CASE cache' = cache
      BY <3>2
    <3> QED BY <1>2, <3>1, <3>2
            DEF Worker, Fetch, EndOfInput, Send, Shutdown, FragmentRefine, Compress
  <2> QED BY <2>1, <2>2, <2>3, <2>4, DataKeeps
<1>3. ASSUME UNCHANGED <<thread, cache, ref, state, file>>, Written' = Written,
             \A q \in Qids : que'["compress"][q] = que["compress"][q]
      PROVE  CacheInv' /\ DataInv'
  <2>1. Originals' = Originals
    BY <1>3, SameOriginals
  <2>2. CacheInv'
    BY <1>3, <2>1, CacheKeeps
  <2> QED BY <1>3, <2>2, DataKeeps
<1>4. CASE Fragment
  <2>1. UNCHANGED <<thread, cache, ref, state, file, reorder>>
    BY <1>4 DEF Fragment, FragmentSend, FragmentTerminate
  <2>2. Written' = Written
    BY <2>1 DEF Written
  <2>3. CASE FragmentSend
    <3>1. \A q \in Qids : que'["compress"][q] = que["compress"][q]
      BY <2>3, FragmentSendFacts, QueueNames DEF OnlyQueue
    <3> QED BY <1>3, <2>1, <2>2, <3>1
  <2>4. CASE FragmentTerminate
    <3>1. que' = que
      BY <2>4 DEF FragmentTerminate
    <3> QED BY <1>3, <2>1, <2>2, <3>1
  <2> QED BY <1>4, <2>3, <2>4 DEF Fragment
<1>5. CASE ReorderDequeue
  <2>1. UNCHANGED <<thread, cache, ref, state, file>> /\ reorder'.next = reorder.next
    BY <1>5, ReorderDequeueFacts DEF ReorderDequeue, SameTree
  <2>2. Written' = Written
    BY <2>1 DEF Written
  <2>3. \A q \in Qids : que'["compress"][q] = que["compress"][q]
    BY <1>5, ReorderDequeueFacts, QueueNames DEF OnlyQueue
  <2> QED BY <1>3, <2>1, <2>2, <2>3
<1>6. CASE ReorderTake
  <2>1. UNCHANGED <<que, thread, cache, ref, state, file>> /\ reorder'.next = reorder.next
    BY <1>6, ReorderTakeFacts DEF ReorderTake
  <2>2. Written' = Written
    BY <2>1 DEF Written
  <2> QED BY <1>3, <2>1, <2>2
<1>7. CASE ReorderFlush
  <2>1. UNCHANGED <<que, thread, cache, ref, state, file>> /\ reorder'.next = reorder.next
    BY <1>7, FlushIsIdle
  <2>2. Written' = Written
    BY <2>1 DEF Written
  <2> QED BY <1>3, <2>1, <2>2
<1>8. CASE UNCHANGED vars
  <2>1. Written' = Written
    BY <1>8 DEF vars, Written
  <2> QED BY <1>3, <1>8, <2>1 DEF vars
<1>9. CASE Joined
  BY <1>8, <1>9 DEF Joined
<1> QED BY <1>1, <1>2, <1>4, <1>5, <1>6, <1>7, <1>8, <1>9 DEF Next, Reorder

LEMMA DataInvariant == Spec => [](PipelineInv /\ CacheInv /\ DataInv)
<1>1. Init => PipelineInv /\ CacheInv /\ DataInv
  BY TypeInit, ClosedInit, OnceInit, OrderInit, CacheInit, DataInit DEF PipelineInv
<1>2. PipelineInv /\ CacheInv /\ DataInv /\ [Next]_vars => (PipelineInv /\ CacheInv /\ DataInv)'
  <2>1. PipelineInv /\ [Next]_vars => PipelineInv'
    BY TypeStep, ClosedStep, FlowStep, FileStep DEF PipelineInv
  <2> QED BY <2>1, DataStep
<1> QED BY <1>1, <1>2, PTL DEF Spec

\* The data of every content is stored at most once, whichever of its chunks
\* comes first and whichever thread finds it first.
THEOREM DataIsStoredOnce == Spec => []DataStoredOnce
<1>1. DataInv => DataStoredOnce
  BY DEF DataInv, DataStoredOnce
<1> QED BY <1>1, DataInvariant, PTL

\* What is in the file at any time: the records of the chunks up to some place
\* of the input, in the order of the input, none missing, each with its chunk's
\* content, and never a fingerprint in front of its data.
FileIsPrefix ==
  /\ Len(file) = Cardinality(Written)
  /\ \A c \in Written : /\ Cardinality(Before(c)) < Len(file)
                        /\ file[Cardinality(Before(c)) + 1].content = Content(c)
                        /\ Resolvable(file, Cardinality(Before(c)) + 1)

THEOREM FileInInputOrder == Spec => []FileIsPrefix
<1>1. PipelineInv /\ DataInv => FileIsPrefix
  <2> SUFFICES ASSUME PipelineInv, DataInv
               PROVE  FileIsPrefix
    OBVIOUS
  <2>1. Len(file) = Cardinality(Written)
    BY DEF PipelineInv, FileInv
  <2>2. ASSUME NEW c \in Written
        PROVE  /\ Cardinality(Before(c)) < Len(file)
               /\ file[Cardinality(Before(c)) + 1].content = Content(c)
               /\ Resolvable(file, Cardinality(Before(c)) + 1)
    <3>1. /\ Cardinality(Before(c)) < Len(file)
          /\ file[Cardinality(Before(c)) + 1].content = Content(c)
      BY DEF DataInv
    <3>2. Cardinality(Before(c)) \in Nat
      <4>1. reorder.next \in Chunks \cup {End} /\ c \in Chunks /\ sequence_lt(c, reorder.next)
        BY DEF PipelineInv, OrderInv, NextInv, Written
      <4>2. reorder.next.l1 \in Nat /\ reorder.next.l2 \in Nat
        BY <4>1, ChunkShape, InputShape DEF End
      <4>3. \A b \in Chunks : b.l1 \in Nat /\ b.l2 \in Nat
        BY ChunkShape, InputShape
      <4>4. Before(c) \subseteq Written
        BY <4>1, <4>2, <4>3 DEF Before, Written, sequence_lt
      <4>5. IsFiniteSet(Before(c))
        BY <4>4, FS_Subset DEF PipelineInv, FileInv
      <4> QED BY <4>5, FS_CardinalityType
    <3>3. Cardinality(Before(c)) + 1 \in 1..Len(file)
      <4>1. Len(file) \in Nat
        BY DEF PipelineInv, PipelineTypeOK, ChunkTypeOK
      <4> QED BY <3>1, <3>2, <4>1
    <3> QED BY <3>1, <3>3 DEF DataInv
  <2> QED BY <2>1, <2>2 DEF FileIsPrefix
<1> QED BY <1>1, DataInvariant, PTL

-----------------------------------------------------------------------------
(* The archive: the file is what the input is, laid end to end. *)

\* The contents of the input in its order, and how many are before each of its
\* coarse chunks.
Whole == FlattenSeq(Input)
InOrder(b) ==
  /\ Offsets(b, Input) /\ Len(Whole) = b[Len(Input) + 1]
  /\ EndToEnd(Whole, b, Input, Len(Input))
Starts == CHOOSE b : InOrder(b)

LEMMA WholeInput == Whole \in Seq(Contents) /\ InOrder(Starts)
<1>0. PICK l \in Nat : l = Len(Input) /\ DOMAIN Input = 1..l
  BY InputShape
<1>1. ASSUME NEW k \in 1..l PROVE Input[k] \in Seq(Contents)
  <2>1. PICK s : s = Input[k]
    OBVIOUS
  <2>2. s \in Seq({s[j] : j \in DOMAIN s})
    BY <1>0, <2>1, PipelineAssumption
  <2>3. \A j \in DOMAIN s : s[j] \in Contents
    <3> SUFFICES ASSUME NEW j \in DOMAIN s PROVE s[j] \in Contents
      OBVIOUS
    <3>1. j \in 1..Len(Input[k]) /\ k - 1 \in CoarseIds /\ Len(Input[k]) \in Nat
      BY <1>0, <2>1, <2>2, InputShape DEF CoarseIds
    <3>2. k - 1 \in CoarseIds /\ j - 1 \in Nat /\ j - 1 < Size(k - 1)
      BY <3>1 DEF Size
    <3>3. PICK c \in Chunks : c = [l1 |-> k - 1, l2 |-> j - 1]
      BY <3>2, ChunkShape
    <3>4. c.l1 + 1 = k /\ c.l2 + 1 = j
      BY <3>1, <3>3
    <3> QED BY <2>1, <3>3, <3>4, ChunkShape DEF Content
  <2>4. s \in Seq(Contents)
    BY <2>2, <2>3
  <2> QED BY <2>1, <2>4
<1>2. Input = [k \in 1..l |-> Input[k]]
  BY <1>0, PipelineAssumption
<1>3. Input \in Seq(Seq(Contents))
  <2>1. PICK S : S = Input
    OBVIOUS
  <2>2. S = [k \in 1..l |-> S[k]] /\ \A k \in 1..l : S[k] \in Seq(Contents)
    BY <1>1, <1>2, <2>1
  <2>3. S \in Seq(Seq(Contents))
    BY <2>2
  <2> QED BY <2>1, <2>3
<1>4. Whole \in Seq(Contents) /\ \E b : InOrder(b)
  BY <1>3, Flattened DEF Whole, InOrder
<1> QED BY <1>4 DEF Starts

\* The place of a chunk, or of the end, in the input.
Position(c) == Starts[c.l1 + 1] + c.l2

\* The file ends before the chunk that is written next and has what the input has.
ContentsInv ==
  /\ Len(file) = Position(reorder.next)
  /\ \A i \in 1..Len(file) : i \in 1..Len(Whole) /\ file[i].content = Whole[i]

LEMMA PositionNext ==
  ASSUME NEW c \in Chunks, NEW f, f[c.l1] # 0 => f[c.l1] = Size(c.l1),
         isLastL2Chunk(c) => f[c.l1] = Size(c.l1)
  PROVE  /\ Position(c) \in Nat /\ Position(c) + 1 \in 1..Len(Whole)
         /\ Whole[Position(c) + 1] = Content(c)
         /\ Position(Successor(c, f)) = Position(c) + 1
<1>1. /\ c.l1 \in Nat /\ c.l2 \in Nat /\ c.l1 + 1 \in 1..Len(Input) /\ Len(Input) \in Nat
      /\ c.l2 + 1 \in 1..Len(Input[c.l1 + 1]) /\ Len(Input[c.l1 + 1]) \in Nat \ {0}
      /\ Size(c.l1) = Len(Input[c.l1 + 1])
  <2>1. c.l1 \in CoarseIds /\ c.l2 \in Nat /\ c.l2 < Size(c.l1)
    BY ChunkShape
  <2> QED BY <2>1, InputShape DEF CoarseIds, Size
<1>2. /\ Starts[c.l1 + 1] \in Nat
      /\ Starts[(c.l1 + 1) + 1] = Starts[c.l1 + 1] + Len(Input[c.l1 + 1])
      /\ Starts[c.l1 + 1] + (c.l2 + 1) \in 1..Len(Whole)
      /\ Whole[Starts[c.l1 + 1] + (c.l2 + 1)] = Input[c.l1 + 1][c.l2 + 1]
  <2>1. PICK k \in 1..Len(Input) : k = c.l1 + 1
    BY <1>1
  <2>2. PICK j \in 1..Len(Input[k]) : j = c.l2 + 1
    BY <1>1, <2>1
  <2>3. Starts[k] \in Nat /\ Starts[k + 1] = Starts[k] + Len(Input[k])
    <3>1. Offsets(Starts, Input) /\ k \in 1..Len(Input) + 1
      BY <1>1, WholeInput DEF InOrder
    <3> QED BY <3>1 DEF Offsets
  <2>4. Starts[k] + j \in 1..Len(Whole) /\ Whole[Starts[k] + j] = Input[k][j]
    BY WholeInput DEF InOrder, EndToEnd
  <2> QED BY <2>1, <2>2, <2>3, <2>4
<1>3. Position(c) + 1 = Starts[c.l1 + 1] + (c.l2 + 1) /\ Position(c) \in Nat
  <2>1. PICK s \in Nat : s = Starts[c.l1 + 1]
    BY <1>2
  <2>2. PICK j \in Nat : j = c.l2
    BY <1>1
  <2>3. Position(c) = s + j
    BY <2>1, <2>2 DEF Position
  <2>4. s + j \in Nat /\ (s + j) + 1 = s + (j + 1)
    OBVIOUS
  <2> QED BY <2>1, <2>2, <2>3, <2>4
<1>4. Position(Successor(c, f)) = Position(c) + 1
  <2>1. CASE isLastL2Chunk(c)
    <3>1. c.l2 + 1 = Len(Input[c.l1 + 1])
      BY <2>1 DEF isLastL2Chunk
    <3>2. Successor(c, f) = [l1 |-> c.l1 + 1, l2 |-> 0]
      BY <1>1, <2>1, <3>1 DEF Successor
    <3>3. Position(Successor(c, f)) = Starts[(c.l1 + 1) + 1] + 0
      BY <3>2 DEF Position
    <3>4. Starts[(c.l1 + 1) + 1] = Position(c) + 1
      BY <1>2, <1>3, <3>1
    <3> QED BY <1>3, <3>3, <3>4
  <2>2. CASE ~isLastL2Chunk(c)
    <3>1. c.l2 + 1 # Len(Input[c.l1 + 1])
      BY <2>2 DEF isLastL2Chunk
    <3>2. Successor(c, f) = [l1 |-> c.l1, l2 |-> c.l2 + 1]
      BY <1>1, <3>1 DEF Successor
    <3>3. Position(Successor(c, f)) = Starts[c.l1 + 1] + (c.l2 + 1)
      BY <3>2 DEF Position
    <3> QED BY <1>3, <3>3
  <2> QED BY <2>1, <2>2
<1> QED BY <1>2, <1>3, <1>4 DEF Content

\* What is written is the next content of the input.
LEMMA NextContent ==
  ASSUME PipelineInv, CacheInv, ContentsInv, ReorderWrite
  PROVE  /\ Len(file) + 1 \in 1..Len(Whole)
         /\ \E r \in Records : file' = Append(file, r) /\ r.content = Whole[Len(file) + 1]
         /\ Position(reorder'.next) = Len(file) + 1
<1> USE DEF PipelineInv
<1>1. PICK c \in Chunks : c = reorder.chunk /\ c = reorder.next
  BY ReorderWriteFacts, WrittenGrows DEF OrderInv
<1>2. /\ reorder.pc = "write" /\ write_chunk_to_file(c) /\ UNCHANGED <<cache, ref>>
      /\ reorder'.next = Successor(c, reorder.perAnchor)
  BY <1>1, ReorderWriteFacts DEF ReorderWrite
<1>3. /\ Content(Origin(c)) \in Contents
      /\ file' = Append(file, Data(Content(Origin(c)))) \/ file' = Append(file, Fingerprint(Content(Origin(c))))
  BY <1>2, WriteFacts DEF PipelineTypeOK
<1>4. Content(Origin(c)) = Content(c)
  BY DEF CacheInv, Origin, isDuplicate
<1>5. \E r \in Records : file' = Append(file, r) /\ r.content = Content(c)
  <2>1. /\ Data(Content(c)) \in Records /\ Data(Content(c)).content = Content(c)
        /\ Fingerprint(Content(c)) \in Records /\ Fingerprint(Content(c)).content = Content(c)
    BY <1>3, <1>4 DEF Data, Fingerprint, Records
  <2> QED BY <1>3, <1>4, <2>1
<1>6. c \in Taken
  BY <1>1, <1>2 DEF Taken, InHand
<1>7. /\ c.l1 \in DOMAIN reorder.perAnchor
      /\ isLastL2Chunk(c) => reorder.perAnchor[c.l1] = Size(c.l1)
      /\ reorder.perAnchor[c.l1] # 0 => reorder.perAnchor[c.l1] = Size(c.l1)
  BY <1>6 DEF OrderInv, AnchorInv
<1>8. /\ Position(c) + 1 \in 1..Len(Whole) /\ Whole[Position(c) + 1] = Content(c)
      /\ Position(Successor(c, reorder.perAnchor)) = Position(c) + 1
  BY <1>7, PositionNext
<1>9. Len(file) = Position(c)
  BY <1>1 DEF ContentsInv
<1> QED BY <1>2, <1>5, <1>8, <1>9

LEMMA ContentsInit == Init => ContentsInv
<1>1. Starts[1] = 0
  BY WholeInput DEF InOrder, Offsets
<1> QED BY <1>1 DEF Init, ContentsInv, Position

LEMMA ContentsStep ==
  ASSUME PipelineInv, CacheInv, ContentsInv, [Next]_vars
  PROVE  ContentsInv'
<1>1. CASE ReorderWrite
  <2>1. PICK r \in Records : file' = Append(file, r) /\ r.content = Whole[Len(file) + 1]
    BY <1>1, NextContent
  <2>2. /\ file \in Seq(Records) /\ Len(file) + 1 \in 1..Len(Whole)
        /\ Position(reorder'.next) = Len(file) + 1
    BY <1>1, NextContent DEF PipelineInv, PipelineTypeOK, ChunkTypeOK
  <2>3. /\ Len(file) \in Nat /\ Len(file') = Len(file) + 1 /\ file'[Len(file) + 1] = r
        /\ \A i \in 1..Len(file) : file'[i] = file[i]
    BY <2>1, <2>2
  <2>4. \A i \in 1..Len(file') : i \in 1..Len(Whole) /\ file'[i].content = Whole[i]
    <3>1. \A i \in 1..Len(file') : i \in 1..Len(file) \/ i = Len(file) + 1
      BY <2>3
    <3> QED BY <2>1, <2>2, <2>3, <3>1 DEF ContentsInv
  <2>5. Position(reorder.next)' = Position(reorder'.next)
    BY DEF Position
  <2> QED BY <2>2, <2>3, <2>4, <2>5 DEF ContentsInv
<1>2. CASE file' = file /\ reorder'.next = reorder.next
  <2>1. Position(reorder.next)' = Position(reorder.next)
    BY <1>2 DEF Position
  <2> QED BY <1>2, <2>1 DEF ContentsInv
<1> QED BY <1>1, <1>2, OneRecordEach DEF PipelineInv

\* The pipeline implements the archive: at any time the file decodes to a
\* beginning of the input, which grows by one chunk after the other, whatever the
\* order in which chunks come to Reorder.
THEOREM PipelineIsArchive == Spec => ImplementsArchive
<1>1. Init => Archive!Init
  BY DEF Init, Restored, Archive!Init
<1>2. PipelineInv /\ CacheInv /\ DataInv /\ DataInv' /\ ContentsInv /\ [Next]_vars
        => [Archive!Next]_Restored
  <2> SUFFICES ASSUME PipelineInv, CacheInv, DataInv, DataInv', ContentsInv, [Next]_vars
               PROVE  Archive!Restore \/ Restored' = Restored
    BY DEF Archive!Next
  <2>1. CASE ReorderWrite
    <3>1. PICK r \in Records : file' = Append(file, r) /\ r.content = Whole[Len(file) + 1]
      BY <2>1, NextContent
    <3>2. file \in Seq(Records) /\ Len(file) + 1 \in 1..Len(Whole)
      BY <2>1, NextContent DEF PipelineInv, PipelineTypeOK, ChunkTypeOK
    <3>3. Len(Whole) \in Nat /\ Len(file) \in Nat
      BY <3>2, WholeInput
    <3>4. file' \in Seq(Records) /\ DOMAIN file = 1..Len(file) /\ DOMAIN file' = 1..Len(file')
      BY <3>1, <3>2
    <3>5. /\ Restored = [i \in DOMAIN file |-> file[i].content]
          /\ Restored' = [i \in DOMAIN file' |-> file'[i].content]
      <4>1. \A i \in DOMAIN file : Resolvable(file, i)
        BY <3>4 DEF DataInv
      <4>2. \A i \in DOMAIN file' : Resolvable(file', i)
        BY <3>4 DEF DataInv
      <4> QED BY <4>1, <4>2 DEF Restored
    <3>6. Restored' = Append(Restored, r.content) /\ Len(Restored) = Len(file)
      BY <3>1, <3>2, <3>5
    <3>7. Len(Restored) < Len(Whole) /\ Restored' = Append(Restored, Whole[Len(Restored) + 1])
      BY <3>1, <3>2, <3>3, <3>6
    <3> QED BY <3>7 DEF Archive!Restore, Whole
  <2>2. CASE file' = file
    BY <2>2 DEF Restored
  <2> QED BY <2>1, <2>2, OneRecordEach DEF PipelineInv
<1>3. PipelineInv /\ CacheInv /\ ContentsInv /\ [Next]_vars => ContentsInv'
  BY ContentsStep
<1> QED
  BY <1>1, <1>2, <1>3, ContentsInit, DataInvariant, PTL DEF Spec, ImplementsArchive, Archive!Spec
=============================================================================
