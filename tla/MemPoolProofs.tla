--------------------------- MODULE MemPoolProofs ---------------------------
(***************************************************************************)
(* What holds of the memory pool for any number of chunks and processes.   *)
(***************************************************************************)
EXTENDS MemPool, FiniteSetTheorems, TLAPS

(* A request is for one chunk at least (mem_get, find_chunk_by_size).      *)
LEMMA NumBufPositive ==
  ASSUME NEW size \in Sizes
  PROVE  NumBuf(size) \in Nat \ {0}
<1>1. size \in Nat \ {0} /\ ChunkSize \in Nat \ {0}
  <2>1. size \in 1 .. MaxSize
    BY SizeAssumption
  <2> QED
    BY <2>1, PoolAssumption
<1>2. size \div ChunkSize \in Nat
  BY <1>1
<1>3. size = ChunkSize * (size \div ChunkSize) + (size % ChunkSize)
  BY <1>1
<1>4. CASE size % ChunkSize > 0
  BY <1>2, <1>4 DEF NumBuf
<1>5. CASE ~(size % ChunkSize > 0)
  <2>1. size % ChunkSize = 0
    BY <1>1, <1>5
  <2>2. size \div ChunkSize # 0
    BY <1>1, <1>3, <2>1
  <2> QED
    BY <1>2, <1>5, <2>2 DEF NumBuf
<1> QED
  BY <1>4, <1>5

(* What mem_get divides into chunks is room enough for what was asked for, *)
(* and one chunk less would not be (mem_get, the rounding up).             *)
THEOREM RoomIsEnough ==
  \A size \in Sizes :
    /\ size <= ChunkSize * NumBuf(size)
    /\ ChunkSize * (NumBuf(size) - 1) < size
<1> SUFFICES ASSUME NEW size \in Sizes
             PROVE  /\ size <= ChunkSize * NumBuf(size)
                    /\ ChunkSize * (NumBuf(size) - 1) < size
  OBVIOUS
<1> DEFINE q == size \div ChunkSize
           r == size % ChunkSize
           n == NumBuf(size)
<1>1. size \in Nat \ {0} /\ ChunkSize \in Nat \ {0}
  <2>1. size \in 1 .. MaxSize
    BY SizeAssumption
  <2> QED
    BY <2>1, PoolAssumption
<1>2. q \in Nat /\ r \in 0 .. ChunkSize - 1 /\ size = ChunkSize * q + r
  BY <1>1
<1>3. n = q + (IF r > 0 THEN 1 ELSE 0)
  BY DEF NumBuf
<1> HIDE DEF q, r, n
<1>4. ChunkSize * q \in Nat
  BY <1>1, <1>2
<1>5. CASE r > 0
  <2>1. n = q + 1 /\ n - 1 = q
    BY <1>2, <1>3, <1>5
  <2>2. ChunkSize * n = ChunkSize * q + ChunkSize
    BY <1>1, <1>2, <2>1
  <2> QED
    BY <1>1, <1>2, <1>4, <1>5, <2>1, <2>2 DEF n
<1>6. CASE r = 0
  <2>1. n = q /\ ChunkSize * (n - 1) = ChunkSize * q - ChunkSize
    BY <1>1, <1>2, <1>3, <1>6
  <2> QED
    BY <1>1, <1>2, <1>4, <1>6, <2>1 DEF n
<1> QED
  BY <1>2, <1>5, <1>6

(* A mem_get that stays inside MEMpool takes a run of chunks from the list *)
(* of the pool (mem_get).                                                  *)
LEMMA GetInside ==
  ASSUME TypeOK, NEW n \in Nat \ {0}, ~GetsOutside(n)
  PROVE  \E g \in Chunks :
           /\ IsFirst(n, g) /\ Run(g, n) \subseteq Chunks
           /\ pre[g] = NULL => nxt[LastOf(n, g)] # NULL
BY DEF GetsOutside

LEMMA LastInside ==
  ASSUME TypeOK, NEW n \in Nat \ {0}, NEW g \in Chunks, firstMem # NULL,
         IsFirst(n, g), Run(g, n) \subseteq Chunks
  PROVE  LastOf(n, g) \in Chunks /\ n \in 1 .. C
<1>1. firstMem \in 0 .. C - 1 /\ g \in 0 .. C - 1 /\ C \in Nat
  BY PoolAssumption DEF TypeOK, Links, Chunks
<1>2. g + n - 1 \in Run(g, n)
  BY <1>1 DEF Run
<1>3. g + n - 1 \in 0 .. C - 1
  BY <1>2 DEF Chunks
<1>4. g >= firstMem /\ (~Free(firstMem) => g > firstMem)
  BY <1>1 DEF IsFirst
<1> QED
  BY <1>1, <1>3, <1>4 DEF LastOf, Chunks

(* Linking the chunks in the order of addresses (A_mem_init, defrag_mem).  *)
LEMMA InOrderType ==
  /\ InOrderNxt \in [Chunks -> Links]
  /\ InOrderPre \in [Chunks -> Links]
  /\ 0 \in Chunks
BY PoolAssumption DEF InOrderNxt, InOrderPre, Links, Chunks, NULL

(* Freeing one chunk (mem_release, reset_orphaned_chunks).                 *)
LEMMA ReleaseOneType ==
  ASSUME TypeOK, NEW c \in Chunks, ReleaseOne(c)
  PROVE  /\ nxt' \in [Chunks -> Links] /\ pre' \in [Chunks -> Links]
         /\ owner' \in [Chunks -> 0 .. N] /\ count' \in [Chunks -> 0 .. C]
         /\ firstMem' \in Links /\ num' \in Int
<1>1. 0 \in 0 .. N /\ 0 \in 0 .. C /\ NULL \in Links /\ c \in Links
  BY PoolAssumption DEF Links
<1> QED
  BY <1>1 DEF TypeOK, ReleaseOne, Relinked, NumAfter

(* A call of mem_release keeps the types, also on a run of chunks.         *)
LEMMA ReleaseType ==
  ASSUME TypeOK, NEW p \in Procs, NEW h \in holds[p], MemRelease(p, h)
  PROVE  /\ nxt' \in [Chunks -> Links] /\ pre' \in [Chunks -> Links]
         /\ owner' \in [Chunks -> 0 .. N] /\ count' \in [Chunks -> 0 .. C]
         /\ firstMem' \in Links /\ num' \in Int /\ wild' \in BOOLEAN
<1>1. h[1] \in Chunks
  BY DEF TypeOK
<1>2. CASE count[h[1]] = 1
  BY <1>1, <1>2, ReleaseOneType DEF MemRelease, ReleaseOne, TypeOK
<1>3. CASE count[h[1]] # 1
  <2> DEFINE c == h[1]
             k == count[c]
  <2> HIDE DEF c
  <2>0. ReleaseRun(c) /\ c \in Chunks
    BY <1>1, <1>3 DEF MemRelease, c
  <2> HIDE DEF k
  <2>1. CASE c + k \in Chunks /\ c + k # 0
    <3>1. /\ owner' = [d \in Chunks |-> IF d \in Run(c, k) THEN 0 ELSE owner[d]]
          /\ count' = [d \in Chunks |-> IF d \in Run(c, k) THEN 0 ELSE count[d]]
          /\ nxt' = [nxt EXCEPT ![c + k - 1] = firstMem]
          /\ pre' = [pre EXCEPT ![c + k] = c + k - 1, ![c] = NULL]
          /\ firstMem' = c /\ num' = num - k /\ wild' = wild
      BY <2>0, <2>1 DEF ReleaseRun, Relinked, NumAfter, k
    <3>2. /\ c + k - 1 \in Links /\ NULL \in Links /\ c \in Links
          /\ 0 \in 0 .. N /\ 0 \in 0 .. C /\ k \in Int
      <4>1. k \in 0 .. C
        BY <2>0 DEF TypeOK, k
      <4>2. C \in Nat /\ N \in Nat
        BY PoolAssumption
      <4> QED
        BY <2>0, <2>1, <4>1, <4>2 DEF Links, Chunks, NULL
    <3>3. owner' \in [Chunks -> 0 .. N] /\ count' \in [Chunks -> 0 .. C]
      BY <3>1, <3>2 DEF TypeOK
    <3>4. nxt' \in [Chunks -> Links] /\ pre' \in [Chunks -> Links]
      BY <3>1, <3>2 DEF TypeOK
    <3> QED
      BY <3>1, <3>2, <3>3, <3>4 DEF TypeOK
  <2>2. CASE ~(c + k \in Chunks /\ c + k # 0)
    <3>1. wild' = TRUE /\ UNCHANGED pool
      BY <2>0, <2>2 DEF ReleaseRun, k
    <3> QED
      BY <3>1 DEF pool, TypeOK
  <2> QED
    BY <2>1, <2>2
<1> QED
  BY <1>2, <1>3

(* A call of mem_get keeps the types, whatever run it is led to.           *)
LEMMA GetType ==
  ASSUME TypeOK, NEW p \in Procs, NEW size \in Sizes, MemGet(p, size)
  PROVE  /\ nxt' \in [Chunks -> Links] /\ pre' \in [Chunks -> Links]
         /\ owner' \in [Chunks -> 0 .. N] /\ count' \in [Chunks -> 0 .. C]
         /\ firstMem' \in Links /\ num' \in Int /\ wild' \in BOOLEAN
         /\ firstOfList' \in Links /\ request' \in BOOLEAN
         /\ asked' \in [Procs -> 0 .. C]
         /\ \/ pc' = pc /\ firstOfList' = firstOfList
            \/ pc' = [pc EXCEPT ![p] = "got"] /\ firstOfList' \in Chunks
         /\ UNCHANGED supervisor /\ UNCHANGED holds
<1> DEFINE n == NumBuf(size)
<1>1. n \in Nat \ {0}
  BY NumBufPositive
<1> HIDE DEF n
<1>2. CASE GetsOutside(n)
  <2>1. /\ wild' = TRUE /\ UNCHANGED <<pool, firstOfList, request, process>>
        /\ UNCHANGED supervisor
    BY <1>2 DEF MemGet, n
  <2>2. /\ UNCHANGED <<nxt, pre, count, owner, firstMem, num, firstOfList, request>>
        /\ UNCHANGED <<pc, asked>> /\ UNCHANGED holds
    BY <2>1 DEF pool, process
  <2> QED
    BY <2>1, <2>2 DEF TypeOK
<1>3. CASE ~GetsOutside(n)
  <2>1. PICK g \in Chunks :
          /\ IsFirst(n, g) /\ Unlink(g, LastOf(n, g))
          /\ count' = [c \in Chunks |-> IF c \in Run(g, n) THEN n ELSE count[c]]
          /\ owner' = Marked(p, g, n)
          /\ num' = num + n /\ firstOfList' = g /\ request' = TRUE
          /\ pc' = [pc EXCEPT ![p] = "got"]
          /\ asked' = [asked EXCEPT ![p] = n]
          /\ UNCHANGED <<holds, wild>>
    BY <1>3 DEF MemGet, n
  <2>2. firstMem # NULL /\ g \in Chunks
    BY <1>3 DEF GetsOutside
  <2>3. Run(g, n) \subseteq Chunks /\ (pre[g] = NULL => nxt[LastOf(n, g)] # NULL)
    <3>1. PICK d \in Chunks :
            /\ IsFirst(n, d) /\ Run(d, n) \subseteq Chunks
            /\ pre[d] = NULL => nxt[LastOf(n, d)] # NULL
      BY <1>1, <1>3, GetInside
    <3>2. d = g
      <4>1. firstMem \in Int /\ d \in Int /\ g \in Int
        BY <2>2 DEF TypeOK, Links, Chunks, NULL
      <4> QED
        BY <2>1, <3>1, <4>1 DEF IsFirst
    <3> QED
      BY <3>1, <3>2
  <2>4. LastOf(n, g) \in Chunks /\ n \in 1 .. C
    BY <1>1, <2>1, <2>2, <2>3, LastInside
  <2>5. nxt' \in [Chunks -> Links] /\ pre' \in [Chunks -> Links] /\ firstMem' \in Links
    <3>1. NULL \in Links /\ LastOf(n, g) \in Links
      BY <2>4 DEF Links
    <3> QED
      BY <2>1, <2>2, <2>4, <3>1 DEF Unlink, TypeOK
  <2>6. owner' \in [Chunks -> 0 .. N] /\ count' \in [Chunks -> 0 .. C]
    <3>1. p \in 0 .. N /\ n \in 0 .. C
      BY <2>4, PoolAssumption DEF Procs
    <3> QED
      BY <2>1, <3>1 DEF Marked, TypeOK
  <2>7. asked' \in [Procs -> 0 .. C] /\ num' \in Int /\ firstOfList' \in Links
    BY <1>1, <2>1, <2>2, <2>4, PoolAssumption DEF TypeOK, Links
  <2> QED
    BY <2>1, <2>2, <2>5, <2>6, <2>7 DEF TypeOK, MemGet
<1> QED
  BY <1>2, <1>3

(* first_of_list is a chunk when mem_get reads it again.                   *)
TypeInv == TypeOK /\ \A p \in Procs : pc[p] = "got" => firstOfList \in Chunks

LEMMA TypeStep ==
  ASSUME TypeInv, [Next]_vars
  PROVE  TypeInv'
<1>0. TypeOK /\ 0 \in 0 .. N /\ 0 \in 0 .. C
  BY PoolAssumption DEF TypeInv
<1>1. ASSUME NEW p \in Procs, NEW size \in Sizes, MemGet(p, size)
      PROVE  TypeInv'
  BY <1>0, <1>1, GetType DEF TypeInv, TypeOK, supervisor
<1>2. ASSUME NEW p \in Procs, MemGetReturn(p)
      PROVE  TypeInv'
  <2>1. firstOfList \in Chunks /\ asked[p] \in 0 .. C
    BY <1>0, <1>2 DEF MemGetReturn, TypeInv, TypeOK
  <2>2. holds' \in [Procs -> SUBSET (Chunks \X (0 .. C))]
    BY <1>0, <1>2, <2>1 DEF MemGetReturn, TypeOK
  <2> QED
    BY <1>0, <1>2, <2>1, <2>2
    DEF MemGetReturn, TypeInv, TypeOK, pool, supervisor
<1>3. ASSUME NEW p \in Procs, NEW h \in holds[p], MemRelease(p, h)
      PROVE  TypeInv'
  <2>1. holds' \in [Procs -> SUBSET (Chunks \X (0 .. C))]
    BY <1>0, <1>3 DEF MemRelease, TypeOK
  <2> QED
    BY <1>0, <1>3, <2>1, ReleaseType DEF MemRelease, TypeInv, TypeOK, supervisor
<1>4. ASSUME NEW p \in Procs, NEW q \in Procs, NEW h \in holds[p], Send(p, q, h)
      PROVE  TypeInv'
  <2>1. holds' \in [Procs -> SUBSET (Chunks \X (0 .. C))]
    BY <1>0, <1>4 DEF Send, TypeOK
  <2> QED
    BY <1>0, <1>4, <2>1 DEF Send, TypeInv, TypeOK, pool, supervisor
<1>5. ASSUME NEW p \in Procs, Fault(p) \/ Finish(p)
      PROVE  TypeInv'
  <2>1. p \in 0 .. N
    BY PoolAssumption DEF Procs
  <2> QED
    BY <1>0, <1>5, <2>1 DEF Fault, Finish, TypeInv, TypeOK, pool, supervisor
<1>6. ASSUME SupTest \/ SupCheck \/ SupClear
      PROVE  TypeInv'
  BY <1>0, <1>6
  DEF SupTest, SupCheck, SupClear, TypeInv, TypeOK, pool, supervisor, process
<1>7. CASE Defrag
  <2>1. 0 \in Links
    BY InOrderType DEF Links
  <2> QED
    BY <1>0, <1>7, <2>1, InOrderType
    DEF Defrag, TypeInv, TypeOK, supervisor, process
<1>8. CASE SupSweep
  <2>1. at \in Chunks /\ at' \in Chunks
        /\ sup' \in {"defrag?", "defrag", "failed?", "sweep", "clear"}
    BY <1>0, <1>8, PoolAssumption DEF SupSweep, TypeOK, Chunks
  <2>2. CASE ReleaseOne(at)
    BY <1>0, <1>8, <2>1, <2>2, ReleaseOneType
    DEF SupSweep, TypeInv, TypeOK, process, ReleaseOne
  <2>3. CASE UNCHANGED <<pool, wild>>
    BY <1>0, <1>8, <2>1, <2>3 DEF SupSweep, TypeInv, TypeOK, pool, process
  <2> QED
    BY <1>8, <2>2, <2>3 DEF SupSweep
<1>9. CASE UNCHANGED vars
  BY <1>0, <1>9 DEF vars, pool, supervisor, process, TypeInv, TypeOK
<1> QED
  BY <1>1, <1>2, <1>3, <1>4, <1>5, <1>6, <1>7, <1>8, <1>9
  DEF Next, SupStep, ProcessStep

LEMMA TypeInit == Init => TypeInv
<1>1. 0 \in 0 .. N /\ 0 \in 0 .. C /\ NULL \in Links /\ 0 \in Links
  BY PoolAssumption, InOrderType DEF Links
<1>2. ASSUME Init
      PROVE  /\ count \in [Chunks -> 0 .. C] /\ owner \in [Chunks -> 0 .. N]
             /\ asked \in [Procs -> 0 .. C]
             /\ pc \in [Procs -> {"run", "got", "faulted", "finished"}]
             /\ holds \in [Procs -> SUBSET (Chunks \X (0 .. C))]
             /\ \A p \in Procs : pc[p] = "run"
  BY <1>1, <1>2 DEF Init
<1>3. ASSUME Init
      PROVE  /\ nxt \in [Chunks -> Links] /\ pre \in [Chunks -> Links]
             /\ firstMem \in Links /\ firstOfList \in Links /\ num \in Int
             /\ request \in BOOLEAN /\ failed \in 0 .. N /\ victim \in 0 .. N
             /\ sup \in {"defrag?", "defrag", "failed?", "sweep", "clear"}
             /\ at \in Chunks /\ wild \in BOOLEAN
  <2>1. nxt = InOrderNxt /\ pre = InOrderPre /\ firstMem = 0 /\ at = 0
    BY <1>3 DEF Init
  <2>2. 0 \in Links /\ 0 \in Chunks
    BY InOrderType DEF Links
  <2>3. firstOfList = NULL /\ num = 0 /\ request = FALSE /\ failed = 0
        /\ victim = 0 /\ sup = "defrag?" /\ wild = FALSE
    BY <1>3 DEF Init
  <2>4. request \in BOOLEAN /\ wild \in BOOLEAN
    BY <2>3, Zenon
  <2> QED
    BY <1>1, <2>1, <2>2, <2>3, <2>4, InOrderType
<1> QED
  BY <1>2, <1>3 DEF TypeInv, TypeOK

(* Every variable keeps its type, whatever sizes are asked for and however *)
(* the calls interleave, as long as the pool code stays inside MEMpool.    *)
THEOREM TypeCorrect == Spec => []TypeOK
<1>1. TypeInv => TypeOK
  BY DEF TypeInv
<1> QED
  BY <1>1, TypeInit, TypeStep, PTL DEF Spec

-----------------------------------------------------------------------------
(* Buffers of one length *)

(* The chunks of a buffer, when all sizes take the same number.            *)
Span == NumBuf(CHOOSE size \in Sizes : TRUE)

(* A process that always keeps one buffer, so that the supervisor never    *)
(* defragments.                                                            *)
Keeping == Keeper # 0 /\ Keeper \notin Mortal

(* The workloads for which the pool keeps its promise: buffers of one      *)
(* length; mem_get calls that do not overlap, and no defragmentation, or   *)
(* none that a mem_get overtakes; no buffer that survives the process that *)
(* sent it; and failures only if a buffer is a single chunk.               *)
Disciplined ==
  /\ Sizes # {} /\ \A size, other \in Sizes : NumBuf(size) = NumBuf(other)
  /\ TakeTurns
  /\ Keeping \/ Quiet
  /\ Senders \intersect Mortal = {}
  /\ Span = 1 \/ Mortal = {}

LEMMA SpanOfSizes ==
  ASSUME Disciplined
  PROVE  Span \in Nat \ {0} /\ \A size \in Sizes : NumBuf(size) = Span
BY NumBufPositive DEF Disciplined, Span

(* The chunks that buffers begin with.                                     *)
Bases == {b \in Chunks : b % Span = 0}

(* They are Span apart, and every chunk is in the buffer of one of them.   *)
LEMMA SpanApart ==
  ASSUME Span \in Nat \ {0}, NEW i \in Nat, NEW j \in Nat, i < j
  PROVE  Span * i + Span <= Span * j
<1>1. j = i + 1 + (j - i - 1) /\ j - i - 1 \in Nat
  OBVIOUS
<1> DEFINE d == j - i - 1
<1> HIDE DEF d
<1>2. Span * j = Span * i + Span + Span * d /\ d \in Nat
  BY <1>1 DEF d
<1>3. Span * d >= 0 /\ Span * i \in Nat /\ Span * d \in Nat
  BY <1>2
<1> QED
  BY <1>2, <1>3

LEMMA MultipleOfSpan ==
  ASSUME Span \in Nat \ {0}
  PROVE  /\ \A i \in Nat : Span * i \in Nat /\ (Span * i) % Span = 0
         /\ \A b \in Bases : \E i \in Nat : b = Span * i
<1>1. ASSUME NEW i \in Nat
      PROVE  Span * i \in Nat /\ (Span * i) % Span = 0
  <2> DEFINE q == (Span * i) \div Span
             r == (Span * i) % Span
  <2>1. Span * i \in Nat
    BY <1>1
  <2>2. q \in Nat /\ r \in 0 .. Span - 1 /\ Span * i = Span * q + r
    BY <2>1
  <2> HIDE DEF q, r
  <2>3. ~(q < i)
    BY <2>1, <2>2, SpanApart
  <2>4. ~(i < q)
    BY <2>1, <2>2, SpanApart
  <2>5. q = i
    BY <2>2, <2>3, <2>4
  <2>6. r = 0
    BY <2>1, <2>2, <2>5
  <2> QED
    BY <2>1, <2>6 DEF r
<1>2. ASSUME NEW b \in Bases
      PROVE  \E i \in Nat : b = Span * i
  <2>1. b \in Nat /\ b % Span = 0
    BY DEF Bases, Chunks
  <2>2. b = Span * (b \div Span) /\ b \div Span \in Nat
    BY <2>1
  <2> QED
    BY <2>2
<1> QED
  BY <1>1, <1>2

LEMMA BaseFacts ==
  ASSUME Span \in Nat \ {0}
  PROVE  /\ 0 \in Bases /\ Bases \subseteq Chunks
         /\ \A b, d \in Bases : b < d => b + Span <= d
         /\ \A b \in Bases : b + Span \in Chunks => b + Span \in Bases
         /\ \A c \in Chunks : \E b \in Bases : c \in Run(b, Span)
         /\ Span = 1 => Bases = Chunks
<1>1. 0 \in Bases /\ Bases \subseteq Chunks
  BY InOrderType DEF Bases
<1>2. ASSUME NEW b \in Bases, NEW d \in Bases, b < d
      PROVE  b + Span <= d
  <2>1. PICK i \in Nat, j \in Nat : b = Span * i /\ d = Span * j
    BY MultipleOfSpan
  <2>2. i < j
    <3> SUFFICES ASSUME j < i \/ j = i PROVE FALSE
      BY <2>1
    <3>1. j < i
      BY <1>2, <2>1
    <3>2. d + Span <= b
      BY <2>1, <3>1, SpanApart
    <3> QED
      BY <1>2, <2>1, <3>2 DEF Bases, Chunks
  <2> QED
    BY <2>1, <2>2, SpanApart
<1>3. ASSUME NEW b \in Bases, b + Span \in Chunks
      PROVE  b + Span \in Bases
  <2>1. PICK i \in Nat : b = Span * i
    BY MultipleOfSpan
  <2>2. b + Span = Span * (i + 1) /\ i + 1 \in Nat
    BY <2>1
  <2> QED
    BY <1>3, <2>2, MultipleOfSpan DEF Bases
<1>4. ASSUME NEW c \in Chunks
      PROVE  \E b \in Bases : c \in Run(b, Span)
  <2> DEFINE i == c \div Span
             r == c % Span
  <2>1. c \in Nat /\ c \in 0 .. C - 1 /\ C \in Nat
    BY PoolAssumption DEF Chunks
  <2>2. i \in Nat /\ r \in 0 .. Span - 1 /\ c = Span * i + r
    BY <2>1
  <2> HIDE DEF i, r
  <2>3. Span * i \in Nat
    BY <2>2
  <2>4. Span * i \in Bases
    BY <2>1, <2>2, <2>3, MultipleOfSpan DEF Bases, Chunks
  <2> QED
    BY <2>1, <2>2, <2>3, <2>4 DEF Run
<1>5. ASSUME Span = 1
      PROVE  Bases = Chunks
  <2>1. \A c \in Chunks : c \in Nat /\ c % 1 = 0
    BY DEF Chunks
  <2> QED
    BY <1>5, <2>1 DEF Bases
<1> QED
  BY <1>1, <1>2, <1>3, <1>4, <1>5

(* The chunk on the list after the buffer at b.                            *)
After(b) == nxt[b + Span - 1]
Whole(b) == b + Span <= C

(* The free list: a buffer is free or in use as a whole, every link leads  *)
(* from a free buffer to a free one, and no two links, nor a link and      *)
(* first_mem, lead to the same one.                                        *)
ListInv ==
  /\ \A c \in Chunks : count[c] = IF Free(c) THEN 0 ELSE Span
  /\ \A b \in Bases : ~Free(b) => Whole(b)
  /\ \A b \in Bases, c \in Chunks : c \in Run(b, Span) => owner[c] = owner[b]
  /\ firstMem # NULL =>
       firstMem \in Bases /\ Free(firstMem) /\ pre[firstMem] = NULL
  /\ \A b \in Bases :
       Free(b) /\ Whole(b) /\ After(b) # NULL =>
         After(b) \in Bases /\ Free(After(b)) /\ After(b) # firstMem
  /\ \A b, d \in Bases :
       Free(b) /\ Free(d) /\ Whole(b) /\ Whole(d)
         /\ After(b) = After(d) /\ After(b) # NULL => b = d

Has(p, b) == <<b, Span>> \in holds[p]

(* Every buffer that a process has is in use and has no other holder, and  *)
(* the supervisor's sweep for another process does not concern it.         *)
HoldInv ==
  /\ \A p \in Procs : \A h \in holds[p] : h[1] \in Bases /\ h[2] = Span
  /\ \A p \in Procs, b \in Bases :
       Has(p, b) => ~Free(b) /\ (owner[b] = p \/ owner[b] \notin Mortal)
  /\ \A p, q \in Procs, b \in Bases : Has(p, b) /\ Has(q, b) => p = q
  /\ \A p \in Procs :
       pc[p] = "got" => /\ asked[p] = Span /\ firstOfList \in Bases
                        /\ owner[firstOfList] = p
                        /\ \A q \in Procs : ~Has(q, firstOfList)
  /\ \A p, q \in Procs : pc[p] = "got" /\ pc[q] = "got" => p = q
  /\ \A p \in Procs : pc[p] \in {"faulted", "finished"} => holds[p] = {}

(* The supervisor only sweeps for processes that have failed, and only     *)
(* defragments a pool that is still empty; it never is with a keeper.      *)
SupInv ==
  /\ sup = "defrag" => Quiet /\ num = 0
  /\ Keeping /\ request => holds[Keeper] # {} \/ pc[Keeper] = "got"
  /\ failed # 0 => failed \in Mortal /\ pc[failed] = "faulted"
  /\ victim # 0 => victim \in Mortal /\ pc[victim] = "faulted"
  /\ sup = "sweep" => victim # 0

Busy == {c \in Chunks : ~Free(c)}

(* The pool as A_mem_init, and defrag_mem if nothing is in use, leave it.  *)
Fresh ==
  /\ firstMem = 0 /\ nxt = InOrderNxt /\ pre = InOrderPre
  /\ \A c \in Chunks : Free(c) /\ count[c] = 0

PoolInv == TypeInv /\ ListInv /\ HoldInv /\ SupInv /\ num = Cardinality(Busy)

(* Inside a buffer the links are those of the addresses, the end of the    *)
(* list is the end of the pool, and every free buffer is on the list, the  *)
(* short one that may be left at the end of the pool included.             *)
Closed(S) ==
  /\ firstMem # NULL => firstMem \in S
  /\ \A b \in S : Free(b) /\ Whole(b) /\ After(b) # NULL => After(b) \in S
LinkInv ==
  /\ \A c \in Chunks : c + 1 \in Chunks \ Bases => nxt[c] = c + 1
  /\ nxt[C - 1] = NULL /\ Free(C - 1)
  /\ \A S \in SUBSET Bases : Closed(S) => \A b \in Bases : Free(b) => b \in S

-----------------------------------------------------------------------------
(* The calls on a well-formed list *)

(* What mem_get does to it: the first buffer of the list is taken.         *)
TakeFirst(p) ==
  /\ firstMem \in Bases /\ Whole(firstMem) /\ After(firstMem) \in Chunks
  /\ firstMem' = After(firstMem)
  /\ nxt' = [nxt EXCEPT ![firstMem + Span - 1] = NULL]
  /\ pre' = [pre EXCEPT ![After(firstMem)] = NULL]
  /\ owner' = Marked(p, firstMem, Span)
  /\ count' = [c \in Chunks |-> IF c \in Run(firstMem, Span) THEN Span ELSE count[c]]
  /\ num' = num + Span
  /\ firstOfList' = firstMem
  /\ request' = TRUE
  /\ pc' = [pc EXCEPT ![p] = "got"]
  /\ asked' = [asked EXCEPT ![p] = Span]
  /\ UNCHANGED <<holds, wild>>

LEMMA GetTakesFirst ==
  ASSUME TypeOK, ListInv, Disciplined,
         NEW p \in Procs, NEW size \in Sizes, MemGet(p, size)
  PROVE  \/ TakeFirst(p)
         \/ /\ GetsOutside(Span) /\ wild' = TRUE
            /\ UNCHANGED pool /\ UNCHANGED process
            /\ UNCHANGED <<firstOfList, request>>
<1>0. NumBuf(size) = Span /\ Span \in Nat \ {0}
  BY SpanOfSizes
<1>1. CASE GetsOutside(Span)
  BY <1>0, <1>1 DEF MemGet
<1>2. CASE ~GetsOutside(Span)
  <2>1. PICK g \in Chunks :
          /\ IsFirst(Span, g) /\ Unlink(g, LastOf(Span, g))
          /\ count' = [c \in Chunks |-> IF c \in Run(g, Span) THEN Span ELSE count[c]]
          /\ owner' = Marked(p, g, Span)
          /\ num' = num + Span /\ firstOfList' = g /\ request' = TRUE
          /\ pc' = [pc EXCEPT ![p] = "got"]
          /\ asked' = [asked EXCEPT ![p] = Span]
          /\ UNCHANGED <<holds, wild>>
    BY <1>0, <1>2 DEF MemGet
  <2>2. /\ firstMem # NULL /\ Free(firstMem) /\ pre[firstMem] = NULL
        /\ firstMem \in Bases /\ g = firstMem
    BY <1>2, <2>1 DEF GetsOutside, ListInv, IsFirst
  <2>3. LastOf(Span, g) = g + Span - 1
    BY <2>2 DEF LastOf
  <2>4. Run(g, Span) \subseteq Chunks /\ After(g) # NULL
    <3>1. PICK d \in Chunks :
            /\ IsFirst(Span, d) /\ Run(d, Span) \subseteq Chunks
            /\ pre[d] = NULL => nxt[LastOf(Span, d)] # NULL
      BY <1>0, <1>2, GetInside
    <3>2. d = g
      BY <2>2, <3>1 DEF IsFirst
    <3> QED
      BY <2>2, <2>3, <3>1, <3>2 DEF After
  <2>5. g + Span - 1 \in Chunks
    BY <1>0, <2>2, <2>4 DEF Run, Bases, Chunks
  <2>6. Whole(g) /\ After(g) \in Chunks
    BY <1>0, <2>4, <2>5, PoolAssumption DEF TypeOK, Links, Whole, Chunks, After
  <2> QED
    BY <2>1, <2>2, <2>3, <2>6 DEF Unlink, TakeFirst, After
<1> QED
  BY <1>1, <1>2

(* What mem_release and the sweep do to it: the buffer at b becomes its    *)
(* first.                                                                  *)
PutBack(b) ==
  /\ owner' = Marked(0, b, Span)
  /\ count' = [c \in Chunks |-> IF c \in Run(b, Span) THEN 0 ELSE count[c]]
  /\ nxt' = [nxt EXCEPT ![b + Span - 1] = firstMem]
  /\ pre'[b] = NULL
  /\ firstMem' = b
  /\ num' = num - Span
  /\ UNCHANGED wild

LEMMA ReleaseOnePuts ==
  ASSUME TypeOK, Span = 1, NEW b \in Chunks, ReleaseOne(b)
  PROVE  PutBack(b)
<1>1. b + Span - 1 = b /\ \A c \in Chunks : c \in Run(b, Span) <=> c = b
  BY DEF Run, Chunks
<1> QED
  BY <1>1 DEF ReleaseOne, Relinked, NumAfter, PutBack, Marked, TypeOK

LEMMA ReleasePuts ==
  ASSUME TypeOK, ListInv, Disciplined,
         NEW p \in Procs, NEW h \in holds[p], MemRelease(p, h),
         h[1] \in Bases, ~Free(h[1])
  PROVE  \/ PutBack(h[1])
         \/ Span # 1 /\ h[1] + Span \notin Chunks /\ wild' = TRUE /\ UNCHANGED pool
<1> DEFINE b == h[1]
<1>1. /\ b \in Bases /\ b \in Chunks /\ count[b] = Span
      /\ Span \in Nat \ {0}
  BY SpanOfSizes DEF ListInv, Bases
<1>2. CASE Span = 1
  <2>1. ReleaseOne(b)
    BY <1>1, <1>2 DEF MemRelease
  <2> QED
    BY <1>1, <1>2, <2>1, ReleaseOnePuts
<1>3. CASE Span # 1
  <2>1. ReleaseRun(b)
    BY <1>1, <1>3 DEF MemRelease
  <2> HIDE DEF b
  <2>2. CASE b + Span \in Chunks
    <3>1. b + Span # 0 /\ b + Span # b
      BY <1>1 DEF Chunks
    <3>2. /\ owner' = Marked(0, b, Span)
          /\ count' = [c \in Chunks |-> IF c \in Run(b, Span) THEN 0 ELSE count[c]]
          /\ nxt' = [nxt EXCEPT ![b + Span - 1] = firstMem]
          /\ pre' = [pre EXCEPT ![b + Span] = b + Span - 1, ![b] = NULL]
          /\ firstMem' = b /\ num' = num - Span /\ UNCHANGED wild
      BY <1>1, <2>1, <2>2, <3>1 DEF ReleaseRun, Relinked, NumAfter, Marked
    <3>3. pre'[b] = NULL
      BY <1>1, <3>1, <3>2 DEF TypeOK
    <3> QED
      BY <3>2, <3>3 DEF PutBack, b
  <2>3. CASE b + Span \notin Chunks
    BY <1>1, <1>3, <2>1, <2>3 DEF ReleaseRun, b
  <2> QED
    BY <2>2, <2>3
<1> QED
  BY <1>2, <1>3

(* Two buffers have no chunk in common, and each its own last chunk.       *)
LEMMA RunsApart ==
  ASSUME Span \in Nat \ {0}, NEW b \in Bases, NEW d \in Bases
  PROVE  /\ b # d => Run(b, Span) \intersect Run(d, Span) = {}
         /\ b \in Run(b, Span)
         /\ d \in Run(b, Span) <=> d = b
         /\ b + Span - 1 = d + Span - 1 <=> b = d
         /\ Whole(b) => b + Span - 1 \in Chunks
<1>1. b \in Nat /\ d \in Nat /\ b \in Chunks /\ d \in Chunks
  BY DEF Bases, Chunks
<1>2. b < d => b + Span <= d
  BY BaseFacts
<1>3. d < b => d + Span <= b
  BY BaseFacts
<1> QED
  BY <1>1, <1>2, <1>3, PoolAssumption DEF Run, Whole, Chunks

LEMMA ListTake ==
  ASSUME TypeOK, ListInv, Disciplined, NEW p \in Procs, TakeFirst(p)
  PROVE  /\ ListInv'
         /\ \A b \in Bases : owner'[b] = IF b = firstMem THEN p ELSE owner[b]
         /\ Run(firstMem, Span) \intersect Busy = {}
         /\ Busy' = Busy \union Run(firstMem, Span)
<1> DEFINE f == firstMem
<1>1. p # 0 /\ Span \in Nat \ {0} /\ Bases \subseteq Chunks
  BY SpanOfSizes DEF Procs, Bases
<1>2. /\ f \in Bases /\ Whole(f) /\ After(f) \in Bases /\ Free(f) /\ Free(After(f))
      /\ After(f) # f /\ f # NULL /\ After(f) # NULL
  <2>1. f \in Bases /\ Whole(f) /\ f # NULL /\ After(f) # NULL
    BY <1>1 DEF TakeFirst, Chunks, NULL
  <2> QED
    BY <2>1 DEF ListInv
<1> HIDE DEF f
<1>3. /\ \A c \in Chunks : owner'[c] = IF c \in Run(f, Span) THEN p ELSE owner[c]
      /\ \A c \in Chunks : count'[c] = IF c \in Run(f, Span) THEN Span ELSE count[c]
      /\ firstMem' = After(f) /\ pre'[After(f)] = NULL
  BY <1>1, <1>2 DEF TakeFirst, Marked, TypeOK, f
<1>4. \A b \in Bases : owner'[b] = IF b = f THEN p ELSE owner[b]
  BY <1>1, <1>2, <1>3, RunsApart
<1>5. \A b \in Bases : Whole(b) => After(b)' = IF b = f THEN NULL ELSE After(b)
  <2> SUFFICES ASSUME NEW b \in Bases, Whole(b)
               PROVE  nxt'[b + Span - 1] = IF b = f THEN NULL ELSE nxt[b + Span - 1]
    BY DEF After
  <2>1. b + Span - 1 \in Chunks /\ (b + Span - 1 = f + Span - 1 <=> b = f)
    BY <1>1, <1>2, RunsApart
  <2> QED
    BY <2>1 DEF TakeFirst, TypeOK, f
<1>6. \A c \in Chunks : count'[c] = IF owner'[c] = 0 THEN 0 ELSE Span
  BY <1>1, <1>3 DEF ListInv, Free
<1>7. \A b \in Bases, c \in Chunks : c \in Run(b, Span) => owner'[c] = owner'[b]
  <2> SUFFICES ASSUME NEW b \in Bases, NEW c \in Chunks, c \in Run(b, Span)
               PROVE  owner'[c] = owner'[b]
    OBVIOUS
  <2>1. owner[c] = owner[b]
    BY DEF ListInv
  <2>2. c \in Run(f, Span) <=> b = f
    BY <1>1, <1>2, RunsApart
  <2> QED
    BY <1>3, <1>4, <2>1, <2>2
<1>8. ListInv'
  <2>1. \A b \in Bases : ~Free(b)' => Whole(b)
    BY <1>2, <1>4 DEF ListInv, Free
  <2>2. firstMem' \in Bases /\ Free(firstMem)' /\ pre'[firstMem'] = NULL
    BY <1>2, <1>3, <1>4 DEF Free
  <2>3. ASSUME NEW b \in Bases, Free(b)', Whole(b), After(b)' # NULL
        PROVE  After(b)' \in Bases /\ Free(After(b)') /\ owner'[After(b)'] = 0
               /\ After(b)' # firstMem'
    <3>1. b # f /\ After(b)' = After(b) /\ Free(b) /\ After(b) # NULL
      BY <1>1, <1>4, <1>5, <2>3 DEF Free
    <3>2. After(b) \in Bases /\ Free(After(b)) /\ After(b) # f /\ After(b) # After(f)
      BY <1>2, <2>3, <3>1 DEF ListInv, f
    <3> QED
      BY <1>3, <1>4, <3>1, <3>2 DEF Free
  <2>4. \A b, d \in Bases :
          Free(b)' /\ Free(d)' /\ Whole(b) /\ Whole(d)
            /\ After(b)' = After(d)' /\ After(b)' # NULL => b = d
    BY <1>1, <1>4, <1>5 DEF ListInv, Free
  <2> QED
    BY <1>6, <1>7, <2>1, <2>2, <2>3, <2>4 DEF ListInv, Free, Whole
<1>9. Run(f, Span) \subseteq Chunks
  BY <1>1, <1>2, PoolAssumption DEF Run, Whole, Chunks
<1>10. \A c \in Run(f, Span) : Free(c)
  BY <1>2, <1>9 DEF ListInv, Free
<1> QED
  BY <1>1, <1>3, <1>4, <1>8, <1>9, <1>10 DEF Busy, Free, f

LEMMA ListPut ==
  ASSUME TypeOK, ListInv, Disciplined, NEW b \in Bases, ~Free(b), PutBack(b)
  PROVE  /\ ListInv'
         /\ \A d \in Bases : owner'[d] = IF d = b THEN 0 ELSE owner[d]
         /\ Run(b, Span) \subseteq Busy
         /\ Busy' = Busy \ Run(b, Span)
<1>1. Span \in Nat \ {0} /\ Bases \subseteq Chunks /\ Whole(b)
  BY SpanOfSizes DEF Bases, ListInv
<1>2. firstMem # b /\ \A d \in Bases : Free(d) /\ Whole(d) => After(d) # b
  BY <1>1 DEF ListInv, Bases, Chunks, NULL
<1>3. /\ \A c \in Chunks : owner'[c] = IF c \in Run(b, Span) THEN 0 ELSE owner[c]
      /\ \A c \in Chunks : count'[c] = IF c \in Run(b, Span) THEN 0 ELSE count[c]
      /\ firstMem' = b /\ pre'[b] = NULL
  BY DEF PutBack, Marked
<1>4. \A d \in Bases : owner'[d] = IF d = b THEN 0 ELSE owner[d]
  BY <1>1, <1>3, RunsApart
<1>5. \A d \in Bases : Whole(d) => After(d)' = IF d = b THEN firstMem ELSE After(d)
  <2> SUFFICES ASSUME NEW d \in Bases, Whole(d)
               PROVE  nxt'[d + Span - 1] = IF d = b THEN firstMem ELSE nxt[d + Span - 1]
    BY DEF After
  <2>1. d + Span - 1 \in Chunks /\ (d + Span - 1 = b + Span - 1 <=> d = b)
    BY <1>1, RunsApart
  <2> QED
    BY <2>1 DEF PutBack, TypeOK
<1>6. \A c \in Chunks : count'[c] = IF owner'[c] = 0 THEN 0 ELSE Span
  BY <1>1, <1>3 DEF ListInv, Free
<1>7. \A d \in Bases, c \in Chunks : c \in Run(d, Span) => owner'[c] = owner'[d]
  <2> SUFFICES ASSUME NEW d \in Bases, NEW c \in Chunks, c \in Run(d, Span)
               PROVE  owner'[c] = owner'[d]
    OBVIOUS
  <2>1. owner[c] = owner[d]
    BY DEF ListInv
  <2>2. c \in Run(b, Span) <=> d = b
    BY <1>1, RunsApart
  <2> QED
    BY <1>3, <1>4, <2>1, <2>2
<1>8. ListInv'
  <2>1. \A d \in Bases : ~Free(d)' => Whole(d)
    BY <1>4 DEF ListInv, Free
  <2>2. firstMem' \in Bases /\ Free(firstMem)' /\ pre'[firstMem'] = NULL
    BY <1>3, <1>4 DEF Free
  <2>3. ASSUME NEW d \in Bases, Free(d)', Whole(d), After(d)' # NULL
        PROVE  After(d)' \in Bases /\ owner'[After(d)'] = 0 /\ After(d)' # firstMem'
    <3>1. CASE d = b
      BY <1>2, <1>3, <1>4, <1>5, <2>3, <3>1 DEF ListInv, Free
    <3>2. CASE d # b
      BY <1>2, <1>3, <1>4, <1>5, <2>3, <3>2 DEF ListInv, Free
    <3> QED
      BY <3>1, <3>2
  <2>4. ASSUME NEW d \in Bases, NEW e \in Bases, Free(d)', Free(e)', Whole(d), Whole(e),
               After(d)' = After(e)', After(d)' # NULL, d # e
        PROVE  FALSE
    <3>1. \A x \in {d, e} : x # b => Free(x) /\ After(x)' = After(x)
      BY <1>4, <1>5, <2>4 DEF Free
    <3>2. After(b)' = firstMem
      BY <1>1, <1>5
    <3>3. firstMem # NULL => \A x \in Bases : Free(x) /\ Whole(x) => After(x) # firstMem
      BY DEF ListInv, Chunks, NULL
    <3> QED
      BY <2>4, <3>1, <3>2, <3>3 DEF ListInv
  <2> QED
    BY <1>6, <1>7, <2>1, <2>2, <2>3, <2>4 DEF ListInv, Free, Whole
<1>9. Run(b, Span) \subseteq Chunks
  BY <1>1, PoolAssumption DEF Run, Whole, Bases, Chunks
<1>10. \A c \in Run(b, Span) : ~Free(c)
  BY <1>9 DEF ListInv, Free
<1> QED
  BY <1>3, <1>4, <1>8, <1>9, <1>10 DEF Busy, Free

-----------------------------------------------------------------------------
(* The holders *)

LEMMA OneBuffer ==
  ASSUME TypeOK, HoldInv, NEW p \in Procs, NEW h \in holds[p]
  PROVE  h[1] \in Bases /\ h = <<h[1], Span>> /\ Has(p, h[1])
<1>1. h \in Chunks \X (0 .. C) /\ h[1] \in Bases /\ h[2] = Span
  BY DEF TypeOK, HoldInv
<1> QED
  BY <1>1 DEF Has

LEMMA BusyFinite == IsFiniteSet(Busy) /\ Cardinality(Busy) \in Nat
<1>1. IsFiniteSet(Chunks)
  BY FS_Interval, PoolAssumption DEF Chunks
<1>2. Busy \subseteq Chunks
  BY DEF Busy
<1> QED
  BY <1>1, <1>2, FS_Subset, FS_CardinalityType

LEMMA RunCounts ==
  ASSUME Span \in Nat \ {0}, NEW b \in Bases
  PROVE  IsFiniteSet(Run(b, Span)) /\ Cardinality(Run(b, Span)) = Span
<1>1. b \in Int /\ b + Span - 1 \in Int /\ ~(b > b + Span - 1)
  BY DEF Bases, Chunks
<1> QED
  BY <1>1, FS_Interval DEF Run

(* The count of num_buf_in_use follows the chunks in use.                  *)
LEMMA CountUp ==
  ASSUME Disciplined, NEW b \in Bases, Run(b, Span) \intersect Busy = {},
         Busy' = Busy \union Run(b, Span), num = Cardinality(Busy), num' = num + Span
  PROVE  num' = Cardinality(Busy')
<1> DEFINE R == Run(b, Span)
<1>1. Span \in Nat \ {0} /\ IsFiniteSet(R) /\ Cardinality(R) = Span
  BY SpanOfSizes, RunCounts
<1>2. Busy \intersect R = {}
  OBVIOUS
<1> HIDE DEF R
<1>3. Cardinality(Busy \union R) = Cardinality(Busy) + Cardinality(R) - Cardinality({})
  BY <1>1, <1>2, BusyFinite, FS_Union
<1> QED
  BY <1>1, <1>3, BusyFinite, FS_EmptySet DEF R

LEMMA CountDown ==
  ASSUME Disciplined, NEW b \in Bases, Run(b, Span) \subseteq Busy,
         Busy' = Busy \ Run(b, Span), num = Cardinality(Busy), num' = num - Span
  PROVE  num' = Cardinality(Busy')
<1> DEFINE R == Run(b, Span)
<1>1. Span \in Nat \ {0} /\ Cardinality(R) = Span
  BY SpanOfSizes, RunCounts
<1>2. Busy \intersect R = R
  OBVIOUS
<1> HIDE DEF R
<1>3. Cardinality(Busy \ R) = Cardinality(Busy) - Cardinality(R)
  BY <1>2, BusyFinite, FS_Difference
<1> QED
  BY <1>1, <1>3 DEF R

LEMMA BusyCounts ==
  ASSUME PoolInv, NEW c \in Chunks, ~Free(c)
  PROVE  num # 0
BY BusyFinite, FS_EmptySet DEF PoolInv, Busy

LEMMA KeeperFacts ==
  Mortal \subseteq Procs /\ (Keeping => Keeper \in Procs /\ Keeper \notin Mortal)
BY WorkloadAssumption DEF Keeping, Procs

(* While the keeper is served the pool is not empty.                       *)
LEMMA NeverEmpty ==
  ASSUME PoolInv, Disciplined, Keeping, request
  PROVE  num # 0
<1>1. Keeper \in Procs /\ Bases \subseteq Chunks
  BY KeeperFacts DEF Bases
<1>2. \E c : c \in Busy
  <2>1. CASE holds[Keeper] # {}
    <3>1. PICK h \in holds[Keeper] : TRUE
      BY <2>1
    <3>2. h[1] \in Bases /\ Has(Keeper, h[1])
      BY <1>1, <3>1, OneBuffer DEF PoolInv, TypeInv
    <3> QED
      BY <1>1, <3>2 DEF PoolInv, HoldInv, Busy
  <2>2. CASE pc[Keeper] = "got"
    <3>1. firstOfList \in Chunks /\ owner[firstOfList] # 0
      BY <1>1, <2>2 DEF PoolInv, TypeInv, HoldInv, Procs
    <3> QED
      BY <3>1 DEF Busy, Free
  <2> QED
    BY <2>1, <2>2 DEF PoolInv, SupInv
<1> QED
  BY <1>2, BusyFinite, FS_EmptySet DEF PoolInv

(* The steps of PoolInv, one lemma for each part of a call.                *)
LEMMA PoolGet ==
  ASSUME PoolInv, Disciplined, NEW p \in Procs, NEW size \in Sizes,
         MemGet(p, size), TakeFirst(p)
  PROVE  ListInv' /\ HoldInv' /\ SupInv' /\ num' = Cardinality(Busy')
<1> USE DEF PoolInv, TypeInv
<1>1. ListInv' /\ num' = Cardinality(Busy')
  BY ListTake, CountUp DEF TakeFirst
<1>2. pc[p] = "run" /\ (\A q \in Procs : pc[q] # "got")
  BY DEF MemGet, CanRun, MyTurn, Disciplined
<1>3. \A q \in Procs : pc'[q] = IF q = p THEN "got" ELSE pc[q]
  BY DEF TakeFirst, TypeOK
<1>4. \A c \in Bases : owner'[c] = IF c = firstMem THEN p ELSE owner[c]
  BY ListTake
<1>5. Free(firstMem) /\ firstMem \in Bases
  <2>1. firstMem # NULL
    BY DEF TakeFirst, Bases, Chunks, NULL
  <2> QED
    BY <2>1 DEF ListInv
<1>6. \A q \in Procs : ~Has(q, firstMem)
  BY <1>5 DEF HoldInv
<1>7. asked'[p] = Span /\ firstOfList' = firstMem /\ holds' = holds
      /\ owner'[firstMem] = p /\ p # 0
  BY <1>4, <1>5 DEF TakeFirst, TypeOK, Procs
<1>8. HoldInv'
  <2>1. \A q \in Procs : \A h \in holds'[q] : h[1] \in Bases /\ h[2] = Span
    BY <1>7 DEF HoldInv
  <2>2. ASSUME NEW q \in Procs, NEW c \in Bases, Has(q, c)'
        PROVE  (~Free(c) /\ (owner[c] = q \/ owner[c] \notin Mortal))'
    <3>1. Has(q, c)
      BY <1>7, <2>2 DEF Has
    <3>2. c # firstMem /\ ~Free(c) /\ (owner[c] = q \/ owner[c] \notin Mortal)
      BY <1>6, <3>1 DEF HoldInv
    <3>3. owner'[c] = owner[c]
      BY <1>4, <3>2
    <3> QED
      BY <3>2, <3>3 DEF Free
  <2>3. \A q, r \in Procs, c \in Bases : Has(q, c)' /\ Has(r, c)' => q = r
    BY <1>7 DEF HoldInv, Has
  <2>4. \A q \in Procs :
          pc'[q] = "got" => /\ asked'[q] = Span /\ firstOfList' \in Bases
                            /\ owner'[firstOfList'] = q
                            /\ \A r \in Procs : ~Has(r, firstOfList)'
    BY <1>2, <1>3, <1>5, <1>6, <1>7 DEF Has
  <2>5. \A q, r \in Procs : pc'[q] = "got" /\ pc'[r] = "got" => q = r
    BY <1>2, <1>3
  <2>6. \A q \in Procs : pc'[q] \in {"faulted", "finished"} => holds'[q] = {}
    BY <1>3, <1>7 DEF HoldInv
  <2> QED
    BY <2>1, <2>2, <2>3, <2>4, <2>5, <2>6 DEF HoldInv
<1>9. SupInv'
  <2>1. Mortal \subseteq Procs /\ UNCHANGED <<sup, failed, victim>>
    BY KeeperFacts DEF MemGet, supervisor
  <2>2. Keeping => holds'[Keeper] # {} \/ pc'[Keeper] = "got"
    BY <1>3, <1>7 DEF MemGet, Settled, Keeping
  <2>3. sup # "defrag"
    BY DEF MemGet, MyTurn, SupInv
  <2> QED
    BY <1>2, <1>3, <2>1, <2>2, <2>3 DEF SupInv
<1> QED
  BY <1>1, <1>8, <1>9

LEMMA PoolReturn ==
  ASSUME PoolInv, Disciplined, NEW p \in Procs, MemGetReturn(p)
  PROVE  ListInv' /\ HoldInv' /\ SupInv' /\ num' = Cardinality(Busy')
<1> USE DEF PoolInv, TypeInv
<1>1. /\ UNCHANGED <<nxt, pre, count, owner, firstMem, num, firstOfList, request>>
      /\ UNCHANGED <<sup, failed, victim>>
  BY DEF MemGetReturn, pool, supervisor
<1>2. ListInv' /\ num' = Cardinality(Busy')
  BY <1>1 DEF ListInv, Busy, Free, After, Whole
<1> DEFINE f == firstOfList
<1>3. /\ pc[p] = "got" /\ asked[p] = Span /\ f \in Bases /\ owner[f] = p
      /\ \A q \in Procs : ~Has(q, f)
  BY DEF MemGetReturn, HoldInv
<1>4. \A q \in Procs : pc'[q] = IF q = p THEN "run" ELSE pc[q]
  BY DEF MemGetReturn, TypeOK
<1>5. \A q \in Procs : holds'[q] = IF q = p THEN holds[p] \union {<<f, Span>>} ELSE holds[q]
  BY <1>3 DEF MemGetReturn, TypeOK
<1>6. \A q \in Procs, c \in Bases : Has(q, c)' <=> Has(q, c) \/ (q = p /\ c = f)
  BY <1>5 DEF Has
<1>7. HoldInv'
  <2>1. \A q \in Procs : \A h \in holds'[q] : h[1] \in Bases /\ h[2] = Span
    BY <1>3, <1>5 DEF HoldInv
  <2>2. ASSUME NEW q \in Procs, NEW c \in Bases, Has(q, c)'
        PROVE  (~Free(c) /\ (owner[c] = q \/ owner[c] \notin Mortal))'
    <3>1. p # 0 /\ owner' = owner
      BY <1>1 DEF Procs
    <3> QED
      BY <1>3, <1>6, <2>2, <3>1 DEF HoldInv, Free
  <2>3. \A q, r \in Procs, c \in Bases : Has(q, c)' /\ Has(r, c)' => q = r
    BY <1>3, <1>6 DEF HoldInv
  <2>4. \A q \in Procs : pc'[q] # "got"
    BY <1>3, <1>4 DEF HoldInv
  <2>5. \A q \in Procs : pc'[q] \in {"faulted", "finished"} => holds'[q] = {}
    BY <1>4, <1>5 DEF HoldInv
  <2> QED
    BY <2>1, <2>2, <2>3, <2>4, <2>5 DEF HoldInv
<1>8. SupInv'
  <2>1. Mortal \subseteq Procs /\ (Keeping => Keeper \in Procs)
    BY KeeperFacts
  <2>2. Keeping /\ (holds[Keeper] # {} \/ pc[Keeper] = "got")
          => holds'[Keeper] # {} \/ pc'[Keeper] = "got"
    BY <1>4, <1>5, <2>1
  <2> QED
    BY <1>1, <1>3, <1>4, <2>1, <2>2 DEF SupInv
<1> QED
  BY <1>2, <1>7, <1>8

LEMMA PoolRelease ==
  ASSUME PoolInv, Disciplined, NEW p \in Procs, NEW h \in holds[p],
         MemRelease(p, h)
  PROVE  ListInv' /\ HoldInv' /\ SupInv' /\ num' = Cardinality(Busy')
<1> USE DEF PoolInv, TypeInv
<1> DEFINE c == h[1]
<1>1. c \in Bases /\ h = <<c, Span>> /\ Has(p, c) /\ ~Free(c)
  BY OneBuffer DEF HoldInv
<1>2. holds' = [holds EXCEPT ![p] = @ \ {h}] /\ (p = Keeper => holds[p] # {h})
  BY DEF MemRelease
<1>3. UNCHANGED <<firstOfList, request, pc, asked, sup, failed, victim>>
  BY DEF MemRelease, supervisor
<1>4. /\ ListInv' /\ num' = Cardinality(Busy')
      /\ \A d \in Bases : d # c => owner'[d] = owner[d]
  <2>1. CASE PutBack(c)
    BY <1>1, <2>1, ListPut, CountDown DEF PutBack
  <2>2. CASE UNCHANGED pool
    BY <2>2 DEF ListInv, Busy, Free, After, Whole, pool
  <2> QED
    BY <1>1, <2>1, <2>2, ReleasePuts
<1> HIDE DEF c
<1>6. \A q \in Procs : holds'[q] = IF q = p THEN holds[p] \ {<<c, Span>>} ELSE holds[q]
  BY <1>1, <1>2 DEF TypeOK
<1>7. \A q \in Procs, d \in Bases : Has(q, d)' <=> Has(q, d) /\ d # c
  BY <1>1, <1>6 DEF Has, HoldInv
<1>8. HoldInv'
  <2>1. \A q \in Procs : \A k \in holds'[q] : k[1] \in Bases /\ k[2] = Span
    BY <1>6 DEF HoldInv
  <2>2. ASSUME NEW q \in Procs, NEW d \in Bases, Has(q, d)'
        PROVE  (~Free(d) /\ (owner[d] = q \/ owner[d] \notin Mortal))'
    BY <1>4, <1>7, <2>2 DEF HoldInv, Free
  <2>3. \A q, r \in Procs, d \in Bases : Has(q, d)' /\ Has(r, d)' => q = r
    BY <1>7 DEF HoldInv
  <2>4. ASSUME NEW q \in Procs, pc[q] = "got"
        PROVE  /\ asked[q] = Span /\ firstOfList \in Bases
               /\ owner'[firstOfList] = q
               /\ \A r \in Procs : ~<<firstOfList, Span>> \in holds'[r]
    <3>1. firstOfList \in Bases /\ firstOfList # c
      BY <1>1, <2>4 DEF HoldInv
    <3>2. \A r \in Procs : ~<<firstOfList, Span>> \in holds'[r]
      BY <1>7, <2>4, <3>1 DEF HoldInv, Has
    <3> QED
      BY <1>4, <2>4, <3>1, <3>2 DEF HoldInv
  <2>5. \A q \in Procs : pc[q] \in {"faulted", "finished"} => holds'[q] = {}
    BY <1>6 DEF HoldInv
  <2> QED
    BY <1>3, <2>1, <2>2, <2>3, <2>4, <2>5 DEF HoldInv, Has
<1>9. SupInv'
  <2>1. Keeping => Keeper \in Procs
    BY KeeperFacts
  <2>2. Keeping /\ holds[Keeper] # {} => holds'[Keeper] # {}
    BY <1>1, <1>2, <1>6, <2>1
  <2>3. sup # "defrag"
    BY <1>1, BusyCounts DEF SupInv, Bases
  <2> QED
    BY <1>3, <2>1, <2>2, <2>3 DEF SupInv
<1> QED
  BY <1>4, <1>8, <1>9

LEMMA PoolSend ==
  ASSUME PoolInv, Disciplined, NEW p \in Procs, p \in Senders,
         NEW q \in Procs, NEW h \in holds[p], Send(p, q, h)
  PROVE  ListInv' /\ HoldInv' /\ SupInv' /\ num' = Cardinality(Busy')
<1> USE DEF PoolInv, TypeInv
<1>1. /\ UNCHANGED <<nxt, pre, count, owner, firstMem, num, firstOfList, request>>
      /\ UNCHANGED <<sup, failed, victim, pc, asked>>
  BY DEF Send, pool, supervisor
<1>2. ListInv' /\ num' = Cardinality(Busy')
  BY <1>1 DEF ListInv, Busy, Free, After, Whole
<1>3. PICK c \in Bases : h = <<c, Span>> /\ Has(p, c) /\ ~Free(c) /\ owner[c] \notin Mortal
  <2>1. p \notin Mortal
    BY DEF Disciplined
  <2>2. h[1] \in Bases /\ h = <<h[1], Span>> /\ Has(p, h[1])
    BY OneBuffer
  <2>3. ~Free(h[1]) /\ (owner[h[1]] = p \/ owner[h[1]] \notin Mortal)
    BY <2>2 DEF HoldInv
  <2> QED
    BY <2>1, <2>2, <2>3
<1>4. p # q /\ pc[p] = "run" /\ pc[q] = "run" /\ (p = Keeper => holds[p] # {h})
  BY DEF Send, CanRun
<1>5. \A r \in Procs : holds'[r] = IF r = p THEN holds[p] \ {h}
                                   ELSE IF r = q THEN holds[q] \union {h}
                                   ELSE holds[r]
  BY <1>4 DEF Send, TypeOK
<1>6. \A r \in Procs, d \in Bases :
        Has(r, d)' <=> (Has(r, d) /\ d # c) \/ (r = q /\ d = c)
  <2>1. \A r \in Procs : Has(r, c) => r = p
    BY <1>3 DEF HoldInv
  <2>2. \A d \in Bases : <<d, Span>> = h <=> d = c
    BY <1>3
  <2> QED
    BY <1>4, <1>5, <2>1, <2>2 DEF Has
<1>7. HoldInv'
  <2>1. \A r \in Procs : \A k \in holds'[r] : k[1] \in Bases /\ k[2] = Span
    BY <1>5 DEF HoldInv
  <2>2. ASSUME NEW r \in Procs, NEW d \in Bases, Has(r, d)'
        PROVE  (~Free(d) /\ (owner[d] = r \/ owner[d] \notin Mortal))'
    BY <1>1, <1>3, <1>6, <2>2 DEF HoldInv, Free
  <2>3. \A r, t \in Procs, d \in Bases : Has(r, d)' /\ Has(t, d)' => r = t
    BY <1>6 DEF HoldInv
  <2>4. ASSUME NEW r \in Procs, pc[r] = "got"
        PROVE  /\ asked[r] = Span /\ firstOfList \in Bases /\ owner[firstOfList] = r
               /\ \A t \in Procs : ~<<firstOfList, Span>> \in holds'[t]
    <3>1. firstOfList \in Bases /\ firstOfList # c
      BY <1>3, <2>4 DEF HoldInv
    <3> QED
      BY <1>6, <2>4, <3>1 DEF HoldInv, Has
  <2>5. \A r \in Procs : pc[r] \in {"faulted", "finished"} => holds'[r] = {}
    BY <1>4, <1>5 DEF HoldInv
  <2>6. \A r, t \in Procs : pc[r] = "got" /\ pc[t] = "got" => r = t
    BY DEF HoldInv
  <2> QED
    BY <1>1, <2>1, <2>2, <2>3, <2>4, <2>5, <2>6 DEF HoldInv, Has
<1>8. SupInv'
  <2>1. Keeping => Keeper \in Procs
    BY KeeperFacts
  <2>2. Keeping /\ holds[Keeper] # {} => holds'[Keeper] # {}
    BY <1>4, <1>5, <2>1
  <2> QED
    BY <1>1, <2>1, <2>2 DEF SupInv
<1> QED
  BY <1>2, <1>7, <1>8

LEMMA PoolDeath ==
  ASSUME PoolInv, Disciplined, NEW p \in Procs, p \in Mortal,
         Fault(p) \/ Finish(p)
  PROVE  ListInv' /\ HoldInv' /\ SupInv' /\ num' = Cardinality(Busy')
<1> USE DEF PoolInv, TypeInv
<1>1. /\ UNCHANGED <<nxt, pre, count, owner, firstMem, num, firstOfList, request>>
      /\ UNCHANGED <<sup, victim>>
  BY DEF Fault, Finish, pool, supervisor
<1>2. ListInv' /\ num' = Cardinality(Busy')
  BY <1>1 DEF ListInv, Busy, Free, After, Whole
<1>3. /\ \A r \in Procs : holds'[r] = IF r = p THEN {} ELSE holds[r]
      /\ \A r \in Procs : r # p => pc'[r] = pc[r] /\ asked'[r] = asked[r]
      /\ pc[p] \in {"run", "got"} /\ pc'[p] \in {"faulted", "finished"}
      /\ failed' = failed \/ (failed' = p /\ pc'[p] = "faulted")
  BY DEF Fault, Finish, CanRun, TypeOK, supervisor
<1>4. \A r \in Procs, d \in Bases : Has(r, d)' => Has(r, d)
  BY <1>3 DEF Has
<1>5. HoldInv'
  <2>1. \A r \in Procs : \A k \in holds'[r] : k[1] \in Bases /\ k[2] = Span
    BY <1>3 DEF HoldInv
  <2>2. ASSUME NEW r \in Procs, NEW d \in Bases, Has(r, d)'
        PROVE  (~Free(d) /\ (owner[d] = r \/ owner[d] \notin Mortal))'
    BY <1>1, <1>4, <2>2 DEF HoldInv, Free
  <2>3. \A r, t \in Procs, d \in Bases : Has(r, d)' /\ Has(t, d)' => r = t
    BY <1>4 DEF HoldInv
  <2>4. ASSUME NEW r \in Procs, pc'[r] = "got"
        PROVE  /\ asked'[r] = Span /\ firstOfList \in Bases
               /\ owner[firstOfList] = r
               /\ \A t \in Procs : ~<<firstOfList, Span>> \in holds'[t]
    BY <1>3, <2>4 DEF HoldInv, Has
  <2>5. \A r \in Procs : pc'[r] \in {"faulted", "finished"} => holds'[r] = {}
    BY <1>3 DEF HoldInv
  <2>6. \A r, t \in Procs : pc'[r] = "got" /\ pc'[t] = "got" => r = t
    BY <1>3 DEF HoldInv
  <2> QED
    BY <1>1, <2>1, <2>2, <2>3, <2>4, <2>5, <2>6 DEF HoldInv, Has
<1>6. SupInv'
  <2>1. (Keeping => Keeper \in Procs /\ Keeper # p) /\ Mortal \subseteq Procs
    BY KeeperFacts
  <2>2. victim # 0 => victim # p /\ pc'[victim] = "faulted"
    BY <1>3, <2>1 DEF SupInv
  <2>3. failed' # 0 => failed' \in Mortal /\ pc'[failed'] = "faulted"
    BY <1>3, <2>1 DEF SupInv
  <2> QED
    BY <1>1, <1>3, <2>1, <2>2, <2>3 DEF SupInv
<1> QED
  BY <1>2, <1>5, <1>6

LEMMA PoolSweep ==
  ASSUME PoolInv, Disciplined, SupSweep
  PROVE  ListInv' /\ HoldInv' /\ SupInv' /\ num' = Cardinality(Busy')
<1> USE DEF PoolInv, TypeInv
<1>1. /\ UNCHANGED <<firstOfList, request, failed, victim, pc, asked, holds>>
      /\ sup = "sweep" /\ sup' \in {"sweep", "clear"} /\ at \in Chunks
  BY DEF SupSweep, process, TypeOK
<1>2. SupInv'
  BY <1>1 DEF SupInv
<1>3. CASE Orphaned(at)
  <2>1. ReleaseOne(at) /\ owner[at] = victim /\ victim # 0 /\ victim \in Mortal
        /\ victim \in Procs /\ pc[victim] = "faulted"
    BY <1>1, <1>3, WorkloadAssumption DEF SupSweep, Orphaned, SupInv, Procs
  <2>2. ~Free(at)
    BY <2>1 DEF Free
  <2>9. Span = 1 /\ at \in Bases /\ PutBack(at)
    BY <1>1, <2>1, BaseFacts, ReleaseOnePuts DEF Disciplined
  <2>3. ListInv' /\ num' = Cardinality(Busy')
    BY <2>2, <2>9, ListPut, CountDown DEF PutBack
  <2>4. \A d \in Bases : owner'[d] = IF d = at THEN 0 ELSE owner[d]
    BY <2>2, <2>9, ListPut
  <2>5. \A r \in Procs : ~Has(r, at)
    BY <2>1, <2>9 DEF HoldInv, Has
  <2>6. ASSUME NEW r \in Procs, NEW d \in Bases, Has(r, d)'
        PROVE  (~Free(d) /\ (owner[d] = r \/ owner[d] \notin Mortal))'
    <3>1. Has(r, d) /\ d # at
      BY <1>1, <2>5, <2>6 DEF Has
    <3> QED
      BY <2>4, <3>1 DEF HoldInv, Free
  <2>7. ASSUME NEW r \in Procs, pc[r] = "got"
        PROVE  asked[r] = Span /\ firstOfList \in Bases /\ owner'[firstOfList] = r
    <3>1. firstOfList # at /\ firstOfList \in Bases
      BY <2>1, <2>7 DEF HoldInv
    <3> QED
      BY <2>4, <2>7, <3>1 DEF HoldInv
  <2>8. HoldInv'
    BY <1>1, <2>6, <2>7 DEF HoldInv, Has
  <2> QED
    BY <1>2, <2>3, <2>8
<1>4. CASE ~Orphaned(at)
  <2>1. UNCHANGED <<nxt, pre, count, owner, firstMem, num>>
    BY <1>4 DEF SupSweep, pool
  <2> QED
    BY <1>1, <1>2, <2>1 DEF ListInv, HoldInv, Has, Busy, Free, After, Whole
<1> QED
  BY <1>3, <1>4

(* All the chunks linked in the order of their addresses, as A_mem_init    *)
(* and defrag_mem leave them, are a well-formed list if all are free.      *)
LEMMA FreshList == ASSUME Disciplined PROVE Fresh => ListInv
<1> SUFFICES ASSUME Fresh PROVE ListInv
  OBVIOUS
<1>1. /\ firstMem = 0 /\ pre[0] = NULL /\ 0 \in Chunks
      /\ \A c \in Chunks : owner[c] = 0 /\ count[c] = 0
      /\ \A c \in Chunks : nxt[c] = IF c = C - 1 THEN NULL ELSE c + 1
  BY InOrderType DEF Fresh, InOrderNxt, InOrderPre, Free, NULL
<1>2. Span \in Nat \ {0} /\ 0 \in Bases /\ Bases \subseteq Chunks
  BY SpanOfSizes, BaseFacts
<1>3. ASSUME NEW b \in Bases, Whole(b), After(b) # NULL
      PROVE  After(b) = b + Span /\ After(b) \in Bases
  <2>1. b + Span - 1 \in Chunks /\ b \in Nat
    BY <1>2, <1>3, RunsApart DEF Chunks
  <2>2. After(b) = b + Span /\ b + Span - 1 # C - 1
    <3>1. b + Span - 1 # C - 1
      BY <1>1, <1>3, <2>1 DEF After
    <3>2. After(b) = b + Span - 1 + 1
      BY <1>1, <2>1, <3>1 DEF After
    <3> QED
      BY <1>2, <2>1, <3>1, <3>2
  <2>3. b + Span \in Chunks
    BY <1>2, <2>1, <2>2, PoolAssumption DEF Chunks
  <2> QED
    BY <1>2, <2>2, <2>3, BaseFacts
<1>4. \A b \in Bases : b + Span # 0
  BY <1>2 DEF Chunks
<1>5. \A b, d \in Bases : b + Span = d + Span => b = d
  BY <1>2 DEF Chunks
<1> QED
  BY <1>1, <1>2, <1>3, <1>4, <1>5 DEF ListInv, Free

LEMMA FreshListNext == ASSUME Disciplined PROVE Fresh' => ListInv'
BY FreshList, PTL

LEMMA DefragFresh ==
  ASSUME PoolInv, Disciplined, Defrag
  PROVE  Fresh' /\ owner' = owner
<1>1. \A c \in Chunks : Free(c)
  BY BusyCounts DEF PoolInv, SupInv, Defrag
<1>2. UNCHANGED <<owner, count>>
  BY DEF Defrag
<1> QED
  BY <1>1, <1>2 DEF PoolInv, ListInv, Defrag, Fresh, Free

LEMMA PoolDefrag ==
  ASSUME PoolInv, Disciplined, Defrag
  PROVE  ListInv' /\ HoldInv' /\ SupInv' /\ num' = Cardinality(Busy')
<1>1. ListInv' /\ owner' = owner
  BY DefragFresh, FreshListNext
<1>2. /\ UNCHANGED <<num, firstOfList, failed, victim, pc, asked, holds>>
      /\ request' = FALSE /\ sup' = "failed?"
  BY DEF Defrag, process
<1>3. HoldInv'
  BY <1>1, <1>2 DEF PoolInv, HoldInv, Has, Free
<1>4. SupInv' /\ num' = Cardinality(Busy')
  BY <1>1, <1>2 DEF PoolInv, SupInv, Busy, Free
<1> QED
  BY <1>1, <1>3, <1>4

(* Nothing but the steps above changes the list or the holders.            *)
LEMMA PoolStep ==
  ASSUME PoolInv, Disciplined, [Next]_vars
  PROVE  PoolInv'
<1>0. TypeInv'
  BY TypeStep DEF PoolInv
<1> SUFFICES ListInv' /\ HoldInv' /\ SupInv' /\ num' = Cardinality(Busy')
  BY <1>0 DEF PoolInv
<1>1. ASSUME NEW p \in Procs, NEW size \in Sizes, MemGet(p, size)
      PROVE  ListInv' /\ HoldInv' /\ SupInv' /\ num' = Cardinality(Busy')
  <2>1. CASE TakeFirst(p)
    BY <1>1, <2>1, PoolGet
  <2>2. CASE /\ UNCHANGED pool /\ UNCHANGED process
             /\ UNCHANGED <<firstOfList, request>>
    <3>1. UNCHANGED supervisor
      BY <1>1 DEF MemGet
    <3> QED
      BY <2>2, <3>1 DEF PoolInv, ListInv, HoldInv, SupInv, Has, Busy, Free, After,
                        Whole, pool, process, supervisor
  <2> QED
    BY <1>1, <2>1, <2>2, GetTakesFirst DEF PoolInv, TypeInv
<1>2. CASE SupTest \/ SupCheck \/ SupClear
  <2>1. UNCHANGED pool /\ UNCHANGED process /\ UNCHANGED <<firstOfList, request>>
    BY <1>2 DEF SupTest, SupCheck, SupClear
  <2>2. SupInv'
    <3>1. DefragDue => Quiet /\ num = 0
      BY NeverEmpty DEF DefragDue, Disciplined
    <3>2. num' = num
      BY <2>1 DEF pool
    <3> QED
      BY <1>2, <2>1, <3>1, <3>2 DEF PoolInv, SupInv, SupTest, SupCheck, SupClear, process
  <2> QED
    BY <2>1, <2>2 DEF PoolInv, ListInv, HoldInv, Has, Busy, Free, After, Whole, pool,
                      process
<1>4. CASE UNCHANGED vars
  BY <1>4 DEF PoolInv, ListInv, HoldInv, SupInv, Has, Busy, Free, After, Whole,
              vars, pool, process, supervisor
<1> QED
  BY <1>1, <1>2, <1>4, PoolReturn, PoolRelease, PoolSend, PoolDeath,
     PoolSweep, PoolDefrag
  DEF Next, SupStep, ProcessStep

LEMMA PoolAlways == ASSUME Disciplined PROVE Spec => []PoolInv
<1>1. Init => TypeInv
  BY TypeInit
<1>2. Init => ListInv /\ Busy = {}
  BY FreshList DEF Init, Fresh, Busy, Free
<1>3. Init => HoldInv /\ SupInv
  BY DEF Init, HoldInv, SupInv, Has
<1>4. Init => PoolInv
  BY <1>1, <1>2, <1>3, FS_EmptySet DEF PoolInv, Init
<1> QED
  BY <1>4, PoolStep, PTL DEF Spec

(* For every pool, every number of processes and buffers of any one        *)
(* length: as long as mem_get overlaps neither another mem_get nor a       *)
(* defragmentation, a chunk is never in the buffers of two processes, and  *)
(* never handed out while anyone has it (mem_get, mem_release, defrag_mem, *)
(* reset_orphaned_chunks).                                                 *)
THEOREM BuffersExclusive == ASSUME Disciplined PROVE Spec => []Exclusive
<1>1. PoolInv => Exclusive
  <2> SUFFICES ASSUME PoolInv, NEW p \in Procs, NEW q \in Procs, NEW k \in holds[q]
               PROVE  /\ \A h \in holds[p] : p # q => Run(h[1], h[2]) \intersect Run(k[1], k[2]) = {}
                      /\ pc[p] = "got"
                           => Run(firstOfList, asked[p]) \intersect Run(k[1], k[2]) = {}
    BY DEF Exclusive
  <2>1. k[1] \in Bases /\ k[2] = Span /\ Has(q, k[1])
    BY OneBuffer DEF PoolInv, TypeInv, HoldInv
  <2>2. ASSUME NEW h \in holds[p], p # q
        PROVE  Run(h[1], h[2]) \intersect Run(k[1], k[2]) = {}
    <3>1. h[1] \in Bases /\ h[2] = Span /\ Has(p, h[1])
      BY OneBuffer DEF PoolInv, TypeInv, HoldInv
    <3>2. h[1] # k[1]
      BY <2>1, <2>2, <3>1 DEF PoolInv, HoldInv
    <3> QED
      BY <2>1, <3>1, <3>2, SpanOfSizes, RunsApart
  <2>3. ASSUME pc[p] = "got"
        PROVE  Run(firstOfList, asked[p]) \intersect Run(k[1], k[2]) = {}
    <3>1. asked[p] = Span /\ firstOfList \in Bases /\ firstOfList # k[1]
      BY <2>1, <2>3 DEF PoolInv, HoldInv
    <3> QED
      BY <2>1, <3>1, SpanOfSizes, RunsApart
  <2> QED
    BY <2>2, <2>3
<1> QED
  BY <1>1, PoolAlways, PTL

(* Under the same workload nobody takes a chunk back from under its        *)
(* holder: not mem_release, and not the sweep for a failed process.        *)
THEOREM BuffersStayBusy == ASSUME Disciplined PROVE Spec => []HeldIsBusy
<1>1. PoolInv => HeldIsBusy
  BY OneBuffer DEF PoolInv, TypeInv, HoldInv, HeldIsBusy
<1> QED
  BY <1>1, PoolAlways, PTL

(* Under the same workload num_buf_in_use counts the chunks in use.        *)
THEOREM CountIsExact == ASSUME Disciplined PROVE Spec => []CountExact
<1>1. PoolInv => CountExact
  BY DEF PoolInv, CountExact, Busy
<1> QED
  BY <1>1, PoolAlways, PTL

-----------------------------------------------------------------------------
(* The list holds every free chunk *)

LEMMA Smallest ==
  ASSUME NEW T \in SUBSET Nat, T # {}
  PROVE  \E x \in T : \A y \in T : x <= y
<1> DEFINE R == OpToRel(<, Nat)
<1>1. IsWellFoundedOn(R, Nat)
  BY NatLessThanWellFounded, Zenon
<1>2. \A x, y \in Nat : y < x => <<y, x>> \in R
  BY DEF OpToRel
<1> HIDE DEF R
<1>3. PICK x \in T : \A y \in T : ~(<<y, x>> \in R)
  BY <1>1, WFMin
<1>4. \A y \in T : ~(y < x)
  BY <1>2, <1>3
<1> QED
  BY <1>4

(* The last chunk of the pool is never given away: mem_get would follow    *)
(* the NULL in its link.                                                   *)
LEMMA EndOfList ==
  ASSUME Disciplined, ListInv, LinkInv, NEW b \in Bases, Whole(b),
         ~Free(b) \/ After(b) # NULL
  PROVE  b + Span - 1 # C - 1 /\ C - 1 \notin Run(b, Span) /\ C - 1 \in Chunks
<1>1. Span \in Nat \ {0} /\ C - 1 \in Chunks /\ Whole(b) /\ b \in Nat /\ C \in Nat
  BY SpanOfSizes, PoolAssumption DEF Bases, Chunks
<1>2. b + Span - 1 # C - 1
  <2>1. CASE ~Free(b)
    <3>1. b + Span - 1 = C - 1 => C - 1 \in Run(b, Span)
      BY <1>1 DEF Run
    <3>2. C - 1 \in Run(b, Span) => owner[C - 1] = owner[b]
      BY <1>1 DEF ListInv
    <3> QED
      BY <2>1, <3>1, <3>2 DEF LinkInv, Free
  <2>2. CASE After(b) # NULL
    BY <2>2 DEF After, LinkInv
  <2> QED
    BY <2>1, <2>2
<1> QED
  BY <1>1, <1>2 DEF Run, Whole

LEMMA LinkTake ==
  ASSUME TypeOK, ListInv, LinkInv, Disciplined,
         NEW p \in Procs, TakeFirst(p)
  PROVE  LinkInv'
<1> DEFINE f == firstMem
<1>1. /\ Span \in Nat \ {0} /\ Bases \subseteq Chunks /\ f \in Bases /\ Whole(f)
      /\ p # 0 /\ After(f) # NULL
  BY SpanOfSizes DEF TakeFirst, Bases, Procs, Chunks, NULL
<1>2. \A c \in Chunks : nxt'[c] = IF c = f + Span - 1 THEN NULL ELSE nxt[c]
  BY DEF TakeFirst, TypeOK
<1>3. \A c \in Chunks : owner'[c] = IF c \in Run(f, Span) THEN p ELSE owner[c]
  BY DEF TakeFirst, Marked
<1>4. \A b \in Bases : owner'[b] = IF b = f THEN p ELSE owner[b]
  BY ListTake
<1>5. firstMem' = After(f) /\ firstMem' # NULL
  BY <1>1 DEF TakeFirst
<1> HIDE DEF f
<1>6. \A c \in Chunks : c + 1 \in Chunks \ Bases => nxt'[c] = c + 1
  <2> SUFFICES ASSUME NEW c \in Chunks, c + 1 \in Chunks \ Bases
               PROVE  nxt'[c] = c + 1
    OBVIOUS
  <2>1. c = f + Span - 1 => c + 1 = f + Span
    BY <1>1 DEF Chunks
  <2>2. c # f + Span - 1
    BY <1>1, <2>1, BaseFacts
  <2> QED
    BY <1>2, <2>2 DEF LinkInv
<1>7. nxt'[C - 1] = NULL /\ owner'[C - 1] = 0
  BY <1>1, <1>2, <1>3, EndOfList DEF LinkInv, Free
<1>8. ASSUME NEW S \in SUBSET Bases, Closed(S)', NEW b \in Bases, owner'[b] = 0
      PROVE  b \in S
  <2> DEFINE T == S \union {f}
  <2>1. T \in SUBSET Bases
    BY <1>1
  <2>2. ASSUME NEW d \in T, Free(d), Whole(d), After(d) # NULL
        PROVE  After(d) \in T
    <3>1. CASE d = f
      BY <1>5, <1>8, <3>1 DEF Closed
    <3>2. CASE d # f
      <4>1. d \in Bases /\ d \in S /\ Whole(d)
        BY <2>1, <2>2, <3>2
      <4>2. d + Span - 1 \in Chunks /\ d + Span - 1 # f + Span - 1
        BY <1>1, <3>2, <4>1, RunsApart
      <4>3. After(d)' = After(d) /\ owner'[d] = 0
        BY <1>2, <1>4, <2>2, <3>2, <4>1, <4>2 DEF After, Free
      <4> QED
        BY <1>8, <2>2, <4>1, <4>3 DEF Closed, Free, Whole
    <3> QED
      BY <3>1, <3>2
  <2>3. Closed(T)
    BY <2>2 DEF Closed, f
  <2>4. Free(b) /\ b # f
    BY <1>1, <1>4, <1>8 DEF Free
  <2>5. b \in T
    BY <2>1, <2>3, <2>4 DEF LinkInv
  <2> QED
    BY <2>4, <2>5
<1> QED
  BY <1>6, <1>7, <1>8 DEF LinkInv, Free

LEMMA LinkPut ==
  ASSUME TypeOK, ListInv, LinkInv, Disciplined,
         NEW b \in Bases, ~Free(b), PutBack(b)
  PROVE  LinkInv'
<1>1. Span \in Nat \ {0} /\ Bases \subseteq Chunks /\ Whole(b)
  BY SpanOfSizes DEF Bases, ListInv
<1>2. \A c \in Chunks : nxt'[c] = IF c = b + Span - 1 THEN firstMem ELSE nxt[c]
  BY DEF PutBack, TypeOK
<1>3. \A c \in Chunks : owner'[c] = IF c \in Run(b, Span) THEN 0 ELSE owner[c]
  BY DEF PutBack, Marked
<1>4. \A d \in Bases : owner'[d] = IF d = b THEN 0 ELSE owner[d]
  BY ListPut
<1>5. firstMem' = b /\ firstMem' # NULL /\ firstMem # b
  BY <1>1 DEF PutBack, ListInv, Chunks, NULL
<1>6. \A c \in Chunks : c + 1 \in Chunks \ Bases => nxt'[c] = c + 1
  <2> SUFFICES ASSUME NEW c \in Chunks, c + 1 \in Chunks \ Bases
               PROVE  nxt'[c] = c + 1
    OBVIOUS
  <2>1. c = b + Span - 1 => c + 1 = b + Span
    BY <1>1 DEF Chunks
  <2>2. c # b + Span - 1
    BY <1>1, <2>1, BaseFacts
  <2> QED
    BY <1>2, <2>2 DEF LinkInv
<1>7. nxt'[C - 1] = NULL /\ owner'[C - 1] = 0
  BY <1>1, <1>2, <1>3, EndOfList DEF LinkInv, Free
<1>8. ASSUME NEW S \in SUBSET Bases, Closed(S)', NEW d \in Bases, owner'[d] = 0
      PROVE  d \in S
  <2> DEFINE T == {e \in S : e # b}
  <2>1. T \in SUBSET Bases /\ b \in S
    BY <1>5, <1>8 DEF Closed
  <2>2. firstMem # NULL => firstMem \in T
    <3>1. b + Span - 1 \in Chunks
      BY <1>1, RunsApart
    <3>2. After(b)' = firstMem /\ owner'[b] = 0
      BY <1>2, <1>4, <3>1 DEF After
    <3> QED
      BY <1>1, <1>5, <1>8, <2>1, <3>2 DEF Closed, Free, Whole
  <2>3. ASSUME NEW e \in T, Free(e), Whole(e), After(e) # NULL
        PROVE  After(e) \in T
    <3>1. e \in Bases /\ e \in S /\ Whole(e) /\ e # b
      BY <2>1, <2>3
    <3>2. e + Span - 1 \in Chunks /\ e + Span - 1 # b + Span - 1
      BY <1>1, <3>1, RunsApart
    <3>3. After(e)' = After(e) /\ owner'[e] = 0
      BY <1>2, <1>4, <2>3, <3>1, <3>2 DEF After, Free
    <3>4. Free(After(e))
      BY <2>3, <3>1 DEF ListInv
    <3> QED
      BY <1>8, <2>3, <3>1, <3>3, <3>4 DEF Closed, Free, Whole
  <2>4. Closed(T)
    BY <2>2, <2>3 DEF Closed
  <2>5. CASE d = b
    BY <2>1, <2>5
  <2>6. CASE d # b
    BY <1>4, <1>8, <2>1, <2>4, <2>6 DEF LinkInv, Free
  <2> QED
    BY <2>5, <2>6
<1> QED
  BY <1>6, <1>7, <1>8 DEF LinkInv, Free

LEMMA FreshLinks == ASSUME Disciplined PROVE Fresh => LinkInv
<1> SUFFICES ASSUME Fresh PROVE LinkInv
  OBVIOUS
<1>1. /\ firstMem = 0
      /\ \A c \in Chunks : owner[c] = 0
      /\ \A c \in Chunks : nxt[c] = IF c = C - 1 THEN NULL ELSE c + 1
  BY DEF Fresh, InOrderNxt, Free
<1>2. Span \in Nat \ {0} /\ C - 1 \in Chunks /\ Bases \subseteq Chunks /\ Chunks \subseteq Nat
  BY SpanOfSizes, PoolAssumption DEF Bases, Chunks
<1>3. \A c \in Chunks : c + 1 \in Chunks \ Bases => nxt[c] = c + 1
  BY <1>1 DEF Chunks
<1>4. ASSUME NEW S \in SUBSET Bases, Closed(S), \E b \in Bases : b \notin S
      PROVE  FALSE
  <2>1. PICK b \in Bases \ S : \A d \in Bases \ S : b <= d
    BY <1>2, <1>4, Smallest
  <2>2. b # 0
    BY <1>1, <1>4, <2>1 DEF Closed, NULL
  <2>3. b \in Chunks /\ b - 1 \in Chunks
    BY <1>2, <2>1, <2>2 DEF Chunks
  <2>4. PICK d \in Bases : b - 1 \in Run(d, Span)
    BY <1>2, <2>3, BaseFacts
  <2>5. d \in Nat /\ b \in Nat
    BY <1>2, <2>1
  <2>6. d < b /\ d + Span = b
    <3>1. d < b /\ b <= d + Span
      BY <1>2, <2>4, <2>5 DEF Run
    <3>2. d + Span <= b
      BY <1>2, <2>1, <3>1, BaseFacts
    <3> QED
      BY <1>2, <2>5, <3>1, <3>2
  <2>7. d \in S
    BY <2>1, <2>5, <2>6
  <2>8. After(d) = b /\ After(d) # NULL /\ Whole(d)
    <3>1. d + Span - 1 = b - 1 /\ b - 1 # C - 1
      BY <1>2, <2>3, <2>5, <2>6 DEF Chunks
    <3>2. nxt[b - 1] = b - 1 + 1
      BY <1>1, <2>3, <3>1
    <3> QED
      BY <1>2, <2>3, <2>5, <2>6, <3>1, <3>2, PoolAssumption DEF After, NULL, Whole, Chunks
  <2> QED
    BY <1>1, <1>2, <1>4, <2>1, <2>7, <2>8 DEF Closed, Free
<1> QED
  BY <1>1, <1>2, <1>3, <1>4 DEF LinkInv, Free

LEMMA FreshLinksNext == ASSUME Disciplined PROVE Fresh' => LinkInv'
BY FreshLinks, PTL

LEMMA LinkStep ==
  ASSUME PoolInv, LinkInv, Disciplined, [Next]_vars
  PROVE  LinkInv'
<1> USE DEF PoolInv, TypeInv
<1>1. CASE UNCHANGED pool
  BY <1>1 DEF pool, LinkInv, Closed, After, Free
<1>2. ASSUME NEW p \in Procs, NEW size \in Sizes, MemGet(p, size)
      PROVE  LinkInv'
  BY <1>1, <1>2, GetTakesFirst, LinkTake
<1>3. ASSUME NEW p \in Procs, NEW h \in holds[p], MemRelease(p, h)
      PROVE  LinkInv'
  <2>1. h[1] \in Bases /\ ~Free(h[1])
    BY OneBuffer DEF HoldInv
  <2> QED
    BY <1>1, <1>3, <2>1, ReleasePuts, LinkPut
<1>4. CASE SupSweep
  <2>1. CASE Orphaned(at)
    <3>1. /\ ReleaseOne(at) /\ owner[at] = victim /\ victim # 0 /\ victim \in Mortal
          /\ at \in Chunks
      BY <1>4, <2>1 DEF SupSweep, Orphaned, SupInv, TypeOK
    <3>2. Span = 1 /\ at \in Bases /\ PutBack(at)
      BY <3>1, BaseFacts, ReleaseOnePuts DEF Disciplined
    <3> QED
      BY <3>1, <3>2, LinkPut DEF Free
  <2>2. CASE ~Orphaned(at)
    BY <1>1, <1>4, <2>2 DEF SupSweep
  <2> QED
    BY <2>1, <2>2
<1>5. CASE Defrag
  BY <1>5, DefragFresh, FreshLinksNext
<1>6. ASSUME NEW p \in Procs, MemGetReturn(p) \/ Fault(p) \/ Finish(p)
      PROVE  LinkInv'
  BY <1>1, <1>6 DEF MemGetReturn, Fault, Finish
<1>7. ASSUME NEW p \in Procs, NEW q \in Procs, NEW h \in holds[p], Send(p, q, h)
      PROVE  LinkInv'
  BY <1>1, <1>7 DEF Send
<1>8. CASE SupTest \/ SupCheck \/ SupClear \/ UNCHANGED vars
  BY <1>1, <1>8 DEF SupTest, SupCheck, SupClear, vars
<1> QED
  BY <1>2, <1>3, <1>4, <1>5, <1>6, <1>7, <1>8 DEF Next, SupStep, ProcessStep

LEMMA LinkAlways == ASSUME Disciplined PROVE Spec => [](PoolInv /\ LinkInv)
<1>1. Init => LinkInv
  BY FreshLinks DEF Init, Fresh, Free
<1>2. PoolInv /\ LinkInv /\ [Next]_vars => LinkInv'
  BY LinkStep
<1> QED
  BY <1>1, <1>2, PoolAlways, PTL DEF Spec

(* A set that holds the first chunk of a buffer, and with each chunk the   *)
(* one that it leads to, holds the whole buffer.                           *)
LEMMA WalkBuffer ==
  ASSUME LinkInv, Span \in Nat \ {0}, NEW S \in SUBSET Chunks,
         \A d \in S : nxt[d] # NULL => nxt[d] \in S,
         NEW b \in Bases, b \in S
  PROVE  Run(b, Span) \intersect Chunks \subseteq S
<1> DEFINE R == Run(b, Span) \intersect Chunks
<1> SUFFICES ASSUME ~(R \subseteq S) PROVE FALSE
  OBVIOUS
<1>1. b \in Nat /\ Chunks \subseteq Nat
  BY PoolAssumption DEF Bases, Chunks
<1>2. PICK c \in R \ S : \A d \in R \ S : c <= d
  BY <1>1, Smallest
<1>3. c \in Nat /\ c # b /\ c - 1 \in R /\ c \in Run(b, Span)
  BY <1>1, <1>2, PoolAssumption DEF Run, Chunks
<1>4. c - 1 \in S
  BY <1>1, <1>2, <1>3
<1>5. c \notin Bases
  BY <1>1, <1>2, <1>3, RunsApart
<1>6. nxt[c - 1] = c
  <2>1. c - 1 \in Chunks /\ c - 1 + 1 = c
    BY <1>1, <1>3
  <2>2. c - 1 + 1 \in Chunks \ Bases
    BY <1>1, <1>2, <1>5, <2>1
  <2> QED
    BY <2>1, <2>2 DEF LinkInv
<1> QED
  BY <1>2, <1>3, <1>4, <1>6 DEF NULL

(* For every pool, also one that the buffers do not divide, the list that  *)
(* mem_get takes from holds exactly the free chunks: none in use is handed *)
(* out again, and no free one is lost, through any sequence of calls,      *)
(* sweeps and defragmentations.                                            *)
THEOREM ListIsExact == ASSUME Disciplined PROVE Spec => []FreeList
<1>1. ASSUME TypeOK, ListInv, LinkInv
      PROVE  Listed = {c \in Chunks : Free(c)}
  <2> DEFINE F == {c \in Chunks : Free(c)}
             Good(S) == /\ firstMem # NULL => firstMem \in S
                        /\ \A d \in S : nxt[d] # NULL => nxt[d] \in S
  <2>1. Span \in Nat \ {0} /\ Bases \subseteq Chunks /\ Chunks \subseteq Nat
    BY SpanOfSizes DEF Bases, Chunks
  <2>2. ASSUME NEW c \in F, nxt[c] # NULL
        PROVE  nxt[c] \in F
    <3>1. PICK b \in Bases : c \in Run(b, Span)
      BY <2>1, BaseFacts
    <3>2. /\ b \in Nat /\ c \in Nat /\ Free(b) /\ b <= c /\ c <= b + Span - 1
          /\ c # C - 1 /\ c \in Chunks
      <4>1. Free(b)
        BY <1>1, <2>2, <3>1 DEF ListInv, Free
      <4> QED
        BY <1>1, <2>1, <2>2, <3>1, <4>1 DEF Run, LinkInv
    <3>3. CASE c = b + Span - 1
      <4>1. Whole(b) /\ After(b) = nxt[c]
        BY <2>1, <3>2, <3>3, PoolAssumption DEF Whole, Chunks, After
      <4> QED
        BY <1>1, <2>1, <2>2, <3>2, <4>1 DEF ListInv
    <3>4. CASE c # b + Span - 1
      <4>1. c + 1 \in Run(b, Span) /\ c + 1 \in Chunks /\ c + 1 # b
        BY <2>1, <3>2, <3>4, PoolAssumption DEF Run, Chunks
      <4>2. c + 1 \notin Bases
        BY <2>1, <4>1, RunsApart
      <4>3. nxt[c] = c + 1
        BY <1>1, <2>2, <4>1, <4>2 DEF LinkInv
      <4> QED
        BY <1>1, <3>2, <4>1, <4>3 DEF ListInv, Free
    <3> QED
      BY <3>3, <3>4
  <2>3. Good(F) /\ F \in SUBSET Chunks
    BY <1>1, <2>1, <2>2 DEF ListInv
  <2>4. ASSUME NEW S \in SUBSET Chunks, Good(S), NEW c \in F
        PROVE  c \in S
    <3>1. PICK b \in Bases : c \in Run(b, Span)
      BY <2>1, BaseFacts
    <3>2. Free(b)
      BY <1>1, <2>4, <3>1 DEF ListInv, Free
    <3> DEFINE T == S \intersect Bases
    <3>3. ASSUME NEW d \in T, Free(d), Whole(d), After(d) # NULL
          PROVE  After(d) \in T
      <4>1. Whole(d) /\ d \in Bases /\ d \in S
        BY <3>3
      <4>2. d + Span - 1 \in S
        <5>1. Run(d, Span) \intersect Chunks \subseteq S
          BY <1>1, <2>1, <2>4, <4>1, WalkBuffer
        <5>2. d + Span - 1 \in Run(d, Span) /\ d + Span - 1 \in Chunks
          BY <2>1, <4>1, RunsApart DEF Run
        <5> QED
          BY <5>1, <5>2
      <4>3. After(d) \in S
        BY <2>4, <3>3, <4>2 DEF After
      <4>4. After(d) \in Bases
        BY <1>1, <3>3, <4>1 DEF ListInv
      <4> QED
        BY <4>3, <4>4
    <3>4. Closed(T)
      BY <1>1, <2>4, <3>3 DEF Closed, ListInv
    <3>5. b \in T
      BY <1>1, <3>2, <3>4 DEF LinkInv
    <3>6. Run(b, Span) \intersect Chunks \subseteq S
      BY <1>1, <2>1, <2>4, <3>5, WalkBuffer
    <3> QED
      BY <3>1, <3>6
  <2> QED
    BY <2>3, <2>4 DEF Listed
<1>2. PoolInv /\ LinkInv => FreeList
  BY <1>1 DEF PoolInv, TypeInv, FreeList
<1> QED
  BY <1>2, LinkAlways, PTL

(* If moreover one more chunk stays in the pool, the list never runs out.  *)
LEMMA StaysInside ==
  ASSUME PoolInv, LinkInv, Disciplined, num + Span < C
  PROVE  ~GetsOutside(Span)
<1> USE DEF PoolInv, TypeInv
<1>1. /\ Span \in Nat \ {0} /\ Bases \subseteq Chunks /\ C \in Nat
      /\ IsFiniteSet(Chunks) /\ Cardinality(Chunks) = C
  <2>1. IsFiniteSet(0 .. C - 1) /\ Cardinality(0 .. C - 1) = C
    <3>1. C \in Nat \ {0} /\ C - 1 \in Int
      BY PoolAssumption
    <3>2. ~(0 > C - 1) /\ C - 1 - 0 + 1 = C
      BY <3>1
    <3> QED
      BY <3>1, <3>2, FS_Interval
  <2> QED
    BY <2>1, SpanOfSizes, PoolAssumption DEF Bases, Chunks
<1>2. IsFiniteSet(Busy) /\ Cardinality(Busy) = num /\ num \in Nat
  BY BusyFinite
<1>3. \A c \in Chunks, b \in Bases : c \in Run(b, Span) /\ ~Free(b) => c \in Busy
  BY DEF ListInv, Busy, Free
<1>4. firstMem # NULL
  <2> SUFFICES ASSUME firstMem = NULL PROVE FALSE
    OBVIOUS
  <2>1. \A b \in Bases : ~Free(b)
    <3>1. Closed({})
      BY DEF Closed
    <3>2. {} \in SUBSET Bases /\ \A b \in Bases : b \notin {}
      OBVIOUS
    <3> QED
      BY <3>1, <3>2 DEF LinkInv
  <2>2. Busy = Chunks
    BY <1>1, <1>3, <2>1, BaseFacts DEF Busy
  <2> QED
    BY <1>1, <1>2, <2>2
<1>5. firstMem \in Bases /\ Free(firstMem)
  BY <1>4 DEF ListInv
<1>6. Whole(firstMem) /\ After(firstMem) # NULL
  <2> SUFFICES ASSUME ~Whole(firstMem) \/ After(firstMem) = NULL PROVE FALSE
    OBVIOUS
  <2>1. \A b \in Bases : Free(b) => b = firstMem
    <3>1. Closed({firstMem}) /\ {firstMem} \in SUBSET Bases
      BY <1>5 DEF Closed
    <3> QED
      BY <3>1 DEF LinkInv
  <2> DEFINE R == Run(firstMem, Span)
  <2>2. IsFiniteSet(R) /\ Cardinality(R) = Span
    BY <1>1, <1>5, RunCounts
  <2>3. Chunks \subseteq Busy \union R
    <3> SUFFICES ASSUME NEW c \in Chunks, c \notin Busy PROVE c \in R
      OBVIOUS
    <3>1. PICK b \in Bases : c \in Run(b, Span)
      BY <1>1, BaseFacts
    <3> QED
      BY <1>3, <2>1, <3>1
  <2> HIDE DEF R
  <2>4. /\ IsFiniteSet(Busy \union R) /\ IsFiniteSet(Busy \intersect R)
        /\ Cardinality(Busy \union R) = num + Span - Cardinality(Busy \intersect R)
    BY <1>2, <2>2, FS_Union, FS_Intersection
  <2>5. Cardinality(Busy \intersect R) \in Nat /\ Cardinality(Busy \union R) \in Nat
    BY <2>4, FS_CardinalityType
  <2>6. C <= Cardinality(Busy \union R)
    BY <1>1, <2>3, <2>4, FS_Subset
  <2> QED
    BY <1>1, <1>2, <2>4, <2>5, <2>6
<1>7. Run(firstMem, Span) \subseteq Chunks
  BY <1>1, <1>5, <1>6 DEF Run, Chunks, Whole
<1>8. IsFirst(Span, firstMem) /\ LastOf(Span, firstMem) = firstMem + Span - 1
  BY <1>5 DEF IsFirst, LastOf
<1>9. nxt[LastOf(Span, firstMem)] # NULL /\ firstMem \in Chunks
  BY <1>1, <1>5, <1>6, <1>8 DEF After
<1> QED
  BY <1>4, <1>7, <1>8, <1>9 DEF GetsOutside

(* For every pool: a workload that leaves one chunk in the pool never      *)
(* makes mem_get follow a NULL or run past the end of MEMpool, and no call *)
(* of mem_release does so either.                                          *)
THEOREM PoolStaysInside ==
  ASSUME Disciplined, Limit < C PROVE Spec => []InPool
<1>1. Init => InPool
  BY DEF Init, InPool
<1>2. ASSUME PoolInv, LinkInv, InPool, [Next]_vars
      PROVE  InPool'
  <2> USE <1>2 DEF PoolInv, TypeInv, InPool
  <2>1. ASSUME NEW p \in Procs, NEW size \in Sizes, MemGet(p, size)
        PROVE  wild' = wild
    <3>1. NumBuf(size) = Span /\ Span \in Nat \ {0} /\ C \in Nat /\ num \in Int /\ Limit \in Nat
      BY SpanOfSizes, PoolAssumption DEF TypeOK
    <3>2. num + Span <= Limit
      BY <2>1, <3>1 DEF MemGet, Fits
    <3>3. ~GetsOutside(Span)
      BY <3>1, <3>2, StaysInside
    <3> QED
      BY <2>1, <3>1, <3>3 DEF MemGet
  <2>2. ASSUME NEW p \in Procs, NEW h \in holds[p], MemRelease(p, h)
        PROVE  wild' = wild
    <3>1. h[1] \in Bases /\ ~Free(h[1])
      BY <2>2, OneBuffer DEF HoldInv
    <3>2. Whole(h[1])
      BY <3>1 DEF ListInv
    <3>3. h[1] + Span - 1 # C - 1
      BY <3>1, <3>2, EndOfList
    <3>4. h[1] + Span \in Chunks
      BY <3>1, <3>2, <3>3, SpanOfSizes, PoolAssumption DEF Bases, Chunks, Whole
    <3>5. PutBack(h[1])
      BY <2>2, <3>1, <3>4, ReleasePuts
    <3> QED
      BY <3>5 DEF PutBack
  <2>3. CASE SupSweep
    BY <2>3 DEF SupSweep, ReleaseOne
  <2>4. CASE SupTest \/ Defrag \/ SupCheck \/ SupClear \/ UNCHANGED vars
    BY <2>4 DEF SupTest, Defrag, SupCheck, SupClear, vars
  <2>5. ASSUME NEW p \in Procs, MemGetReturn(p) \/ Fault(p) \/ Finish(p)
        PROVE  wild' = wild
    BY <2>5 DEF MemGetReturn, Fault, Finish
  <2>6. ASSUME NEW p \in Procs, NEW q \in Procs, NEW h \in holds[p], Send(p, q, h)
        PROVE  wild' = wild
    BY <2>6 DEF Send
  <2> QED
    BY <2>1, <2>2, <2>3, <2>4, <2>5, <2>6 DEF Next, SupStep, ProcessStep
<1> QED
  BY <1>1, <1>2, LinkAlways, PTL DEF Spec

-----------------------------------------------------------------------------
(* The sweep passes over every chunk before the supervisor clears          *)
(* failed_process, and a process that has failed gets no more chunks.      *)
OrphanInv ==
  /\ \A p \in Procs : pc[p] = "faulted" => p \in Mortal
  /\ failed # 0 => failed \in Mortal /\ pc[failed] = "faulted"
  /\ sup \in {"sweep", "clear"} => victim \in Mortal /\ pc[victim] = "faulted"
  /\ sup # "sweep" => at = 0
  /\ sup = "sweep" => \A c \in Chunks : c < at => owner[c] # victim
  /\ sup = "clear" => \A c \in Chunks : owner[c] # victim

(* A process that is alive marks chunks as its own and frees chunks, and   *)
(* leaves the supervisor alone.                                            *)
LEMMA OrphanAlive ==
  ASSUME TypeOK, OrphanInv, UNCHANGED supervisor, NEW p \in Procs,
         pc[p] # "faulted", ~Masked,
         \A q \in Procs : pc'[q] = "faulted" <=> pc[q] = "faulted",
         \A c \in Chunks : owner'[c] \in {owner[c], 0, p}
  PROVE  OrphanInv'
<1>1. UNCHANGED <<sup, failed, victim, at>>
  BY DEF supervisor
<1>2. at \in Nat /\ (sup = "sweep" => at = 0)
  BY DEF TypeOK, Chunks, Masked
<1>3. \A q \in Procs : q # 0
  BY DEF Procs
<1>4. failed # 0 => failed \in Procs
  BY WorkloadAssumption DEF OrphanInv, Procs
<1>5. sup = "sweep" => \A c \in Chunks : ~(c < at)
  BY <1>2 DEF Chunks
<1> QED
  BY <1>1, <1>3, <1>4, <1>5, WorkloadAssumption DEF OrphanInv, Procs

LEMMA OrphanStep ==
  ASSUME TypeOK, OrphanInv, [Next]_vars
  PROVE  OrphanInv'
<1>0. Mortal \subseteq Procs /\ 0 \notin Procs
  BY WorkloadAssumption DEF Procs
<1>1. ASSUME NEW p \in Procs, NEW size \in Sizes, MemGet(p, size)
      PROVE  OrphanInv'
  <2>1. ~Masked /\ pc[p] = "run" /\ UNCHANGED supervisor
    BY <1>1 DEF MemGet, CanRun
  <2>2. \A c \in Chunks : owner'[c] \in {owner[c], p}
    <3>1. UNCHANGED owner \/ \E g, n : owner' = Marked(p, g, n)
      BY <1>1 DEF MemGet, pool
    <3> QED
      BY <3>1 DEF Marked, TypeOK
  <2>3. \A q \in Procs : pc'[q] = "faulted" <=> pc[q] = "faulted"
    BY <1>1, <2>1 DEF MemGet, process, TypeOK
  <2> QED
    BY <2>1, <2>2, <2>3, OrphanAlive
<1>2. ASSUME NEW p \in Procs, MemGetReturn(p)
      PROVE  OrphanInv'
  <2>1. ~Masked /\ pc[p] = "got" /\ UNCHANGED supervisor /\ UNCHANGED owner
        /\ \A q \in Procs : pc'[q] = "faulted" <=> pc[q] = "faulted"
    BY <1>2 DEF MemGetReturn, pool, TypeOK
  <2> QED
    BY <2>1, OrphanAlive
<1>3. ASSUME NEW p \in Procs, NEW h \in holds[p], MemRelease(p, h)
      PROVE  OrphanInv'
  <2>1. ~Masked /\ pc[p] = "run" /\ UNCHANGED supervisor /\ UNCHANGED pc
    BY <1>3 DEF MemRelease, CanRun
  <2>2. \A c \in Chunks : owner'[c] \in {owner[c], 0}
    <3>1. CASE ReleaseOne(h[1])
      BY <3>1 DEF ReleaseOne, TypeOK
    <3>2. CASE ReleaseRun(h[1])
      BY <3>2 DEF ReleaseRun, TypeOK, pool
    <3> QED
      BY <1>3, <3>1, <3>2 DEF MemRelease
  <2> QED
    BY <2>1, <2>2, OrphanAlive
<1>4. ASSUME NEW p \in Procs, NEW q \in Procs, NEW h \in holds[p], Send(p, q, h)
      PROVE  OrphanInv'
  <2>1. ~Masked /\ pc[p] = "run" /\ UNCHANGED supervisor /\ UNCHANGED <<pc, owner>>
    BY <1>4 DEF Send, CanRun, pool
  <2> QED
    BY <2>1, OrphanAlive
<1>5. ASSUME NEW p \in Procs, p \in Mortal, Fault(p)
      PROVE  OrphanInv'
  <2>1. UNCHANGED <<sup, victim, at, owner>> /\ failed' = p
    BY <1>5 DEF Fault, pool
  <2>2. pc' = [pc EXCEPT ![p] = "faulted"] /\ pc[p] # "faulted"
    BY <1>5 DEF Fault
  <2>4. pc'[p] = "faulted" /\ \A q \in Procs : pc[q] = "faulted" => pc'[q] = "faulted"
    BY <2>2 DEF TypeOK
  <2>5. \A q \in Procs : pc'[q] = "faulted" => q \in Mortal
    BY <1>5, <2>2 DEF OrphanInv, TypeOK
  <2>6. victim \in Procs /\ pc[victim] = "faulted" => pc'[victim] = "faulted"
    BY <2>4
  <2> QED
    BY <1>0, <1>5, <2>1, <2>4, <2>5, <2>6 DEF OrphanInv
<1>6. ASSUME NEW p \in Procs, Finish(p)
      PROVE  OrphanInv'
  <2>1. ~Masked /\ pc[p] = "run" /\ UNCHANGED supervisor /\ UNCHANGED owner
        /\ \A q \in Procs : pc'[q] = "faulted" <=> pc[q] = "faulted"
    BY <1>6 DEF Finish, CanRun, pool, TypeOK
  <2> QED
    BY <2>1, OrphanAlive
<1>7. CASE SupTest
  BY <1>7 DEF SupTest, OrphanInv, pool, process
<1>8. CASE Defrag
  BY <1>8 DEF Defrag, OrphanInv, process
<1>9. CASE SupCheck
  <2>1. /\ UNCHANGED <<owner, pc, failed, at>> /\ sup = "failed?"
        /\ sup' \in {"defrag?", "sweep"}
        /\ sup' = "sweep" => failed # 0 /\ victim' = failed
    BY <1>9 DEF SupCheck, pool, process
  <2>2. at = 0
    BY <2>1 DEF OrphanInv
  <2>3. \A c \in Chunks : ~(c < 0)
    BY PoolAssumption DEF Chunks
  <2>4. CASE sup' = "sweep"
    BY <2>1, <2>2, <2>3, <2>4 DEF OrphanInv
  <2>5. CASE sup' = "defrag?"
    BY <2>1, <2>2, <2>5 DEF OrphanInv
  <2> QED
    BY <2>1, <2>4, <2>5
<1>10. CASE SupSweep
  <2>1. UNCHANGED <<pc, failed, victim>> /\ sup = "sweep" /\ at \in Chunks
    BY <1>10 DEF SupSweep, process, TypeOK
  <2>2. owner'[at] # victim /\ \A c \in Chunks : owner'[c] \in {owner[c], 0}
    <3>1. victim # 0
      BY <1>0, <2>1 DEF OrphanInv
    <3>2. CASE Orphaned(at)
      BY <1>10, <2>1, <3>1, <3>2 DEF SupSweep, ReleaseOne, TypeOK
    <3>3. CASE ~Orphaned(at)
      BY <1>10, <3>3 DEF SupSweep, pool, Orphaned
    <3> QED
      BY <3>2, <3>3
  <2>3. \A c \in Chunks : c < at \/ c = at => owner'[c] # victim
    BY <1>0, <2>1, <2>2 DEF OrphanInv
  <2>4. CASE at = C - 1
    <3>1. at' = 0 /\ sup' = "clear" /\ \A c \in Chunks : c < at \/ c = at
      BY <1>10, <2>4, PoolAssumption DEF SupSweep, Chunks
    <3> QED
      BY <1>0, <2>1, <2>2, <2>3, <3>1 DEF OrphanInv
  <2>5. CASE at # C - 1
    <3>1. at' = at + 1 /\ sup' = "sweep" /\ \A c \in Chunks : c < at' => c < at \/ c = at
      BY <1>10, <2>1, <2>5 DEF SupSweep, Chunks
    <3> QED
      BY <1>0, <2>1, <2>2, <2>3, <3>1 DEF OrphanInv
  <2> QED
    BY <2>4, <2>5
<1>11. CASE SupClear
  <2>1. UNCHANGED <<owner, pc, at>> /\ sup = "clear" /\ sup' = "defrag?" /\ failed' = 0
    BY <1>11 DEF SupClear, pool, process
  <2> QED
    BY <2>1 DEF OrphanInv
<1>12. CASE UNCHANGED vars
  BY <1>12 DEF OrphanInv, vars, pool, supervisor, process
<1> QED
  BY <1>1, <1>2, <1>3, <1>4, <1>5, <1>6, <1>7, <1>8, <1>9, <1>10, <1>11, <1>12
  DEF Next, SupStep, ProcessStep

LEMMA OrphanAlways == Spec => []OrphanInv
<1>1. Init => OrphanInv
  BY DEF Init, OrphanInv
<1> QED
  BY <1>1, OrphanStep, TypeCorrect, PTL DEF Spec

(* Whatever the sizes, however many processes fail, and even if the free   *)
(* list is already broken: when a sweep has ended no chunk belongs to the  *)
(* process it was for (reset_orphaned_chunks).                             *)
THEOREM SweepsAreComplete == Spec => []SweepComplete
<1>1. OrphanInv => SweepComplete
  BY DEF OrphanInv, SweepComplete, HasChunks
<1> QED
  BY <1>1, OrphanAlways, PTL

(* What one step may do to what the supervisor knows.                      *)
LEMMA ForgetStep ==
  ASSUME TypeOK, OrphanInv, OrphanInv', [Next]_vars,
         NEW p \in Procs, pc'[p] = "faulted", HasChunks(p)'
  PROVE  \/ Known(p)'
         \/ pc[p] = "faulted" /\ ~Known(p)
         \/ failed = p /\ (\E q \in Procs \ {p} : Fails(q))
         \/ failed = p /\ sup = "clear" /\ victim # p
<1>1. PICK c \in Chunks : owner'[c] = p
  BY DEF HasChunks
<1>2. CASE UNCHANGED supervisor /\ pc[p] = "faulted"
  BY <1>2 DEF supervisor, Known
<1>3. ASSUME NEW q \in Procs, Fault(q)
      PROVE  Known(p)' \/ (pc[p] = "faulted" /\ (~Known(p) \/ (failed = p /\ q # p /\ Fails(q))))
  <2>1. UNCHANGED <<sup, victim>> /\ failed' = q /\ Fails(q)
    BY <1>3 DEF Fault, Fails, TypeOK
  <2>2. q # p => pc[p] = "faulted"
    BY <1>3 DEF Fault, TypeOK
  <2> QED
    BY <2>1, <2>2 DEF Known
<1>4. CASE SupTest \/ Defrag \/ SupCheck
  BY <1>4 DEF SupTest, Defrag, SupCheck, Known, process
<1>5. CASE SupSweep
  <2>1. UNCHANGED <<pc, failed, victim>> /\ sup' \in {"sweep", "clear"}
    BY <1>5 DEF SupSweep, process
  <2>2. sup' = "clear" => victim' # p
    BY <1>1 DEF OrphanInv
  <2> QED
    BY <2>1, <2>2 DEF Known
<1>6. CASE SupClear
  <2>1. UNCHANGED <<owner, pc>> /\ sup = "clear"
    BY <1>6 DEF SupClear, pool, process
  <2>2. victim # p
    BY <1>1, <2>1 DEF OrphanInv
  <2> QED
    BY <2>1, <2>2 DEF Known
<1>7. ASSUME NEW q \in Procs, NEW size \in Sizes, MemGet(q, size)
      PROVE  UNCHANGED supervisor /\ pc[p] = "faulted"
  BY <1>7 DEF MemGet, process, TypeOK
<1>8. ASSUME NEW q \in Procs, MemGetReturn(q) \/ Finish(q)
      PROVE  UNCHANGED supervisor /\ pc[p] = "faulted"
  BY <1>8 DEF MemGetReturn, Finish, TypeOK
<1>9. ASSUME NEW q \in Procs, NEW h \in holds[q], MemRelease(q, h)
      PROVE  UNCHANGED supervisor /\ pc[p] = "faulted"
  BY <1>9 DEF MemRelease
<1>10. ASSUME NEW q \in Procs, NEW r \in Procs, NEW h \in holds[q], Send(q, r, h)
      PROVE  UNCHANGED supervisor /\ pc[p] = "faulted"
  BY <1>10 DEF Send
<1>11. CASE UNCHANGED vars
  BY <1>2, <1>11 DEF vars, process
<1> QED
  BY <1>2, <1>3, <1>4, <1>5, <1>6, <1>7, <1>8, <1>9, <1>10, <1>11
  DEF Next, SupStep, ProcessStep

(* Whatever the workload, however many processes fail and even if the free *)
(* list is already broken: the supervisor forgets a failed process that    *)
(* still has chunks only if another one fails before it has looked, or if  *)
(* the process failed while another was being swept (supervisor,           *)
(* HardFault_Handler, reset_orphaned_chunks).                              *)
THEOREM OrphansAreRemembered == Spec => OrphanRemembered
<1>1. TypeOK /\ OrphanInv /\ OrphanInv' /\ [Next]_vars =>
        [\A p \in Procs : pc'[p] = "faulted" /\ HasChunks(p)' =>
           \/ Known(p)'
           \/ pc[p] = "faulted" /\ ~Known(p)
           \/ failed = p /\ (\E q \in Procs \ {p} : Fails(q))
           \/ failed = p /\ sup = "clear" /\ victim # p]_vars
  BY ForgetStep
<1> QED
  BY <1>1, TypeCorrect, OrphanAlways, PTL DEF Spec, OrphanRemembered
=============================================================================
