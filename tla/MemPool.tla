------------------------------ MODULE MemPool ------------------------------
(***************************************************************************)
(* The memory pool (kernel/mem.c) and the supervisor's loop, which         *)
(* defragments it and takes back the chunks of failed processes            *)
(* (kernel/supervisor.c).                                                  *)
(*                                                                         *)
(* A chunk is its index in MEMpool; pointers into MEMpool are indices and  *)
(* NULL.  The bodies of mem_get, mem_release, defrag_mem and               *)
(* reset_orphaned_chunks run with interrupts disabled; any process can be  *)
(* switched in between two other steps.  chunk_index and flags are written *)
(* and never read, and are left out.  An access outside MEMpool sets wild; *)
(* nothing is said of what follows it.                                     *)
(***************************************************************************)
EXTENDS Integers, FiniteSets

CONSTANTS
  N,          (* user processes                                             *)
  C,          (* POOL_NUM                                                   *)
  ChunkSize,  (* POOL_CHUNK_SIZE                                            *)
  Sizes,      (* arguments of mem_get                                       *)
  Limit,      (* the processes keep at most this many chunks in use         *)
  Getters,    (* processes that call mem_get                                *)
  Senders,    (* processes that hand their buffers on to others             *)
  Mortal,     (* processes that may fault or return                         *)
  TakeTurns,  (* no process calls mem_get while another one is inside it    *)
  Quiet,      (* nor between the supervisor's test and its defrag_mem       *)
  Keeper      (* a process that allocates first and never gives everything  *)
              (* back (as the one of A.doc, 3.4, with its receive buffer);  *)
              (* 0 if there is none                                         *)

ASSUME PoolAssumption ==
  /\ N \in Nat \ {0} /\ C \in Nat \ {0} /\ ChunkSize \in Nat \ {0}
  /\ Limit \in Nat
(* find_chunk_by_size takes a uint16_t. *)
MaxSize == 65535
ASSUME SizeAssumption == Sizes \subseteq 1 .. MaxSize
ASSUME WorkloadAssumption ==
  /\ Getters \subseteq 1 .. N /\ Senders \subseteq 1 .. N
  /\ Mortal \subseteq 1 .. N
  /\ TakeTurns \in BOOLEAN /\ Quiet \in BOOLEAN /\ Keeper \in 0 .. N

Procs == 1 .. N
Chunks == 0 .. C - 1
NULL == -1
Links == Chunks \union {NULL}

VARIABLES
  nxt,         (* MEMpool[c].nxt_link                                       *)
  pre,         (* MEMpool[c].pre_link                                       *)
  count,       (* MEMpool[c].chunk_count                                    *)
  owner,       (* MEMpool[c].process, 0 when the chunk is free              *)
  firstMem,    (* Asys.first_mem                                            *)
  firstOfList, (* Asys.first_of_list                                        *)
  num,         (* Asys.num_buf_in_use                                       *)
  request,     (* SYS_MEM_DEFRAG_REQUEST of Asys.system_flags               *)
  failed,      (* Asys.failed_process                                       *)
  sup,         (* where the supervisor's loop is                            *)
  victim,      (* the argument of its reset_orphaned_chunks                 *)
  at,          (* the loop index i of reset_orphaned_chunks                 *)
  pc,          (* where each process is                                     *)
  asked,       (* the number of chunks of its mem_get                       *)
  holds,       (* the buffers it has: first chunk and number of chunks      *)
  wild         (* the pool code has used a pointer that is not into MEMpool *)

pool == <<nxt, pre, count, owner, firstMem, num>>
supervisor == <<failed, sup, victim, at>>
process == <<pc, asked, holds>>
vars == <<pool, firstOfList, request, supervisor, process, wild>>

(* The links A_mem_init and defrag_mem give the chunks. *)
InOrderNxt == [c \in Chunks |-> IF c = C - 1 THEN NULL ELSE c + 1]
InOrderPre == [c \in Chunks |-> c - 1]

Init ==
  /\ nxt = InOrderNxt
  /\ pre = InOrderPre
  /\ count = [c \in Chunks |-> 0]
  /\ owner = [c \in Chunks |-> 0]
  /\ firstMem = 0
  /\ firstOfList = NULL
  /\ num = 0
  /\ request = FALSE
  /\ failed = 0
  /\ sup = "defrag?"
  /\ victim = 0
  /\ at = 0
  /\ pc = [p \in Procs |-> "run"]
  /\ asked = [p \in Procs |-> 0]
  /\ holds = [p \in Procs |-> {}]
  /\ wild = FALSE

Free(c) == owner[c] = 0

(* reset_orphaned_chunks disables interrupts before its loop. *)
Masked == sup = "sweep" /\ at # 0
CanRun(p) == ~Masked /\ ~wild /\ pc[p] = "run"

-----------------------------------------------------------------------------
(* mem_get *)

BugNumBuf(size) == size \div ChunkSize + 1
NumBuf(size) ==
  size \div ChunkSize + IF size % ChunkSize > 0 THEN 1 ELSE 0

(* The first_of_list that find_chunk_by_size(n) ends with.  From a free    *)
(* first_mem it does not move.  It steps over busy chunks in the order of  *)
(* addresses; the chunk it reaches is not tested when n is 1, and of a     *)
(* longer run only the first chunk is tested.                              *)
BugIsFirst(n, g) == g = firstMem + 1
IsFirst(n, g) ==
  IF Free(firstMem) THEN g = firstMem
  ELSE /\ g > firstMem
       /\ IF n = 1 THEN g = firstMem + 1
          ELSE Free(g) /\ \A c \in firstMem .. g - 1 : ~Free(c)

(* Its last_of_list: one chunk short when it has moved. *)
LastOf(n, g) == IF Free(firstMem) THEN g + n - 1 ELSE g + n - 2

Run(c, n) == c .. c + n - 1

(* mem_get(n chunks) uses a pointer that is not into MEMpool. *)
GetsOutside(n) ==
  \/ firstMem = NULL
  \/ ~\E g \in Chunks :
       /\ IsFirst(n, g)
       /\ Run(g, n) \subseteq Chunks
       /\ pre[g] = NULL => nxt[LastOf(n, g)] # NULL

(* Taking the run g .. last out of the list. *)
Unlink(g, last) ==
  IF pre[g] = NULL
  THEN /\ firstMem' = nxt[last]
       /\ pre' = [pre EXCEPT ![nxt[last]] = NULL]
       /\ nxt' = [nxt EXCEPT ![last] = NULL]
  ELSE /\ nxt' = [nxt EXCEPT ![pre[g]] = last]
       /\ pre' = [pre EXCEPT ![g] = NULL]
       /\ UNCHANGED firstMem

Marked(p, g, n) == [c \in Chunks |-> IF c \in Run(g, n) THEN p ELSE owner[c]]

Fits(size) == num + NumBuf(size) <= Limit
MyTurn ==
  /\ TakeTurns => \A q \in Procs : pc[q] # "got"
  /\ Quiet => sup # "defrag"
Settled(p) == Keeper \notin {0, p} => holds[Keeper] # {}

MemGet(p, size) ==
  /\ CanRun(p)
  /\ Fits(size) /\ MyTurn /\ Settled(p)
  /\ LET n == NumBuf(size) IN
       IF GetsOutside(n)
       THEN /\ wild' = TRUE
            /\ UNCHANGED <<pool, firstOfList, request, process>>
       ELSE \E g \in Chunks :
              /\ IsFirst(n, g)
              /\ Unlink(g, LastOf(n, g))
              /\ count' = [c \in Chunks |-> IF c \in Run(g, n) THEN n
                                                               ELSE count[c]]
              /\ owner' = Marked(p, g, n)
              /\ num' = num + n
              /\ firstOfList' = g
              /\ request' = TRUE
              /\ pc' = [pc EXCEPT ![p] = "got"]
              /\ asked' = [asked EXCEPT ![p] = n]
              /\ UNCHANGED <<holds, wild>>
  /\ UNCHANGED supervisor

(* mem_get reads first_of_list again after it has enabled interrupts. *)
MemGetReturn(p) ==
  /\ ~Masked /\ ~wild
  /\ pc[p] = "got"
  /\ holds' = [holds EXCEPT ![p] = @ \union {<<firstOfList, asked[p]>>}]
  /\ asked' = [asked EXCEPT ![p] = 0]
  /\ pc' = [pc EXCEPT ![p] = "run"]
  /\ UNCHANGED <<pool, firstOfList, request, supervisor, wild>>

-----------------------------------------------------------------------------
(* mem_release *)

BugRelinked(c) == nxt
BugRelinkedNext(c) == [nxt EXCEPT ![c] = firstMem + 1]
Relinked(c) == [nxt EXCEPT ![c] = firstMem]

BugNumAfter(k) == num
NumAfter(k) == num - k

(* One chunk becomes the first of the list. *)
ReleaseOne(c) ==
  /\ nxt' = Relinked(c)
  /\ pre' = [pre EXCEPT ![c] = NULL]
  /\ owner' = [owner EXCEPT ![c] = 0]
  /\ count' = [count EXCEPT ![c] = 0]
  /\ firstMem' = c
  /\ num' = NumAfter(1)
  /\ UNCHANGED wild

(* A run of chunk_count, or 0 if the chunk is free already: the chunk AFTER *)
(* the run gets a pre_link, and the last one the nxt_link.                 *)
ReleaseRun(c) ==
  LET k == count[c] IN
    IF c + k \in Chunks /\ c + k # 0
    THEN /\ owner' = [d \in Chunks |-> IF d \in Run(c, k) THEN 0 ELSE owner[d]]
         /\ count' = [d \in Chunks |-> IF d \in Run(c, k) THEN 0 ELSE count[d]]
         /\ nxt' = Relinked(c + k - 1)
         /\ pre' = [pre EXCEPT ![c + k] = c + k - 1, ![c] = NULL]
         /\ firstMem' = c
         /\ num' = NumAfter(k)
         /\ UNCHANGED wild
    ELSE /\ wild' = TRUE
         /\ UNCHANGED pool

MemRelease(p, h) ==
  /\ CanRun(p)
  /\ h \in holds[p]
  /\ p = Keeper => holds[p] # {h}
  /\ IF count[h[1]] = 1 THEN ReleaseOne(h[1]) ELSE ReleaseRun(h[1])
  /\ holds' = [holds EXCEPT ![p] = @ \ {h}]
  /\ UNCHANGED <<firstOfList, request, supervisor, pc, asked>>

(* The processes' own code: a buffer changes hands, through a mailbox or a *)
(* variable.                                                               *)
Send(p, q, h) ==
  /\ CanRun(p)
  /\ p # q /\ pc[q] = "run"
  /\ h \in holds[p]
  /\ p = Keeper => holds[p] # {h}
  /\ holds' = [holds EXCEPT ![p] = @ \ {h}, ![q] = @ \union {h}]
  /\ UNCHANGED <<pool, firstOfList, request, supervisor, pc, asked, wild>>

(* The fault handlers record one failed process. *)
Fault(p) ==
  /\ ~Masked /\ ~wild
  /\ pc[p] \in {"run", "got"}
  /\ pc' = [pc EXCEPT ![p] = "faulted"]
  /\ holds' = [holds EXCEPT ![p] = {}]
  /\ asked' = [asked EXCEPT ![p] = 0]
  /\ failed' = p
  /\ UNCHANGED <<pool, firstOfList, request, sup, victim, at, wild>>

(* supervisor_process<p> after user_process has returned. *)
Finish(p) ==
  /\ CanRun(p)
  /\ pc' = [pc EXCEPT ![p] = "finished"]
  /\ holds' = [holds EXCEPT ![p] = {}]
  /\ UNCHANGED <<pool, firstOfList, request, supervisor, asked, wild>>

-----------------------------------------------------------------------------
(* The supervisor *)

BugDefragDue == request /\ num # 0
BugDefragUnasked == ~request /\ num = 0
DefragDue == request /\ num = 0

SupTest ==
  /\ ~wild
  /\ sup = "defrag?"
  /\ sup' = IF DefragDue THEN "defrag" ELSE "failed?"
  /\ UNCHANGED <<pool, firstOfList, request, failed, victim, at, process, wild>>

(* defrag_mem links all the chunks, those in use included. *)
Defrag ==
  /\ ~wild
  /\ sup = "defrag"
  /\ nxt' = InOrderNxt
  /\ pre' = InOrderPre
  /\ firstMem' = 0
  /\ request' = FALSE
  /\ sup' = "failed?"
  /\ UNCHANGED <<count, owner, num, firstOfList, failed, victim, at, process,
                 wild>>

SupCheck ==
  /\ ~wild
  /\ sup = "failed?"
  /\ IF failed # 0 THEN sup' = "sweep" /\ victim' = failed
                   ELSE sup' = "defrag?" /\ UNCHANGED victim
  /\ UNCHANGED <<pool, firstOfList, request, failed, at, process, wild>>

BugOrphanedButFirst(c) == c > 0 /\ owner[c] = victim
Orphaned(c) == owner[c] = victim

(* One pass of the loop of reset_orphaned_chunks. *)
SupSweep ==
  /\ ~wild
  /\ sup = "sweep"
  /\ IF Orphaned(at) THEN ReleaseOne(at) ELSE UNCHANGED <<pool, wild>>
  /\ IF at = C - 1 THEN at' = 0 /\ sup' = "clear"
                   ELSE at' = at + 1 /\ UNCHANGED sup
  /\ UNCHANGED <<firstOfList, request, failed, victim, process>>

SupClear ==
  /\ ~wild
  /\ sup = "clear"
  /\ failed' = 0
  /\ victim' = 0
  /\ sup' = "defrag?"
  /\ UNCHANGED <<pool, firstOfList, request, at, process, wild>>

SupStep == SupTest \/ Defrag \/ SupCheck \/ SupSweep \/ SupClear

ProcessStep(p) ==
  \/ p \in Getters /\ \E size \in Sizes : MemGet(p, size)
  \/ MemGetReturn(p)
  \/ \E h \in holds[p] : MemRelease(p, h)
  \/ p \in Senders /\ \E q \in Procs, h \in holds[p] : Send(p, q, h)
  \/ p \in Mortal /\ Fault(p)
  \/ p \in Mortal /\ Finish(p)

Next == SupStep \/ \E p \in Procs : ProcessStep(p)

(* The supervisor is dispatched for ever (Scheduler, SupervisorRuns). *)
Spec == Init /\ [][Next]_vars /\ WF_vars(SupStep)

-----------------------------------------------------------------------------
(* Properties *)

TypeOK ==
  /\ nxt \in [Chunks -> Links]
  /\ pre \in [Chunks -> Links]
  /\ count \in [Chunks -> 0 .. C]
  /\ owner \in [Chunks -> 0 .. N]
  /\ firstMem \in Links
  /\ firstOfList \in Links
  /\ num \in Int
  /\ request \in BOOLEAN
  /\ failed \in 0 .. N
  /\ sup \in {"defrag?", "defrag", "failed?", "sweep", "clear"}
  /\ victim \in 0 .. N
  /\ at \in Chunks
  /\ pc \in [Procs -> {"run", "got", "faulted", "finished"}]
  /\ asked \in [Procs -> 0 .. C]
  /\ holds \in [Procs -> SUBSET (Chunks \X (0 .. C))]
  /\ wild \in BOOLEAN

(* The chunks on the list that starts at first_mem: those every set that   *)
(* contains first_mem and is closed under nxt_link contains.               *)
Listed ==
  {c \in Chunks : \A S \in SUBSET Chunks :
     (firstMem # NULL => firstMem \in S) /\ (\A d \in S : nxt[d] # NULL => nxt[d] \in S)
       => c \in S}

(* The list holds exactly the free chunks: none in use can be handed out   *)
(* again, and none free is lost.                                           *)
FreeList == ~wild => Listed = {c \in Chunks : Free(c)}

(* num_buf_in_use, by which the supervisor decides to defragment, is the   *)
(* number of chunks in use.                                                *)
CountExact == num = Cardinality({c \in Chunks : ~Free(c)})

(* Two processes never have the same chunk: not even by way of a buffer    *)
(* that was passed on, of a fault, or of the supervisor's sweep.  And what *)
(* mem_get is about to return nobody has, its caller included.             *)
Exclusive ==
  \A p, q \in Procs : \A k \in holds[q] :
    /\ \A h \in holds[p] : p # q => Run(h[1], h[2]) \intersect Run(k[1], k[2]) = {}
    /\ pc[p] = "got" => Run(firstOfList, asked[p]) \intersect Run(k[1], k[2]) = {}

(* What a process has is in use: nobody, the supervisor included, has      *)
(* taken it back from under it.                                            *)
HeldIsBusy == \A p \in Procs : \A h \in holds[p] : ~Free(h[1])

(* A workload that leaves one chunk in the pool never makes the pool code  *)
(* use a pointer that is not into MEMpool.                                 *)
InPool == ~wild

HasChunks(p) == \E c \in Chunks : owner[c] = p
Known(p) == failed = p \/ (sup = "sweep" /\ victim = p)
Fails(p) == pc[p] # "faulted" /\ pc'[p] = "faulted"

(* failed_process holds one process, and is cleared without a look at it.  *)
(* The supervisor knows of a failed process that still has chunks, until   *)
(* either another one fails before it has looked, or it clears             *)
(* failed_process after the sweep of another one.  Nothing else makes it   *)
(* forget: not a process that fails during a sweep of the first.           *)
OrphanRemembered ==
  [][\A p \in Procs : pc'[p] = "faulted" /\ HasChunks(p)' =>
       \/ Known(p)'
       \/ pc[p] = "faulted" /\ ~Known(p)
       \/ failed = p /\ (\E q \in Procs \ {p} : Fails(q))
       \/ failed = p /\ sup = "clear" /\ victim # p]_vars

(* A sweep leaves nothing behind, whoever allocates, releases or fails     *)
(* between its steps: when failed_process is cleared no chunk belongs to   *)
(* the process it was about.                                               *)
SweepComplete == sup = "clear" => ~HasChunks(victim)

(* The chunks of a failed process are taken back, unless another process   *)
(* fails as well.                                                          *)
OrphansReclaimed ==
  \A p \in Procs :
    pc[p] = "faulted" ~> ~HasChunks(p) \/ \E q \in Procs \ {p} : pc[q] = "faulted"

(* A defragmentation that was asked for is done if the pool stays empty.   *)
DefragServed == request /\ num = 0 ~> ~request \/ num # 0

=============================================================================
