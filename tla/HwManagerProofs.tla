-------------------------- MODULE HwManagerProofs --------------------------
(***************************************************************************)
(* What holds of HwManager for any number of processes, any length of the  *)
(* ring and any buffers.                                                   *)
(***************************************************************************)
EXTENDS HwManager, Sequences, SequenceTheorems, TLAPS

LEMMA IncType == ASSUME NEW i \in Slots PROVE Inc(i) \in Slots
  BY HwAssumption DEF Slots, Inc

LEMMA InitType == Init => TypeOK
<1> SUFFICES ASSUME Init PROVE TypeOK
  OBVIOUS
<1>1. 0 \in Slots /\ 0 \in 0 .. Q /\ 0 \in 0 .. N
  BY HwAssumption DEF Slots
<1>2. pc \in [Procs -> {"run", "starting"} \union Opening]
  BY DEF Init
<1>3. /\ ptr \in [Slots -> Bufs \union {NULL}]
      /\ arg \in [Procs -> Bufs \union {NULL}]
  BY DEF Init
<1> QED
  BY <1>1, <1>2, <1>3 DEF Init, TypeOK

LEMMA StepType == TypeOK /\ [Next]_vars => TypeOK'
<1> SUFFICES ASSUME TypeOK, [Next]_vars PROVE TypeOK'
  OBVIOUS
<1> USE HwAssumption DEF TypeOK, Procs
<1>1. CASE TxCplt
  <2>1. Inc(ext) \in Slots
    BY IncType
  <2>2. Extracted \in Bufs \union {NULL}
    BY <2>1 DEF Extracted
  <2>3. queued' \in 0 .. Q /\ ext' \in Slots
    BY <1>1, <2>1 DEF TxCplt
  <2>4. wire' \in Bufs \union {NULL}
    BY <1>1, <2>2 DEF TxCplt
  <2> QED
    BY <1>1, <2>3, <2>4 DEF TxCplt, hw
<1>2. ASSUME NEW p \in Procs, AllocTest(p) PROVE TypeOK'
  BY <1>2 DEF AllocTest, hw, queue, Opening
<1>3. ASSUME NEW p \in Procs, AllocTake(p) PROVE TypeOK'
  BY <1>3 DEF AllocTake, queue, Opening
<1>4. ASSUME NEW p \in Procs, CreateQueue(p) PROVE TypeOK'
  BY <1>4 DEF CreateQueue, hw, Opening
<1>5. ASSUME NEW p \in Procs, Dealloc(p) PROVE TypeOK'
  <2>1. pc' \in [Procs -> {"run", "starting"} \union Opening]
    BY <1>5 DEF Dealloc, Opening
  <2>2. owner' \in 0 .. N /\ granted' \subseteq Procs
    BY <1>5 DEF Dealloc
  <2>3. allocated' \in BOOLEAN
    BY <1>5 DEF Dealloc
  <2> QED
    BY <1>5, <2>1, <2>2, <2>3 DEF Dealloc, queue
<1>6. ASSUME NEW p \in Procs, DestroyQueue(p) PROVE TypeOK'
  <2>1. ptr' \in [Slots -> Bufs \union {NULL}]
    BY <1>6 DEF DestroyQueue
  <2>2. qOwner' \in 0 .. N
    BY <1>6 DEF DestroyQueue
  <2>3. created' \in BOOLEAN
    BY <1>6 DEF DestroyQueue
  <2>4. pc' \in [Procs -> {"run", "starting"} \union Opening]
    BY <1>6 DEF DestroyQueue
  <2> QED
    BY <1>6, <2>1, <2>2, <2>3, <2>4 DEF DestroyQueue, hw
<1>7. ASSUME NEW p \in Procs, NEW b \in Bufs, Send(p, b) PROVE TypeOK'
  <2>1. ins' \in Slots
    BY <1>7, IncType DEF Send
  <2>2. queued' \in 0 .. Q
    BY <1>7 DEF Send, HasRoom
  <2>3. pc' \in [Procs -> {"run", "starting"} \union Opening]
    BY <1>7 DEF Send
  <2> QED
    BY <1>7, <2>1, <2>2, <2>3 DEF Send, hw
<1>8. ASSUME NEW p \in Procs, Start(p) PROVE TypeOK'
  BY <1>8 DEF Start, hw, queue
<1>9. CASE UNCHANGED vars
  BY <1>9 DEF vars, hw, queue
<1> QED
  BY <1>1, <1>2, <1>3, <1>4, <1>5, <1>6, <1>7, <1>8, <1>9 DEF Next, ProcessStep

(* TypeOK: every variable of the peripheral, of its ring (hwmanager.c) and *)
(* of its users keeps its type.                                            *)
THEOREM TypeCorrect == Spec => []TypeOK
  BY InitType, StepType, PTL DEF Spec

-----------------------------------------------------------------------------
(* The invariant of a workload whose processes take and give back the      *)
(* peripheral one at a time, and give it back idle.                        *)

Disciplined == TakeTurns /\ CloseIdle

(* One process at most is inside allocate_hw or deallocate_hw, and the     *)
(* peripheral and its queue belong to it or to the process that was        *)
(* granted the peripheral.                                                 *)
LockInv ==
  /\ \A p, q \in Procs : pc[p] \in Opening /\ pc[q] \in Opening => p = q
  /\ \A p \in Procs : pc[p] = "allocating" => owner = 0 /\ ~created
  /\ \A p \in Procs : pc[p] = "creating" => owner = p /\ allocated /\ ~created
  /\ \A p \in Procs : pc[p] = "closing" => owner = 0 /\ created /\ qOwner = p
  /\ \A p \in granted : owner = p /\ allocated /\ created /\ qOwner = p
  /\ owner # 0 => owner \in granted \/ pc[owner] = "creating"
  /\ created => qOwner \in granted \/ (qOwner \in Procs /\ pc[qOwner] = "closing")

(* The insertion index is where the ring ends; what is transmitted, or is  *)
(* about to be, is its first buffer; and it holds nothing while nobody has *)
(* the peripheral.                                                         *)
RingInv ==
  /\ ins = At(queued + 1)
  /\ \A n \in 1 .. queued : ptr[At(n)] # NULL
  /\ wire # NULL => queued > 0 /\ wire = ptr[ext]
  /\ \A p \in Procs :
       pc[p] = "starting" =>
         p \in granted /\ wire = NULL /\ queued > 0 /\ arg[p] = ptr[ext]
  /\ queued > 0 => granted # {}
  /\ queued > 0 => wire # NULL \/ \E p \in Procs : pc[p] = "starting"

HwInv == TypeOK /\ LockInv /\ RingInv

LEMMA InitInv == Init => HwInv
<1> SUFFICES ASSUME Init PROVE HwInv
  OBVIOUS
<1>1. TypeOK
  BY InitType
<1>2. \A p \in Procs : pc[p] = "run"
  BY DEF Init
<1>3. LockInv
  BY <1>2 DEF Init, LockInv, Opening
<1>4. At(queued + 1) = 0
  BY HwAssumption DEF Init, At
<1>5. RingInv
  BY <1>2, <1>4 DEF Init, RingInv
<1> QED
  BY <1>1, <1>3, <1>5 DEF HwInv

LEMMA LockStep ==
  ASSUME TakeTurns, TypeOK, LockInv, [Next]_vars
  PROVE  LockInv'
<1>0. TypeOK /\ pc \in [Procs -> {"run", "starting"} \union Opening]
  BY DEF TypeOK
<1>1. CASE TxCplt
  BY <1>1 DEF TxCplt, LockInv, hw
<1>2. ASSUME NEW p \in Procs, AllocTest(p) PROVE LockInv'
  <2>1. \A q \in Procs : pc[q] \notin Opening
    BY <1>2 DEF AllocTest, MyTurn
  <2>2. \A q \in Procs : pc'[q] = IF q = p THEN "allocating" ELSE pc[q]
    BY <1>0, <1>2 DEF AllocTest
  <2>3. owner = 0 /\ granted = {}
    BY <1>2 DEF AllocTest, Unowned, LockInv, TypeOK, Procs
  <2>4. ~created
    BY <2>1, <2>3 DEF LockInv, Opening
  <2> QED
    BY <1>2, <2>1, <2>2, <2>3, <2>4 DEF AllocTest, LockInv, Opening, hw, queue
<1>3. ASSUME NEW p \in Procs, AllocTake(p) PROVE LockInv'
  <2>1. \A q \in Procs : pc'[q] = IF q = p THEN "creating" ELSE pc[q]
    BY <1>0, <1>3 DEF AllocTake
  <2>2. \A q \in Procs : q # p => pc[q] \notin Opening
    BY <1>3 DEF AllocTake, LockInv, Opening
  <2>3. owner = 0 /\ ~created /\ granted = {}
    BY <1>3 DEF AllocTake, LockInv, TypeOK, Procs
  <2> QED
    BY <1>3, <2>1, <2>2, <2>3 DEF AllocTake, LockInv, Opening, queue
<1>4. ASSUME NEW p \in Procs, CreateQueue(p) PROVE LockInv'
  <2>1. \A q \in Procs : pc'[q] = IF q = p THEN "run" ELSE pc[q]
    BY <1>0, <1>4 DEF CreateQueue
  <2>2. \A q \in Procs : q # p => pc[q] \notin Opening
    BY <1>4 DEF CreateQueue, LockInv, Opening
  <2>3. owner = p /\ allocated /\ ~created /\ granted \subseteq {p}
    BY <1>4 DEF CreateQueue, LockInv
  <2> QED
    BY <1>4, <2>1, <2>2, <2>3 DEF CreateQueue, LockInv, Opening, hw
<1>5. ASSUME NEW p \in Procs, Dealloc(p) PROVE LockInv'
  <2>1. \A q \in Procs : pc'[q] = IF q = p THEN "closing" ELSE pc[q]
    BY <1>0, <1>5 DEF Dealloc
  <2>2. \A q \in Procs : pc[q] \notin Opening
    BY <1>5 DEF Dealloc, MyTurn
  <2>3. p \in granted /\ created /\ qOwner = p
    BY <1>5, <2>2 DEF Dealloc, LockInv, Procs, Opening
  <2>4. granted' = {}
    BY <1>5, <2>3 DEF Dealloc, LockInv
  <2> QED
    BY <1>5, <2>1, <2>2, <2>3, <2>4 DEF Dealloc, LockInv, Opening, queue
<1>6. ASSUME NEW p \in Procs, DestroyQueue(p) PROVE LockInv'
  <2>1. \A q \in Procs : pc'[q] = IF q = p THEN "run" ELSE pc[q]
    BY <1>0, <1>6 DEF DestroyQueue
  <2>2. \A q \in Procs : q # p => pc[q] \notin Opening
    BY <1>6 DEF DestroyQueue, LockInv, Opening
  <2>3. owner = 0 /\ created /\ qOwner = p /\ granted = {}
    BY <1>6 DEF DestroyQueue, LockInv, TypeOK, Procs
  <2> QED
    BY <1>6, <2>1, <2>2, <2>3 DEF DestroyQueue, LockInv, Opening, hw
<1>7. ASSUME NEW p \in Procs, NEW b \in Bufs, Send(p, b) PROVE LockInv'
  <2>1. pc' = pc \/ pc' = [pc EXCEPT ![p] = "starting"]
    BY <1>7 DEF Send
  <2>2. pc[p] = "run"
    BY <1>7 DEF Send
  <2>3. p \in granted
    BY <1>7, <2>2 DEF Send, LockInv, Procs
  <2>4. UNCHANGED <<owner, allocated, created, qOwner, granted>>
    BY <1>7 DEF Send, hw
  <2>5. \A q \in Procs : pc'[q] = pc[q] \/ (q = p /\ pc'[q] = "starting")
    BY <1>0, <2>1
  <2> QED
    BY <2>1, <2>2, <2>3, <2>4, <2>5 DEF LockInv, Opening
<1>8. ASSUME NEW p \in Procs, Start(p) PROVE LockInv'
  <2>1. \A q \in Procs : pc'[q] = IF q = p THEN "run" ELSE pc[q]
    BY <1>0, <1>8 DEF Start
  <2> QED
    BY <1>8, <2>1 DEF Start, LockInv, Opening, hw, queue
<1>9. CASE UNCHANGED vars
  BY <1>9 DEF vars, hw, queue, LockInv
<1> QED
  BY <1>1, <1>2, <1>3, <1>4, <1>5, <1>6, <1>7, <1>8, <1>9 DEF Next, ProcessStep

LEMMA AtFirst == ASSUME TypeOK PROVE At(1) = ext /\ At(1) \in Slots
  BY HwAssumption DEF TypeOK, Slots, At

LEMMA AtSecond == ASSUME TypeOK PROVE At(2) = Inc(ext)
  BY HwAssumption DEF TypeOK, Slots, At, Inc

LEMMA AtType == ASSUME TypeOK, NEW n \in 1 .. Q + 1 PROVE At(n) \in Slots
  BY HwAssumption DEF TypeOK, Slots, At

(* The slots of a ring with room are distinct from the one after them.     *)
LEMMA AtDistinct ==
  ASSUME TypeOK, NEW k \in 0 .. Q - 1, NEW n \in 1 .. k
  PROVE  At(n) # At(k + 1)
  BY HwAssumption DEF TypeOK, Slots, At

(* The slot after the last one is where the next insertion goes.           *)
LEMMA AtNext ==
  ASSUME TypeOK, NEW k \in 1 .. Q
  PROVE  At(k + 1) = Inc(At(k))
  BY HwAssumption DEF TypeOK, Slots, At, Inc

(* Stepping over the first buffer shifts the slots by one.                 *)
LEMMA AtShift ==
  ASSUME TypeOK, ext' = Inc(ext), NEW n \in 1 .. Q
  PROVE  At(n)' = At(n + 1)
  BY HwAssumption DEF TypeOK, Slots, At, Inc

LEMMA RingStep ==
  ASSUME TakeTurns, CloseIdle, HwInv, [Next]_vars
  PROVE  RingInv'
<1> USE DEF HwInv
<1>0. /\ TypeOK
      /\ pc \in [Procs -> {"run", "starting"} \union Opening]
      /\ arg \in [Procs -> Bufs \union {NULL}]
      /\ ptr \in [Slots -> Bufs \union {NULL}]
      /\ queued \in 0 .. Q /\ Q \in Nat /\ ext \in Slots
  BY HwAssumption DEF TypeOK
<1>1. CASE TxCplt
  <2>1. queued > 0 /\ granted # {}
    BY <1>0, <1>1 DEF TxCplt, RingInv
  <2>2. allocated
    BY <2>1 DEF LockInv
  <2>3. queued' = queued - 1 /\ ext' = Inc(ext)
    BY <1>1, <2>1, <2>2 DEF TxCplt
  <2>4. wire' = IF queued > 1 THEN ptr[ext'] ELSE NULL
    BY <1>1, <2>1, <2>2, <2>3 DEF TxCplt, Extracted
  <2>5. UNCHANGED <<ptr, ins, pc, granted>>
    BY <1>1 DEF TxCplt
  <2>6. \A n \in 1 .. queued : At(n)' = At(n + 1)
    BY <1>0, <2>3, AtShift
  <2>7. ins' = At(queued + 1)'
    BY <1>0, <2>1, <2>3, <2>5, <2>6 DEF RingInv
  <2>8. \A n \in 1 .. queued' : ptr'[At(n)'] # NULL
    BY <1>0, <2>3, <2>5, <2>6 DEF RingInv
  <2>9. At(1)' = ext'
    <3>1. At(1)' = At(2)
      BY <1>0, <2>1, <2>6
    <3>2. At(2) = Inc(ext)
      BY <1>0, AtSecond
    <3> QED
      BY <2>3, <3>1, <3>2
  <2>10. queued > 1 => ptr[ext'] # NULL
    BY <1>0, <2>3, <2>5, <2>8, <2>9
  <2>11. \A p \in Procs : pc'[p] # "starting"
    BY <1>1, <2>5 DEF TxCplt, RingInv
  <2> QED
    BY <1>0, <2>1, <2>3, <2>4, <2>5, <2>7, <2>8, <2>10, <2>11 DEF RingInv
<1>2. ASSUME NEW p \in Procs, AllocTest(p) \/ AllocTake(p) \/ CreateQueue(p)
      PROVE RingInv'
  <2>1. UNCHANGED <<ptr, ins, ext, queued, wire, arg>>
    BY <1>2 DEF AllocTest, AllocTake, CreateQueue, queue
  <2>2. granted \subseteq granted'
    BY <1>2 DEF AllocTest, AllocTake, CreateQueue
  <2>3. \A q \in Procs : pc'[q] = "starting" <=> pc[q] = "starting"
    BY <1>0, <1>2 DEF AllocTest, AllocTake, CreateQueue
  <2> QED
    BY <2>1, <2>2, <2>3 DEF RingInv, At
<1>3. ASSUME NEW p \in Procs, Dealloc(p) \/ DestroyQueue(p) PROVE RingInv'
  <2>1. queued = 0
    <3>1. CASE Dealloc(p)
      BY <3>1 DEF Dealloc
    <3>2. CASE DestroyQueue(p)
      <4>1. granted = {}
        BY <3>2 DEF DestroyQueue, LockInv, TypeOK, Procs
      <4> QED
        BY <1>0, <4>1 DEF RingInv
    <3> QED
      BY <1>3, <3>1, <3>2
  <2>2. UNCHANGED <<ins, ext, queued, wire>>
    BY <1>3 DEF Dealloc, DestroyQueue, queue
  <2>3. \A q \in Procs : pc'[q] # "starting"
    BY <1>0, <1>3, <2>1 DEF Dealloc, DestroyQueue, RingInv
  <2> QED
    BY <1>0, <2>1, <2>2, <2>3 DEF RingInv, At
<1>4. ASSUME NEW p \in Procs, NEW b \in Bufs, Send(p, b) PROVE RingInv'
  <2>1. queued < Q /\ queued' = queued + 1 /\ UNCHANGED <<ext, wire, granted>>
    BY <1>4 DEF Send, HasRoom
  <2>2. ins = At(queued + 1) /\ ins \in Slots
    BY DEF RingInv, TypeOK
  <2>3. ins' = At(queued + 2)
    BY <1>0, <1>4, <2>1, <2>2, AtNext DEF Send
  <2>4. \A n \in 1 .. queued : At(n) \in Slots /\ ptr'[At(n)] = ptr[At(n)]
    BY <1>0, <1>4, <2>1, <2>2, AtType, AtDistinct DEF Send
  <2>5. ptr'[At(queued + 1)] = b /\ b # NULL
    BY <1>0, <1>4, <2>2, HwAssumption DEF Send
  <2>6. p \in granted
    BY <1>4 DEF Send, LockInv, Procs
  <2>7. queued > 0 => ptr'[ext] = ptr[ext]
    BY <1>0, <2>4, AtFirst
  <2>8. CASE queued = 0
    <3>1. wire = NULL /\ \A q \in Procs : pc[q] # "starting"
      BY <2>8 DEF RingInv
    <3>2. pc' = [pc EXCEPT ![p] = "starting"] /\ arg' = [arg EXCEPT ![p] = b]
      BY <1>4, <2>8 DEF Send, WasEmpty
    <3>3. ptr'[ext] = b
      BY <1>0, <2>5, <2>8, AtFirst
    <3>4. \A q \in Procs : pc'[q] = "starting" <=> q = p
      BY <1>0, <3>1, <3>2
    <3>5. arg'[p] = b
      BY <1>0, <3>2
    <3>6. ins' = At(queued + 1)'
      BY <1>0, <2>1, <2>3 DEF At
    <3>7. \A n \in 1 .. queued' : ptr'[At(n)'] # NULL
      BY <1>0, <2>1, <2>5, <2>8 DEF At
    <3> QED
      BY <1>0, <2>1, <2>6, <2>8, <3>1, <3>3, <3>4, <3>5, <3>6, <3>7 DEF RingInv
  <2>9. CASE queued > 0
    <3>1. UNCHANGED <<pc, arg>>
      BY <1>4, <2>9 DEF Send, WasEmpty
    <3>2. \A n \in 1 .. queued + 1 : ptr'[At(n)] # NULL
      BY <1>0, <2>4, <2>5 DEF RingInv
    <3>3. \A n \in 1 .. queued' : ptr'[At(n)'] # NULL
      BY <2>1, <3>2 DEF At
    <3>4. ins' = At(queued + 1)'
      BY <1>0, <2>1, <2>3 DEF At
    <3> QED
      BY <1>0, <2>1, <2>7, <2>9, <3>1, <3>3, <3>4 DEF RingInv
  <2> QED
    BY <1>0, <2>8, <2>9
<1>5. ASSUME NEW p \in Procs, Start(p) PROVE RingInv'
  <2>1. pc[p] = "starting" /\ wire = NULL /\ queued > 0 /\ arg[p] = ptr[ext]
    BY <1>5 DEF Start, RingInv
  <2>2. wire' = ptr[ext] /\ UNCHANGED <<ptr, ins, ext, queued, granted>>
    BY <1>5, <2>1 DEF Start, queue
  <2>3. ptr[ext] # NULL
    BY <1>0, <2>1, AtFirst DEF RingInv
  <2>4. \A q \in Procs : pc[q] = "starting" => q = p
    BY <2>1 DEF RingInv, LockInv
  <2>5. \A q \in Procs : pc'[q] # "starting"
    BY <1>0, <1>5, <2>4 DEF Start
  <2> QED
    BY <1>0, <2>1, <2>2, <2>3, <2>5 DEF RingInv, At
<1>6. CASE UNCHANGED vars
  BY <1>6 DEF vars, hw, queue, RingInv, At
<1> QED
  BY <1>1, <1>2, <1>3, <1>4, <1>5, <1>6 DEF Next, ProcessStep

LEMMA Inductive == ASSUME Disciplined PROVE Spec => []HwInv
<1> USE DEF Disciplined
<1>1. HwInv /\ [Next]_vars => HwInv'
  <2> SUFFICES ASSUME HwInv, [Next]_vars PROVE HwInv'
    OBVIOUS
  <2> QED
    BY StepType, LockStep, RingStep DEF HwInv
<1> QED
  BY InitInv, <1>1, PTL DEF Spec

(* NoStall: buffers in the ring are on their way, also those of a process  *)
(* that took over a used ring (hw_send_uart against the interrupt).        *)
THEOREM NeverStalls == ASSUME Disciplined PROVE Spec => []NoStall
<1>1. HwInv => NoStall
  BY DEF HwInv, RingInv, NoStall
<1> QED
  BY <1>1, Inductive, PTL

-----------------------------------------------------------------------------
(* The ring implements the FIFO *)

LEMMA FunctionIsSeq ==
  ASSUME NEW S, NEW k \in Nat, NEW f \in [1 .. k -> S]
  PROVE  f \in Seq(S) /\ Len(f) = k
<1>1. f \in Seq(S)
  BY SeqDef
<1>2. DOMAIN f = 1 .. k /\ DOMAIN f = 1 .. Len(f) /\ Len(f) \in Nat
  BY <1>1, LenProperties
<1> QED
  BY <1>1, <1>2

LEMMA AppendIs ==
  ASSUME NEW S, NEW k \in Nat, NEW f \in [1 .. k -> S],
         NEW g \in [1 .. k + 1 -> S], \A n \in 1 .. k : g[n] = f[n]
  PROVE  g = Append(f, g[k + 1])
<1>1. f \in Seq(S) /\ Len(f) = k /\ g \in Seq(S) /\ Len(g) = k + 1
  BY FunctionIsSeq
<1> QED
  BY <1>1, AppendProperties, SeqEqual

LEMMA TailIs ==
  ASSUME NEW S, NEW k \in Nat, NEW f \in [1 .. k + 1 -> S],
         NEW g \in [1 .. k -> S], \A n \in 1 .. k : g[n] = f[n + 1]
  PROVE  f # << >> /\ g = Tail(f)
<1>1. f \in Seq(S) /\ Len(f) = k + 1 /\ g \in Seq(S) /\ Len(g) = k
  BY FunctionIsSeq
<1>2. f # << >>
  BY <1>1
<1> QED
  BY <1>1, <1>2, HeadTailProperties, SeqEqual

Pending == [n \in 1 .. queued |-> ptr[At(n)]]

LEMMA PendingType ==
  ASSUME TypeOK
  PROVE  /\ Pending \in [1 .. queued -> Bufs \union {NULL}]
         /\ Len(Pending) = queued
         /\ queued > 0 => Pending # << >> /\ Head(Pending) = ptr[ext]
<1>1. queued \in Nat /\ \A n \in 1 .. queued : At(n) \in Slots
  BY HwAssumption, AtType DEF TypeOK
<1>2. Pending \in [1 .. queued -> Bufs \union {NULL}]
  BY <1>1 DEF TypeOK, Pending
<1>3. Pending \in Seq(Bufs \union {NULL}) /\ Len(Pending) = queued
  BY <1>1, <1>2, FunctionIsSeq
<1>4. ASSUME queued > 0 PROVE Pending # << >> /\ Head(Pending) = ptr[ext]
  <2>1. Pending[1] = ptr[ext]
    BY <1>1, <1>4, AtFirst DEF Pending
  <2> QED
    BY <1>3, <1>4, <2>1
<1> QED
  BY <1>2, <1>3, <1>4

LEMMA FifoInit == Init => Fifo!Init
<1> SUFFICES ASSUME Init PROVE Fifo!Init
  OBVIOUS
<1>1. TypeOK /\ queued = 0
  BY InitType DEF Init
<1>2. Pending = << >>
  BY <1>1, PendingType
<1> QED
  BY <1>2 DEF Init, Fifo!Init, Pending

LEMMA FifoComplete ==
  ASSUME HwInv, TypeOK', TxCplt
  PROVE  Fifo!Complete
<1> DEFINE S == Bufs \union {NULL}
<1>1. TypeOK /\ queued \in Nat /\ queued' \in Nat /\ queued <= Q /\ Q \in Nat
  BY HwAssumption DEF HwInv, TypeOK
<1>2. queued > 0 /\ allocated /\ wire # NULL
  BY <1>1 DEF TxCplt, HwInv, RingInv, LockInv
<1>3. /\ queued' = queued - 1 /\ queued' < Q /\ ext' = Inc(ext) /\ ptr' = ptr
      /\ wire' = IF queued' = 0 THEN NULL ELSE ptr[Inc(ext)]
  BY <1>1, <1>2 DEF TxCplt, Extracted
<1>4. \A n \in 1 .. queued' : At(n)' = At(n + 1) /\ At(n + 1) \in Slots
  <2> SUFFICES ASSUME NEW n \in 1 .. queued'
               PROVE  At(n)' = At(n + 1) /\ At(n + 1) \in Slots
    OBVIOUS
  <2>1. n \in 1 .. Q /\ n + 1 \in 1 .. Q + 1
    BY <1>1, <1>3
  <2> QED
    BY <1>1, <1>3, <2>1, AtShift, AtType
<1>5. Pending \in [1 .. queued' + 1 -> S]
  BY <1>1, <1>3, PendingType
<1>6. Pending' = [n \in 1 .. queued' |-> ptr[At(n + 1)]]
  BY <1>3, <1>4 DEF Pending
<1>7. Pending' \in [1 .. queued' -> S]
  BY <1>1, <1>4, <1>6 DEF TypeOK
<1>8. \A n \in 1 .. queued' : Pending'[n] = Pending[n + 1]
  <2> SUFFICES ASSUME NEW n \in 1 .. queued' PROVE Pending'[n] = Pending[n + 1]
    OBVIOUS
  <2>1. Pending'[n] = ptr[At(n + 1)]
    BY <1>6
  <2>2. n + 1 \in 1 .. queued
    BY <1>1, <1>3
  <2>3. Pending[n + 1] = ptr[At(n + 1)]
    BY <2>2 DEF Pending
  <2> QED
    BY <2>1, <2>3
<1>9. Pending' = Tail(Pending)
  BY <1>1, <1>5, <1>7, <1>8, TailIs
<1>10. Len(Pending') = queued' /\ Pending' \in Seq(S)
  BY <1>1, <1>7, FunctionIsSeq
<1>11. wire' = Fifo!FirstOf(Pending')
  <2>1. CASE queued' = 0
    <3>1. Pending' = << >>
      BY <1>10, <2>1
    <3>2. wire' = NULL
      BY <1>3, <2>1
    <3> QED
      BY <3>1, <3>2 DEF Fifo!FirstOf
  <2>2. CASE queued' # 0
    <3>1. Pending' # << >> /\ Head(Pending') = Pending'[1]
      BY <1>1, <1>10, <2>2
    <3>2. Pending'[1] = ptr[At(2)]
      BY <1>1, <1>6, <2>2
    <3> QED
      BY <1>1, <1>3, <2>2, <3>1, <3>2, AtSecond DEF Fifo!FirstOf
  <2> QED
    BY <2>1, <2>2
<1> QED
  BY <1>2, <1>9, <1>11 DEF Fifo!Complete, Pending

LEMMA FifoAccept ==
  ASSUME HwInv, NEW p \in Procs, NEW b \in Bufs, Send(p, b)
  PROVE  Fifo!Accept(b)
<1> DEFINE S == Bufs \union {NULL}
<1>1. TypeOK /\ queued \in Nat /\ ins = At(queued + 1) /\ ins \in Slots
  BY HwAssumption DEF HwInv, RingInv, TypeOK
<1>2. /\ queued < Q /\ queued' = queued + 1 /\ UNCHANGED <<ext, wire>>
      /\ ptr' = [ptr EXCEPT ![ins] = b]
  BY DEF Send, HasRoom
<1>3. \A n \in 1 .. queued : At(n) \in Slots /\ ptr'[At(n)] = ptr[At(n)]
  BY <1>1, <1>2, AtType, AtDistinct, HwAssumption DEF TypeOK
<1>4. ptr'[At(queued + 1)] = b
  BY <1>1, <1>2 DEF TypeOK
<1>5. Pending \in [1 .. queued -> S] /\ Len(Pending) = queued
  BY <1>1, PendingType
<1>6. Pending' = [n \in 1 .. queued + 1 |-> ptr'[At(n)]]
  BY <1>2 DEF Pending, At
<1>7. \A n \in 1 .. queued : Pending'[n] = Pending[n]
  <2>1. \A n \in 1 .. queued : Pending[n] = ptr[At(n)]
    BY DEF Pending
  <2>2. \A n \in 1 .. queued : Pending'[n] = ptr'[At(n)]
    BY <1>1, <1>6
  <2> QED
    BY <1>3, <2>1, <2>2
<1>8. Pending'[queued + 1] = b
  BY <1>1, <1>4, <1>6
<1>9. Pending' \in [1 .. queued + 1 -> S]
  <2>1. \A n \in 1 .. queued + 1 : Pending'[n] \in S
    BY <1>1, <1>5, <1>7, <1>8
  <2> QED
    BY <1>6, <2>1
<1>10. Pending' = Append(Pending, b)
  BY <1>1, <1>5, <1>7, <1>8, <1>9, AppendIs
<1> QED
  BY <1>2, <1>5, <1>10 DEF Fifo!Accept, Pending

LEMMA FifoBegin ==
  ASSUME HwInv, NEW p \in Procs, Start(p)
  PROVE  Fifo!Begin
<1>1. /\ TypeOK /\ wire = NULL /\ queued > 0 /\ wire' = ptr[ext]
      /\ UNCHANGED <<ptr, ext, queued>>
  BY DEF HwInv, RingInv, Start, queue
<1>2. Pending # << >> /\ Head(Pending) = ptr[ext]
  BY <1>1, PendingType
<1>3. Pending' = Pending
  BY <1>1 DEF Pending, At
<1> QED
  BY <1>1, <1>2, <1>3 DEF Fifo!Begin, Pending

LEMMA FifoStep ==
  ASSUME TakeTurns, CloseIdle, HwInv, [Next]_vars
  PROVE  [Fifo!Next]_(Fifo!vars)
<1>1. TypeOK /\ TypeOK'
  BY StepType DEF HwInv
<1>2. ASSUME UNCHANGED <<ptr, ext, queued, wire>> PROVE UNCHANGED Fifo!vars
  BY <1>2 DEF Fifo!vars, At
<1>3. CASE TxCplt
  BY <1>1, <1>3, FifoComplete DEF Fifo!Next
<1>4. ASSUME NEW p \in Procs, NEW b \in Bufs, Send(p, b) PROVE Fifo!Next
  BY <1>4, FifoAccept DEF Fifo!Next
<1>5. ASSUME NEW p \in Procs, Start(p) PROVE Fifo!Next
  BY <1>5, FifoBegin DEF Fifo!Next
<1>6. ASSUME NEW p \in Procs,
             AllocTest(p) \/ AllocTake(p) \/ CreateQueue(p) \/ Dealloc(p)
      PROVE UNCHANGED Fifo!vars
  BY <1>2, <1>6 DEF AllocTest, AllocTake, CreateQueue, Dealloc, queue
<1>7. ASSUME NEW p \in Procs, DestroyQueue(p) PROVE UNCHANGED Fifo!vars
  <2>1. granted = {}
    BY <1>7 DEF DestroyQueue, HwInv, LockInv, TypeOK, Procs
  <2>2. queued = 0 /\ queued' = 0 /\ wire' = wire
    BY <1>1, <1>7, <2>1 DEF DestroyQueue, HwInv, RingInv, TypeOK
  <2> QED
    BY <2>2 DEF Fifo!vars
<1>8. CASE UNCHANGED vars
  BY <1>2, <1>8 DEF vars, queue
<1> QED
  BY <1>3, <1>4, <1>5, <1>6, <1>7, <1>8 DEF Next, ProcessStep

(* The safety part of FifoSpec: the ring shared by hw_send_uart and the    *)
(* transmit interrupt sends every accepted buffer once, in order, and does *)
(* not use a slot again before its buffer has gone out.                    *)
THEOREM RingIsFifo == ASSUME Disciplined PROVE Spec => Fifo!Safety
<1> USE DEF Disciplined
<1>1. HwInv /\ [Next]_vars => [Fifo!Next]_(Fifo!vars)
  BY FifoStep
<1> QED
  BY <1>1, FifoInit, Inductive, PTL DEF Spec, Fifo!Safety
=============================================================================
