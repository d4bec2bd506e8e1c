----------------------------- MODULE HwManager -----------------------------
(***************************************************************************)
(* A peripheral with a transmit queue: its allocation and its ring of      *)
(* buffers (kernel/hwmanager.c), and the sending of buffers through a UART *)
(* or the USB device, which share one protocol (kernel/HwDevices/hw_uart.c *)
(* and hw_usb.c), in the build with USE_QUEUES.                            *)
(*                                                                         *)
(* The buffer that is being transmitted stays at the front of the ring;    *)
(* the transmit interrupt steps over it and starts the next one.           *)
(* queue_insert runs with interrupts disabled and the interrupt handler    *)
(* cannot be preempted by a process; allocate_hw, deallocate_hw and        *)
(* hw_send_uart are otherwise interruptible, and take several steps.       *)
(***************************************************************************)
EXTENDS Integers

CONSTANTS
  N,          (* user processes                                             *)
  Q,          (* HWMAN_QUEUE_LEN                                            *)
  Bufs,       (* buffers the processes send                                 *)
  NULL,       (* no buffer                                                  *)
  TakeTurns,  (* no process calls allocate_hw or deallocate_hw while        *)
              (* another one is inside it                                   *)
  CloseIdle   (* a process gives the peripheral back only when everything   *)
              (* it has sent has gone out                                   *)

ASSUME HwAssumption ==
  /\ N \in Nat \ {0} /\ Q \in Nat \ {0, 1}
  /\ NULL \notin Bufs
  /\ TakeTurns \in BOOLEAN /\ CloseIdle \in BOOLEAN

Procs == 1 .. N
Slots == 0 .. Q - 1

VARIABLES
  owner,      (* HWMngr[].process                                           *)
  allocated,  (* HWMngr[].status = HWMAN_STATUS_ALLOCATED                   *)
  created,    (* HwQueues[].peripheral # 0                                  *)
  qOwner,     (* HwQueues[].process                                         *)
  ptr,        (* HwQueues[].ptr                                             *)
  ins,        (* HwQueues[].insertion_index                                 *)
  ext,        (* HwQueues[].extraction_index                                *)
  queued,     (* HwQueues[].queued_bufs                                     *)
  wire,       (* the buffer the peripheral transmits                        *)
  pc,         (* where each process is                                      *)
  arg,        (* the buffer of its hw_send                                  *)
  granted     (* history: processes that allocate_hw told they have it      *)

hw == <<owner, allocated>>
queue == <<created, qOwner, ptr, ins, ext, queued>>
vars == <<hw, queue, wire, pc, arg, granted>>

Init ==
  /\ owner = 0
  /\ allocated = FALSE
  /\ created = FALSE
  /\ qOwner = 0
  /\ ptr = [s \in Slots |-> NULL]
  /\ ins = 0
  /\ ext = 0
  /\ queued = 0
  /\ wire = NULL
  /\ pc = [p \in Procs |-> "run"]
  /\ arg = [p \in Procs |-> NULL]
  /\ granted = {}

Opening == {"allocating", "creating", "closing"}
MyTurn == TakeTurns => \A q \in Procs : pc[q] \notin Opening

-----------------------------------------------------------------------------
(* Allocation *)

Unowned == owner = 0

(* allocate_hw finds the peripheral without an owner ...                   *)
AllocTest(p) ==
  /\ pc[p] = "run"
  /\ MyTurn
  /\ Unowned
  /\ pc' = [pc EXCEPT ![p] = "allocating"]
  /\ UNCHANGED <<hw, queue, wire, arg, granted>>

(* ... takes it ...                                                        *)
AllocTake(p) ==
  /\ pc[p] = "allocating"
  /\ owner' = p
  /\ allocated' = TRUE
  /\ pc' = [pc EXCEPT ![p] = "creating"]
  /\ UNCHANGED <<queue, wire, arg, granted>>

(* ... and calls create_queue, whose return value it ignores.              *)
CreateQueue(p) ==
  /\ pc[p] = "creating"
  /\ created' = TRUE
  /\ qOwner' = IF created THEN qOwner ELSE p
  /\ pc' = [pc EXCEPT ![p] = "run"]
  /\ granted' = granted \union {p}
  /\ UNCHANGED <<hw, ptr, ins, ext, queued, wire, arg>>

(* deallocate_hw frees the peripheral ...                                  *)
Dealloc(p) ==
  /\ pc[p] = "run"
  /\ MyTurn
  /\ owner = p
  /\ CloseIdle => queued = 0
  /\ owner' = 0
  /\ allocated' = FALSE
  /\ pc' = [pc EXCEPT ![p] = "closing"]
  /\ granted' = granted \ {p}
  /\ UNCHANGED <<queue, wire, arg>>

(* ... and then calls destroy_queue.  HW_MNGR_QUEUE_LEN falls short of the *)
(* structure: the indices and the count keep their values.                 *)
DestroyQueue(p) ==
  /\ pc[p] = "closing"
  /\ IF created /\ qOwner = p
     THEN /\ created' = FALSE
          /\ qOwner' = 0
          /\ ptr' = [s \in Slots |-> NULL]
     ELSE UNCHANGED <<created, qOwner, ptr>>
  /\ pc' = [pc EXCEPT ![p] = "run"]
  /\ UNCHANGED <<hw, ins, ext, queued, wire, arg, granted>>

-----------------------------------------------------------------------------
(* Sending *)

BugInc(i) == i + 1
Inc(i) == IF i = Q - 1 THEN 0 ELSE i + 1

BugWasEmpty == queued = 1
WasEmpty == queued = 0

HasRoom == queued < Q

(* hw_send_uart and hw_send_usb: queue_insert, if the caller owns the      *)
(* peripheral and its queue and there is room.  If the ring was empty the  *)
(* caller goes on to start the transmission.                               *)
Send(p, b) ==
  /\ pc[p] = "run"
  /\ owner = p /\ qOwner = p
  /\ HasRoom
  /\ queued' = queued + 1
  /\ ptr' = [ptr EXCEPT ![ins] = b]
  /\ ins' = Inc(ins)
  /\ IF WasEmpty
     THEN /\ pc' = [pc EXCEPT ![p] = "starting"]
          /\ arg' = [arg EXCEPT ![p] = b]
     ELSE UNCHANGED <<pc, arg>>
  /\ UNCHANGED <<hw, created, qOwner, ext, wire, granted>>

(* HAL_UART_Transmit_IT refuses a buffer while it transmits one.           *)
Start(p) ==
  /\ pc[p] = "starting"
  /\ wire' = IF wire = NULL THEN arg[p] ELSE wire
  /\ pc' = [pc EXCEPT ![p] = "run"]
  /\ arg' = [arg EXCEPT ![p] = NULL]
  /\ UNCHANGED <<hw, queue, granted>>

BugExtracted == ptr[ext]
Extracted == ptr[Inc(ext)]

(* HAL_UART_TxCpltCallback and USB_TxCpltCallback: queue_extract steps     *)
(* over the buffer that has gone out.                                      *)
TxCplt ==
  /\ wire # NULL
  /\ IF allocated /\ queued > 0
     THEN /\ queued' = queued - 1
          /\ ext' = Inc(ext)
          /\ wire' = IF queued > 1 THEN Extracted ELSE NULL
     ELSE /\ wire' = NULL
          /\ UNCHANGED <<queued, ext>>
  /\ UNCHANGED <<hw, created, qOwner, ptr, ins, pc, arg, granted>>

ProcessStep(p) ==
  \/ AllocTest(p)
  \/ AllocTake(p)
  \/ CreateQueue(p)
  \/ Dealloc(p)
  \/ DestroyQueue(p)
  \/ \E b \in Bufs : Send(p, b)
  \/ Start(p)

Next == TxCplt \/ \E p \in Procs : ProcessStep(p)

(* A transmission that was started ends, and a process that is inside a    *)
(* call gets the CPU again (Scheduler, RunnableRuns).                      *)
Spec ==
  /\ Init /\ [][Next]_vars
  /\ WF_vars(TxCplt)
  /\ \A p \in Procs : WF_vars(Start(p))

-----------------------------------------------------------------------------
(* Properties *)

TypeOK ==
  /\ owner \in 0 .. N
  /\ allocated \in BOOLEAN
  /\ created \in BOOLEAN
  /\ qOwner \in 0 .. N
  /\ ptr \in [Slots -> Bufs \union {NULL}]
  /\ ins \in Slots
  /\ ext \in Slots
  /\ queued \in 0 .. Q
  /\ wire \in Bufs \union {NULL}
  /\ pc \in [Procs -> {"run", "starting"} \union Opening]
  /\ arg \in [Procs -> Bufs \union {NULL}]
  /\ granted \subseteq Procs

(* A.doc, 2.6: the manager is there "to avoid that 2 different processes   *)
(* try to use the same resource".                                          *)
OneOwner == \A p, q \in granted : p = q

(* The buffers of a process that has the peripheral are on their way: it   *)
(* transmits, or the process is about to start the transmission.           *)
NoStall ==
  granted # {} /\ queued > 0 => wire # NULL \/ \E p \in Procs : pc[p] = "starting"

(* The slot of the n-th buffer in the ring. *)
At(n) == IF ext + n - 1 < Q THEN ext + n - 1 ELSE ext + n - 1 - Q

(* The ring is a queue, also across a change of owner: every accepted      *)
(* buffer goes out, in order, and only then is its slot used again.        *)
Fifo == INSTANCE TxFifo WITH
          Idle <- NULL, Capacity <- Q, pending <- [n \in 1 .. queued |-> ptr[At(n)]]
FifoSpec == Fifo!Spec
=============================================================================
