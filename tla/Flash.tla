------------------------------- MODULE Flash -------------------------------
(***************************************************************************)
(* The QSPI flash: the calls of kernel/HwDevices/hw_qspi.c, which go       *)
(* through drivers/flash/qspi.c to drivers/flash/w25q.c, and the chip as   *)
(* that driver uses it.                                                    *)
(*                                                                         *)
(* A call is a sequence of commands to the chip.  The driver sleeps        *)
(* (task_delay) while it polls the chip and after every write enable, and  *)
(* is preempted by other processes elsewhere.  The chip ignores what it is *)
(* told while it is busy, and what it has not been write-enabled for; what *)
(* it accepts is in its contents when it has finished (ChipDone).  A       *)
(* transfer can fail at any step (HAL_QSPI_Command, _Transmit, _Receive).  *)
(*                                                                         *)
(* Contents are cells, each a set of bits that are one: an erased cell is  *)
(* Bits, and programming can only clear bits.                              *)
(***************************************************************************)
EXTENDS Integers, Sequences

CONSTANTS
  N,         (* user processes                                              *)
  PageSize,  (* MEM_PAGE_SIZE                                               *)
  Half,      (* MEM_SBLOCK_SIZE, in cells                                   *)
  Blocks,    (* BLOCK_COUNT                                                 *)
  Bits,      (* the bits of a cell                                          *)
  SizeMod,   (* 2^16: data_len of w25q_ProgramRaw and _ReadRaw is uint16_t  *)
  Addrs,     (* the addresses the processes write to                        *)
  Datas      (* what they write                                             *)

ASSUME FlashAssumption ==
  /\ N \in Nat \ {0}
  /\ PageSize \in Nat \ {0} /\ Half \in Nat \ {0} /\ Blocks \in Nat \ {0}
  /\ SizeMod \in Nat /\ PageSize < SizeMod
  /\ Addrs \subseteq Nat
  /\ Datas \subseteq Seq(SUBSET Bits)

Procs == 1 .. N
Chip == 2 * Half * Blocks
Cells == 0 .. Chip - 1

Ops ==
  [kind : {"init", "enable", "disable", "eraseChip"}]
  \union [kind : {"write"}, addr : Addrs, data : Datas]
  \union [kind : {"read"}, size : {Len(d) : d \in Datas}]
  \union [kind : {"eraseBlock"}, block : 0 .. Blocks]
NoOp == [kind |-> "none"]

VARIABLES
  cells,  (* the contents of the chip                                       *)
  busy,   (* its bit BUSY                                                   *)
  wel,    (* its bit WEL                                                    *)
  qe,     (* its bit QE, without which it takes no command on four lines    *)
  job,    (* cells and qe as they will be when it has finished              *)
  owner,  (* HWMngr[HW_QSPI].process                                        *)
  pc,     (* where each process is                                          *)
  op,     (* its call                                                       *)
  ret,    (* what the call returns                                          *)
  before, (* history: the contents that its call found, or was to find      *)
  blind,  (* history: the call went on to its command with a busy chip,     *)
          (* whose status it could not read, or to a write without QE       *)
  early,  (* history: the call ended with a busy chip in the same way       *)
  raced   (* history: the flash changed its owner during a call; no other   *)
          (* history is kept until all calls under way have returned        *)

chip == <<cells, busy, wel, qe, job>>
call == <<op, ret, before, blind, early, raced>>
vars == <<chip, owner, pc, call>>

Erased == [x \in Cells |-> Bits]

Init ==
  /\ cells = Erased /\ busy = FALSE /\ wel = FALSE /\ qe = FALSE
  /\ job = [cells |-> Erased, qe |-> FALSE]
  /\ owner = 0
  /\ pc = [p \in Procs |-> "run"]
  /\ op = [p \in Procs |-> NoOp]
  /\ ret = [p \in Procs |-> "none"]
  /\ before = [p \in Procs |-> Erased]
  /\ blind = {} /\ early = {} /\ raced = FALSE

-----------------------------------------------------------------------------
(* What the commands do to the contents *)

(* The chip takes 24 bits of the address, as many as it has cells, and     *)
(* programming wraps around at the end of the page.                        *)
Wrap(a, i) == (a - (a % PageSize)) + (((a % PageSize) + i) % PageSize)

Program(c, a, d) ==
  [x \in Cells |->
     c[x] \intersect {b \in Bits : \A i \in 1 .. Len(d) :
                                     Wrap(a % Chip, i - 1) = x => b \in d[i]}]

(* w25q_EraseBlock computes the address of a block of 64 KB and sends the  *)
(* opcode that erases 32 KB.                                               *)
BlockStart(b) == 2 * Half * b
EraseHalf(c, a) == [x \in Cells |-> IF x \in a .. a + Half - 1 THEN Bits ELSE c[x]]

(* The size is a uint32_t for the caller and a uint16_t for the driver:    *)
(* the checks and the transfer see what is left of it.                     *)
DataLen(size) == size % SizeMod
Sent(o) == SubSeq(o.data, 1, DataLen(Len(o.data)))

(* What the chip makes of the command of a call.                           *)
Effect(o, c) ==
  CASE o.kind = "write" -> Program(c, o.addr, Sent(o))
    [] o.kind = "eraseBlock" -> EraseHalf(c, BlockStart(o.block))
    [] o.kind = "eraseChip" -> Erased
    [] OTHER -> c

-----------------------------------------------------------------------------
(* Calls *)

InCall(p) == pc[p] \notin {"run", "alloc"}

(* allocate_hw is preempted between its test and its assignment.           *)
AllocTest(p) ==
  /\ pc[p] = "run"
  /\ owner = 0
  /\ pc' = [pc EXCEPT ![p] = "alloc"]
  /\ UNCHANGED <<chip, owner, call>>

AllocTake(p) ==
  /\ pc[p] = "alloc"
  /\ pc' = [pc EXCEPT ![p] = "run"]
  /\ owner' = p
  /\ raced' = (raced \/ \E q \in Procs : InCall(q))
  /\ IF raced'
     THEN /\ before' = [q \in Procs |-> Erased]
          /\ blind' = {} /\ early' = {}
     ELSE UNCHANGED <<before, blind, early>>
  /\ UNCHANGED <<chip, op, ret>>

Dealloc(p) ==
  /\ pc[p] = "run"
  /\ owner = p
  /\ owner' = 0
  /\ UNCHANGED <<chip, pc, call>>

(* The parameter checks of w25q_ProgramRaw, _ReadRaw and _EraseBlock.      *)
BugInRange(o) == TRUE
InRange(o) ==
  /\ o.kind = "write" => DataLen(Len(o.data)) \in 1 .. PageSize
  /\ o.kind = "read" => DataLen(o.size) \in 1 .. PageSize
  /\ o.kind = "eraseBlock" => o.block < Blocks

BugFirst(o) == IF o.kind \in {"init", "disable"} THEN o.kind ELSE "enable"
First(o) ==
  IF o.kind \in {"init", "enable", "disable"} THEN o.kind ELSE "poll"

(* A_qspi_init, A_qspi_write and the others of hw_qspi.c.  Nothing makes a *)
(* process call A_qspi_init before it writes.                              *)
Call(p, o) ==
  /\ pc[p] = "run"
  /\ owner = p
  /\ op' = [op EXCEPT ![p] = o]
  /\ before' = IF raced THEN before ELSE [before EXCEPT ![p] = job.cells]
  /\ blind' = IF o.kind = "write" /\ ~job.qe /\ ~raced THEN blind \union {p} ELSE blind
  /\ IF InRange(o)
     THEN pc' = [pc EXCEPT ![p] = First(o)] /\ UNCHANGED ret
     ELSE /\ pc' = [pc EXCEPT ![p] = "done"]
          /\ ret' = [ret EXCEPT ![p] = "param"]
  /\ UNCHANGED <<chip, owner, early, raced>>

Ends(p, r) ==
  /\ pc' = [pc EXCEPT ![p] = "done"]
  /\ ret' = [ret EXCEPT ![p] = r]
  /\ UNCHANGED <<op, before, blind, raced, owner>>

Goes(p, where) ==
  /\ pc' = [pc EXCEPT ![p] = where]
  /\ UNCHANGED <<call, owner>>

(* w25q_Init reads the status registers: it has to set QE once.            *)
InitStatus(p) ==
  /\ pc[p] = "init"
  /\ IF qe THEN Ends(p, "ok") /\ UNCHANGED early ELSE Goes(p, "poll")
  /\ UNCHANGED chip

(* What w25q_IsBusy looks at in the status register.                       *)
BugSaysBusy == busy \/ wel
SaysBusy == busy

AfterPoll(p) == IF op[p].kind = "read" THEN "command" ELSE "enable"

(* while (w25q_IsBusy() == W25Q_BUSY) task_delay(1), before the command    *)
(* and after it.  w25q_IsBusy tells that it cannot read the status with a  *)
(* value of its own, W25Q_CHIP_ERR, which ends the loop like a chip that   *)
(* is not busy.                                                            *)
Poll(p) ==
  /\ pc[p] = "poll"
  /\ ~SaysBusy
  /\ Goes(p, AfterPoll(p))
  /\ UNCHANGED chip

PollFails(p) ==
  /\ pc[p] = "poll"
  /\ pc' = [pc EXCEPT ![p] = AfterPoll(p)]
  /\ blind' = IF busy /\ ~raced THEN blind \union {p} ELSE blind
  /\ UNCHANGED <<chip, owner, op, ret, before, early, raced>>

Wait(p) ==
  /\ pc[p] = "wait"
  /\ ~SaysBusy
  /\ Ends(p, "ok")
  /\ UNCHANGED <<chip, early>>

WaitFails(p) ==
  /\ pc[p] = "wait"
  /\ Ends(p, "ok")
  /\ early' = IF busy /\ ~raced THEN early \union {p} ELSE early
  /\ UNCHANGED chip

(* w25q_WriteEnable.                                                       *)
Enable(p) ==
  /\ pc[p] = "enable"
  /\ wel' = IF busy THEN wel ELSE TRUE
  /\ IF op[p].kind = "enable"
     THEN Ends(p, "ok") /\ UNCHANGED early
     ELSE Goes(p, "command")
  /\ UNCHANGED <<cells, busy, qe, job>>

Disable(p) ==
  /\ pc[p] = "disable"
  /\ wel' = IF busy THEN wel ELSE FALSE
  /\ Ends(p, "ok")
  /\ UNCHANGED <<cells, busy, qe, job, early>>

Accepts == ~busy /\ wel

(* The chip begins to change its contents.                                 *)
Starts(c) == busy' = TRUE /\ job' = [job EXCEPT !.cells = c]
Ignores == UNCHANGED <<busy, job>>

(* The command itself; what it writes or reads follows.                    *)
Command(p) ==
  /\ pc[p] = "command"
  /\ op[p].kind \in {"init", "write", "read"}
  /\ Goes(p, "data")
  /\ UNCHANGED chip

Erase(p) ==
  /\ pc[p] = "command"
  /\ op[p].kind \in {"eraseBlock", "eraseChip"}
  /\ IF Accepts THEN Starts(Effect(op[p], cells)) ELSE Ignores
  /\ Goes(p, "wait")
  /\ UNCHANGED <<cells, wel, qe>>

WriteData(p) ==
  /\ pc[p] = "data"
  /\ op[p].kind = "write"
  /\ IF Accepts /\ qe THEN Starts(Effect(op[p], cells)) ELSE Ignores
  /\ Goes(p, "wait")
  /\ UNCHANGED <<cells, wel, qe>>

(* w25q_WriteStatusReg does not wait for the chip after it.                *)
WriteStatus(p) ==
  /\ pc[p] = "data"
  /\ op[p].kind = "init"
  /\ IF Accepts
     THEN busy' = TRUE /\ job' = [job EXCEPT !.qe = TRUE]
     ELSE Ignores
  /\ Ends(p, "ok")
  /\ UNCHANGED <<cells, wel, qe, early>>

(* w25q_ReadRaw returns W25Q_SPI_ERR whatever happens.                     *)
ReadData(p) ==
  /\ pc[p] = "data"
  /\ op[p].kind = "read"
  /\ Ends(p, "spi")
  /\ UNCHANGED <<chip, early>>

(* A transfer fails: the status of w25q_Init, a write enable, a command.   *)
TransferFails(p) ==
  /\ pc[p] \in {"init", "enable", "disable", "command"}
  /\ Ends(p, "spi")
  /\ UNCHANGED <<chip, early>>

(* The data stop: the chip programs those that it got.                     *)
DataFails(p) ==
  /\ pc[p] = "data"
  /\ IF op[p].kind = "write" /\ Accepts /\ qe
     THEN \E n \in 1 .. Len(Sent(op[p])) :
            Starts(Program(cells, op[p].addr, SubSeq(Sent(op[p]), 1, n)))
     ELSE Ignores
  /\ Ends(p, "spi")
  /\ UNCHANGED <<cells, wel, qe, early>>

Return(p) ==
  /\ pc[p] = "done"
  /\ pc' = [pc EXCEPT ![p] = "run"]
  /\ op' = [op EXCEPT ![p] = NoOp]
  /\ ret' = [ret EXCEPT ![p] = "none"]
  /\ before' = [before EXCEPT ![p] = Erased]
  /\ blind' = blind \ {p}
  /\ early' = early \ {p}
  /\ raced' = (raced /\ \E q \in Procs \ {p} : InCall(q))
  /\ UNCHANGED <<chip, owner>>

(* The chip has finished.                                                  *)
ChipDone ==
  /\ busy
  /\ busy' = FALSE
  /\ wel' = FALSE
  /\ cells' = job.cells
  /\ qe' = job.qe
  /\ UNCHANGED <<job, owner, pc, call>>

Works(p) ==
  \/ InitStatus(p) \/ Poll(p) \/ Wait(p) \/ Enable(p) \/ Disable(p)
  \/ Command(p) \/ Erase(p) \/ WriteData(p) \/ WriteStatus(p) \/ ReadData(p)
  \/ Return(p) \/ AllocTake(p)

Fails(p) == PollFails(p) \/ WaitFails(p) \/ TransferFails(p) \/ DataFails(p)

Next ==
  \/ \E p \in Procs :
       AllocTest(p) \/ Dealloc(p) \/ (\E o \in Ops : Call(p, o)) \/ Works(p) \/ Fails(p)
  \/ ChipDone

Spec == Init /\ [][Next]_vars

(* Processes get to run, and the chip finishes what it does.               *)
FairSpec ==
  /\ Spec
  /\ \A p \in Procs : WF_vars(Works(p))
  /\ WF_vars(ChipDone)

-----------------------------------------------------------------------------
(* Properties *)

Places == {"run", "alloc", "init", "disable", "poll", "enable", "command",
           "data", "wait", "done"}

Contents == [Cells -> SUBSET Bits]

(* Types; and a call under way has passed the checks of its parameters, so *)
(* that no command programs more than a page or erases outside the chip.   *)
TypeOK ==
  /\ cells \in Contents
  /\ busy \in BOOLEAN /\ wel \in BOOLEAN /\ qe \in BOOLEAN
  /\ job \in [cells : Contents, qe : BOOLEAN]
  /\ owner \in 0 .. N
  /\ pc \in [Procs -> Places]
  /\ op \in [Procs -> Ops \union {NoOp}]
  /\ ret \in [Procs -> {"none", "ok", "param", "spi"}]
  /\ before \in [Procs -> Contents]
  /\ blind \subseteq Procs /\ early \subseteq Procs /\ raced \in BOOLEAN
  /\ \A p \in Procs : InCall(p) /\ pc[p] # "done" =>
       /\ op[p].kind = "write" => DataLen(Len(op[p].data)) \in 1 .. PageSize
       /\ op[p].kind = "eraseBlock" => BlockStart(op[p].block) + Half - 1 \in Cells

(* What a caller may expect of a write: each byte where it belongs and     *)
(* nothing else changed, if the data have a size that the driver can hold  *)
(* and lie in one page of the chip; otherwise that one page at most is     *)
(* touched.                                                                *)
Fits(o) ==
  /\ Len(o.data) < SizeMod
  /\ o.addr \in Cells
  /\ (o.addr % PageSize) + Len(o.data) <= PageSize

InPage(x, a) == x \in (a - (a % PageSize)) .. (a - (a % PageSize) + PageSize - 1)

Written(o, b, c) ==
  \A x \in Cells :
    IF Fits(o)
    THEN c[x] = IF x - o.addr \in 0 .. Len(o.data) - 1
                THEN b[x] \intersect o.data[x - o.addr + 1]
                ELSE b[x]
    ELSE InPage(x, o.addr % Chip) \/ c[x] = b[x]

(* What a caller may expect of the erasure of a block: nothing outside the *)
(* block of 64 KB is touched and its first half is erased.  The second     *)
(* half is erased or not: the driver leaves it.                            *)
BlockErased(o, b, c) ==
  \A x \in Cells :
    LET d == x - BlockStart(o.block)
    IN  CASE d \in 0 .. Half - 1 -> c[x] = Bits
          [] d \in Half .. 2 * Half - 1 -> c[x] \in {b[x], Bits}
          [] OTHER -> c[x] = b[x]

Does(o, b, c) ==
  CASE o.kind = "write" -> Written(o, b, c)
    [] o.kind = "eraseBlock" -> BlockErased(o, b, c)
    [] o.kind = "eraseChip" -> \A x \in Cells : c[x] = Bits
    [] OTHER -> c = b

(* W25Q_OK means that the chip does what the call is for, starting from    *)
(* what was to be its contents, whatever failed in the calls before it,    *)
(* and that it has finished an erasure or a write.  Excepted are calls     *)
(* that an overlapping allocate_hw lets another process into, and those    *)
(* that met a busy chip and could not read its status: before the command  *)
(* (blind, with the writes to a chip that nobody initialised) nothing is   *)
(* claimed, after it (early) the chip may still be at it.                  *)
OkMeansDone ==
  \A p \in Procs :
    pc[p] = "done" /\ ret[p] = "ok" /\ p \notin blind /\ ~raced =>
      /\ Does(op[p], before[p], job.cells)
      /\ op[p].kind \in {"write", "eraseBlock", "eraseChip"} /\ p \notin early =>
           ~busy /\ cells = job.cells

(* Every call returns: the chip is never polled for ever, unless two       *)
(* processes own the flash and one keeps it busy for the other.            *)
CallsEnd == \A p \in Procs : pc[p] # "run" ~> pc[p] = "run" \/ raced
=============================================================================
