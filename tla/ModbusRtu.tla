----------------------------- MODULE ModbusRtu -----------------------------
(***************************************************************************)
(* The Modbus RTU slave (modules/modbus/A_modbus_rtu.c): its tables, the   *)
(* requests of the master, and the application processes that put their    *)
(* inputs into the tables while requests are served.                       *)
(*                                                                         *)
(* The tables lie one behind the other in A_modbus_inout, in the order     *)
(* coils, temp_coils_icoils, discrete_input, holding_registers,            *)
(* input_registers and two more; the handlers index them without a check   *)
(* of their own, or with one that is too weak, and an index past the end   *)
(* of a table reaches the next one.  So the tables are one memory here.    *)
(* A byte is the set of its bits that are one.  Coils and discrete inputs  *)
(* are bits, registers are two bytes, the first at an even index.          *)
(*                                                                         *)
(* A read of coils or inputs goes from bit to bit, and the application     *)
(* processes preempt it; the other requests touch what no process of the   *)
(* application reads and writes back, and are one step each.               *)
(***************************************************************************)
EXTENDS Integers, Sequences

CONSTANTS
  W,          (* bits in a byte                                             *)
  C,          (* bytes of coils: A_MAX_COILS / 8 = A_MAX_DISCRETE_IN / 8    *)
  R,          (* A_MAX_REGS, bytes of holding registers                     *)
  Mod,        (* a uint16_t counts modulo this                              *)
  Pkt,        (* A_MODBUS_PKT_SIZE                                          *)
  LenMod,     (* tx_packet_len counts modulo this                           *)
  Follows,    (* bytes from the end of tx_packet to the coils: what lies    *)
              (* behind the packet is for the linker to choose              *)
  Requests,   (* what the master sends                                      *)
  Apps,       (* application processes                                      *)
  Inputs,     (* the discrete inputs that each sets, by byte and bit        *)
  Regs,       (* the bytes of holding registers that they set, with values  *)
  Crcs        (* the two bytes of a CRC                                     *)

Byte == SUBSET (0 .. W - 1)
Nums == 0 .. Mod - 1

Frames ==
  [fc : {"readCoils", "readInputs", "readRegs", "readIRegs"}, start : Nums, num : Nums]
  \union [fc : {"writeCoil", "writeReg", "writeRegs"}, start : Nums, data : Seq(Byte)]
  \union [fc : {"writeCoils"}, start : Nums, num : Nums, data : Seq(Byte)]
  \union [fc : {"report", "other"}]

ASSUME ModbusAssumption ==
  /\ W \in Nat \ {0} /\ C \in Nat \ {0} /\ R \in Nat \ {0} /\ Mod \in Nat \ {0}
  /\ Requests \subseteq Frames
  /\ Inputs \in [Apps -> SUBSET ((0 .. C - 1) \X (0 .. W - 1))]
  /\ Regs \subseteq (0 .. R - 1) \X Byte
  /\ Crcs \subseteq Byte \X Byte
  /\ Pkt \in Nat /\ 3 < Pkt /\ LenMod \in Nat /\ Follows \in Nat

(* Where the tables begin; two more of R bytes follow input_registers.     *)
Coils == 0
Temp == C
Discrete == 2 * C
Holding == 3 * C
InputRegs == 3 * C + R
Mem == 0 .. 3 * C + 4 * R - 1

(* What no request is meant to change: the inputs of the application, and  *)
(* everything behind the holding registers.                                *)
Apart == (Discrete .. Discrete + C - 1) \union {x \in Mem : x >= InputRegs}

VARIABLES
  mem,     (* A_modbus_inout                                                *)
  reply,   (* the answer, "none" or, while it is composed, "composing"      *)
  cur,     (* the read of bits that is composed or answered                 *)
  i,       (* the bits it has copied                                        *)
  pc,      (* where each application process is                             *)
  arg,     (* the input it sets, and whether it sets it on                  *)
  byte,    (* the byte it has read                                          *)
  inputs,  (* history: the discrete inputs that are on                      *)
  late,    (* history: the processes whose byte another has replaced        *)
  torn,    (* history: the inputs that such a process has put back          *)
  spilled, (* history: the bytes of Apart that requests have hit            *)
  seen     (* history: what each bit of cur has been since the read began   *)

slave == <<reply, cur, i, seen>>
setting == <<pc, arg, byte, late>>
app == <<setting, inputs, torn>>
vars == <<mem, slave, app, spilled>>
NoArg == <<0, 0, FALSE>>
NoReq == [fc |-> "none"]

Init ==
  /\ mem = [x \in Mem |-> {}]
  /\ reply = "none" /\ cur = NoReq /\ i = 0 /\ seen = {}
  /\ pc = [p \in Apps |-> "run"]
  /\ arg = [p \in Apps |-> NoArg]
  /\ byte = [p \in Apps |-> {}]
  /\ inputs = {} /\ late = {} /\ torn = {} /\ spilled = {}

(* The table that begins at a has bit k on.                                *)
On(m, a, k) == k % W \in m[a + (k \div W)]

(* An answer that is there at the end of the handler.                      *)
Answers(what) == reply' = what /\ UNCHANGED <<cur, i, seen>>
Rejects == Answers("exception") /\ UNCHANGED <<mem, spilled>>

-----------------------------------------------------------------------------
(* Requests that read *)

BitTable(r) == IF r.fc = "readCoils" THEN Coils ELSE Discrete

BugBitsOutside(r) == r.start > W * C
BitsOutside(r) == r.start + r.num > W * C

Values(r, m) == {<<k, On(m, BitTable(r), r.start + k)>> : k \in 0 .. r.num - 1}

(* A_rtu_modbus_read_coils_discrete_in.                                    *)
ReadBits(r) ==
  /\ r.fc \in {"readCoils", "readInputs"}
  /\ IF BitsOutside(r)
     THEN Rejects
     ELSE /\ reply' = "composing" /\ cur' = r /\ i' = 0
          /\ seen' = Values(r, mem)
          /\ UNCHANGED <<mem, spilled>>

BugCopies == reply = "composing" /\ i + 1 < cur.num
Copies == reply = "composing" /\ i < cur.num

(* One round of get_coils_discrete_in: a bit goes into the next byte of    *)
(* temp_coils_icoils whenever W are copied, at the place it has in its     *)
(* byte of the table; the other places keep what an earlier answer left.   *)
CopyBit ==
  LET k == cur.start + i
  IN
  /\ Copies
  /\ mem' = [mem EXCEPT ![Temp + (i \div W)] =
               IF On(mem, BitTable(cur), k) THEN @ \union {k % W} ELSE @ \ {k % W}]
  /\ i' = i + 1
  /\ UNCHANGED <<reply, cur, seen, app, spilled>>

BitsRead ==
  /\ reply = "composing" /\ ~Copies
  /\ reply' = "data"
  /\ UNCHANGED <<mem, cur, i, seen, app, spilled>>

(* The index of a register's first byte.                                   *)
RegIndex(r) == (2 * r.start) % Mod

(* The bytes of the answer that lie past the packet, as bytes of the       *)
(* tables: the registers from n bytes on, and the two of the CRC.          *)
RegTable(r) == IF r.fc = "readRegs" THEN Holding ELSE InputRegs
Overrun(r, crc) ==
  [x \in Mem |->
     LET n == x + Pkt + Follows - 3
     IN  IF n < 2 * r.num THEN mem[RegTable(r) + RegIndex(r) + n]
         ELSE IF n < 2 * r.num + 2 THEN crc[n - 2 * r.num + 1]
         ELSE mem[x]]
Hit(r) == {x \in Mem : x + Pkt + Follows < 2 * r.num + 5}

(* A_rtu_modbus_read_regs_iregs checks the number of registers as if they  *)
(* were bytes, and composes twice as many, in a packet of its own size;    *)
(* the length it gives to hw_send_uart is eight bits wide.                 *)
ReadRegs(r) ==
  /\ r.fc \in {"readRegs", "readIRegs"}
  /\ IF RegIndex(r) + r.num > R
     THEN Rejects
     ELSE /\ \E crc \in Crcs : mem' = Overrun(r, crc)
          /\ spilled' = spilled \union (Hit(r) \intersect Apart)
          /\ Answers(IF 2 * r.num + 5 < LenMod THEN "data" ELSE "cut")

-----------------------------------------------------------------------------
(* Requests that write *)

(* The hook A_write_reg_from_modbus returns a value, which goes up to      *)
(* A_rtu_modbus_write_reg_coil and ends there.                             *)
Returned(hook) == 0
Result(ret, composed) == IF ret # 0 THEN "exception" ELSE composed

(* A_rtu_write_mb_register checks the register's number, not its index.    *)
WriteReg(r) ==
  /\ r.fc = "writeReg"
  /\ IF r.start > R
     THEN Rejects
     ELSE LET x == Holding + RegIndex(r) IN
          /\ mem' = [mem EXCEPT ![x] = r.data[1], ![x + 1] = r.data[2]]
          /\ spilled' = spilled \union ({x, x + 1} \intersect Apart)
          /\ \E hook \in 0 .. 1 : Answers(Result(Returned(hook), "echo"))

BugBytesOutside(r) == r.start > R
BytesOutside(r) == r.start + Len(r.data) > R

(* A_rtu_modbus_write_multiple_regs takes the first register's number for  *)
(* its index.                                                              *)
WriteRegs(r) ==
  /\ r.fc = "writeRegs"
  /\ IF BytesOutside(r)
     THEN Rejects
     ELSE /\ mem' = [x \in Mem |->
                       LET n == x - (Holding + r.start)
                       IN  IF n \in 0 .. Len(r.data) - 1 THEN r.data[n + 1] ELSE mem[x]]
          /\ Answers("echo")
          /\ UNCHANGED spilled

(* A_rtu_modbus_set_coils turns coils on and none off.  The bits are taken *)
(* at the places they have in the table, from data, a byte at a time.      *)
CoilsSet(start, num, data) ==
  [x \in Mem |->
     mem[x] \union
       {b \in 0 .. W - 1 : /\ x * W + b \in start .. start + num - 1
                           /\ b \in data[x - (start \div W) + 1]}]

(* It is not told the number of coils there are.                           *)
WriteCoil(r) ==
  /\ r.fc = "writeCoil"
  /\ mem' = CoilsSet(r.start, 1, r.data)
  /\ spilled' = spilled \union ({r.start \div W} \intersect Apart)
  /\ Answers("echo")

(* A_rtu_modbus_write_multiple_coils; a single coil is looked for where    *)
(* the number of coils is, whose high byte is zero.                        *)
WriteCoils(r) ==
  /\ r.fc = "writeCoils"
  /\ IF BitsOutside(r)
     THEN Rejects
     ELSE /\ mem' = CoilsSet(r.start, r.num, IF r.num = 1 THEN << {} >> ELSE r.data)
          /\ Answers("echo")
          /\ UNCHANGED spilled

-----------------------------------------------------------------------------
(* The slave *)

(* A_rtu_modbus_report_slave_info, and a function code it does not know.   *)
Report(r) == r.fc = "report" /\ Answers("data") /\ UNCHANGED <<mem, spilled>>
Unknown(r) == r.fc = "other" /\ Rejects

(* A_rtu_modbus_process, for a frame to this slave that arrives intact.    *)
Process(r) ==
  /\ reply = "none"
  /\ \/ ReadBits(r) \/ ReadRegs(r) \/ WriteReg(r) \/ WriteRegs(r)
     \/ WriteCoil(r) \/ WriteCoils(r) \/ Report(r) \/ Unknown(r)
  /\ UNCHANGED app

(* A damaged frame is answered with an exception, whoever it was for.      *)
Damaged ==
  /\ reply = "none"
  /\ Rejects
  /\ UNCHANGED app

(* The answer has gone out.                                                *)
Sent ==
  /\ reply \notin {"none", "composing"}
  /\ reply' = "none" /\ cur' = NoReq /\ i' = 0 /\ seen' = {}
  /\ UNCHANGED <<mem, app, spilled>>

-----------------------------------------------------------------------------
(* The application *)

(* A_set_in_to_modbus reads the byte of the input ...                      *)
SetInRead(p, in, on) ==
  /\ pc[p] = "run"
  /\ pc' = [pc EXCEPT ![p] = "setting"]
  /\ arg' = [arg EXCEPT ![p] = <<in[1], in[2], on>>]
  /\ byte' = [byte EXCEPT ![p] = mem[Discrete + in[1]]]
  /\ UNCHANGED <<mem, slave, inputs, late, torn, spilled>>

(* ... and writes it back.                                                 *)
SetInWrite(p) ==
  LET k == arg[p][1]
      b == arg[p][2]
      on == arg[p][3]
  IN
  /\ pc[p] = "setting"
  /\ mem' = [mem EXCEPT ![Discrete + k] = IF on THEN byte[p] \union {b} ELSE byte[p] \ {b}]
  /\ inputs' = IF on THEN inputs \union {<<k, b>>} ELSE inputs \ {<<k, b>>}
  /\ torn' = (torn \union {x \in {k} \X (0 .. W - 1) : p \in late}) \ {<<k, b>>}
  /\ late' = (late \union {q \in Apps : pc[q] = "setting" /\ arg[q][1] = k}) \ {p}
  /\ pc' = [pc EXCEPT ![p] = "run"]
  /\ arg' = [arg EXCEPT ![p] = NoArg]
  /\ byte' = [byte EXCEPT ![p] = {}]
  /\ seen' = IF reply = "composing" THEN seen \union Values(cur, mem') ELSE seen
  /\ UNCHANGED <<reply, cur, i, spilled>>

(* A_set_reg_to_modbus.                                                    *)
SetReg(p, k, v) ==
  /\ pc[p] = "run"
  /\ mem' = [mem EXCEPT ![Holding + k] = v]
  /\ UNCHANGED <<slave, app, spilled>>

AppStep(p) ==
  \/ \E in \in Inputs[p], on \in BOOLEAN : SetInRead(p, in, on)
  \/ SetInWrite(p)
  \/ \E reg \in Regs : SetReg(p, reg[1], reg[2])

Next ==
  \/ \E r \in Requests : Process(r)
  \/ Damaged \/ CopyBit \/ BitsRead \/ Sent
  \/ \E p \in Apps : AppStep(p)

Spec == Init /\ [][Next]_vars

-----------------------------------------------------------------------------
(* Properties *)

(* The inputs are what the application made them: each discrete input is   *)
(* as the last A_set_in_to_modbus for it left it, and nothing behind the   *)
(* holding registers changes, whatever the master asks for and however     *)
(* reads, writes and calls interleave.  Excepted are an input that a call  *)
(* for another input of its byte puts back because they overlapped (torn), *)
(* and the bytes that a single write past its table or an answer longer    *)
(* than the packet has hit (spilled).                                      *)
InputsKept ==
  \A x \in Apart \ spilled :
    IF x >= InputRegs
    THEN mem[x] = {}
    ELSE \A b \in 0 .. W - 1 :
           <<x - Discrete, b>> \in torn
             \/ (b \in mem[x] <=> <<x - Discrete, b>> \in inputs)

(* The answer to a read that begins on a byte gives each bit a value that  *)
(* it has had in the table since the read began: the bits may come from    *)
(* different moments, but none from an earlier answer.                     *)
RepliesTrue ==
  reply = "data" /\ cur # NoReq /\ cur.start % W = 0 =>
    \A k \in 0 .. cur.num - 1 : <<k, On(mem, Temp, k)>> \in seen
=============================================================================
