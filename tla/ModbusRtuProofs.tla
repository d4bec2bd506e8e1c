-------------------------- MODULE ModbusRtuProofs --------------------------
(***************************************************************************)
(* What holds of ModbusRtu for tables and bytes of any size, any requests, *)
(* any number of application processes and any interleaving of their calls *)
(* with each other and with the handlers.                                  *)
(***************************************************************************)
EXTENDS ModbusRtu, TLAPS


(* A place in a table is a byte of it and a bit of the byte.               *)
LEMMA Division ==
  ASSUME NEW n \in Nat
  PROVE  /\ n \div W \in Nat /\ n % W \in 0 .. W - 1
         /\ n = W * (n \div W) + (n % W)
  BY ModbusAssumption

(* Two multiples of W that are less than W apart are one.                  *)
LEMMA Small ==
  ASSUME NEW d \in Int, NEW e \in Int, e = W * d, -W < e, e < W
  PROVE  d = 0
<1>1. CASE d >= 1
  <2> DEFINE m == d - 1
  <2>1. m \in Nat /\ d = m + 1
    BY <1>1
  <2> HIDE DEF m
  <2>2. W * d = W * m + W /\ W * m \in Nat /\ W \in Nat
    BY <2>1, ModbusAssumption
  <2> QED
    BY <2>2
<1>2. CASE d <= -1
  <2> DEFINE m == -d
  <2>1. m \in Nat /\ m >= 1 /\ W * d = -(W * m)
    BY <1>2, ModbusAssumption
  <2> DEFINE l == m - 1
  <2>2. l \in Nat /\ m = l + 1
    BY <2>1
  <2> HIDE DEF m, l
  <2>3. W * m = W * l + W /\ W * l \in Nat /\ W \in Nat /\ W * d \in Int
    BY <1>2, <2>1, <2>2, ModbusAssumption
  <2> QED
    BY <2>1, <2>3
<1> QED
  BY <1>1, <1>2

(* A place in a table of W * C bits is in one of its C bytes.              *)
LEMMA Within ==
  ASSUME NEW n \in Nat, n < W * C
  PROVE  n \div W \in 0 .. C - 1
<1> DEFINE q == n \div W
<1>1. q \in Nat /\ n >= W * q
  <2>1. n % W \in 0 .. W - 1 /\ n = W * q + (n % W) /\ q \in Nat
    BY Division
  <2>2. W * q \in Int
    BY <2>1, ModbusAssumption
  <2> QED
    BY <2>1, <2>2
<1> HIDE DEF q
<1>2. CASE q >= C
  <2> DEFINE d == q - C
  <2>1. d \in Nat /\ q = C + d
    BY <1>1, <1>2, ModbusAssumption
  <2> HIDE DEF d
  <2>2. W * q = W * C + W * d /\ W * d \in Nat /\ W * C \in Nat
    BY <2>1, ModbusAssumption
  <2> QED
    BY <2>2, <1>1
<1>3. CASE q < C
  BY <1>1, <1>3, ModbusAssumption DEF q
<1> QED
  BY <1>1, <1>2, <1>3, ModbusAssumption

(* From the start of a byte on, a bit keeps its place in its byte.         *)
LEMMA Aligned ==
  ASSUME NEW s \in Nat, NEW k \in Nat, s % W = 0
  PROVE  (s + k) % W = k % W
<1> DEFINE a == s + k
           x == a \div W
           y == s \div W
           z == k \div W
           u == a % W
           v == k % W
           d == x - y - z
<1>1. a \in Nat
  OBVIOUS
<1>2. a = W * x + u /\ x \in Nat /\ u \in 0 .. W - 1
  BY <1>1, Division
<1>3. s = W * y + 0 /\ y \in Nat
  BY Division
<1>4. k = W * z + v /\ z \in Nat /\ v \in 0 .. W - 1
  BY Division
<1>5. a = s + k
  OBVIOUS
<1> HIDE DEF a, x, y, z, u, v
<1>6. W * d = W * x - W * y - W * z /\ d \in Int
  BY <1>2, <1>3, <1>4, ModbusAssumption
<1>7. W * x \in Int /\ W * y \in Int /\ W * z \in Int
  BY <1>2, <1>3, <1>4, ModbusAssumption
<1>8. v - u = W * d
  BY <1>2, <1>3, <1>4, <1>5, <1>6, <1>7
<1>9. -W < v - u /\ v - u < W /\ v - u \in Int
  BY <1>2, <1>4, ModbusAssumption
<1>10. d = 0
  BY <1>6, <1>8, <1>9, Small
<1>11. W * 0 = 0
  BY ModbusAssumption
<1> QED
  BY <1>2, <1>4, <1>8, <1>10, <1>11 DEF a, u, v

(* No two bits share a byte and a place.                                   *)
LEMMA SamePlace ==
  ASSUME NEW k \in Nat, NEW n \in Nat, k \div W = n \div W, k % W = n % W
  PROVE  k = n
<1>1. k = W * (k \div W) + (k % W)
  BY Division
<1>2. n = W * (n \div W) + (n % W)
  BY Division
<1> QED
  BY <1>1, <1>2

-----------------------------------------------------------------------------
(* The invariant *)

Shaped == mem = [x \in Mem |-> mem[x]]

AppType ==
  /\ pc \in [Apps -> {"run", "setting"}]
  /\ arg \in [Apps -> (0 .. C - 1) \X (0 .. W - 1) \X BOOLEAN]
  /\ byte = [p \in Apps |-> byte[p]]

(* The byte that a process has read is still there, unless another call    *)
(* has replaced it or a request has hit it.                                *)
AppInv ==
  \A p \in Apps \ late :
    pc[p] = "setting" /\ Discrete + arg[p][1] \notin spilled =>
      byte[p] = mem[Discrete + arg[p][1]]

(* A read that is composed or answered has passed the check of its range.  *)
CurInv ==
  /\ reply = "none" => cur = NoReq
  /\ reply = "composing" => cur # NoReq
  /\ cur # NoReq =>
       /\ cur \in Requests /\ cur.fc \in {"readCoils", "readInputs"}
       /\ cur.start \in Nat /\ cur.num \in Nat /\ cur.start + cur.num <= W * C
       /\ i \in Nat /\ i <= cur.num
       /\ reply \in {"composing", "data"}
       /\ reply = "data" => i = cur.num

(* What is in the table while the read goes on has been seen, and so has   *)
(* every bit that is copied.                                               *)
SeenInv ==
  /\ reply = "composing" => Values(cur, mem) \subseteq seen
  /\ cur # NoReq /\ cur.start % W = 0 =>
       \A k \in Nat : k < i => <<k, On(mem, Temp, k)>> \in seen

Inv == Shaped /\ AppType /\ AppInv /\ InputsKept /\ CurInv /\ SeenInv

LEMMA FrameFields ==
  ASSUME NEW r \in Requests
  PROVE  /\ r.fc \notin {"report", "other"} => r.start \in Nat
         /\ r.fc \in {"readCoils", "readInputs", "readRegs", "readIRegs", "writeCoils"}
              => r.num \in Nat
         /\ r.fc = "writeRegs" => Len(r.data) \in Nat
  BY ModbusAssumption DEF Frames, Nums

LEMMA Places ==
  /\ Apart \subseteq Mem
  /\ \A x \in Mem : x \in Nat
  /\ \A x \in Apart : x >= 2 * C
  /\ \A k \in 0 .. C - 1 : Discrete + k \in Apart /\ Discrete + k < InputRegs
  /\ \A k \in 0 .. C - 1 : Temp + k \in Mem /\ Temp + k \notin Apart
  /\ \A k \in 0 .. R - 1 : Holding + k \in Mem /\ Holding + k \notin Apart
  BY ModbusAssumption DEF Apart, Mem, Discrete, InputRegs, Temp, Holding

LEMMA NoArgTyped == NoArg \in (0 .. C - 1) \X (0 .. W - 1) \X BOOLEAN
<1> DEFINE A == 0 .. C - 1
           B == 0 .. W - 1
<1>1. 0 \in A /\ 0 \in B
  BY ModbusAssumption
<1> SUFFICES <<0, 0, FALSE>> \in A \X B \X BOOLEAN
  BY DEF NoArg
<1> HIDE DEF A, B
<1> QED
  BY <1>1

LEMMA InitInv == Init => Inv
<1> SUFFICES ASSUME Init PROVE Inv
  OBVIOUS
<1> USE ModbusAssumption
<1>1. Shaped
  BY DEF Init, Shaped
<1>2. AppType /\ AppInv
  <2>1. NoArg \in (0 .. C - 1) \X (0 .. W - 1) \X BOOLEAN
    BY NoArgTyped
  <2>2. arg \in [Apps -> (0 .. C - 1) \X (0 .. W - 1) \X BOOLEAN]
    BY <2>1 DEF Init
  <2>3. pc \in [Apps -> {"run", "setting"}] /\ byte = [p \in Apps |-> byte[p]]
    BY DEF Init
  <2>4. \A p \in Apps : pc[p] # "setting"
    BY DEF Init
  <2> QED
    BY <2>2, <2>3, <2>4 DEF AppType, AppInv
<1>3. InputsKept
  <2>1. \A x \in Apart : mem[x] = {}
    BY Places DEF Init
  <2> QED
    BY <2>1 DEF Init, InputsKept
<1>4. CurInv /\ SeenInv
  BY DEF Init, CurInv, SeenInv, NoReq
<1> QED
  BY <1>1, <1>2, <1>3, <1>4 DEF Inv

-----------------------------------------------------------------------------
(* The inputs *)

(* What a handler turns on is in the range it was given.                   *)
LEMMA CoilsApart ==
  ASSUME NEW start \in Nat, NEW num \in Nat, NEW data, start + num <= W * C,
         NEW x \in Apart
  PROVE  CoilsSet(start, num, data)[x] = mem[x]
<1> USE ModbusAssumption
<1>1. x \in Mem /\ x \in Nat /\ x >= C
  BY Places
<1>2. x * W >= W * C
  <2> DEFINE d == x - C
  <2>1. d \in Nat /\ x = C + d
    BY <1>1
  <2>2. x * W = C * W + d * W
    BY <2>1
  <2>3. d * W \in Nat /\ C * W \in Nat /\ C * W = W * C
    BY <2>1
  <2> HIDE DEF d
  <2> QED
    BY <2>2, <2>3
<1>3. \A b \in 0 .. W - 1 : x * W + b \notin start .. start + num - 1
  <2> SUFFICES ASSUME NEW b \in 0 .. W - 1
               PROVE  x * W + b > start + num - 1
    OBVIOUS
  <2>1. x * W \in Nat /\ W * C \in Nat
    BY <1>1
  <2> QED
    BY <1>2, <2>1
<1> QED
  BY <1>1, <1>3 DEF CoilsSet

LEMMA CoilApart ==
  ASSUME NEW start \in Nat, NEW data, NEW x \in Apart, x # start \div W
  PROVE  CoilsSet(start, 1, data)[x] = mem[x]
<1>1. x \in Mem /\ x \in Nat
  BY Places
<1>2. ASSUME NEW b \in 0 .. W - 1, x * W + b \in start .. start + 1 - 1
      PROVE  FALSE
  <2> DEFINE q == start \div W
             u == start % W
             d == x - q
  <2>1. start = W * q + u /\ q \in Nat /\ u \in 0 .. W - 1
    BY Division
  <2>2. x * W + b = start
    BY <1>1, <1>2, ModbusAssumption
  <2>3. d # 0
    BY <1>1, <2>1
  <2> HIDE DEF q, u
  <2>4. W * d = x * W - W * q /\ d \in Int /\ x * W \in Int /\ W * q \in Int
    BY <1>1, <2>1, ModbusAssumption
  <2> HIDE DEF d
  <2>5. u - b = W * d
    <3> DEFINE e == W * d
               f == x * W
               g == W * q
    <3>1. u \in Int /\ b \in Int /\ start = g + u /\ f + b = start /\ e = f - g
          /\ f \in Int /\ g \in Int
      BY <1>2, <2>1, <2>2, <2>4, ModbusAssumption
    <3> HIDE DEF e, f, g
    <3>2. u - b = e
      BY <3>1
    <3> QED
      BY <3>2 DEF e
  <2>6. -W < u - b /\ u - b < W /\ u - b \in Int
    BY <1>2, <2>1, ModbusAssumption
  <2> QED
    BY <2>3, <2>4, <2>5, <2>6, Small
<1> QED
  BY <1>1, <1>2 DEF CoilsSet

(* A request changes what lies apart only where it has spilled.            *)
LEMMA RequestsApart ==
  ASSUME Shaped, NEW r \in Requests, Process(r), NEW x \in Apart \ spilled'
  PROVE  mem'[x] = mem[x]
<1> USE ModbusAssumption
<1>0. x \in Mem /\ x \in Nat /\ x \in Apart
  BY Places
<1>1. CASE ReadBits(r)
  BY <1>1 DEF ReadBits, Rejects
<1>2. CASE ReadRegs(r)
  <2>1. CASE Rejects
    BY <2>1 DEF Rejects
  <2>2. ASSUME NEW crc \in Crcs, mem' = Overrun(r, crc), x \notin Hit(r)
        PROVE  mem'[x] = mem[x]
    <3>1. r.num \in Nat
      BY <1>2, FrameFields DEF ReadRegs
    <3>2. x + Pkt + Follows >= 2 * r.num + 5
      BY <1>0, <2>2, <3>1 DEF Hit
    <3>3. ~(x + Pkt + Follows - 3 < 2 * r.num) /\ ~(x + Pkt + Follows - 3 < 2 * r.num + 2)
      BY <1>0, <3>1, <3>2
    <3> QED
      BY <1>0, <2>2, <3>3 DEF Overrun
  <2> QED
    BY <1>0, <1>2, <2>1, <2>2 DEF ReadRegs
<1>3. CASE WriteReg(r)
  <2>1. CASE Rejects
    BY <2>1 DEF Rejects
  <2>2. CASE ~(r.start > R)
    <3>1. x # Holding + RegIndex(r) /\ x # Holding + RegIndex(r) + 1
      BY <1>0, <1>3, <2>2 DEF WriteReg
    <3> DEFINE y == Holding + RegIndex(r)
    <3>2. mem' = [mem EXCEPT ![y] = r.data[1], ![y + 1] = r.data[2]]
      BY <1>3, <2>2 DEF WriteReg
    <3>3. x # y /\ x # y + 1
      BY <3>1
    <3> HIDE DEF y
    <3> QED
      BY <1>0, <3>2, <3>3 DEF Shaped
  <2> QED
    BY <1>3, <2>1, <2>2 DEF WriteReg
<1>4. CASE WriteRegs(r)
  <2>1. r.start \in Nat /\ Len(r.data) \in Nat
    BY <1>4, FrameFields DEF WriteRegs
  <2>2. CASE BytesOutside(r)
    BY <1>4, <2>2 DEF WriteRegs, Rejects
  <2>3. CASE ~BytesOutside(r)
    <3>1. x - (Holding + r.start) \notin 0 .. Len(r.data) - 1
      BY <1>0, <2>1, <2>3 DEF BytesOutside, Apart, Discrete, InputRegs, Holding, Mem
    <3> QED
      BY <1>0, <1>4, <2>3, <3>1 DEF WriteRegs
  <2> QED
    BY <2>2, <2>3
<1>5. CASE WriteCoil(r)
  <2>1. r.start \in Nat /\ x # r.start \div W
    BY <1>0, <1>5, FrameFields DEF WriteCoil
  <2> QED
    BY <1>0, <1>5, <2>1, CoilApart DEF WriteCoil
<1>6. CASE WriteCoils(r)
  <2>1. r.start \in Nat /\ r.num \in Nat
    BY <1>6, FrameFields DEF WriteCoils
  <2>2. CASE BitsOutside(r)
    BY <1>6, <2>2 DEF WriteCoils, Rejects
  <2>3. CASE ~BitsOutside(r)
    <3>1. r.start + r.num <= W * C
      <4>1. W * C \in Nat
        OBVIOUS
      <4> QED
        BY <2>1, <2>3, <4>1 DEF BitsOutside
    <3> QED
      BY <1>0, <1>6, <2>1, <2>3, <3>1, CoilsApart DEF WriteCoils
  <2> QED
    BY <2>2, <2>3
<1>7. CASE Report(r) \/ Unknown(r)
  BY <1>7 DEF Report, Unknown, Rejects
<1> QED
  BY <1>1, <1>2, <1>3, <1>4, <1>5, <1>6, <1>7 DEF Process

LEMMA RequestsShape ==
  ASSUME Shaped, NEW r \in Requests, Process(r)
  PROVE  Shaped' /\ spilled \subseteq spilled' /\ UNCHANGED app
  BY DEF Shaped, Process, ReadBits, ReadRegs, Overrun, WriteReg, WriteRegs, WriteCoil,
         WriteCoils, Report, Unknown, Rejects, CoilsSet

(* A step that leaves the application alone and changes nothing apart but  *)
(* where it spills keeps the part of the invariant about the inputs.       *)
LEMMA ApartKeeps ==
  ASSUME AppType, AppInv, InputsKept, UNCHANGED app, spilled \subseteq spilled',
         \A x \in Apart \ spilled' : mem'[x] = mem[x]
  PROVE  AppType' /\ AppInv' /\ InputsKept'
<1>1. AppType'
  BY DEF AppType, app, setting
<1>2. UNCHANGED <<pc, arg, byte, late, inputs, torn>>
  BY DEF app, setting
<1>3. AppInv'
  <2> SUFFICES ASSUME NEW p \in Apps \ late, pc[p] = "setting",
                      Discrete + arg[p][1] \notin spilled'
               PROVE  byte[p] = mem'[Discrete + arg[p][1]]
    BY <1>2 DEF AppInv
  <2>1. arg[p][1] \in 0 .. C - 1
    BY DEF AppType
  <2>2. Discrete + arg[p][1] \in Apart
    BY <2>1, Places
  <2> QED
    BY <2>2 DEF AppInv
<1>4. InputsKept'
  BY <1>2 DEF InputsKept
<1> QED
  BY <1>1, <1>3, <1>4

(* A call that overlaps no other puts back what it has read and one bit.   *)
LEMMA SetInKeeps ==
  ASSUME Shaped, AppType, AppInv, InputsKept, NEW p \in Apps, SetInWrite(p)
  PROVE  AppType' /\ AppInv' /\ InputsKept'
<1> DEFINE k == arg[p][1]
           b == arg[p][2]
           on == arg[p][3]
           new == IF on THEN byte[p] \union {b} ELSE byte[p] \ {b}
<1>1. k \in 0 .. C - 1 /\ b \in 0 .. W - 1 /\ on \in BOOLEAN
  BY DEF AppType
<1>2. Discrete + k \in Apart /\ Discrete + k \in Mem /\ Discrete + k < InputRegs
  BY <1>1, Places
<1>3. mem'[Discrete + k] = new
      /\ \A x \in Mem : x # Discrete + k => mem'[x] = mem[x]
  BY <1>2 DEF SetInWrite, Shaped
<1>4. /\ pc[p] = "setting" /\ UNCHANGED spilled
      /\ inputs' = IF on THEN inputs \union {<<k, b>>} ELSE inputs \ {<<k, b>>}
      /\ torn' = (torn \union {x \in {k} \X (0 .. W - 1) : p \in late}) \ {<<k, b>>}
      /\ late' = (late \union {q \in Apps : pc[q] = "setting" /\ arg[q][1] = k}) \ {p}
      /\ pc' = [pc EXCEPT ![p] = "run"]
      /\ arg' = [arg EXCEPT ![p] = NoArg]
      /\ byte' = [byte EXCEPT ![p] = {}]
  BY DEF SetInWrite
<1>5. p \notin late /\ Discrete + k \notin spilled => byte[p] = mem[Discrete + k]
  BY <1>4 DEF AppInv
<1>6. AppType'
  <2>1. arg' \in [Apps -> (0 .. C - 1) \X (0 .. W - 1) \X BOOLEAN]
    <3> DEFINE A == (0 .. C - 1) \X (0 .. W - 1) \X BOOLEAN
    <3>1. NoArg \in A /\ arg \in [Apps -> A]
      BY NoArgTyped DEF AppType
    <3> HIDE DEF A
    <3>2. arg' \in [Apps -> A]
      BY <1>4, <3>1
    <3> QED
      BY <3>2 DEF A
  <2>2. pc' \in [Apps -> {"run", "setting"}]
    BY <1>4 DEF AppType
  <2>3. byte' = [q \in Apps |-> byte'[q]]
    BY <1>4 DEF AppType
  <2> QED
    BY <2>1, <2>2, <2>3 DEF AppType
<1>7. AppInv'
  <2> SUFFICES ASSUME NEW q \in Apps \ late', pc'[q] = "setting",
                      Discrete + arg'[q][1] \notin spilled
               PROVE  byte'[q] = mem'[Discrete + arg'[q][1]]
    BY <1>4 DEF AppInv
  <2>1. q # p
    BY <1>4 DEF AppType
  <2>2. pc[q] = "setting" /\ arg'[q] = arg[q] /\ byte'[q] = byte[q]
    BY <1>4, <2>1 DEF AppType
  <2>3. q \notin late /\ arg[q][1] # k
    BY <1>4, <2>1, <2>2
  <2>4. arg[q][1] \in 0 .. C - 1
    BY DEF AppType
  <2>5. Discrete + arg[q][1] \in Mem /\ Discrete + arg[q][1] # Discrete + k
    BY <1>1, <2>3, <2>4, Places, ModbusAssumption DEF Discrete
  <2>6. byte[q] = mem[Discrete + arg[q][1]]
    BY <2>2, <2>3 DEF AppInv
  <2> QED
    BY <1>3, <2>2, <2>5, <2>6
<1>8. ASSUME NEW x \in Apart \ spilled, x >= InputRegs
      PROVE  mem'[x] = {}
  <2>1. x \in Mem /\ x # Discrete + k
    BY <1>1, <1>8, Places, ModbusAssumption DEF Discrete, InputRegs
  <2> QED
    BY <1>3, <1>8, <2>1 DEF InputsKept
<1>9. ASSUME NEW x \in Apart \ spilled, ~(x >= InputRegs), NEW c \in 0 .. W - 1
      PROVE  \/ <<x - Discrete, c>> \in torn'
             \/ c \in mem'[x] <=> <<x - Discrete, c>> \in inputs'
  <2> DEFINE j == x - Discrete
  <2>0. x \in Mem /\ j \in Int /\ x = Discrete + j
    BY Places, ModbusAssumption DEF Mem, Discrete
  <2>1. <<j, c>> \in torn \/ (c \in mem[x] <=> <<j, c>> \in inputs)
    BY <1>9 DEF InputsKept
  <2> HIDE DEF j
  <2>2. CASE j # k
    <3>1. x # Discrete + k
      BY <1>1, <2>0, <2>2, ModbusAssumption DEF Discrete
    <3>2. mem'[x] = mem[x]
      BY <1>3, <2>0, <3>1
    <3>3. <<j, c>> # <<k, b>>
      BY <2>2
    <3> HIDE DEF k, b, on
    <3> QED
      BY <1>4, <2>1, <3>2, <3>3 DEF j
  <2>3. CASE j = k /\ c = b
    <3>1. x = Discrete + k /\ mem'[x] = new
      BY <1>3, <2>0, <2>3
    <3> HIDE DEF k, b, on
    <3>2. b \in new <=> on
      BY <1>1 DEF new
    <3>3. <<k, b>> \in inputs' <=> on
      BY <1>1, <1>4
    <3> QED
      BY <2>3, <3>1, <3>2, <3>3 DEF j
  <2>4. CASE j = k /\ c # b
    <3>1. x = Discrete + k /\ mem'[x] = new
      BY <1>3, <2>0, <2>4
    <3> HIDE DEF k, b, on
    <3>2. c \in new <=> c \in byte[p]
      BY <1>1, <2>4 DEF new
    <3>3. <<k, c>> \in inputs' <=> <<k, c>> \in inputs
      BY <1>1, <1>4, <2>4
    <3>4. CASE p \in late
      <4>1. <<k, c>> \in torn'
        BY <1>4, <2>4, <3>4
      <4> QED
        BY <2>4, <4>1 DEF j
    <3>5. CASE p \notin late
      <4>1. byte[p] = mem[x]
        BY <1>5, <3>1, <3>5
      <4>2. <<k, c>> \in torn => <<k, c>> \in torn'
        BY <1>4, <2>4
      <4> QED
        BY <2>1, <2>4, <3>1, <3>2, <3>3, <4>1, <4>2 DEF j
    <3> QED
      BY <3>4, <3>5
  <2> QED
    BY <2>2, <2>3, <2>4
<1>10. InputsKept'
  <2>1. spilled' = spilled
    BY <1>4
  <2> QED
    BY <1>8, <1>9, <2>1 DEF InputsKept
<1> QED
  BY <1>6, <1>7, <1>10

-----------------------------------------------------------------------------
(* The bits of an answer *)

(* What a read looks at: bytes of its own table.                           *)
LEMMA TablePlace ==
  ASSUME CurInv, cur # NoReq, NEW k \in Nat, k < cur.num
  PROVE  /\ k \div W \in 0 .. C - 1
         /\ (cur.start + k) \div W \in 0 .. C - 1
         /\ BitTable(cur) \in {Coils, Discrete}
<1>1. cur.start \in Nat /\ cur.num \in Nat /\ cur.start + cur.num <= W * C
  BY DEF CurInv
<1>2. W * C \in Nat
  BY ModbusAssumption
<1>3. k < W * C /\ cur.start + k < W * C /\ cur.start + k \in Nat
  BY <1>1, <1>2
<1> QED
  BY <1>3, Within DEF BitTable

(* A step that changes no table of bits changes no value.                  *)
LEMMA ValuesStay ==
  ASSUME CurInv, cur # NoReq, cur' = cur,
         \A x \in 0 .. C - 1 : mem'[Coils + x] = mem[Coils + x]
                               /\ mem'[Discrete + x] = mem[Discrete + x]
  PROVE  Values(cur, mem') = Values(cur, mem)
<1>1. cur.num \in Nat
  BY DEF CurInv
<1>2. ASSUME NEW k \in 0 .. cur.num - 1
      PROVE  On(mem', BitTable(cur), cur.start + k) <=> On(mem, BitTable(cur), cur.start + k)
  <2>1. k \in Nat /\ k < cur.num
    BY <1>1, <1>2
  <2>2. (cur.start + k) \div W \in 0 .. C - 1 /\ BitTable(cur) \in {Coils, Discrete}
    BY <2>1, TablePlace
  <2> DEFINE q == (cur.start + k) \div W
  <2>3. mem'[BitTable(cur) + q] = mem[BitTable(cur) + q]
    BY <2>2
  <2> QED
    BY <2>3 DEF On
<1>3. \A k \in 0 .. cur.num - 1 :
        On(mem', BitTable(cur), cur.start + k) = On(mem, BitTable(cur), cur.start + k)
  BY <1>2 DEF On
<1> QED
  BY <1>3 DEF Values

(* Application steps: what stands in the answer stays there.               *)
LEMMA OthersKeep ==
  ASSUME CurInv, SeenInv, UNCHANGED <<reply, cur, i>>, seen \subseteq seen',
         reply = "composing" => Values(cur, mem') \subseteq seen',
         \A x \in 0 .. C - 1 : mem'[Temp + x] = mem[Temp + x]
  PROVE  CurInv' /\ SeenInv'
<1>1. CurInv'
  BY DEF CurInv
<1>2. ASSUME cur # NoReq, cur.start % W = 0, NEW k \in Nat, k < i
      PROVE  <<k, On(mem', Temp, k)>> \in seen'
  <2>1. k < cur.num
    BY <1>2 DEF CurInv
  <2>2. k \div W \in 0 .. C - 1
    BY <1>2, <2>1, TablePlace
  <2>3. On(mem', Temp, k) = On(mem, Temp, k)
    BY <2>2 DEF On
  <2>4. <<k, On(mem, Temp, k)>> \in seen
    BY <1>2 DEF SeenInv
  <2> QED
    BY <2>3, <2>4
<1>3. SeenInv'
  BY <1>2 DEF SeenInv
<1> QED
  BY <1>1, <1>3

(* The bit that is copied is one that is in the table now, and those that  *)
(* are copied already stand elsewhere.                                     *)
LEMMA CopyKeeps ==
  ASSUME Shaped, CurInv, SeenInv, CopyBit
  PROVE  /\ CurInv' /\ SeenInv' /\ Shaped'
         /\ \A x \in Apart : mem'[x] = mem[x]
<1> DEFINE k == cur.start + i
           a == Temp + (i \div W)
           was == On(mem, BitTable(cur), k)
<1>1. /\ reply = "composing" /\ cur # NoReq /\ i \in Nat /\ i < cur.num
      /\ cur.start \in Nat /\ cur.num \in Nat /\ cur.start + cur.num <= W * C
  BY DEF CopyBit, Copies, CurInv
<1>2. i \div W \in 0 .. C - 1 /\ a \in Mem /\ a \notin Apart
  BY <1>1, TablePlace, Places
<1>3. /\ \A x \in Mem : x # a => mem'[x] = mem[x]
      /\ mem'[a] = IF was THEN mem[a] \union {k % W} ELSE mem[a] \ {k % W}
      /\ i' = i + 1 /\ UNCHANGED <<reply, cur, seen>>
  BY <1>2 DEF CopyBit, Shaped
<1>4. Shaped'
  BY DEF CopyBit, Shaped
<1>5. CurInv'
  BY <1>1, <1>3 DEF CurInv
<1>6. \A x \in Apart : mem'[x] = mem[x]
  BY <1>2, <1>3, Places
<1>7. Values(cur, mem') = Values(cur, mem)
  <2>1. \A x \in 0 .. C - 1 : Coils + x \in Mem /\ Coils + x # a
    BY <1>2, ModbusAssumption DEF Coils, Temp, Mem
  <2>2. \A x \in 0 .. C - 1 : mem'[Coils + x] = mem[Coils + x]
                               /\ mem'[Discrete + x] = mem[Discrete + x]
    BY <1>3, <1>6, <2>1, Places
  <2> QED
    BY <1>1, <1>3, <2>2, ValuesStay
<1>8. ASSUME cur.start % W = 0, NEW n \in Nat, n < i + 1
      PROVE  <<n, On(mem', Temp, n)>> \in seen
  <2>0. k % W = i % W
    BY <1>1, <1>8, Aligned
  <2>1. CASE n = i
    <3>1. On(mem', Temp, i) <=> was
      BY <1>3, <2>0 DEF On
    <3>2. <<i, was>> \in Values(cur, mem)
      <4>1. i \in 0 .. cur.num - 1
        BY <1>1
      <4> QED
        BY <4>1 DEF Values
    <3>3. <<i, was>> \in seen
      BY <1>1, <3>2 DEF SeenInv
    <3>4. On(mem', Temp, i) = was
      BY <3>1 DEF On
    <3> QED
      BY <2>1, <3>3, <3>4
  <2>2. CASE n # i
    <3>1. n < i /\ n < cur.num
      BY <1>1, <1>8, <2>2
    <3>2. n \div W \in 0 .. C - 1
      BY <1>1, <3>1, TablePlace
    <3>3. Temp + (n \div W) \in Mem
      BY <3>2, Places
    <3>4. <<n, On(mem, Temp, n)>> \in seen
      BY <1>1, <1>8, <3>1 DEF SeenInv
    <3>5. On(mem', Temp, n) = On(mem, Temp, n)
      <4>1. CASE n \div W # i \div W
        <5>1. Temp + (n \div W) # a
          BY <1>2, <3>2, <4>1, ModbusAssumption DEF Temp
        <5> QED
          BY <1>3, <3>3, <5>1 DEF On
      <4>2. CASE n \div W = i \div W
        <5>1. n % W # i % W
          BY <1>1, <2>2, <4>2, SamePlace
        <5>2. n % W \in mem'[a] <=> n % W \in mem[a]
          BY <1>3, <2>0, <5>1
        <5> QED
          BY <4>2, <5>2 DEF On
      <4> QED
        BY <4>1, <4>2
    <3> QED
      BY <3>4, <3>5
  <2> QED
    BY <2>1, <2>2
<1>9. SeenInv'
  BY <1>1, <1>3, <1>7, <1>8 DEF SeenInv
<1> QED
  BY <1>4, <1>5, <1>6, <1>9

(* A request finds no answer that goes on; a read starts by looking.       *)
LEMMA RequestsKeep ==
  ASSUME CurInv, NEW r \in Requests, Process(r)
  PROVE  CurInv' /\ SeenInv'
<1>1. reply = "none" /\ cur = NoReq
  BY DEF Process, CurInv
<1>2. CASE ReadBits(r) /\ ~BitsOutside(r)
  <2>1. r.start \in Nat /\ r.num \in Nat
    BY <1>2, FrameFields DEF ReadBits
  <2>2. r.start + r.num <= W * C
    <3>1. W * C \in Nat
      BY ModbusAssumption
    <3> QED
      BY <1>2, <2>1, <3>1 DEF BitsOutside
  <2>3. /\ reply' = "composing" /\ cur' = r /\ i' = 0 /\ mem' = mem
        /\ seen' = Values(r, mem) /\ r.fc \in {"readCoils", "readInputs"}
    BY <1>2 DEF ReadBits
  <2>4. r # NoReq
    BY <2>3 DEF NoReq
  <2>5. CurInv'
    BY <2>1, <2>2, <2>3, <2>4 DEF CurInv
  <2>6. SeenInv'
    BY <2>3 DEF SeenInv
  <2> QED
    BY <2>5, <2>6
<1>3. CASE ~(ReadBits(r) /\ ~BitsOutside(r))
  <2>1. cur' = cur /\ reply' \in {"exception", "data", "cut", "echo"}
    BY <1>3 DEF Process, ReadBits, ReadRegs, WriteReg, WriteRegs, WriteCoil, WriteCoils,
                Report, Unknown, Rejects, Answers, Result
  <2> QED
    BY <1>1, <2>1 DEF CurInv, SeenInv
<1> QED
  BY <1>2, <1>3

-----------------------------------------------------------------------------
(* All steps *)

LEMMA StepInv == Inv /\ [Next]_vars => Inv'
<1> SUFFICES ASSUME Inv, [Next]_vars PROVE Inv'
  OBVIOUS
<1>0. Shaped /\ AppType /\ AppInv /\ InputsKept /\ CurInv /\ SeenInv
  BY DEF Inv
<1>1. ASSUME NEW r \in Requests, Process(r)
      PROVE  Inv'
  <2>1. Shaped' /\ spilled \subseteq spilled' /\ UNCHANGED app
    BY <1>0, <1>1, RequestsShape
  <2>2. \A x \in Apart \ spilled' : mem'[x] = mem[x]
    BY <1>0, <1>1, RequestsApart
  <2>3. AppType' /\ AppInv' /\ InputsKept'
    BY <1>0, <2>1, <2>2, ApartKeeps
  <2>4. CurInv' /\ SeenInv'
    BY <1>0, <1>1, RequestsKeep
  <2> QED
    BY <2>1, <2>3, <2>4 DEF Inv
<1>2. CASE CopyBit
  <2>1. CurInv' /\ SeenInv' /\ Shaped' /\ \A x \in Apart : mem'[x] = mem[x]
    BY <1>0, <1>2, CopyKeeps
  <2>2. UNCHANGED <<app, spilled>>
    BY <1>2 DEF CopyBit
  <2>3. AppType' /\ AppInv' /\ InputsKept'
    BY <1>0, <2>1, <2>2, ApartKeeps
  <2> QED
    BY <2>1, <2>3 DEF Inv
<1>3. CASE Damaged \/ BitsRead \/ Sent \/ UNCHANGED vars
  <2>1. UNCHANGED <<mem, app, spilled>>
    BY <1>3 DEF Damaged, Rejects, BitsRead, Sent, vars
  <2>2. AppType' /\ AppInv' /\ InputsKept'
    BY <1>0, <2>1, ApartKeeps
  <2>3. CurInv' /\ SeenInv'
    <3>1. CASE Damaged
      <4>1. cur = NoReq /\ cur' = cur /\ reply' = "exception"
        BY <1>0, <3>1 DEF Damaged, Rejects, Answers, CurInv
      <4> QED
        BY <4>1 DEF CurInv, SeenInv
    <3>2. CASE BitsRead
      <4>1. i = cur.num
        BY <1>0, <3>2 DEF BitsRead, Copies, CurInv
      <4>2. reply = "composing" /\ reply' = "data" /\ UNCHANGED <<mem, cur, i, seen>>
        BY <3>2 DEF BitsRead
      <4>3. CurInv'
        BY <1>0, <4>1, <4>2 DEF CurInv
      <4>4. SeenInv'
        BY <1>0, <4>2 DEF SeenInv
      <4> QED
        BY <4>3, <4>4
    <3>3. CASE Sent
      <4>1. cur' = NoReq /\ reply' = "none"
        BY <3>3 DEF Sent
      <4> QED
        BY <4>1 DEF CurInv, SeenInv
    <3>4. CASE UNCHANGED vars
      <4>1. UNCHANGED <<mem, reply, cur, i, seen>>
        BY <3>4 DEF vars, slave
      <4> QED
        BY <1>0, <4>1 DEF CurInv, SeenInv
    <3> QED
      BY <1>3, <3>1, <3>2, <3>3, <3>4
  <2>4. Shaped'
    BY <1>0, <2>1 DEF Shaped
  <2> QED
    BY <2>2, <2>3, <2>4 DEF Inv
<1>4. ASSUME NEW p \in Apps, NEW in \in Inputs[p], NEW on \in BOOLEAN, SetInRead(p, in, on)
      PROVE  Inv'
  <2>1. in[1] \in 0 .. C - 1 /\ in[2] \in 0 .. W - 1
    BY ModbusAssumption
  <2>2. /\ pc' = [pc EXCEPT ![p] = "setting"]
        /\ arg' = [arg EXCEPT ![p] = <<in[1], in[2], on>>]
        /\ byte' = [byte EXCEPT ![p] = mem[Discrete + in[1]]]
        /\ UNCHANGED <<mem, reply, cur, i, seen, inputs, late, torn, spilled>>
    BY <1>4 DEF SetInRead, slave
  <2>3. AppType'
    BY <1>0, <2>1, <2>2 DEF AppType
  <2>4. AppInv'
    BY <1>0, <2>2 DEF AppType, AppInv
  <2>5. InputsKept' /\ CurInv' /\ SeenInv' /\ Shaped'
    BY <1>0, <2>2 DEF InputsKept, CurInv, SeenInv, Shaped
  <2> QED
    BY <2>3, <2>4, <2>5 DEF Inv
<1>5. ASSUME NEW p \in Apps, SetInWrite(p)
      PROVE  Inv'
  <2>1. AppType' /\ AppInv' /\ InputsKept'
    BY <1>0, <1>5, SetInKeeps
  <2>2. Shaped'
    BY <1>0, <1>5 DEF SetInWrite, Shaped
  <2>3. arg[p][1] \in 0 .. C - 1
    BY <1>0 DEF AppType
  <2>4. \A x \in 0 .. C - 1 : Temp + x \in Mem /\ Temp + x # Discrete + arg[p][1]
    BY <2>3, ModbusAssumption DEF Temp, Discrete, Mem
  <2>5. \A x \in 0 .. C - 1 : mem'[Temp + x] = mem[Temp + x]
    BY <1>0, <1>5, <2>4 DEF SetInWrite, Shaped
  <2>6. /\ UNCHANGED <<reply, cur, i>> /\ seen \subseteq seen'
        /\ reply = "composing" => Values(cur, mem') \subseteq seen'
    BY <1>5 DEF SetInWrite
  <2>7. CurInv' /\ SeenInv'
    BY <1>0, <2>5, <2>6, OthersKeep
  <2> QED
    BY <2>1, <2>2, <2>7 DEF Inv
<1>6. ASSUME NEW p \in Apps, NEW reg \in Regs, SetReg(p, reg[1], reg[2])
      PROVE  Inv'
  <2>1. reg[1] \in 0 .. R - 1
    BY ModbusAssumption
  <2>2. Shaped' /\ UNCHANGED <<reply, cur, i, seen, app, spilled>>
    BY <1>0, <1>6 DEF SetReg, Shaped, slave
  <2>3. \A x \in Mem : x # Holding + reg[1] => mem'[x] = mem[x]
    BY <1>0, <1>6 DEF SetReg, Shaped
  <2>4. \A x \in Apart : mem'[x] = mem[x]
    BY <2>1, <2>3, Places
  <2>5. AppType' /\ AppInv' /\ InputsKept'
    BY <1>0, <2>2, <2>4, ApartKeeps
  <2>6. \A x \in 0 .. C - 1 : /\ Coils + x \in Mem /\ Coils + x # Holding + reg[1]
                               /\ Temp + x \in Mem /\ Temp + x # Holding + reg[1]
    BY <2>1, ModbusAssumption DEF Coils, Temp, Holding, Mem
  <2>7. \A x \in 0 .. C - 1 : /\ mem'[Coils + x] = mem[Coils + x]
                               /\ mem'[Temp + x] = mem[Temp + x]
                               /\ mem'[Discrete + x] = mem[Discrete + x]
    BY <2>3, <2>4, <2>6, Places
  <2>8. reply = "composing" => Values(cur, mem') \subseteq seen'
    <3>1. ASSUME reply = "composing" PROVE Values(cur, mem') = Values(cur, mem)
      <4>1. cur # NoReq /\ cur' = cur
        BY <1>0, <2>2, <3>1 DEF CurInv
      <4> QED
        BY <1>0, <2>7, <4>1, ValuesStay
    <3> QED
      BY <1>0, <2>2, <3>1 DEF SeenInv
  <2>9. CurInv' /\ SeenInv'
    BY <1>0, <2>2, <2>7, <2>8, OthersKeep
  <2> QED
    BY <2>2, <2>5, <2>9 DEF Inv
<1> QED
  BY <1>1, <1>2, <1>3, <1>4, <1>5, <1>6 DEF Next, AppStep

THEOREM Invariant == Spec => []Inv
  BY InitInv, StepInv, PTL DEF Spec

(* The inputs are what the application made them, but where calls overlap  *)
(* in one byte and where a request has spilled, however the handlers, the  *)
(* requests and the calls interleave.                                      *)
THEOREM InputsStay == Spec => []InputsKept
<1>1. Inv => InputsKept
  BY DEF Inv
<1> QED
  BY <1>1, Invariant, PTL

(* Each bit of the answer to a read that begins on a byte is one that the  *)
(* table had during the read, whatever the bytes it was put into held and  *)
(* whatever the application set meanwhile.                                 *)
THEOREM AnswersAreTrue == Spec => []RepliesTrue
<1>1. Inv => RepliesTrue
  <2> SUFFICES ASSUME Inv, reply = "data", cur # NoReq, cur.start % W = 0,
                      NEW k \in 0 .. cur.num - 1
               PROVE  <<k, On(mem, Temp, k)>> \in seen
    BY DEF RepliesTrue
  <2>1. i = cur.num /\ cur.num \in Nat
    BY DEF Inv, CurInv
  <2>2. k \in Nat /\ k < i
    BY <2>1
  <2> QED
    BY <2>2 DEF Inv, SeenInv
<1> QED
  BY <1>1, Invariant, PTL
=============================================================================
