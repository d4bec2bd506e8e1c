---------------------------- MODULE FlashProofs ----------------------------
(***************************************************************************)
(* What holds of Flash for any geometry of the chip, any data and any      *)
(* number of processes.                                                    *)
(***************************************************************************)
EXTENDS Flash, TLAPS

-----------------------------------------------------------------------------
(* What the commands do *)

LEMMA ProgramType ==
  ASSUME NEW c \in Contents, NEW a, NEW d
  PROVE  Program(c, a, d) \in Contents
  BY DEF Program, Contents

LEMMA EraseType ==
  ASSUME NEW c \in Contents, NEW a
  PROVE  EraseHalf(c, a) \in Contents
  BY DEF EraseHalf, Contents

LEMMA EffectType ==
  ASSUME NEW c \in Contents, NEW o
  PROVE  Effect(o, c) \in Contents
<1>1. Erased \in Contents
  BY DEF Erased, Contents
<1>2. CASE o.kind = "write"
  BY <1>2, ProgramType DEF Effect
<1>3. CASE o.kind = "eraseBlock"
  BY <1>3, EraseType DEF Effect
<1>4. CASE o.kind \notin {"write", "eraseBlock"}
  BY <1>1, <1>4 DEF Effect
<1> QED
  BY <1>2, <1>3, <1>4

LEMMA OpFields ==
  ASSUME NEW o \in Ops
  PROVE  /\ o.kind = "write" => o.data \in Datas /\ o.addr \in Addrs
         /\ o.kind = "eraseBlock" => o.block \in 0 .. Blocks
         /\ o.kind \in {"init", "enable", "disable", "eraseChip", "write", "read",
                       "eraseBlock"}
  BY DEF Ops

(* The half that a checked block number erases lies in the chip.           *)
LEMMA BlockFits ==
  ASSUME NEW b \in 0 .. Blocks, b < Blocks
  PROVE  BlockStart(b) + Half - 1 \in Cells
<1> USE FlashAssumption
<1> DEFINE k == Blocks - b
<1>1. k \in Nat \ {0} /\ Blocks = b + k
  OBVIOUS
<1>2. 2 * Half * Blocks = 2 * Half * b + 2 * Half * k
  BY <1>1
<1>3. Half * k >= Half
  BY <1>1
<1>4. 2 * Half * k >= 2 * Half
  BY <1>1, <1>3
<1>5. 2 * Half * b \in Nat /\ 2 * Half * k \in Nat /\ 2 * Half * Blocks \in Nat
  BY <1>1
<1> HIDE DEF k
<1> QED
  BY <1>2, <1>4, <1>5 DEF BlockStart, Cells, Chip

(* Below the modulus the remainder is the number itself.                   *)
LEMMA SmallMod ==
  ASSUME NEW m \in Nat \ {0}, NEW n \in 0 .. m - 1
  PROVE  n % m = n
  OBVIOUS

LEMMA ModRange ==
  ASSUME NEW m \in Nat \ {0}, NEW n \in Nat
  PROVE  n % m \in 0 .. m - 1
  OBVIOUS

LEMMA ModBelow ==
  ASSUME NEW m \in Nat \ {0}, NEW n \in Nat
  PROVE  n % m \in 0 .. n
<1>1. CASE n < m
  <2>1. n % m = n
    BY <1>1, SmallMod
  <2> QED
    BY <2>1
<1>2. CASE n >= m
  BY <1>2, ModRange
<1> QED
  BY <1>1, <1>2

LEMMA ChipSize == Chip \in Nat \ {0}
  BY FlashAssumption DEF Chip

(* Programming touches one page, that of the address.                      *)
LEMMA OnePage ==
  ASSUME NEW a \in Nat, NEW i \in Nat
  PROVE  InPage(Wrap(a, i), a)
<1>1. a % PageSize \in 0 .. PageSize - 1
  BY ModRange, FlashAssumption
<1>2. (a % PageSize) + i \in Nat
  BY <1>1
<1>3. ((a % PageSize) + i) % PageSize \in 0 .. PageSize - 1
  BY <1>2, ModRange, FlashAssumption
<1> QED
  BY <1>1, <1>3, FlashAssumption DEF Wrap, InPage

(* Within the page it goes on from cell to cell.                           *)
LEMMA NoWrap ==
  ASSUME NEW a \in Nat, NEW i \in Nat, (a % PageSize) + i < PageSize
  PROVE  Wrap(a, i) = a + i
<1>1. a % PageSize \in 0 .. PageSize - 1
  BY ModRange, FlashAssumption
<1>2. (a % PageSize) + i \in 0 .. PageSize - 1
  BY <1>1, FlashAssumption
<1>3. ((a % PageSize) + i) % PageSize = (a % PageSize) + i
  BY <1>2, SmallMod, FlashAssumption
<1> QED
  BY <1>1, <1>3 DEF Wrap

(* What is sent is a part of the data, and all of it if the size survives  *)
(* the conversion.                                                         *)
LEMMA SentData ==
  ASSUME NEW o \in Ops, o.kind = "write"
  PROVE  /\ Sent(o) \in Seq(SUBSET Bits)
         /\ Len(Sent(o)) \in Nat
         /\ Len(o.data) < SizeMod => Sent(o) = o.data
<1>1. o.data \in Seq(SUBSET Bits)
  BY OpFields, FlashAssumption
<1>2. Len(o.data) \in Nat /\ SizeMod \in Nat \ {0}
  BY <1>1, FlashAssumption
<1>3. DataLen(Len(o.data)) \in 0 .. Len(o.data)
  <2> DEFINE n == Len(o.data)
  <2>1. n \in Nat
    BY <1>2
  <2> HIDE DEF n
  <2>2. n % SizeMod \in 0 .. n
    BY <2>1, <1>2, ModBelow
  <2> QED
    BY <2>2 DEF DataLen, n
<1>4. Sent(o) \in Seq(SUBSET Bits) /\ Len(Sent(o)) = DataLen(Len(o.data))
  BY <1>1, <1>3 DEF Sent
<1>5. ASSUME Len(o.data) < SizeMod PROVE Sent(o) = o.data
  <2>1. DataLen(Len(o.data)) = Len(o.data)
    <3>1. Len(o.data) \in 0 .. SizeMod - 1
      BY <1>5, <1>2
    <3> QED
      BY <3>1, <1>2, SmallMod DEF DataLen
  <2> QED
    BY <2>1, <1>1 DEF Sent
<1> QED
  BY <1>3, <1>4, <1>5

(* The chip does for each call what a caller may expect of it.             *)
LEMMA EffectDoes ==
  ASSUME NEW o \in Ops, NEW c \in Contents
  PROVE  Does(o, c, Effect(o, c))
<1>1. CASE o.kind = "write"
  <2> DEFINE d == Sent(o)
             a == o.addr % Chip
             e == Program(c, o.addr, d)
  <2>1. o.addr \in Nat /\ a \in 0 .. Chip - 1 /\ a \in Nat
    <3>1. o.addr \in Nat
      BY <1>1, OpFields, FlashAssumption
    <3>2. o.addr % Chip \in 0 .. Chip - 1
      BY <3>1, ModRange, ChipSize
    <3> QED
      BY <3>1, <3>2, ChipSize
  <2>2. d \in Seq(SUBSET Bits) /\ Len(d) \in Nat /\ (Len(o.data) < SizeMod => d = o.data)
    BY <1>1, SentData
  <2>3. \A x \in Cells : e[x] = c[x] \intersect {b \in Bits : \A i \in 1 .. Len(d) :
                                     Wrap(a, i - 1) = x => b \in d[i]}
    BY DEF Program
  <2>4. \A x \in Cells : c[x] \subseteq Bits
    BY DEF Contents
  <2> HIDE DEF d, a, e
  <2>5. ASSUME NEW x \in Cells, Fits(o)
       PROVE  e[x] = IF x - o.addr \in 0 .. Len(o.data) - 1
                     THEN c[x] \intersect o.data[x - o.addr + 1]
                     ELSE c[x]
    <3>1. d = o.data /\ o.addr \in Cells /\ (o.addr % PageSize) + Len(d) <= PageSize
      BY <2>2, <2>5 DEF Fits
    <3>2. a = o.addr
      BY <3>1, SmallMod, ChipSize DEF a, Cells
    <3>3. a % PageSize \in 0 .. PageSize - 1
      BY <2>1, ModRange, FlashAssumption
    <3>4. \A i \in 1 .. Len(d) : Wrap(a, i - 1) = a + (i - 1)
      <4> SUFFICES ASSUME NEW i \in 1 .. Len(d) PROVE Wrap(a, i - 1) = a + (i - 1)
        OBVIOUS
      <4>1. i - 1 \in Nat /\ (a % PageSize) + (i - 1) < PageSize
        BY <2>2, <3>1, <3>2, <3>3, FlashAssumption
      <4> QED
        BY <4>1, <2>1, NoWrap
    <3>5. x \in Int /\ a \in Int
      BY <2>1 DEF Cells
    <3>6. CASE x - a \in 0 .. Len(d) - 1
      <4>1. \A i \in 1 .. Len(d) : Wrap(a, i - 1) = x <=> i = x - a + 1
        <5> SUFFICES ASSUME NEW i \in 1 .. Len(d)
                     PROVE  Wrap(a, i - 1) = x <=> i = x - a + 1
          OBVIOUS
        <5>1. i \in Int
          BY <2>2
        <5>2. Wrap(a, i - 1) = a + (i - 1)
          BY <3>4
        <5>3. a + (i - 1) = x <=> i = x - a + 1
          BY <5>1, <3>5
        <5> QED
          BY <5>2, <5>3
      <4>2. x - a + 1 \in 1 .. Len(d)
        BY <3>5, <3>6, <2>2
      <4>3. \A b \in Bits : (\A i \in 1 .. Len(d) : Wrap(a, i - 1) = x => b \in d[i])
                              <=> b \in d[x - a + 1]
        <5> DEFINE k == x - a + 1
        <5>1. k \in 1 .. Len(d) /\ \A i \in 1 .. Len(d) : Wrap(a, i - 1) = x <=> i = k
          BY <4>1, <4>2
        <5> HIDE DEF k
        <5>2. \A b \in Bits : (\A i \in 1 .. Len(d) : Wrap(a, i - 1) = x => b \in d[i])
                                <=> b \in d[k]
          BY <5>1
        <5> QED
          BY <5>2 DEF k
      <4>4. e[x] = c[x] \intersect d[x - a + 1]
        BY <4>3, <2>3, <2>4
      <4> QED
        BY <4>4, <3>1, <3>2, <3>6
    <3>7. CASE x - a \notin 0 .. Len(d) - 1
      <4>1. \A i \in 1 .. Len(d) : Wrap(a, i - 1) # x
        BY <3>4, <3>5, <3>7, <2>2
      <4>2. e[x] = c[x]
        BY <4>1, <2>3, <2>4
      <4> QED
        BY <4>2, <3>1, <3>2, <3>7
    <3> QED
      BY <3>6, <3>7
  <2>6. ASSUME NEW x \in Cells PROVE InPage(x, a) \/ e[x] = c[x]
    <3>1. CASE \E i \in 1 .. Len(d) : Wrap(a, i - 1) = x
      <4>1. PICK i \in 1 .. Len(d) : Wrap(a, i - 1) = x
        BY <3>1
      <4>2. i - 1 \in Nat
        BY <2>2
      <4> QED
        BY <4>1, <4>2, <2>1, OnePage
    <3>2. CASE ~\E i \in 1 .. Len(d) : Wrap(a, i - 1) = x
      BY <3>2, <2>3, <2>4
    <3> QED
      BY <3>1, <3>2
  <2>7. Written(o, c, e)
    BY <2>5, <2>6 DEF Written, a
  <2> QED
    BY <1>1, <2>7 DEF Does, Effect, e, d
<1>2. CASE o.kind = "eraseBlock"
  <2>1. o.block \in Nat
    BY <1>2, OpFields, FlashAssumption
  <2>2. BlockStart(o.block) \in Int
    BY <2>1, FlashAssumption DEF BlockStart
  <2>3. BlockErased(o, c, EraseHalf(c, BlockStart(o.block)))
    <3> SUFFICES ASSUME NEW x \in Cells,
                        NEW d, d = x - BlockStart(o.block),
                        NEW e, e = EraseHalf(c, BlockStart(o.block))
                 PROVE  CASE d \in 0 .. Half - 1 -> e[x] = Bits
                          [] d \in Half .. 2 * Half - 1 -> e[x] \in {c[x], Bits}
                          [] OTHER -> e[x] = c[x]
      BY DEF BlockErased
    <3>1. x \in Int /\ d \in Int
      BY <2>2 DEF Cells
    <3>2. e[x] = IF d \in 0 .. Half - 1 THEN Bits ELSE c[x]
      BY <3>1, <2>2, FlashAssumption DEF EraseHalf
    <3> QED
      BY <3>1, <3>2, FlashAssumption
  <2> QED
    BY <1>2, <2>3 DEF Does, Effect
<1>3. CASE o.kind = "eraseChip"
  BY <1>3 DEF Does, Effect, Erased
<1>4. CASE o.kind \notin {"write", "eraseBlock", "eraseChip"}
  BY <1>4 DEF Does, Effect
<1> QED
  BY <1>1, <1>2, <1>3, <1>4

-----------------------------------------------------------------------------
(* Types *)

(* A call under way has had its parameters checked.                        *)
Checked ==
  \A p \in Procs : InCall(p) /\ pc[p] # "done" =>
    /\ op[p].kind = "write" => DataLen(Len(op[p].data)) \in 1 .. PageSize
    /\ op[p].kind = "eraseBlock" => BlockStart(op[p].block) + Half - 1 \in Cells

Types ==
  /\ cells \in Contents
  /\ busy \in BOOLEAN /\ wel \in BOOLEAN /\ qe \in BOOLEAN
  /\ job \in [cells : Contents, qe : BOOLEAN]
  /\ owner \in 0 .. N
  /\ pc \in [Procs -> Places]
  /\ op \in [Procs -> Ops \union {NoOp}]
  /\ ret \in [Procs -> {"none", "ok", "param", "spi"}]
  /\ before \in [Procs -> Contents]
  /\ blind \subseteq Procs /\ early \subseteq Procs /\ raced \in BOOLEAN

LEMMA TypeParts == TypeOK <=> Types /\ Checked
  BY DEF TypeOK, Types, Checked

LEMMA StepTypes == Types /\ [Next]_vars => Types'
<1> SUFFICES ASSUME Types, [Next]_vars PROVE Types'
  OBVIOUS
<1> USE DEF Types, Places
<1>1. ASSUME NEW q \in Procs, AllocTest(q)
     PROVE  Types'
  BY <1>1 DEF AllocTest, chip, call
<1>2. ASSUME NEW q \in Procs, AllocTake(q)
     PROVE  Types'
  <2>1. Erased \in Contents
    BY DEF Erased, Contents
  <2>2. before' \in [Procs -> Contents] /\ blind' \subseteq Procs /\ early' \subseteq Procs
    BY <1>2, <2>1 DEF AllocTake
  <2>3. raced' \in BOOLEAN
    BY <1>2 DEF AllocTake
  <2>4. owner' \in 0 .. N
    BY <1>2, FlashAssumption DEF AllocTake, Procs
  <2>5. pc' \in [Procs -> Places]
    BY <1>2 DEF AllocTake
  <2> QED
    BY <1>2, <2>2, <2>3, <2>4, <2>5 DEF AllocTake, chip
<1>3. ASSUME NEW q \in Procs, Dealloc(q)
     PROVE  Types'
  BY <1>3, FlashAssumption DEF Dealloc, Procs, chip, call
<1>4. ASSUME NEW q \in Procs, NEW o \in Ops, Call(q, o)
     PROVE  Types'
  <2>1. op' \in [Procs -> Ops \union {NoOp}] /\ before' \in [Procs -> Contents]
    BY <1>4 DEF Call
  <2>2. pc' \in [Procs -> Places] /\ ret' \in [Procs -> {"none", "ok", "param", "spi"}]
    BY <1>4, OpFields DEF Call, First
  <2>3. blind' \subseteq Procs
    BY <1>4 DEF Call
  <2> QED
    BY <1>4, <2>1, <2>2, <2>3 DEF Call, chip
<1>5. ASSUME NEW q \in Procs, InitStatus(q)
     PROVE  Types'
  BY <1>5 DEF InitStatus, Ends, Goes, chip, call
<1>6. ASSUME NEW q \in Procs, Poll(q)
     PROVE  Types'
  BY <1>6 DEF Poll, Goes, AfterPoll, SaysBusy, chip, call
<1>7. ASSUME NEW q \in Procs, Wait(q)
     PROVE  Types'
  BY <1>7 DEF Wait, Ends, SaysBusy, chip
<1>8. ASSUME NEW q \in Procs, Enable(q)
     PROVE  Types'
  BY <1>8 DEF Enable, Ends, Goes, call
<1>9. ASSUME NEW q \in Procs, Disable(q)
     PROVE  Types'
  BY <1>9 DEF Disable, Ends
<1>10. ASSUME NEW q \in Procs, Command(q)
     PROVE  Types'
  BY <1>10 DEF Command, Goes, chip, call
<1>11. ASSUME NEW q \in Procs, Erase(q)
     PROVE  Types'
  <2>1. job' \in [cells : Contents, qe : BOOLEAN] /\ busy' \in BOOLEAN
    <3>1. Effect(op[q], cells) \in Contents
      BY EffectType
    <3>2. Starts(Effect(op[q], cells)) \/ Ignores
      BY <1>11 DEF Erase
    <3>3. [job EXCEPT !.cells = Effect(op[q], cells)] \in [cells : Contents, qe : BOOLEAN]
      BY <3>1
    <3> QED
      BY <3>2, <3>3 DEF Starts, Ignores
  <2> QED
    BY <1>11, <2>1 DEF Erase, Goes, call
<1>12. ASSUME NEW q \in Procs, WriteData(q)
     PROVE  Types'
  <2>1. job' \in [cells : Contents, qe : BOOLEAN] /\ busy' \in BOOLEAN
    <3>1. Effect(op[q], cells) \in Contents
      BY EffectType
    <3>2. Starts(Effect(op[q], cells)) \/ Ignores
      BY <1>12 DEF WriteData
    <3>3. [job EXCEPT !.cells = Effect(op[q], cells)] \in [cells : Contents, qe : BOOLEAN]
      BY <3>1
    <3> QED
      BY <3>2, <3>3 DEF Starts, Ignores
  <2> QED
    BY <1>12, <2>1 DEF WriteData, Goes, call
<1>13. ASSUME NEW q \in Procs, WriteStatus(q)
     PROVE  Types'
  BY <1>13 DEF WriteStatus, Ends, Ignores, Accepts
<1>14. ASSUME NEW q \in Procs, ReadData(q)
     PROVE  Types'
  BY <1>14 DEF ReadData, Ends, chip
<1>15. ASSUME NEW q \in Procs, Return(q)
     PROVE  Types'
  <2>1. Erased \in Contents
    BY DEF Erased, Contents
  <2>2. raced' \in BOOLEAN
    BY <1>15 DEF Return
  <2> QED
    BY <1>15, <2>1, <2>2 DEF Return, chip
<1>16. ASSUME NEW q \in Procs, PollFails(q)
     PROVE  Types'
  BY <1>16 DEF PollFails, AfterPoll, chip
<1>17. ASSUME NEW q \in Procs, WaitFails(q)
     PROVE  Types'
  BY <1>17 DEF WaitFails, Ends, chip
<1>18. ASSUME NEW q \in Procs, TransferFails(q)
     PROVE  Types'
  BY <1>18 DEF TransferFails, Ends, chip
<1>19. ASSUME NEW q \in Procs, DataFails(q)
     PROVE  Types'
  <2>1. job' \in [cells : Contents, qe : BOOLEAN] /\ busy' \in BOOLEAN
    <3>1. CASE op[q].kind = "write" /\ Accepts /\ qe
      <4>1. PICK n \in 1 .. Len(Sent(op[q])) :
              Starts(Program(cells, op[q].addr, SubSeq(Sent(op[q]), 1, n)))
        BY <1>19, <3>1 DEF DataFails
      <4> QED
        BY <4>1, ProgramType DEF Starts
    <3>2. CASE ~(op[q].kind = "write" /\ Accepts /\ qe)
      BY <1>19, <3>2 DEF DataFails, Ignores
    <3> QED
      BY <3>1, <3>2
  <2> QED
    BY <1>19, <2>1 DEF DataFails, Ends
<1>20. CASE ChipDone
  BY <1>20 DEF ChipDone, call
<1>21. CASE UNCHANGED vars
  BY <1>21 DEF vars, chip, call
<1> QED
  BY <1>1, <1>2, <1>3, <1>4, <1>5, <1>6, <1>7, <1>8, <1>9, <1>10, <1>11,
     <1>12, <1>13, <1>14, <1>15, <1>16, <1>17, <1>18, <1>19, <1>20, <1>21
     DEF Next, Works, Fails

LEMMA StepChecked == Types /\ Checked /\ [Next]_vars => Checked'
<1> SUFFICES ASSUME Types, Checked, [Next]_vars PROVE Checked'
  OBVIOUS
<1> USE DEF Types, Checked, InCall
<1>1. ASSUME NEW q \in Procs, AllocTest(q)
     PROVE  Checked'
  BY <1>1 DEF AllocTest, chip, call
<1>2. ASSUME NEW q \in Procs, AllocTake(q)
     PROVE  Checked'
  BY <1>2 DEF AllocTake, chip
<1>3. ASSUME NEW q \in Procs, Dealloc(q)
     PROVE  Checked'
  BY <1>3 DEF Dealloc, chip, call
<1>4. ASSUME NEW q \in Procs, NEW o \in Ops, Call(q, o)
     PROVE  Checked'
  <2>1. InRange(o) => /\ o.kind = "write" => DataLen(Len(o.data)) \in 1 .. PageSize
                      /\ o.kind = "eraseBlock" => BlockStart(o.block) + Half - 1 \in Cells
    BY OpFields, BlockFits DEF InRange
  <2> QED
    BY <1>4, <2>1 DEF Call, chip
<1>5. ASSUME NEW q \in Procs, InitStatus(q)
     PROVE  Checked'
  BY <1>5 DEF InitStatus, Ends, Goes, chip, call
<1>6. ASSUME NEW q \in Procs, Poll(q)
     PROVE  Checked'
  BY <1>6 DEF Poll, Goes, AfterPoll, SaysBusy, chip, call
<1>7. ASSUME NEW q \in Procs, Wait(q)
     PROVE  Checked'
  BY <1>7 DEF Wait, Ends, SaysBusy, chip
<1>8. ASSUME NEW q \in Procs, Enable(q)
     PROVE  Checked'
  BY <1>8 DEF Enable, Ends, Goes, call
<1>9. ASSUME NEW q \in Procs, Disable(q)
     PROVE  Checked'
  BY <1>9 DEF Disable, Ends
<1>10. ASSUME NEW q \in Procs, Command(q)
     PROVE  Checked'
  BY <1>10 DEF Command, Goes, chip, call
<1>11. ASSUME NEW q \in Procs, Erase(q)
     PROVE  Checked'
  BY <1>11 DEF Erase, Goes, Starts, Ignores, Accepts, call
<1>12. ASSUME NEW q \in Procs, WriteData(q)
     PROVE  Checked'
  BY <1>12 DEF WriteData, Goes, Starts, Ignores, Accepts, call
<1>13. ASSUME NEW q \in Procs, WriteStatus(q)
     PROVE  Checked'
  BY <1>13 DEF WriteStatus, Ends, Ignores, Accepts
<1>14. ASSUME NEW q \in Procs, ReadData(q)
     PROVE  Checked'
  BY <1>14 DEF ReadData, Ends, chip
<1>15. ASSUME NEW q \in Procs, Return(q)
     PROVE  Checked'
  BY <1>15 DEF Return, chip
<1>16. ASSUME NEW q \in Procs, PollFails(q)
     PROVE  Checked'
  BY <1>16 DEF PollFails, AfterPoll, chip
<1>17. ASSUME NEW q \in Procs, WaitFails(q)
     PROVE  Checked'
  BY <1>17 DEF WaitFails, Ends, chip
<1>18. ASSUME NEW q \in Procs, TransferFails(q)
     PROVE  Checked'
  BY <1>18 DEF TransferFails, Ends, chip
<1>19. ASSUME NEW q \in Procs, DataFails(q)
     PROVE  Checked'
  BY <1>19 DEF DataFails, Ends, Starts, Ignores, Accepts
<1>20. CASE ChipDone
  BY <1>20 DEF ChipDone, call
<1>21. CASE UNCHANGED vars
  BY <1>21 DEF vars, chip, call
<1> QED
  BY <1>1, <1>2, <1>3, <1>4, <1>5, <1>6, <1>7, <1>8, <1>9, <1>10, <1>11,
     <1>12, <1>13, <1>14, <1>15, <1>16, <1>17, <1>18, <1>19, <1>20, <1>21
     DEF Next, Works, Fails

-----------------------------------------------------------------------------
(* A call that returns W25Q_OK is or will be done *)

(* Only the process that owns the flash is in a call.                      *)
OwnerInv == ~raced => \A p \in Procs : InCall(p) => owner = p

Kind(p) == op[p].kind
Modifies == {"init", "write", "eraseBlock", "eraseChip"}

(* What kind of call is where.                                             *)
FlowInv ==
  \A p \in Procs :
    /\ pc[p] \in {"init", "disable"} => Kind(p) = pc[p]
    /\ pc[p] = "poll" => Kind(p) \in Modifies \union {"read"}
    /\ pc[p] = "enable" => Kind(p) \in Modifies \union {"enable"}
    /\ pc[p] = "command" => Kind(p) \in Modifies \union {"read"}
    /\ pc[p] = "data" => Kind(p) \in {"init", "write", "read"}
    /\ pc[p] = "wait" => Kind(p) \in Modifies \ {"init"}

(* A chip that is not busy has finished its job.                           *)
JobInv == ~busy => cells = job.cells /\ qe = job.qe

(* After the poll the chip stays free for the call that polled it, and     *)
(* after the write enable it is write-enabled for that call.               *)
ChipInv ==
  ~raced => \A p \in Procs \ blind :
    /\ pc[p] \in {"enable", "command", "data"} /\ Kind(p) # "enable" => ~busy
    /\ pc[p] \in {"command", "data"} /\ Kind(p) \in Modifies => wel
    /\ InCall(p) /\ Kind(p) = "write" => job.qe

(* Until its command the chip is to hold what the call found, and from     *)
(* then on what the call is for.                                           *)
WantInv ==
  ~raced => \A p \in Procs \ blind :
    /\ pc[p] \in {"init", "disable", "poll", "enable", "command", "data"} =>
         before[p] = job.cells
    /\ pc[p] = "wait" \/ (pc[p] = "done" /\ ret[p] = "ok") =>
         Does(op[p], before[p], job.cells)
    /\ pc[p] = "done" /\ ret[p] = "ok" /\ Kind(p) \in Modifies \ {"init"} /\ p \notin early =>
         ~busy

CallInv == OwnerInv /\ FlowInv /\ JobInv /\ ChipInv /\ WantInv

LEMMA InitAll == Init => TypeOK /\ CallInv
<1> SUFFICES ASSUME Init PROVE TypeOK /\ CallInv
  OBVIOUS
<1>1. Erased \in Contents
  BY DEF Erased, Contents
<1>2. owner \in 0 .. N
  BY FlashAssumption DEF Init
<1>3. Types
  BY <1>1, <1>2 DEF Init, Types, Places
<1>4. Checked /\ OwnerInv /\ FlowInv /\ JobInv /\ ChipInv /\ WantInv
  BY DEF Init, Checked, OwnerInv, FlowInv, JobInv, ChipInv, WantInv, InCall
<1> QED
  BY <1>3, <1>4, TypeParts DEF CallInv

LEMMA StepOwner == Types /\ OwnerInv /\ [Next]_vars => OwnerInv'
<1> SUFFICES ASSUME Types, OwnerInv, [Next]_vars PROVE OwnerInv'
  OBVIOUS
<1> USE DEF Types, OwnerInv, InCall
<1>1. ASSUME NEW q \in Procs, AllocTest(q)
     PROVE  OwnerInv'
  BY <1>1 DEF AllocTest, chip, call
<1>2. ASSUME NEW q \in Procs, AllocTake(q)
     PROVE  OwnerInv'
  BY <1>2 DEF AllocTake, chip
<1>3. ASSUME NEW q \in Procs, Dealloc(q)
     PROVE  OwnerInv'
  BY <1>3 DEF Dealloc, chip, call
<1>4. ASSUME NEW q \in Procs, NEW o \in Ops, Call(q, o)
     PROVE  OwnerInv'
  BY <1>4 DEF Call, First, chip
<1>5. ASSUME NEW q \in Procs, InitStatus(q)
     PROVE  OwnerInv'
  BY <1>5 DEF InitStatus, Ends, Goes, chip, call
<1>6. ASSUME NEW q \in Procs, Poll(q)
     PROVE  OwnerInv'
  BY <1>6 DEF Poll, Goes, AfterPoll, SaysBusy, chip, call
<1>7. ASSUME NEW q \in Procs, Wait(q)
     PROVE  OwnerInv'
  BY <1>7 DEF Wait, Ends, SaysBusy, chip
<1>8. ASSUME NEW q \in Procs, Enable(q)
     PROVE  OwnerInv'
  BY <1>8 DEF Enable, Ends, Goes, call
<1>9. ASSUME NEW q \in Procs, Disable(q)
     PROVE  OwnerInv'
  BY <1>9 DEF Disable, Ends
<1>10. ASSUME NEW q \in Procs, Command(q)
     PROVE  OwnerInv'
  BY <1>10 DEF Command, Goes, chip, call
<1>11. ASSUME NEW q \in Procs, Erase(q)
     PROVE  OwnerInv'
  BY <1>11 DEF Erase, Goes, Starts, Ignores, Accepts, call
<1>12. ASSUME NEW q \in Procs, WriteData(q)
     PROVE  OwnerInv'
  BY <1>12 DEF WriteData, Goes, Starts, Ignores, Accepts, call
<1>13. ASSUME NEW q \in Procs, WriteStatus(q)
     PROVE  OwnerInv'
  BY <1>13 DEF WriteStatus, Ends, Ignores, Accepts
<1>14. ASSUME NEW q \in Procs, ReadData(q)
     PROVE  OwnerInv'
  BY <1>14 DEF ReadData, Ends, chip
<1>15. ASSUME NEW q \in Procs, Return(q)
     PROVE  OwnerInv'
  BY <1>15 DEF Return, chip
<1>16. ASSUME NEW q \in Procs, PollFails(q)
     PROVE  OwnerInv'
  BY <1>16 DEF PollFails, AfterPoll, chip
<1>17. ASSUME NEW q \in Procs, WaitFails(q)
     PROVE  OwnerInv'
  BY <1>17 DEF WaitFails, Ends, chip
<1>18. ASSUME NEW q \in Procs, TransferFails(q)
     PROVE  OwnerInv'
  BY <1>18 DEF TransferFails, Ends, chip
<1>19. ASSUME NEW q \in Procs, DataFails(q)
     PROVE  OwnerInv'
  BY <1>19 DEF DataFails, Ends, Starts, Ignores, Accepts
<1>20. CASE ChipDone
  BY <1>20 DEF ChipDone, call
<1>21. CASE UNCHANGED vars
  BY <1>21 DEF vars, chip, call
<1> QED
  BY <1>1, <1>2, <1>3, <1>4, <1>5, <1>6, <1>7, <1>8, <1>9, <1>10, <1>11,
     <1>12, <1>13, <1>14, <1>15, <1>16, <1>17, <1>18, <1>19, <1>20, <1>21
     DEF Next, Works, Fails

LEMMA StepFlow == Types /\ FlowInv /\ [Next]_vars => FlowInv'
<1> SUFFICES ASSUME Types, FlowInv, [Next]_vars PROVE FlowInv'
  OBVIOUS
<1> USE DEF Types, FlowInv, Kind, Modifies
<1>1. ASSUME NEW q \in Procs, AllocTest(q)
     PROVE  FlowInv'
  BY <1>1 DEF AllocTest, chip, call
<1>2. ASSUME NEW q \in Procs, AllocTake(q)
     PROVE  FlowInv'
  BY <1>2 DEF AllocTake, chip
<1>3. ASSUME NEW q \in Procs, Dealloc(q)
     PROVE  FlowInv'
  BY <1>3 DEF Dealloc, chip, call
<1>4. ASSUME NEW q \in Procs, NEW o \in Ops, Call(q, o)
     PROVE  FlowInv'
  BY <1>4, OpFields DEF Call, First, chip
<1>5. ASSUME NEW q \in Procs, InitStatus(q)
     PROVE  FlowInv'
  BY <1>5 DEF InitStatus, Ends, Goes, chip, call
<1>6. ASSUME NEW q \in Procs, Poll(q)
     PROVE  FlowInv'
  BY <1>6 DEF Poll, Goes, AfterPoll, SaysBusy, chip, call
<1>7. ASSUME NEW q \in Procs, Wait(q)
     PROVE  FlowInv'
  BY <1>7 DEF Wait, Ends, SaysBusy, chip
<1>8. ASSUME NEW q \in Procs, Enable(q)
     PROVE  FlowInv'
  BY <1>8 DEF Enable, Ends, Goes, call
<1>9. ASSUME NEW q \in Procs, Disable(q)
     PROVE  FlowInv'
  BY <1>9 DEF Disable, Ends
<1>10. ASSUME NEW q \in Procs, Command(q)
     PROVE  FlowInv'
  BY <1>10 DEF Command, Goes, chip, call
<1>11. ASSUME NEW q \in Procs, Erase(q)
     PROVE  FlowInv'
  BY <1>11 DEF Erase, Goes, Starts, Ignores, Accepts, call
<1>12. ASSUME NEW q \in Procs, WriteData(q)
     PROVE  FlowInv'
  BY <1>12 DEF WriteData, Goes, Starts, Ignores, Accepts, call
<1>13. ASSUME NEW q \in Procs, WriteStatus(q)
     PROVE  FlowInv'
  BY <1>13 DEF WriteStatus, Ends, Ignores, Accepts
<1>14. ASSUME NEW q \in Procs, ReadData(q)
     PROVE  FlowInv'
  BY <1>14 DEF ReadData, Ends, chip
<1>15. ASSUME NEW q \in Procs, Return(q)
     PROVE  FlowInv'
  BY <1>15 DEF Return, chip
<1>16. ASSUME NEW q \in Procs, PollFails(q)
     PROVE  FlowInv'
  BY <1>16 DEF PollFails, AfterPoll, chip
<1>17. ASSUME NEW q \in Procs, WaitFails(q)
     PROVE  FlowInv'
  BY <1>17 DEF WaitFails, Ends, chip
<1>18. ASSUME NEW q \in Procs, TransferFails(q)
     PROVE  FlowInv'
  BY <1>18 DEF TransferFails, Ends, chip
<1>19. ASSUME NEW q \in Procs, DataFails(q)
     PROVE  FlowInv'
  BY <1>19 DEF DataFails, Ends, Starts, Ignores, Accepts
<1>20. CASE ChipDone
  BY <1>20 DEF ChipDone, call
<1>21. CASE UNCHANGED vars
  BY <1>21 DEF vars, chip, call
<1> QED
  BY <1>1, <1>2, <1>3, <1>4, <1>5, <1>6, <1>7, <1>8, <1>9, <1>10, <1>11,
     <1>12, <1>13, <1>14, <1>15, <1>16, <1>17, <1>18, <1>19, <1>20, <1>21
     DEF Next, Works, Fails

LEMMA StepJob == Types /\ JobInv /\ [Next]_vars => JobInv'
<1> SUFFICES ASSUME Types, JobInv, [Next]_vars PROVE JobInv'
  OBVIOUS
<1> USE DEF Types, JobInv
<1>1. ASSUME NEW q \in Procs, AllocTest(q)
     PROVE  JobInv'
  BY <1>1 DEF AllocTest, chip, call
<1>2. ASSUME NEW q \in Procs, AllocTake(q)
     PROVE  JobInv'
  BY <1>2 DEF AllocTake, chip
<1>3. ASSUME NEW q \in Procs, Dealloc(q)
     PROVE  JobInv'
  BY <1>3 DEF Dealloc, chip, call
<1>4. ASSUME NEW q \in Procs, NEW o \in Ops, Call(q, o)
     PROVE  JobInv'
  BY <1>4 DEF Call, First, chip
<1>5. ASSUME NEW q \in Procs, InitStatus(q)
     PROVE  JobInv'
  BY <1>5 DEF InitStatus, Ends, Goes, chip, call
<1>6. ASSUME NEW q \in Procs, Poll(q)
     PROVE  JobInv'
  BY <1>6 DEF Poll, Goes, AfterPoll, SaysBusy, chip, call
<1>7. ASSUME NEW q \in Procs, Wait(q)
     PROVE  JobInv'
  BY <1>7 DEF Wait, Ends, SaysBusy, chip
<1>8. ASSUME NEW q \in Procs, Enable(q)
     PROVE  JobInv'
  BY <1>8 DEF Enable, Ends, Goes, call
<1>9. ASSUME NEW q \in Procs, Disable(q)
     PROVE  JobInv'
  BY <1>9 DEF Disable, Ends
<1>10. ASSUME NEW q \in Procs, Command(q)
     PROVE  JobInv'
  BY <1>10 DEF Command, Goes, chip, call
<1>11. ASSUME NEW q \in Procs, Erase(q)
     PROVE  JobInv'
  BY <1>11 DEF Erase, Goes, Starts, Ignores, Accepts, call
<1>12. ASSUME NEW q \in Procs, WriteData(q)
     PROVE  JobInv'
  BY <1>12 DEF WriteData, Goes, Starts, Ignores, Accepts, call
<1>13. ASSUME NEW q \in Procs, WriteStatus(q)
     PROVE  JobInv'
  BY <1>13 DEF WriteStatus, Ends, Ignores, Accepts
<1>14. ASSUME NEW q \in Procs, ReadData(q)
     PROVE  JobInv'
  BY <1>14 DEF ReadData, Ends, chip
<1>15. ASSUME NEW q \in Procs, Return(q)
     PROVE  JobInv'
  BY <1>15 DEF Return, chip
<1>16. ASSUME NEW q \in Procs, PollFails(q)
     PROVE  JobInv'
  BY <1>16 DEF PollFails, AfterPoll, chip
<1>17. ASSUME NEW q \in Procs, WaitFails(q)
     PROVE  JobInv'
  BY <1>17 DEF WaitFails, Ends, chip
<1>18. ASSUME NEW q \in Procs, TransferFails(q)
     PROVE  JobInv'
  BY <1>18 DEF TransferFails, Ends, chip
<1>19. ASSUME NEW q \in Procs, DataFails(q)
     PROVE  JobInv'
  BY <1>19 DEF DataFails, Starts, Ignores
<1>20. CASE ChipDone
  BY <1>20 DEF ChipDone, call
<1>21. CASE UNCHANGED vars
  BY <1>21 DEF vars, chip, call
<1> QED
  BY <1>1, <1>2, <1>3, <1>4, <1>5, <1>6, <1>7, <1>8, <1>9, <1>10, <1>11,
     <1>12, <1>13, <1>14, <1>15, <1>16, <1>17, <1>18, <1>19, <1>20, <1>21
     DEF Next, Works, Fails

LEMMA StepChip == Types /\ OwnerInv /\ FlowInv /\ ChipInv /\ [Next]_vars => ChipInv'
<1> SUFFICES ASSUME Types, OwnerInv, FlowInv, ChipInv, [Next]_vars PROVE ChipInv'
  OBVIOUS
<1> USE DEF Types, OwnerInv, FlowInv, ChipInv, InCall, Kind, Modifies
<1>1. ASSUME NEW q \in Procs, AllocTest(q)
     PROVE  ChipInv'
  BY <1>1 DEF AllocTest, chip, call
<1>2. ASSUME NEW q \in Procs, AllocTake(q)
     PROVE  ChipInv'
  BY <1>2 DEF AllocTake, chip
<1>3. ASSUME NEW q \in Procs, Dealloc(q)
     PROVE  ChipInv'
  BY <1>3 DEF Dealloc, chip, call
<1>4. ASSUME NEW q \in Procs, NEW o \in Ops, Call(q, o)
     PROVE  ChipInv'
  BY <1>4, OpFields DEF Call, First, chip
<1>5. ASSUME NEW q \in Procs, InitStatus(q)
     PROVE  ChipInv'
  BY <1>5 DEF InitStatus, Ends, Goes, chip, call
<1>6. ASSUME NEW q \in Procs, Poll(q)
     PROVE  ChipInv'
  BY <1>6 DEF Poll, Goes, AfterPoll, SaysBusy, chip, call
<1>7. ASSUME NEW q \in Procs, Wait(q)
     PROVE  ChipInv'
  BY <1>7 DEF Wait, Ends, SaysBusy, chip
<1>8. ASSUME NEW q \in Procs, Enable(q)
     PROVE  ChipInv'
  BY <1>8 DEF Enable, Ends, Goes, call
<1>9. ASSUME NEW q \in Procs, Disable(q)
     PROVE  ChipInv'
  BY <1>9 DEF Disable, Ends
<1>10. ASSUME NEW q \in Procs, Command(q)
     PROVE  ChipInv'
  BY <1>10 DEF Command, Goes, chip, call
<1>11. ASSUME NEW q \in Procs, Erase(q)
     PROVE  ChipInv'
  BY <1>11 DEF Erase, Goes, Starts, Ignores, Accepts, call
<1>12. ASSUME NEW q \in Procs, WriteData(q)
     PROVE  ChipInv'
  BY <1>12 DEF WriteData, Goes, Starts, Ignores, Accepts, call
<1>13. ASSUME NEW q \in Procs, WriteStatus(q)
     PROVE  ChipInv'
  BY <1>13 DEF WriteStatus, Ends, Ignores, Accepts
<1>14. ASSUME NEW q \in Procs, ReadData(q)
     PROVE  ChipInv'
  BY <1>14 DEF ReadData, Ends, chip
<1>15. ASSUME NEW q \in Procs, Return(q)
     PROVE  ChipInv'
  BY <1>15 DEF Return, chip
<1>16. ASSUME NEW q \in Procs, PollFails(q)
     PROVE  ChipInv'
  BY <1>16 DEF PollFails, AfterPoll, chip
<1>17. ASSUME NEW q \in Procs, WaitFails(q)
     PROVE  ChipInv'
  BY <1>17 DEF WaitFails, Ends, chip
<1>18. ASSUME NEW q \in Procs, TransferFails(q)
     PROVE  ChipInv'
  BY <1>18 DEF TransferFails, Ends, chip
<1>19. ASSUME NEW q \in Procs, DataFails(q)
     PROVE  ChipInv'
  BY <1>19 DEF DataFails, Ends, Starts, Ignores, Accepts
<1>20. CASE ChipDone
  BY <1>20 DEF ChipDone, call
<1>21. CASE UNCHANGED vars
  BY <1>21 DEF vars, chip, call
<1> QED
  BY <1>1, <1>2, <1>3, <1>4, <1>5, <1>6, <1>7, <1>8, <1>9, <1>10, <1>11,
     <1>12, <1>13, <1>14, <1>15, <1>16, <1>17, <1>18, <1>19, <1>20, <1>21
     DEF Next, Works, Fails

(* The calls without an effect do nothing.                                 *)
LEMMA DoesNothing ==
  ASSUME NEW o, NEW c, o.kind \in {"init", "enable", "disable", "read"}
  PROVE  Does(o, c, c)
  BY DEF Does

LEMMA StepWant == Types /\ OwnerInv /\ FlowInv /\ JobInv /\ ChipInv /\ WantInv /\ [Next]_vars => WantInv'
<1> SUFFICES ASSUME Types, OwnerInv, FlowInv, JobInv, ChipInv, WantInv, [Next]_vars PROVE WantInv'
  OBVIOUS
<1> USE DoesNothing DEF Types, OwnerInv, FlowInv, JobInv, ChipInv, WantInv, InCall, Kind, Modifies
<1>1. ASSUME NEW q \in Procs, AllocTest(q)
     PROVE  WantInv'
  BY <1>1 DEF AllocTest, chip, call
<1>2. ASSUME NEW q \in Procs, AllocTake(q)
     PROVE  WantInv'
  BY <1>2 DEF AllocTake, chip
<1>3. ASSUME NEW q \in Procs, Dealloc(q)
     PROVE  WantInv'
  BY <1>3 DEF Dealloc, chip, call
<1>4. ASSUME NEW q \in Procs, NEW o \in Ops, Call(q, o)
     PROVE  WantInv'
  BY <1>4, OpFields DEF Call, First, chip
<1>5. ASSUME NEW q \in Procs, InitStatus(q)
     PROVE  WantInv'
  BY <1>5 DEF InitStatus, Ends, Goes, chip, call
<1>6. ASSUME NEW q \in Procs, Poll(q)
     PROVE  WantInv'
  BY <1>6 DEF Poll, Goes, AfterPoll, SaysBusy, chip, call
<1>7. ASSUME NEW q \in Procs, Wait(q)
     PROVE  WantInv'
  BY <1>7 DEF Wait, Ends, SaysBusy, chip
<1>8. ASSUME NEW q \in Procs, Enable(q)
     PROVE  WantInv'
  BY <1>8 DEF Enable, Ends, Goes, call
<1>9. ASSUME NEW q \in Procs, Disable(q)
     PROVE  WantInv'
  BY <1>9 DEF Disable, Ends
<1>10. ASSUME NEW q \in Procs, Command(q)
     PROVE  WantInv'
  BY <1>10 DEF Command, Goes, chip, call
<1>11. ASSUME NEW q \in Procs, Erase(q)
     PROVE  WantInv'
  <2>1. /\ pc' = [pc EXCEPT ![q] = "wait"] /\ UNCHANGED <<op, ret, before, blind, early, raced>>
        /\ Kind(q) \in Modifies \ {"init"}
    BY <1>11 DEF Erase, Goes, call
  <2>2. ASSUME ~raced, q \notin blind
       PROVE  Does(op[q], before[q], job'.cells)
    <3>1. Accepts
      BY <1>11, <2>1, <2>2 DEF Erase, Accepts
    <3>2. job' = [job EXCEPT !.cells = Effect(op[q], cells)]
      BY <1>11, <3>1 DEF Erase, Starts
    <3>3. before[q] = cells
      BY <1>11, <2>2, <3>1 DEF Erase, WriteData, Accepts
    <3>4. op[q] \in Ops
      BY <2>1 DEF NoOp
    <3>5. Does(op[q], cells, Effect(op[q], cells))
      BY <3>4, EffectDoes
    <3> QED
      BY <3>2, <3>3, <3>5
  <2>3. \A p \in Procs : ~raced /\ InCall(p) => p = q
    BY <1>11 DEF Erase, WriteData
  <2> QED
    BY <2>1, <2>2, <2>3
<1>12. ASSUME NEW q \in Procs, WriteData(q)
     PROVE  WantInv'
  <2>1. /\ pc' = [pc EXCEPT ![q] = "wait"] /\ UNCHANGED <<op, ret, before, blind, early, raced>>
        /\ Kind(q) \in Modifies \ {"init"}
    BY <1>12 DEF WriteData, Goes, call
  <2>2. ASSUME ~raced, q \notin blind
       PROVE  Does(op[q], before[q], job'.cells)
    <3>1. Accepts /\ qe
      BY <1>12, <2>1, <2>2 DEF WriteData, Accepts
    <3>2. job' = [job EXCEPT !.cells = Effect(op[q], cells)]
      BY <1>12, <3>1 DEF WriteData, Starts
    <3>3. before[q] = cells
      BY <1>12, <2>2, <3>1 DEF Erase, WriteData, Accepts
    <3>4. op[q] \in Ops
      BY <2>1 DEF NoOp
    <3>5. Does(op[q], cells, Effect(op[q], cells))
      BY <3>4, EffectDoes
    <3> QED
      BY <3>2, <3>3, <3>5
  <2>3. \A p \in Procs : ~raced /\ InCall(p) => p = q
    BY <1>12 DEF Erase, WriteData
  <2> QED
    BY <2>1, <2>2, <2>3
<1>13. ASSUME NEW q \in Procs, WriteStatus(q)
     PROVE  WantInv'
  BY <1>13 DEF WriteStatus, Ends, Ignores, Accepts
<1>14. ASSUME NEW q \in Procs, ReadData(q)
     PROVE  WantInv'
  BY <1>14 DEF ReadData, Ends, chip
<1>15. ASSUME NEW q \in Procs, Return(q)
     PROVE  WantInv'
  BY <1>15 DEF Return, chip
<1>16. ASSUME NEW q \in Procs, PollFails(q)
     PROVE  WantInv'
  BY <1>16 DEF PollFails, AfterPoll, chip
<1>17. ASSUME NEW q \in Procs, WaitFails(q)
     PROVE  WantInv'
  BY <1>17 DEF WaitFails, Ends, chip
<1>18. ASSUME NEW q \in Procs, TransferFails(q)
     PROVE  WantInv'
  BY <1>18 DEF TransferFails, Ends, chip
<1>19. ASSUME NEW q \in Procs, DataFails(q)
     PROVE  WantInv'
  BY <1>19 DEF DataFails, Ends, Starts, Ignores, Accepts
<1>20. CASE ChipDone
  BY <1>20 DEF ChipDone, call
<1>21. CASE UNCHANGED vars
  BY <1>21 DEF vars, chip, call
<1> QED
  BY <1>1, <1>2, <1>3, <1>4, <1>5, <1>6, <1>7, <1>8, <1>9, <1>10, <1>11,
     <1>12, <1>13, <1>14, <1>15, <1>16, <1>17, <1>18, <1>19, <1>20, <1>21
     DEF Next, Works, Fails

(* The invariant with the types is inductive.                              *)
LEMMA StepAll == TypeOK /\ CallInv /\ [Next]_vars => (TypeOK /\ CallInv)'
<1>1. TypeOK /\ CallInv /\ [Next]_vars => (Types /\ Checked /\ CallInv)'
  BY TypeParts, StepTypes, StepChecked, StepOwner, StepFlow, StepJob, StepChip, StepWant
     DEF CallInv
<1>2. (Types /\ Checked)' => TypeOK'
  BY DEF TypeOK, Types, Checked
<1> QED
  BY <1>1, <1>2

(* Every variable keeps its type, and no call programs more than a page or *)
(* erases outside the chip: w25q_ProgramRaw and w25q_EraseBlock.           *)
THEOREM TypeCorrect == Spec => []TypeOK
  BY InitAll, StepAll, PTL DEF Spec

(* After W25Q_OK of a call that nobody overlapped and that saw the status  *)
(* of the chip before its command, the chip does what the call is for, and *)
(* has done it if the call saw the status after the command as well.       *)
THEOREM OkIsDone == Spec => []OkMeansDone
<1>1. TypeOK /\ CallInv => OkMeansDone
  BY DEF CallInv, JobInv, WantInv, Kind, Modifies, OkMeansDone
<1> QED
  BY <1>1, InitAll, StepAll, PTL DEF Spec
=============================================================================
