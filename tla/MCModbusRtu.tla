---------------------------- MODULE MCModbusRtu ----------------------------
(* Instances of ModbusRtu for TLC: two bits in a byte, four coils, three   *)
(* bytes of registers.  Two processes set the two inputs of one byte.  An  *)
(* answer with three registers is longer than the packet and reaches that  *)
(* byte.                                                                   *)
EXTENDS ModbusRtu

MCInputs == [p \in Apps |-> {<<0, p>>}]
MCRegs == {<<0, {1}>>}
MCCrcs == {<<{0}, {0}>>}

MCRequests ==
  [fc : {"readCoils"}, start : {0}, num : {3, 5}]
  \union [fc : {"readInputs"}, start : {0, 1}, num : {0, 3}]
  \union [fc : {"readRegs"}, start : {0}, num : {0, 3}]
  \union [fc : {"readIRegs"}, start : {1}, num : {1, 2}]
  \union [fc : {"writeCoil"}, start : {9}, data : {<< {0, 1} >>}]
  \union [fc : {"writeReg"}, start : {3, 4}, data : {<< {}, {1} >>}]
  \union [fc : {"writeRegs"}, start : {0}, data : {<< {} >>}]
  \union [fc : {"writeRegs"}, start : {2}, data : {<< {}, {1} >>}]
  \union [fc : {"writeCoils"}, start : {0}, num : {1, 2}, data : {<< {0}, {} >>}]
  \union [fc : {"report", "other"}]
=============================================================================
