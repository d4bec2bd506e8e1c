------------------------------ MODULE MCFlash ------------------------------
(* Instances of Flash for TLC: one bit per cell, 4 cells in pages of 2.  The *)
(* data are none, a page, one too many, and a size that the conversion turns *)
(* into 1; at address 2 a page fits, and at address 5, past the end of the   *)
(* chip, it wraps around in the first page.                                  *)
EXTENDS Flash

MCAddrs == {2, 5}
MCDatas == {<< >>, << {1}, {} >>, << {}, {}, {} >>, << {1}, {}, {}, {}, {} >>}
=============================================================================
