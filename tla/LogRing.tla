------------------------------ MODULE LogRing ------------------------------
(***************************************************************************)
(* What the two rings of kernel/dtvlogd.c have in common (DlogBuf, and the *)
(* emergency log in RAM): C ints as indices, which only grow and wrap (the *)
(* kernel is built with -fno-strict-overflow), here from Half - 1 to       *)
(* -Half, and an array of BufLen characters that they are reduced to.      *)
(***************************************************************************)
EXTENDS Integers, Sequences

CONSTANTS Chars,
          BufLen,  \* dlog_buf_len or dram_buf_len, a power of 2
          Half     \* 2^31, scaled down: a multiple of BufLen

ASSUME LogRingAssumption ==
  /\ BufLen \in Nat /\ Half \in Nat
  /\ BufLen > 1 /\ Half > BufLen /\ Half % BufLen = 0

Ints == -Half .. Half - 1
Int32(i) == ((i + Half) % (2 * Half)) - Half   \* an int that wraps

(* The last BufLen characters of s, which has at most BufLen + 1. *)
Last(s) == IF Len(s) > BufLen THEN Tail(s) ELSE s

=============================================================================
