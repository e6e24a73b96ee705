------------------------------ MODULE MCKernel ------------------------------
(***************************************************************************)
(* Kernel for TLC: a pool for a few process images and framebuffers, and   *)
(* the system calls that each question needs.                              *)
(***************************************************************************)
EXTENDS Kernel

(* Two images, one of which can be had as three framebuffers instead: the  *)
(* third finds the page table full.                                        *)
OneImage == IMAGE_SIZE
TwoImages == 2 * IMAGE_SIZE + CHUNK_SIZE
ThreeImages == 3 * IMAGE_SIZE

(* What r0 may hold: an invalid call number, EXIT and the calls at hand.   *)
ExitOnly == {-1, EXIT}
YieldExit == {-1, EXIT, YIELD}
AllCalls == {-1, EXIT, READ, YIELD, DISPLAY_OPEN, DISPLAY_FLIP, DISPLAY_CLOSE}
=============================================================================
