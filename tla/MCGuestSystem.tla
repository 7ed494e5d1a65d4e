--------------------------- MODULE MCGuestSystem ---------------------------
(* The shipped guest, a ring of two scancodes and at most three keys, which   *)
(* may be typed before, while and after the guest programs its PIC.           *)
EXTENDS GuestSystem
=============================================================================
