---------------------------- MODULE MCBreakpoints ----------------------------
(* Small instances of Breakpoints: two comparators in each unit, three code
   addresses, two of them in one word, and two addresses in RAM.            *)
EXTENDS Breakpoints

FiveAddrs  == {2, 3, 4, 8, 9}
RamStart   == 8
=============================================================================
