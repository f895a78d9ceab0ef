--------------------------- MODULE MCAccountService ---------------------------
(***************************************************************************)
(* AccountService for the model checker, with two users.  One waits until  *)
(* nothing is pending before a call, and has two accounts to change        *)
(* between; one hurries: configures, disconnects and wakes the computer at *)
(* any time, also with two connectStream calls in flight.  Two sockets are *)
(* an old and a new one.                                                   *)
(***************************************************************************)
EXTENDS AccountService

CONSTANTS a, b

WaitsOrHurries ==
  {[waits |-> TRUE, accounts |-> {a, b}, opening |-> 1],
   [waits |-> FALSE, accounts |-> {a}, opening |-> 2]}
=============================================================================
