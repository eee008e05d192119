--------------------------- MODULE MCRedisBackend ---------------------------
(***************************************************************************)
(* TLC instance of RedisBackend: two calls at a time on one key.           *)
(***************************************************************************)
EXTENDS RedisBackend, TLC

Call(op) == [op |-> op, d |-> 0]

Block(d) == [op |-> "Block", d |-> d]

\* The window and the block are stored apart, and explored apart.  Blocks
\* last half a second, a second and, longer than the default window, one and a
\* half and two.
MCWorkloads ==
  {{Call("Allow"), Call("Count")},
   {Call("Allow"), Block(-1)},
   {Call("IsBlocked"), Block(-1), Block(4)},
   {Call("IsBlocked"), Block(2), Block(4)},
   {Call("IsBlocked"), Block(1), Block(3), Block(4)}}

\* What is left of a call that is over matters to nothing.
View ==
  <<workload, time, server, admitted, roomAt, acked, pc, flight,
    [c \in Calls |-> IF InUse(c) THEN <<args[c], try[c], field[c], due[c]>>
                     ELSE <<>>]>>

Symmetry == Permutations(Calls)
=============================================================================
