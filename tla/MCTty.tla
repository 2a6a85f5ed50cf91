------------------------------- MODULE MCTty -------------------------------
(***************************************************************************)
(* A small instance of Tty.tla: a queue of four places and buffers that    *)
(* leave it empty, fill it and do not fit, and put a line feed on its last *)
(* place with and without a character behind it.  They move head and tail  *)
(* by three and by five, so each position of the ring is reached.          *)
(***************************************************************************)
EXTENDS Tty

MCBios     == [a \in Addr |-> Junk]
MCBuffers  == {<<>>, <<"a", "a", "LF">>, <<"LF", "LF", "a">>, <<"a", "a", "a", "a">>}
MCMessages == {<<"a", "LF">>}
=============================================================================
