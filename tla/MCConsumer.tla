----------------------------- MODULE MCConsumer -----------------------------
(* An instance of Consumer for TLC: a first message, a message whose index  *)
(* takes two bytes and whose payload begins with a zero, and a record that  *)
(* ends in the middle of its index.                                         *)
EXTENDS Consumer

MCMessages == {[id |-> 7, idx |-> 0, payload |-> <<5>>],
               [id |-> 300, idx |-> 64, payload |-> <<0, 2>>]}
MCGarbage == {<<0, 0, 0, 0, 7, 2>>}

=============================================================================
