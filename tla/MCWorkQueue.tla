---------------------------- MODULE MCWorkQueue ----------------------------
(* Three workers on a ring of two slots: it fills up and wraps around, and *)
(* there are more tasks than workers and more workers than tasks.          *)
EXTENDS WorkQueue
=============================================================================
