------------------------------ MODULE MCLogBuf ------------------------------
(* Small instances of LogBuf.                                              *)
EXTENDS LogBuf

(* Unset, negative, zero and a cap of its own.                             *)
MCSettings == {NoNumber, -1, 0, 3}
=============================================================================
