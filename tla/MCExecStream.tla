---------------------------- MODULE MCExecStream ----------------------------
(* Small instances of ExecStream: every chunk of one or two characters of  *)
(* an alphabet, and one that tells reordered output apart.                 *)
EXTENDS ExecStream

CONSTANTS
    x, y,
    Alphabet  \* characters the command writes

MCChunks == {<<y>>} \cup UNION {[1..n -> Alphabet] : n \in 1..2}
=============================================================================
