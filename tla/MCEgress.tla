------------------------------ MODULE MCEgress ------------------------------
(* Egress on the instances of MCPolicy: one entry names a single site, the *)
(* other, with commas in it, the same site in another spelling, a second   *)
(* one and one that is always denied.  A target may be spelled in two      *)
(* ways, or lack its port.                                                 *)
EXTENDS MCPolicy, Egress, TLC

CONSTANTS one, two, metadata, lower, upper, other, meta, portless

MCSiteOf == lower :> one @@ upper :> one @@ other :> two @@ meta :> metadata @@ portless :> Nil
MCReads  == h1 :> {one} @@ h2 :> {one, two, metadata}
=============================================================================
