---------------------------- MODULE MCHttpTransfer ----------------------------
(* Instances of HttpTransfer for TLC. *)
EXTENDS HttpTransfer

\* Two versions of one size that can be resumed, one that has no entity tag, and
\* one of unknown size.
MCVersions == {"tagged", "changed", "sized", "plain"}
MCSize == [tagged |-> 2, changed |-> 2, sized |-> 2, plain |-> 1]
MCSized == {"tagged", "changed", "sized"}
MCTagged == {"tagged", "changed"}
=============================================================================
