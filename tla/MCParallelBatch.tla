--------------------------- MODULE MCParallelBatch ---------------------------
(* Batches for TLC: a shell command (unknown), an isolated subagent, reads and *)
(* writes of the paths a and b.                                                *)
EXTENDS ParallelBatch

Call(k, ps) == [kind |-> k, paths |-> ps]

(* Three calls of which at least one is of each pair of kinds that matters.    *)
MCBatches ==
  {<<Call("write", {"a"}), Call("read", {"b"}), Call("write", {"a"})>>,
   <<Call("read", {"a"}), Call("read", {"b"}), Call("unknown", {})>>,
   <<Call("isolated", {}), Call("isolated", {}), Call("read", {"a"})>>,
   <<Call("unknown", {}), Call("write", {"a"}), Call("write", {"b"})>>}

(* A shell command, then two writes: the command may re-point what they name.  *)
MCRelinkBatches == {<<Call("unknown", {}), Call("write", {"a"}), Call("write", {"b"})>>}
=============================================================================
