------------------------------ MODULE MCKernel ------------------------------
EXTENDS Kernel

\* One task that may hang, one like it, and monitor, which sleeps longest: less
\* than the counter of ticks takes to wrap around.
MCAppTasks == <<"net", "data", "monitor">>
MCDelay == [t \in {"net", "data", "monitor"} |->
  CASE t = "net" -> 1 [] t = "data" -> 2 [] OTHER -> 3]
=============================================================================
