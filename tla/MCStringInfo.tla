----------------------------- MODULE MCStringInfo -----------------------------
(* A buffer of 3 growing towards a limit of 37, which no doubling of 3     *)
(* hits, with every request from -1 to just past the limit.                *)
EXTENDS StringInfo

SmallRequests == -1..38
===============================================================================
