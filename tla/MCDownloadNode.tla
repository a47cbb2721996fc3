--------------------------- MODULE MCDownloadNode ---------------------------
(* DownloadNode on small instances.  One unit is 64 KiB, less the headers:  *)
(* frames of up to two units, windows of three and one, and a buffer with   *)
(* room for one data frame and an answer.                                   *)
EXTENDS DownloadNode, TLC

CONSTANTS a, b, c

(* Two photos of the data class and a file of the lock namespace. *)
FlowSize == (a :> 2) @@ (b :> 2) @@ (c :> 1)
FlowRequests == {"begin", "start"} \X {a, b, c} \cup {<<"abort", a>>}

(* Two photos that follow one another through the only slot. *)
TurnSize == (a :> 4) @@ (b :> 1)
TurnRequests == {"begin", "start"} \X {a, b} \cup {<<"finish", a>>}
=============================================================================
