--------------------------- MODULE MC_NvdClient ---------------------------
(* Instances of NvdClient for TLC. *)
EXTENDS NvdClient

CONSTANTS c1, c2, c3, c4

(* A mirror that ignores the request: an empty, a one-row and an oversized *)
(* page, with a total that promises nothing, too little, or no end.        *)
MCOddReplies ==
    [page : {<<>>, <<c1>>, <<c2, c2, c1>>}, total : {-1, 1, 99}]
====
