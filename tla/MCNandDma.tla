----------------------------- MODULE MCNandDma -----------------------------
(* NandDma for TLC: each page in every division into segments. *)
EXTENDS NandDma

PageSegments == {<<3>>, <<1, 2>>, <<2, 1>>, <<1, 1, 1>>}
MCData ==
    PageSegments \cup {a \o b \o c : a \in PageSegments, b \in PageSegments, c \in PageSegments}
MCMeta == {<<1>>, <<1, 1, 1>>}
=============================================================================
