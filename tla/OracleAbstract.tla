--------------------------- MODULE OracleAbstract ---------------------------
(***************************************************************************)
(* What the preimage oracle promises a reader of content-addressed data.   *)
(* For every preimage p and part offset o there is one reply: a read       *)
(* fails until the part is made available, and from then on it returns     *)
(* Content(p, o), the part the preimage determines.  A part is made        *)
(* available only at an offset inside the stream (o <= StreamEnd(p)).      *)
(* Nothing else ever changes a reply: no load of other data, and no second *)
(* load of the same preimage.                                              *)
(***************************************************************************)
EXTENDS Naturals

CONSTANTS
    Preimages,      \* the preimages data can be asked for
    Offsets,        \* the part offsets
    StreamEnd(_),   \* the last offset a part of p may start at
    Content(_,_)    \* the reply that a read of part o of p must return

\* The reply of a read whose part is not available (it reverts).
Unavailable == [ok |-> FALSE]

VARIABLE replies

AbsInit == replies = [p \in Preimages |-> [o \in Offsets |-> Unavailable]]

\* Part o of p becomes available with the content p determines.
MakeAvailable(p, o) ==
    /\ o <= StreamEnd(p)
    /\ replies' = [replies EXCEPT ![p][o] = Content(p, o)]

AbsNext == \E p \in Preimages, o \in Offsets : MakeAvailable(p, o)

AbsOracleSpec == AbsInit /\ [][AbsNext]_replies
=============================================================================
