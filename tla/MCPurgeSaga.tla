---------------------------- MODULE MCPurgeSaga ----------------------------
(* PurgeSaga on small sets.                                                *)
EXTENDS PurgeSaga, TLC

CONSTANTS m1, m2, e1, e2, k1, none, c1, c2

TwoMemories == {m1, m2}
OneContent == {k1}
OneCaller == {c1}
TwoCallers == {c1, c2}
OneOperator == {c2}
NoOperator == {}

TwoPieces == {e1, e2}

\* m1 rests on both pieces, m2 on one of them.
SharedCites == m1 :> {e1, e2} @@ m2 :> {e2}

\* Both pieces have the same blob, or one of them is text.
SameBlob == e1 :> k1 @@ e2 :> k1
OneBlob == e1 :> none @@ e2 :> k1

NoFailure == {}
LateFailure == {4}
=============================================================================
