---------------------------- MODULE MCProjection ----------------------------
\* Two tools, one content index of either kind, ASCII and two-byte characters.
EXTENDS Projection, TLC

CONSTANTS t1, t2, e1, d1
MCToolId == {t1, t2}
MCFailure == {e1}
MCDialogId == {d1}
MCChunk == {[len |-> 1, cuts |-> {0, 1}], [len |-> 2, cuts |-> {0, 2}],
            [len |-> 3, cuts |-> {0, 1, 3}]}
MCResult == [tool : MCToolId, text : {[len |-> 1, cuts |-> {0, 1}]}, status : {"ok", "err"}]
MCContentIndex == {0}
MCSymmetry == Permutations(MCToolId)
=============================================================================
