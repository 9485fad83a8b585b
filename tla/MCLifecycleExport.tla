------------------------- MODULE MCLifecycleExport --------------------------
(* Instances of LifecycleExport for TLC: three funds; A disappears.  The      *)
(* assertions are those that LifecycleLedgers reads in one act of a bulletin  *)
(* and four pages of relevant information.                                   *)
EXTENDS LifecycleExport

CONSTANTS A, B, C

Read == INSTANCE LifecycleLedgers

Line(is, act, regs, por) ==
    [is |-> is, fi |-> TRUE, act |-> act, number |-> None, regs |-> regs, por |-> por]
Said(words, regs, succ) ==
    [day |-> 1, words |-> words, regs |-> regs, succ |-> succ, por |-> succ # <<>>, names |-> None]
PageOf(notices) == [empty |-> FALSE, nifs |-> 1, links |-> 0, notices |-> notices]

RecordedIntoB ==
    Read!BulletinRows(<<Line("verb", "FUSION", <<A>>, FALSE), Line("text", None, <<B>>, TRUE)>>)[1]
RequestedIntoC ==
    Read!PageRows(A, PageOf(<<Said({"fusi", "proyecto"}, <<A, C>>, <<C>>)>>))[1]
\* a terse notice that names no fund: the page is known by another notice
LiquidationOnPageOfA ==
    Read!PageRows(A, PageOf(<<Said({"sustituci", "gestor"}, <<A>>, <<>>),
                              Said({"liquidaci"}, <<>>, <<>>)>>))[2]
\* the same with a name after "por": the notice is about no fund of the registry
DissolutionByName ==
    Read!PageRows(A, PageOf(<<Said({"sustituci", "gestor"}, <<A>>, <<>>),
                              [Said({"disoluci"}, <<>>, <<>>) EXCEPT !.por = TRUE]>>))[2]
\* the fund that disappears is the absorbing one here
ExecutedIntoA ==
    Read!PageRows(C, PageOf(<<Said({"fusi", "ejecutad"}, <<C, A>>, <<A>>)>>))[1]

Disputed == {RecordedIntoB, RequestedIntoC, LiquidationOnPageOfA, DissolutionByName, ExecutedIntoA}
Proposal == {RequestedIntoC, LiquidationOnPageOfA}

Listed == [f \in Funds |-> "listed"]
Liquidating == [Listed EXCEPT ![A] = "in liquidation"]
Gone == [Listed EXCEPT ![A] = "absent"]
AllMonths == {Listed, Liquidating, Gone}
=============================================================================
