--------------------------- MODULE MCReviewTools ----------------------------
(***************************************************************************)
(* ReviewTools for TLC, with the loops of the code that it describes by    *)
(* their results: every file and every listing of the instance is walked   *)
(* both ways.                                                              *)
(***************************************************************************)
EXTENDS ReviewTools

\* read, up to startLine.
RECURSIVE SkipLoop(_, _, _)
SkipLoop(data, pos, lines) ==
    IF lines = 0 \/ pos > Len(data) THEN pos
    ELSE SkipLoop(data, NextLine(data, pos).next, lines - 1)

\* read, from startLine on.
RECURSIVE CollectLoop(_, _, _, _, _)
CollectLoop(data, pos, text, collected, count) ==
    LET l    == NextLine(data, pos)
        more == collected < count /\ pos <= Len(data)
        fits == Len(text) + Len(l.line) + 1 <= MaxOutput
    IN IF more /\ fits
       THEN CollectLoop(data, l.next, text \o l.line \o <<"n">>, collected + 1, count)
       ELSE [text |-> IF more /\ collected = 0 THEN SubSeq(l.line, 1, MaxOutput) ELSE text,
             collected |-> collected, hit |-> more, left |-> pos <= Len(data)]

\* list and reviewDiff.
RECURSIVE EntryLoop(_, _, _, _, _)
EntryLoop(ends, offset, shown, most, room) ==
    IF \/ offset + shown >= Len(ends) \/ shown >= most
       \/ ends[offset + shown + 1] - End(ends, offset) > room
    THEN shown ELSE EntryLoop(ends, offset, shown + 1, most, room)

ASSUME LoopsAgree ==
    /\ \A data \in Files, line \in 1 .. MaxFile + 2 :
          /\ Skip(data, line - 1) = SkipLoop(data, 0, line - 1)
          /\ \A count \in 1 .. 3 :
                LET pos  == SkipLoop(data, 0, line - 1)
                    loop == CollectLoop(data, pos, <<>>, 0, count)
                    a    == Read(data, line, count)
                IN /\ a.ok <=> pos <= Len(data)
                   /\ a.ok => /\ Collected(data, line, count) = loop.collected
                              /\ a.text = Trimmed(loop.text)
                              /\ a.truncated = loop.hit
                              /\ a.hint # "none" <=> loop.hit \/ loop.left
    /\ \A ends \in Names : \A offset \in 0 .. Len(ends), most \in 0 .. MaxEntries :
          Fitting(ends, offset, most, MaxOutput) = EntryLoop(ends, offset, 0, most, MaxOutput)
=============================================================================
