---------------------------- MODULE ReviewTools -----------------------------
(***************************************************************************)
(* The read-only tools of a review: ReviewMediator answers list, search,   *)
(* read and diff requests within an output budget, encodes each answer     *)
(* into a frame of its own size, and tells the reviewer how to go on; the  *)
(* transport encodes the frame once more for the bridge.                   *)
(*                                                                         *)
(* The reviewer follows what the answers say: next page, next line.  A     *)
(* file is a sequence of characters, one byte each: "x", "q" (a quote: two *)
(* bytes in JSON), "n" (a line feed: two) and "h" ("<", ">" or "&": one,   *)
(* or as many as its HTML escape has).  A directory and a change list are  *)
(* the offsets at which their entries end in the output; a tree is what    *)
(* its files cost and how often they match.  Frames are counted for reads. *)
(*                                                                         *)
(* Where the code walks over lines, the position it gets to is told by the *)
(* line feeds before it; MCReviewTools has the loops, to compare.          *)
(***************************************************************************)
EXTENDS Integers, Sequences, FiniteSetsExt, SequencesExt

CONSTANTS MaxOutput,   \* MaxReviewOutputBytes
          MaxResponse, \* MaxReviewResponseBytes, and the bridge's responseLimit
          Overhead,    \* reviewResponseOverhead
          Fields, WireFields, \* what the other fields take up, with the fence
                              \* (the mediator's frame) and without (the bridge's)
          Html,        \* the length of an HTML escape in JSON
          Marker,      \* the encoded length of a truncation marker
          MaxEntries,  \* MaxReviewListEntries
          MaxMatches,  \* MaxReviewSearchMatches
          MaxScan,     \* MaxReviewScanBytes
          MaxPreamble, \* maxReviewChangedFileListBytes
          Budget,      \* reviewRequestBudget
          MaxFile, MaxNames, MaxName, MaxHits \* bounds on the inputs

ASSUME ReviewAssumption ==
    /\ {MaxOutput, MaxResponse, Overhead, Fields, WireFields, Html, Marker, MaxEntries,
        MaxMatches, MaxScan, MaxPreamble, Budget, MaxFile, MaxNames, MaxName,
        MaxHits} \subseteq Nat \ {0}
    /\ MaxName <= MaxOutput /\ Marker + Overhead < MaxResponse
    /\ WireFields <= Fields /\ Fields <= Overhead

VARIABLES task,      \* what the reviewer is after, and its input
          next,      \* the line or the offset it asks for next
          answer,    \* the answer it has not taken up yet
          known,     \* what it has been shown: entries, or line -> characters
          cut,       \* the lines it was told it did not see whole
          remaining, \* Mediator.remaining
          state      \* "asking", "answered", "done", "exhausted", "failed"
vars == <<task, next, answer, known, cut, remaining, state>>

UpTo(S, n) == UNION {[1 .. k -> S] : k \in 0 .. n}
Files == UpTo({"x", "q", "n", "h"}, MaxFile)
End(ends, i) == IF i = 0 THEN 0 ELSE ends[i]
Names == {ends \in UpTo(1 .. MaxName * MaxNames, MaxNames) :
            \A i \in DOMAIN ends : ends[i] - End(ends, i - 1) \in 1 .. MaxName}
Trees == UpTo([size : 0 .. MaxScan + 1, hits : 0 .. MaxHits], 3)

\* The requests decodeReviewRequest lets through, as tasks.
Tasks == [op : {"read"}, of : Files, count : 1 .. 3]
         \cup [op : {"list", "diff"}, of : Names] \cup [op : {"search"}, of : Trees]

Nothing == [ok |-> FALSE, text |-> <<>>, hint |-> "none", at |-> 0, truncated |-> FALSE]

-----------------------------------------------------------------------------
(* nextLine, countLines, read; positions are offsets, from 0 *)

\* The line at pos and where the next one starts; past the end is Len + 1.
NextLine(data, pos) ==
    LET feeds == {i \in pos + 1 .. Len(data) : data[i] = "n"} IN
    IF feeds = {} THEN [line |-> SubSeq(data, pos + 1, Len(data)), next |-> Len(data) + 1]
                  ELSE [line |-> SubSeq(data, pos + 1, Min(feeds) - 1), next |-> Min(feeds)]

\* The lines evidence may cite.  The mutant forgets the one after the last feed.
CountFeeds(data) == Cardinality({i \in DOMAIN data : data[i] = "n"})
CountLines(data) == Cardinality({i \in DOMAIN data : data[i] = "n"}) + 1

\* Where the line after so many lines starts: behind that many feeds, or past
\* the end if there are fewer.
Feeds(data, pos) == Cardinality({i \in DOMAIN data : i <= pos /\ data[i] = "n"})
Skip(data, lines) ==
    Min({pos \in 0 .. Len(data) + 1 : pos > Len(data) \/ Feeds(data, pos) >= lines})

\* How many whole lines, each with its feed, fit into the output from line on.
Collected(data, line, count) ==
    Max({k \in 0 .. count :
           /\ Skip(data, line - 1 + k) - Skip(data, line - 1) <= MaxOutput
           /\ k > 0 => Skip(data, line + k - 2) <= Len(data)})

Trimmed(text) ==
    SubSeq(text, 1, Max({0} \cup {i \in DOMAIN text : text[i] # "n"}))

\* Where to go on after so many lines or entries.  The mutant skips one.
AfterNext(first, taken) == first + taken + 1
After(first, taken)     == first + taken

\* The window; at least the start of a first line that is too long for it.
Read(data, line, count) ==
    LET pos   == Skip(data, line - 1)
        taken == Collected(data, line, count)
        end   == Skip(data, line - 1 + taken)
        left  == end <= Len(data)
        hit   == left /\ taken < count
        last  == IF hit /\ taken = 0 THEN pos + MaxOutput ELSE Min({end, Len(data)})
    IN IF pos > Len(data) THEN Nothing
       ELSE [ok |-> TRUE, text |-> Trimmed(SubSeq(data, pos + 1, last)), truncated |-> hit,
             hint |-> IF hit /\ taken = 0 THEN "partial" ELSE IF left THEN "more" ELSE "none",
             at |-> IF left THEN After(line, taken) ELSE 0]

-----------------------------------------------------------------------------
(* list, search and reviewDiff *)

\* How many entries after the first offset ones fit into both bounds.
Fitting(ends, offset, most, room) ==
    Max({k \in 0 .. Len(ends) - offset :
           k <= most /\ End(ends, offset + k) - End(ends, offset) <= room})

\* A page of a listing.
Page(names, offset) ==
    LET shown == Fitting(names, offset, MaxEntries, MaxOutput)
        more  == offset + shown < Len(names)
    IN IF names = <<>> THEN [Nothing EXCEPT !.ok = TRUE]
       ELSE IF offset >= Len(names) THEN Nothing
       ELSE [ok |-> TRUE, text |-> SubSeq(names, offset + 1, offset + shown),
             truncated |-> more, hint |-> IF more THEN "more" ELSE "none",
             at |-> After(offset, shown)]

\* A file that is too large is skipped, with the flag; the mutant skips it
\* silently.
SkipsSilently(w) == w
Oversized(w)     == [w EXCEPT !.truncated = TRUE]

\* The walk over a tree: one file, one match or one byte too many ends it.
MostMatches == Min({MaxMatches, MaxOutput})
Visit(w, f) ==
    IF w.stop THEN w
    ELSE IF f.size > MaxScan THEN Oversized(w)
    ELSE IF w.scanned + f.size > MaxScan THEN [w EXCEPT !.truncated = TRUE, !.stop = TRUE]
    ELSE IF w.shown + f.hits > MostMatches
         THEN [w EXCEPT !.shown = MostMatches, !.truncated = TRUE, !.stop = TRUE]
         ELSE [w EXCEPT !.scanned = @ + f.size, !.shown = @ + f.hits]
Walk(tree) ==
    LET w[i \in 0 .. Len(tree)] ==
          IF i = 0 THEN [scanned |-> 0, shown |-> 0, truncated |-> FALSE, stop |-> FALSE]
                   ELSE Visit(w[i - 1], tree[i])
    IN w[Len(tree)]
Search(tree) ==
    LET w == Walk(tree) IN
    [ok |-> TRUE, text |-> [i \in 1 .. w.shown |-> 1], truncated |-> w.truncated, at |-> 0,
     hint |-> IF w.truncated /\ w.shown > 0 THEN "some" ELSE "none"]

\* The list of changed files that review_diff answers an empty path with.
ChangeList(changes) ==
    LET shown == Fitting(changes, 0, Len(changes), MaxOutput) IN
    [ok |-> TRUE, text |-> SubSeq(changes, 1, shown), truncated |-> shown < Len(changes),
     hint |-> "none", at |-> 0]

\* What the prompt names of them.
Preamble(changes) == Fitting(changes, 0, Len(changes), MaxPreamble)

-----------------------------------------------------------------------------
(* encodeReviewResponse, and the frame of the bridge *)

\* What encoding/json makes of a text: quotes and line feeds are escaped.  It
\* escapes for HTML as well unless it is told not to.
Escaped    == {"q", "n"}
JSON(text) == Len(text) + Cardinality({i \in DOMAIN text : text[i] \in Escaped})
Wire(text) == JSON(text) + (Html - 1) * Cardinality({i \in DOMAIN text : text[i] = "h"})
Hint(a)    == IF a.hint = "none" THEN 0 ELSE Marker

\* How long the mediator takes it to be.  The mutant counts raw bytes.
RawLen(text)     == Len(text)
EncodedLen(text) == Len(text) + Cardinality({i \in DOMAIN text : text[i] \in Escaped})

\* What is left of the frame for a text that has to be cut.  The mutant has no
\* room for the marker.
MaxFrame      == MaxResponse - Overhead
WithoutMarker == MaxFrame
Available     == MaxFrame - Marker

\* The hint is part of the text and goes first when the frame is too small.
Shorten(a) ==
    LET cuts == {k \in 0 .. Len(a.text) : EncodedLen(SubSeq(a.text, 1, k)) <= Available}
    IN IF EncodedLen(a.text) + Hint(a) <= MaxFrame THEN a
       ELSE [a EXCEPT !.text = SubSeq(a.text, 1, Max(cuts)), !.hint = "frame",
                      !.at = 0, !.truncated = TRUE]

\* A frame that is too large all the same is refused without its text.
Refusal   == [Nothing EXCEPT !.hint = "refused"]
Encode(a) == LET b == Shorten(a) IN
             IF Fields + JSON(b.text) + Hint(b) <= MaxResponse THEN b ELSE Refusal

\* serviceReviewBridge encodes the answer again, for a file that the bridge does
\* not take if it is longer than its limit.
Fits(a) == WireFields + Wire(a.text) + Hint(a) <= MaxResponse

-----------------------------------------------------------------------------
(* Handle, and the reviewer *)

Init == /\ task \in Tasks
        /\ next = IF task.op = "read" THEN 1 ELSE 0
        /\ answer = Nothing /\ cut = {} /\ remaining = Budget /\ state = "asking"
        /\ known = IF task.op = "diff" /\ Preamble(task.of) = Len(task.of)
                   THEN task.of ELSE <<>>

Execute == CASE task.op = "read"   -> Encode(Read(task.of, next, task.count))
             [] task.op = "list"   -> Page(task.of, next)
             [] task.op = "search" -> Search(task.of)
             [] task.op = "diff"   -> ChangeList(task.of)

\* A spent budget is an answer; the reviewer finishes with what it has read.
\* An answer that does not fit ends the bridge, and with it the review's tools.
\* The mutant spends what it does not have.
Overspends ==
    /\ state = "asking" /\ state' = "answered"
    /\ answer' = Execute /\ remaining' = remaining - 1
    /\ UNCHANGED <<task, next, known, cut>>
Handle ==
    /\ state = "asking"
    /\ IF remaining = 0
       THEN state' = "exhausted" /\ UNCHANGED <<answer, remaining>>
       ELSE /\ answer' = Execute /\ remaining' = remaining - 1
            /\ state' = IF task.op = "read" => Fits(Execute) THEN "answered" ELSE "failed"
    /\ UNCHANGED <<task, next, known, cut>>

\* The lines of an answer that are whole, the line it breaks off in, and where
\* to go on.
Line(text, i) == NextLine(text, Skip(text, i - 1)).line
Pieces(text)  == [i \in 1 .. CountLines(text) |-> Line(text, i)]
Whole == CASE answer.hint = "more"    -> answer.at - next
           [] answer.hint = "partial" -> 0
           [] answer.hint = "frame"   -> CountLines(answer.text) - 1
           [] OTHER                   -> CountLines(answer.text)
LearnLines ==
    LET lines == Pieces(answer.text) IN
    /\ task.op = "read"
    /\ known' = [i \in 1 .. Max({Len(known), next + Whole - 1}) |->
                    CASE i \in next .. next + Whole - 1 ->
                            IF i - next + 1 \in DOMAIN lines THEN lines[i - next + 1] ELSE <<>>
                      [] OTHER -> IF i \in DOMAIN known THEN known[i] ELSE <<"?">>]
    /\ cut' = IF Whole = 0 THEN cut \cup {next} ELSE cut
    /\ next' = next + Max({1, Whole})
    /\ state' = IF answer.hint = "none" \/ ~answer.ok THEN "done" ELSE "asking"

LearnEntries ==
    /\ task.op # "read" /\ UNCHANGED cut
    /\ known' = IF task.op = "diff" THEN answer.text ELSE known \o answer.text
    /\ next' = answer.at
    /\ state' = IF answer.hint = "more" THEN "asking" ELSE "done"

Learn == /\ state = "answered" /\ (LearnLines \/ LearnEntries)
         /\ UNCHANGED <<task, answer, remaining>>

Next == Handle \/ Learn
Spec == Init /\ [][Next]_vars

-----------------------------------------------------------------------------
(* Properties *)

LinesOf(data) == Pieces(data)

\* Every variable keeps its type.
TypeOK == /\ task \in Tasks /\ next \in Nat /\ remaining \in 0 .. Budget
          /\ cut \subseteq 1 .. MaxFile + 2
          /\ state \in {"asking", "answered", "done", "exhausted", "failed"}
          /\ answer.hint \in {"none", "more", "partial", "some", "frame", "refused"}

\* Following the hints a reviewer sees every line of a file as it is, or knows
\* that it did not see it whole; what it misses silently is blank.
ReadsEveryLine ==
    task.op = "read" /\ state = "done" =>
        \A i \in 1 .. CountLines(task.of) :
            \/ i \in cut
            \/ IF i \in DOMAIN known THEN known[i] = LinesOf(task.of)[i]
                                     ELSE LinesOf(task.of)[i] = <<>>

\* Following the offsets it sees every entry of a directory, once.
ListsEveryEntry ==
    task.op = "list" => /\ IsPrefix(known, task.of)
                        /\ state = "done" => known = task.of

\* Evidence may cite exactly the lines that review_read can show: "evidence
\* validation must accept exactly that" (review_evidence.go).
CitesWhatIsReadable ==
    task.op = "read" =>
        \A line \in 1 .. MaxFile + 2 :
            Read(task.of, line, 1).ok <=> line <= CountLines(task.of)

\* A window that is too large for its frame is cut, never refused: "a raw-byte
\* budget could silently fail closed with no output" (encodeReviewResponse).  It
\* fits the mediator's frame with its hint, and only what the transport escapes for
\* HTML can make it too large for the bridge.
FitsFrame ==
    task.op = "read" =>
        /\ EncodedLen(answer.text) + Hint(answer) <= MaxFrame
        /\ answer.hint # "refused"
        /\ state = "failed" => \E i \in DOMAIN answer.text : answer.text[i] = "h"

\* "That envelope budget is enforced on the JSON-encoded size"
\* (docs/compatibility/codex.md): of the mediator's frame, not of the one written.
FrameIsEnforced == state # "failed"

\* All that a search could find.
Matches(tree) ==
    LET m[i \in 0 .. Len(tree)] == IF i = 0 THEN 0 ELSE m[i - 1] + tree[i].hits
    IN m[Len(tree)]

\* An answer that leaves something out has the flag set.
FlagIsHonest ==
    state = "answered" =>
        CASE task.op = "search" ->
                Len(answer.text) < Matches(task.of) => answer.truncated
          [] task.op = "diff" -> Len(answer.text) < Len(task.of) => answer.truncated
          [] OTHER -> TRUE

\* What the reviewer believes of the snapshot is so, and what it was not shown
\* it can know of.
ShowsTheSnapshot == /\ TypeOK /\ ReadsEveryLine /\ ListsEveryEntry
                    /\ CitesWhatIsReadable /\ FlagIsHonest

\* "with an explicit truncation marker" (docs/compatibility/codex.md, of the
\* list, the search and the diff): the flag alone does not reach the reviewer.
CutIsMarked ==
    state = "answered" /\ answer.truncated => answer.hint # "none"

\* "call review_diff with path "" for the complete list" (the prompt).
PlanIsKnown ==
    task.op = "diff" /\ state = "done" => known = task.of
=============================================================================
