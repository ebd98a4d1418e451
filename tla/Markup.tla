---------------------------- MODULE Markup ----------------------------
(***************************************************************************)
(* How a reply becomes messages: app/telegram/markup.py.  The text arrives *)
(* line by line, the last line perhaps half typed.  Each tick of the       *)
(* streamer shows a draft of it (clip_partial_table, demote_headings); in  *)
(* code mode every closed code block is posted at once                     *)
(* (split_closed_blocks); at the end the text is cut to the size of a      *)
(* message (split_markdown), or cut at the attachments it contains         *)
(* (repair_fences_across_tokens).  A line is its kind: the kinds are what  *)
(* the regular expressions of the module tell apart.                       *)
(***************************************************************************)
EXTENDS Naturals, Sequences, SequencesExt, FiniteSets, FiniteSetsExt

CONSTANTS Kinds,    \* the kinds of line that occur, a part of AllKinds
          MaxLines, \* bound: the lines of a reply
          Limit     \* inner_limit of split_markdown, in characters

(* ticks: a bare fence; lang: a fence with a language; info: a fence with  *)
(* more than that; tildes: a tilde fence; row: a line with a pipe; sep: a  *)
(* table separator; token: a wide table, a diagram or a map, replaced by   *)
(* its token.                                                              *)
AllKinds == {"prose", "blank", "heading", "row", "sep", "ticks", "lang", "info", "tildes", "token"}

ASSUME KindsAssumption == Kinds \subseteq AllKinds
(* A fence and its newline fit into a message: the limit is never below 256 *)
(* and the headroom is 24 (render_within_limit, split_markdown).           *)
ASSUME LimitAssumption == Limit \in Nat /\ Limit >= 4

VARIABLES
    text,    \* the lines of the reply so far
    partial, \* the last line: "none" is complete, "vague" tells nothing yet, "clear" tells its kind
    mode,    \* rec.mode: in "code" mode closed blocks are posted at once
    base,    \* how many lines were posted live and left running_text
    posted,  \* the segments they made
    frame    \* the draft on the screen: its complete lines, and whether a half-typed one follows

vars == <<text, partial, mode, base, posted, frame>>

(* The lines as the regular expressions see them: a line whose beginning   *)
(* tells nothing yet is prose.                                             *)
Seen == [i \in DOMAIN text |-> IF i = Len(text) /\ partial = "vague" THEN "prose" ELSE text[i]]

---------------------------------------------------------------------------
(* Fenced blocks.                                                          *)

Marker(kind) == CASE kind \in {"ticks", "lang", "info"} -> "ticks"
                  [] kind = "tildes" -> "tildes"
                  [] OTHER -> "no"

(* The opener needs the end of its line; any run of the same marker closes *)
(* the block.                                                              *)
Opens(i) == /\ Seen[i] \in {"ticks", "lang", "tildes"}
            /\ i < Len(text) \/ partial = "none"
Closer(i) == LET later == {j \in i + 1 .. Len(text) : Marker(Seen[j]) = Marker(Seen[i])}
             IN IF later = {} THEN 0 ELSE Min(later)

(* One line of the scan for _FENCE_BLOCK_RE: `open` is the opener of the   *)
(* block that the next line is in, 0 outside, and `out` the segments so    *)
(* far, prose with its lines but the blank ones.  What follows the marker  *)
(* on the closing line belongs to the prose below.                         *)
Outside == [open |-> 0, out |-> <<>>]
Ends(state, i) == state.open # 0 /\ i = Closer(state.open)
AddProse(out, i) ==
    IF Seen[i] = "blank" THEN out
    ELSE IF out # <<>> /\ ~Last(out).code
    THEN Append(Front(out), [code |-> FALSE, lines |-> Last(out).lines \cup {i}])
    ELSE Append(out, [code |-> FALSE, lines |-> {i}])
AddLine(state, i) ==
    LET block == Append(state.out, [code |-> TRUE, lines |-> state.open .. i])
    IN CASE Ends(state, i) -> [open |-> 0, out |-> IF Seen[i] \in {"lang", "info"}
                                                   THEN AddProse(block, i) ELSE block]
         [] state.open # 0 /\ ~Ends(state, i) -> state
         [] state.open = 0 /\ Opens(i) /\ Closer(i) # 0 -> [state EXCEPT !.open = i]
         [] OTHER -> [state EXCEPT !.out = AddProse(@, i)]

(* The scan of the lines after `from`.                                     *)
Scanned(from) ==
    LET scan[i \in 0 .. Len(text)] == IF i <= from THEN Outside ELSE AddLine(scan[i - 1], i)
    IN scan

(* segment_blocks of the lines after `from`, up to `to`.                   *)
Segments(from, to) == Scanned(from)[to].out

(* split_closed_blocks: the last line of the last block that is closed by  *)
(* a bare fence and followed by a newline; `base` when there is none.      *)
ClosedEnd ==
    LET scan == Scanned(base)
        ends == {i \in base + 1 .. Len(text) :
                     /\ Ends(scan[i - 1], i) /\ Seen[i] \in {"ticks", "tildes"}
                     /\ i < Len(text) \/ partial = "none"}
    IN IF ends = {} THEN base ELSE Max(ends)

---------------------------------------------------------------------------
(* Draft frames.                                                           *)

HasPipe(kind) == kind \in {"row", "sep"}

(* The rows right above the last line, and whether their separator is      *)
(* among them.                                                             *)
TableRows == {i \in base + 1 .. Len(text) - 1 : \A j \in i .. Len(text) - 1 : HasPipe(Seen[j])}
Established == \E i \in TableRows : Seen[i] = "sep"
HalfTyped == Len(text) > base /\ partial # "none"

(* Mutant: the half-typed separator under a header is shown.               *)
ClipsRows == HalfTyped /\ HasPipe(Seen[Len(text)]) /\ Established

(* clip_partial_table: the half-typed last line of a table is left out.    *)
Clips == /\ HalfTyped /\ HasPipe(Seen[Len(text)])
         /\ Established \/ (Seen[Len(text)] = "sep" /\ TableRows # {})

(* demote_headings, blank lines aside: "gap" is the nbsp paragraph, "bold" *)
(* a heading.                                                              *)
Solid(line) == line # "blank"
Spaced(out) == IF out # <<>> /\ Last(out) = "gap" THEN out ELSE Append(out, "gap")
DemoteLine(state, line) ==
    LET out == IF state.pending THEN Spaced(state.out) ELSE state.out
        heading == line = "heading" /\ ~state.fence
    IN CASE ~Solid(line) -> state
         [] Marker(line) # "no" -> [out |-> Append(out, line), fence |-> ~state.fence, pending |-> FALSE]
         [] heading -> [out |-> Append(IF out = <<>> THEN out ELSE Spaced(out), "bold"),
                        fence |-> FALSE, pending |-> TRUE]
         [] OTHER -> [out |-> Append(out, line), fence |-> state.fence, pending |-> FALSE]

Demoted[i \in 0 .. Len(text)] ==
    IF i <= base THEN [out |-> <<>>, fence |-> FALSE, pending |-> FALSE]
    ELSE DemoteLine(Demoted[i - 1], Seen[i])

(* _render_draft: the frame of what has arrived.                           *)
Frame ==
    LET shown == Demoted[IF Clips THEN Len(text) - 1 ELSE Len(text)].out
        half == HalfTyped /\ ~Clips /\ shown # <<>>
    IN [lines |-> IF half THEN Front(shown) ELSE shown, half |-> half]

---------------------------------------------------------------------------
(* Cutting to size: split_message and split_markdown.                      *)

(* A heading is longer than a message, a fence with its newline fits.      *)
Width(kind) == CASE kind = "blank" -> 0
                 [] kind = "heading" -> 2 * Limit
                 [] Marker(kind) # "no" -> 3
                 [] OTHER -> 4

(* split_message: chunks of line numbers.  Every piece but the first has   *)
(* the newline before it; a piece that is too long makes chunks of its own *)
(* and leaves the current one empty.                                       *)
PieceWidth(i) == Width(text[i]) + (IF i = 1 THEN 0 ELSE 1)
AddPiece(state, i) ==
    LET flushed == IF state.current = <<>> THEN state.chunks ELSE Append(state.chunks, state.current)
        cuts == (PieceWidth(i) + Limit - 1) \div Limit
    IN IF PieceWidth(i) > Limit
       THEN [chunks |-> flushed \o [k \in 1 .. cuts |-> <<i>>], current |-> <<>>, size |-> 0]
       ELSE IF state.size + PieceWidth(i) <= Limit
       THEN [state EXCEPT !.current = Append(@, i), !.size = @ + PieceWidth(i)]
       ELSE [chunks |-> flushed, current |-> <<i>>, size |-> PieceWidth(i)]

Split[i \in 0 .. Len(text)] ==
    IF i = 0 THEN [chunks |-> <<>>, current |-> <<>>, size |-> 0] ELSE AddPiece(Split[i - 1], i)
SplitMessage ==
    LET end == Split[Len(text)]
    IN IF end.current = <<>> THEN end.chunks ELSE Append(end.chunks, end.current)

(* A line _FENCE_LINE_RE matches.                                          *)
FenceLine(i) == text[i] \in {"ticks", "lang"}

(* Mutant: the next chunk does not know that a fence is open.              *)
RepairForgets(state, chunk) ==
    LET fences == Cardinality({k \in DOMAIN chunk : FenceLine(chunk[k])})
    IN [parts |-> Append(state.parts, [reopened |-> FALSE, lines |-> chunk, closed |-> fences % 2 = 1]),
        carried |-> FALSE]

(* One chunk of split_markdown, or one prose run of                        *)
(* repair_fences_across_tokens: reopened when a fence is carried into it,  *)
(* closed when it ends inside one.                                         *)
Repair(state, chunk) ==
    LET fences == Cardinality({k \in DOMAIN chunk : FenceLine(chunk[k])})
        inside == (state.carried # (fences % 2 = 1))
    IN [parts |-> Append(state.parts, [reopened |-> state.carried, lines |-> chunk, closed |-> inside]),
        carried |-> inside]

Unrepaired == [parts |-> <<>>, carried |-> FALSE]
SplitMarkdown ==
    LET whole == [reopened |-> FALSE, lines |-> [i \in DOMAIN text |-> i], closed |-> FALSE]
        chunks == SplitMessage
        repaired[m \in 0 .. Len(chunks)] ==
            IF m = 0 THEN Unrepaired ELSE Repair(repaired[m - 1], chunks[m])
    IN IF Len(chunks) <= 1 THEN <<whole>> ELSE repaired[Len(chunks)].parts

(* repair_fences_across_tokens: a run that begins with the closing fence   *)
(* loses it, a blank run is left alone.                                    *)
RepairRun(state, run) ==
    LET solid == {k \in DOMAIN run : text[run[k]] # "blank"}
        first == Min(solid)
    IN IF solid = {} THEN state
       ELSE IF state.carried /\ FenceLine(run[first])
       THEN Repair([state EXCEPT !.carried = FALSE], RemoveAt(run, first))
       ELSE Repair(state, run)

(* split_on_attachment_tokens: the runs of lines between tokens.           *)
Runs[i \in 0 .. Len(text)] ==
    IF i = 0 THEN <<<<>>>>
    ELSE IF text[i] = "token" THEN Append(Runs[i - 1], <<>>)
    ELSE Append(Front(Runs[i - 1]), Append(Last(Runs[i - 1]), i))

RepairedRuns ==
    LET runs == Runs[Len(text)]
        repaired[m \in 0 .. Len(runs)] ==
            IF m = 0 THEN Unrepaired ELSE RepairRun(repaired[m - 1], runs[m])
    IN repaired[Len(runs)].parts

---------------------------------------------------------------------------
Empty == [lines |-> <<>>, half |-> FALSE]

Init == /\ text = <<>> /\ partial = "none" /\ mode \in {"chat", "code"}
        /\ base = 0 /\ posted = <<>> /\ frame = Empty

(* A closed block is waiting to be posted.                                 *)
Due == mode = "code" /\ ClosedEnd # base

(* A text delta: more of the last line, or the beginning of the next.      *)
Type(kind, p) ==
    /\ partial = "none" /\ Len(text) < MaxLines /\ ~Due
    /\ kind = "blank" => p = "none"
    /\ text' = Append(text, kind) /\ partial' = p
    /\ UNCHANGED <<mode, base, posted, frame>>

TypeOn ==
    /\ partial # "none" /\ ~Due
    /\ partial' \in {"clear", "none"} \ {partial}
    /\ UNCHANGED <<text, mode, base, posted, frame>>

(* _split_live_blocks, before the next delta is read: the closed blocks    *)
(* and the text above them are posted, a new draft shows the remainder.    *)
SplitLive ==
    /\ Due
    /\ posted' = posted \o Segments(base, ClosedEnd)
    /\ base' = ClosedEnd /\ frame' = Empty
    /\ UNCHANGED <<text, partial, mode>>

(* _tick: the draft is sent again.                                         *)
Tick ==
    /\ ~Due /\ frame' = Frame
    /\ UNCHANGED <<text, partial, mode, base, posted>>

Next == \/ \E kind \in Kinds, p \in {"none", "vague", "clear"} : Type(kind, p)
        \/ TypeOn \/ SplitLive \/ Tick

---------------------------------------------------------------------------
(* The last line belongs to a table, as split_rich_tables will read it.    *)
InTable ==
    \E h \in base + 1 .. Len(text) - 1 :
        /\ HasPipe(Seen[h]) /\ Seen[h + 1] = "sep"
        /\ \A j \in h + 1 .. Len(text) : HasPipe(Seen[j])

(* The draft only ever grows: no complete line that was on the screen is   *)
(* taken back or changed by a later frame, whatever the kind of the line   *)
(* that was half typed turns out to be, and no frame shows a half-typed    *)
(* row or separator of a table; otherwise the client cannot animate it     *)
(* (clip_partial_table, demote_headings).                                  *)
FramesGrow == [][base' = base => /\ IsPrefix(frame.lines, frame'.lines)
                                 /\ frame' # frame /\ frame'.half => ~InTable]_vars

(* What was posted live, followed by the segments of the remainder, are    *)
(* the segments of the whole reply: posting a block early, with only a     *)
(* prefix of the text to look at, neither cuts nor merges anything         *)
(* (split_closed_blocks against segment_blocks).  The reply has one kind   *)
(* of fence: a tilde block inside a backtick block that is still open is   *)
(* taken for a closed block and posted.                                    *)
LiveBlocksMatch ==
    Cardinality({Marker(text[i]) : i \in DOMAIN text} \ {"no"}) <= 1 =>
        posted \o Segments(base, Len(text)) = Segments(0, Len(text))

(* Where line `i` of the reply is inside a code block.                     *)
InCode(i) == Cardinality({j \in 1 .. i - 1 : FenceLine(j)}) % 2 = 1

(* Read on its own, a part shows every line as the whole reply does and    *)
(* ends outside a code block, unless it is the whole reply.                *)
ReadsAlike(part) ==
    LET before(k) == Cardinality({j \in 1 .. k - 1 : FenceLine(part.lines[j])})
                        + (IF part.reopened THEN 1 ELSE 0)
        end == before(Len(part.lines) + 1) + (IF part.closed THEN 1 ELSE 0)
    IN /\ \A k \in DOMAIN part.lines :
              text[part.lines[k]] # "blank" => (before(k) % 2 = 1) = InCode(part.lines[k])
       /\ end % 2 = 0 \/ Len(part.lines) = Len(text)

(* However a reply of bare and language fences is cut, to the size of a    *)
(* message or at its attachments, code is shown as code and prose as prose *)
(* in every part, and no line is lost (split_markdown,                     *)
(* repair_fences_across_tokens).                                           *)
CodeStaysCode ==
    partial = "none" /\ Range(text) \cap {"info", "tildes"} = {} =>
        /\ \A part \in Range(SplitMarkdown) \cup Range(RepairedRuns) : ReadsAlike(part)
        /\ UNION {Range(part.lines) : part \in Range(SplitMarkdown)} = DOMAIN text
        /\ {i \in DOMAIN text : ~FenceLine(i) /\ text[i] \notin {"token", "blank"}}
               \subseteq UNION {Range(part.lines) : part \in Range(RepairedRuns)}

(* What the reader has seen stands: a frame only grows, and a block that   *)
(* was posted early reads as it would have in the finished text.           *)
TextStands == []LiveBlocksMatch /\ FramesGrow


=============================================================================
