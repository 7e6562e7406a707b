------------------------------ MODULE TuiScreen ------------------------------
(* The conversation view of the terminal interface (quine-cli tui/ui.rs,    *)
(* the view half of tui/app.rs): entries laid out in wrapped rows that are  *)
(* cached, a scroll position counted from the last row, and a selection     *)
(* that is made with the mouse and copied. The event loop handles one event *)
(* and then draws, so a step here is an event and the frame that follows.   *)
EXTENDS Naturals, Sequences, SequencesExt, FiniteSets

CONSTANTS
    Sizes,              \* terminal sizes: [width, height], of the conversation's area
    MaxEntries, MaxTextSize, MaxEvents

VARIABLES
    app,        \* what App keeps for the view, see ScreenInit
    terminal,   \* the size
    mouse,      \* [held, over]: the button; the row the button went down on
    copied,     \* the selection's ends that went to the clipboard, and what was meant
    reading,    \* the first row of a view that the user scrolled up to
    disturbed,  \* "resized", "covered": what happened while the button was held
    events      \* events so far

screenVars == <<app, terminal, mouse, copied, reading, disturbed, events>>

None == 0
Row(of, look, from, to) == [of |-> of, look |-> look, from |-> from, to |-> to]
Blank == Row(None, "blank", None, None)
NoCopy == [ends |-> {}, meant |-> {}]
Huge == 99      \* stands for u32::MAX
Least(a, b) == IF a < b THEN a ELSE b
Less(a, b) == IF a > b THEN a - b ELSE 0

----------------------------------------------------------------------------
(* build_conversation_lines, wrap_styled_line. A run of tool calls is shown *)
(* under a header, and blank rows keep what is not about tools apart.       *)
IsCall(es, i) == i \in 1..Len(es) /\ es[i].kind = "tool"
Batched(es, i) == IsCall(es, i) /\ (IsCall(es, i - 1) \/ IsCall(es, i + 1))
IsToolGroupEntry(es, i) == es[i].kind \in {"tool", "info"} /\ ~Batched(es, i)
OpensEntry(es, i) == ~(IsCall(es, i) /\ IsCall(es, i - 1))
InsertSeparator(es, i) == i > 1 /\ OpensEntry(es, i) /\ ~(IsToolGroupEntry(es, i - 1) /\ IsToolGroupEntry(es, i))
RunLength(es, i) == Cardinality({j \in i..Len(es) : \A k \in i..j : IsCall(es, k)})

Wrap(of, look, size, width) ==
    [k \in 1..((size + width - 1) \div width) |-> Row(of, look, (k - 1) * width, Least(k * width, size))]

(* A lone call that runs has a timer; one that is over shows its result.    *)
CallRows(e, lone, frame) ==
    IF e.done THEN <<Row(e.id, "done", None, None), Row(e.id, "preview", None, None)>>
    ELSE <<Row(e.id, "running", None, IF lone THEN frame ELSE None)>>

EntryRows(a, i, width) ==
    LET es == a.entries
        e == es[i]
    IN (IF InsertSeparator(es, i) THEN <<Blank>> ELSE <<>>)
       \o (IF Batched(es, i) /\ OpensEntry(es, i) THEN <<Row(e.id, "tools", None, RunLength(es, i))>> ELSE <<>>)
       \o (IF e.kind = "tool" THEN CallRows(e, ~Batched(es, i), a.frame) ELSE Wrap(e.id, e.kind, e.size, width))

LiveRows(a, width) ==
    Wrap(None, "live", a.live, width)
    \o (IF a.phase \in {"thinking", "tool"} THEN <<Row(None, a.phase, None, None)>> ELSE <<>>)

Rows(a, width) ==
    LET rows == FlattenSeq([i \in 1..Len(a.entries) |-> EntryRows(a, i, width)]) \o LiveRows(a, width)
    IN IF rows = <<>> THEN <<Blank>> ELSE rows

(* ensure_conversation_cache, draw_conversation. The view is shorter while  *)
(* a status report is shown.                                                *)
NoCache == [width |-> None, rows |-> <<>>]
ViewHeight(a, size) == IF a.report THEN size.height - 1 ELSE size.height
Cached(a, width) == IF a.cache.width = width THEN a.cache ELSE [width |-> width, rows |-> Rows(a, width)]
MaxScroll(a, size) == Less(Len(a.cache.rows), ViewHeight(a, size))

Draw(a, size) ==
    LET fresh == [a EXCEPT !.cache = Cached(a, size.width)]
        most == MaxScroll(fresh, size)
    IN [fresh EXCEPT !.top = IF a.scrolled THEN most - Least(a.offset, most) ELSE most]

ShownOf(a, size) == SubSeq(a.cache.rows, a.top + 1, Least(a.top + ViewHeight(a, size), Len(a.cache.rows)))
Shown == ShownOf(app, terminal)

ScreenInit ==
    /\ terminal \in Sizes
    /\ app = Draw([entries |-> <<>>, made |-> 0, live |-> 0, phase |-> "idle", frame |-> 0, report |-> FALSE,
                   offset |-> 0, scrolled |-> FALSE, cache |-> NoCache, top |-> 0, anchor |-> None,
                   selection |-> <<>>, overlay |-> "none", unmarked |-> FALSE], terminal)
    /\ mouse = [held |-> FALSE, over |-> Blank]
    /\ copied = NoCopy /\ reading = <<>> /\ disturbed = {}
    /\ events = 0

----------------------------------------------------------------------------
(* What changes the conversation. *)
Invalidate(a) == [a EXCEPT !.cache = NoCache, !.selection = <<>>, !.anchor = None, !.unmarked = FALSE]
SetPhase(a, phase) == IF a.phase = phase THEN a ELSE Invalidate([a EXCEPT !.phase = phase])
AutoScroll(a) == [a EXCEPT !.scrolled = FALSE, !.offset = 0]

Entered(a, kind, size) ==
    [a EXCEPT !.entries = Append(@, [id |-> a.made + 1, kind |-> kind, size |-> size, done |-> FALSE]), !.made = @ + 1]

PushMessage(a, kind, size) == Invalidate(Entered(a, kind, size))
HasRoom == Len(app.entries) < MaxEntries
TakeLive(a) == IF a.live = 0 THEN a ELSE PushMessage([a EXCEPT !.live = 0], "text", a.live)

Shows(a) == app' = Draw(a, terminal)
Happens == events < MaxEvents /\ events' = events + 1
Arrives == Happens /\ UNCHANGED <<terminal, mouse, copied, reading, disturbed>>

StreamDelta ==
    /\ app.live < MaxTextSize
    /\ Shows(AutoScroll(Invalidate([SetPhase(app, "streaming") EXCEPT !.live = @ + 1])))
    /\ Arrives

TextComplete ==
    /\ HasRoom /\ app.live > 0
    /\ Shows(AutoScroll(TakeLive(app)))
    /\ Arrives

ToolRequest ==
    /\ Len(app.entries) + 1 < MaxEntries
    /\ Shows(AutoScroll(PushMessage(SetPhase(TakeLive(app), "tool"), "tool", 1)))
    /\ Arrives

(* The only news that leaves the scroll position alone. *)
Over(a, i) == [a EXCEPT !.entries[i].done = TRUE]

\* Mutant: a result changes an entry and leaves the cached rows.
ToolResultUnmarked(a, i) == IF a.phase = "tool" THEN SetPhase(Over(a, i), "thinking") ELSE Over(a, i)

ToolResult(a, i) == Invalidate(IF a.phase = "tool" THEN SetPhase(Over(a, i), "thinking") ELSE Over(a, i))

ToolReturns(i) ==
    /\ app.entries[i].kind = "tool" /\ ~app.entries[i].done
    /\ Shows(ToolResult(app, i))
    /\ Arrives

TurnComplete ==
    /\ Len(app.entries) + 1 < MaxEntries /\ app.phase # "idle"
    /\ Shows(AutoScroll(SetPhase(PushMessage(TakeLive(app), "info", 1), "idle")))
    /\ Arrives

StatusReport ==
    /\ Shows([app EXCEPT !.report = ~@])
    /\ Arrives

(* tick_spinner: the timers of commands that run are drawn anew. *)
TickSpinner ==
    /\ app.phase # "idle"
    /\ LET running == \E i \in 1..Len(app.entries) : app.entries[i].kind = "tool" /\ ~app.entries[i].done
           ticked == [app EXCEPT !.frame = 1 - @]
       IN Shows(IF running THEN Invalidate(ticked) ELSE ticked)
    /\ UNCHANGED <<terminal, mouse, copied, reading, disturbed, events>>

Uncovered == app.overlay = "none"

(* submit_input. A message, and a command whose usage is wrong; the latter  *)
(* is pushed without being drawn.                                           *)
Submit(size) ==
    /\ Happens /\ Uncovered /\ HasRoom
    /\ Shows(AutoScroll(SetPhase(PushMessage(app, "text", size), "thinking")))
    /\ reading' = <<>>
    /\ UNCHANGED <<terminal, mouse, copied, disturbed>>

ReportUsage ==
    /\ Happens /\ Uncovered /\ HasRoom
    /\ Shows(AutoScroll([Entered(app, "text", 1) EXCEPT !.unmarked = TRUE]))
    /\ reading' = <<>>
    /\ UNCHANGED <<terminal, mouse, copied, disturbed>>

(* reset_for_new_session. *)
NewSession ==
    /\ Happens /\ Uncovered
    /\ Shows(AutoScroll(Invalidate([app EXCEPT !.entries = <<>>, !.live = 0, !.phase = "idle", !.report = FALSE, !.frame = 0])))
    /\ reading' = <<>>
    /\ UNCHANGED <<terminal, mouse, copied, disturbed>>

----------------------------------------------------------------------------
(* Popups and the live view of another session are drawn over the           *)
(* conversation.                                                            *)
Overlay(kind) ==
    /\ Happens /\ app.overlay # kind
    /\ "none" \in {kind, app.overlay}
    /\ Shows([app EXCEPT !.overlay = kind, !.cache = IF "ps" \in {kind, app.overlay} THEN @ ELSE NoCache])
    /\ disturbed' = IF mouse.held THEN disturbed \cup {"covered"} ELSE disturbed
    /\ UNCHANGED <<terminal, mouse, copied, reading>>

Resize(size) ==
    /\ Happens /\ size # terminal
    /\ terminal' = size
    /\ app' = Draw(app, size)
    /\ disturbed' = IF mouse.held THEN disturbed \cup {"resized"} ELSE disturbed
    /\ reading' = <<>>
    /\ UNCHANGED <<mouse, copied>>

(* mouse_scroll_step, and the steps of PageUp and PageDown. *)
WheelStep == IF app.overlay = "none" /\ ViewHeight(app, terminal) > 6 THEN ViewHeight(app, terminal) \div 3 ELSE 3
PageStep == IF ViewHeight(app, terminal) > 2 THEN ViewHeight(app, terminal) - 2 ELSE 10
Steps == {WheelStep} \cup (IF Uncovered THEN {PageStep, Huge} ELSE {})
Scrollable == app.overlay \in {"none", "live"}      \* the wheel works below a live view

Away(a) == IF a.top < MaxScroll(a, terminal) THEN <<ShownOf(a, terminal)[1]>> ELSE <<>>

ScrollUp(rows) ==
    /\ Happens /\ Scrollable
    /\ Shows([app EXCEPT !.scrolled = TRUE, !.offset = Least(@ + rows, Huge)])
    /\ reading' = Away(app')
    /\ UNCHANGED <<terminal, mouse, copied, disturbed>>

Lowered(a, rows) == [a EXCEPT !.offset = Less(@, rows), !.scrolled = @ /\ Less(a.offset, rows) > 0]

ScrollDown(rows) ==
    /\ Happens /\ Scrollable
    /\ Shows(Lowered(app, rows))
    /\ reading' = Away(app')
    /\ UNCHANGED <<terminal, mouse, copied, disturbed>>

----------------------------------------------------------------------------
(* handle_mouse_event. Popups take the mouse, a live view does not. A row   *)
(* of the screen is a row of the conversation by the viewport of the frame. *)
PointAt(y) == app.top + y
Meant(y) == IF y <= Len(Shown) THEN Shown[y] ELSE Shown[Len(Shown)]

(* selected_conversation_text: rows below the last are not selected. Kept   *)
(* are the ends of what is copied and those of what the user went over.     *)
CopiesTo(anchor, y, focus) ==
    LET rows == app.cache.rows
        start == Least(anchor, focus)
        end == Least(anchor + focus - start, Len(rows))
    IN IF start > end \/ \A r \in start..end : rows[r] = Blank THEN copied
       ELSE [ends |-> {rows[start], rows[end]}, meant |-> {mouse.over, Meant(y)}]

ButtonDown(y) ==
    /\ Happens /\ ~mouse.held
    /\ mouse' = [held |-> TRUE, over |-> Meant(y)]
    /\ app' = IF Scrollable THEN [app EXCEPT !.anchor = PointAt(y), !.selection = <<>>] ELSE app
    /\ copied' = NoCopy
    /\ disturbed' = IF Uncovered THEN {} ELSE {"covered"}
    /\ UNCHANGED <<terminal, reading>>

Drag(y) ==
    /\ Happens /\ mouse.held /\ Scrollable /\ app.anchor # None
    /\ app' = [app EXCEPT !.selection = <<app.anchor, PointAt(y)>>]
    /\ copied' = CopiesTo(app.anchor, y, PointAt(y))
    /\ UNCHANGED <<terminal, mouse, reading, disturbed>>

(* Letting go where the button went down is a click and copies nothing.     *)
ButtonUp(y, moved) ==
    /\ Happens /\ mouse.held
    /\ mouse' = [held |-> FALSE, over |-> Blank]
    /\ IF Scrollable /\ app.anchor # None
       THEN LET drags == moved \/ PointAt(y) # app.anchor
            IN /\ app' = [app EXCEPT !.anchor = None, !.selection = IF drags THEN <<app.anchor, PointAt(y)>> ELSE <<>>]
               /\ copied' = IF drags THEN CopiesTo(app.anchor, y, PointAt(y)) ELSE copied
       ELSE UNCHANGED <<app, copied>>
    /\ UNCHANGED <<terminal, reading, disturbed>>

ScreenNext ==
    \/ StreamDelta \/ TextComplete \/ ToolRequest \/ TurnComplete \/ StatusReport \/ TickSpinner
    \/ \E i \in 1..Len(app.entries) : ToolReturns(i)
    \/ \E size \in 1..MaxTextSize : Submit(size)
    \/ ReportUsage \/ NewSession
    \/ \E kind \in {"none", "context", "ps", "live"} : Overlay(kind)
    \/ \E size \in Sizes : Resize(size)
    \/ \E rows \in Steps : ScrollUp(rows) \/ ScrollDown(rows)
    \/ \E y \in 1..ViewHeight(app, terminal) : ButtonDown(y) \/ Drag(y) \/ \E moved \in BOOLEAN : ButtonUp(y, moved)

ScreenSpec == ScreenInit /\ [][ScreenNext]_screenVars

(***************************************************************************)
(* The rows on the screen are those of the conversation as it is, whatever  *)
(* was cached before (ensure_conversation_cache, invalidate_conversation_   *)
(* cache); unless a command's usage was pushed behind the cache's back.     *)
ScreenIsCurrent == ~app.unmarked => app.cache.rows = Rows(app, terminal.width)

(***************************************************************************)
(* What is copied begins and ends on the rows that the button was pressed   *)
(* and moved over, however the view scrolled and grew in between (begin_,   *)
(* update_ and finish_conversation_drag_at_mouse); unless the window        *)
(* changed its size or was covered meanwhile.                               *)
CopiedWasShown == disturbed = {} => copied.ends = copied.meant

(***************************************************************************)
(* features/007: the view scrolls to the bottom on new output "unless user  *)
(* scrolled up" (auto_scroll in apply_notification).                        *)
ReadingIsNotDisturbed == reading # <<>> => Shown[1] = reading[1]
=============================================================================
