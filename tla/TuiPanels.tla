------------------------------ MODULE TuiPanels ------------------------------
(* What the terminal interface shows over and under the conversation: the   *)
(* input line with its history and its three completions (of a command, of  *)
(* the profile of /model and of the session of /switch), the options of a   *)
(* question, and the popups of /context, /ps and unwinding (quine-cli       *)
(* tui/app.rs, tui/mod.rs, tui/ui.rs). A character is kept by what the code *)
(* tells apart: a slash, a blank, a narrow one, a wide one. Every step ends *)
(* with a frame. /state completes as /switch does and is left out.          *)
EXTENDS Naturals, Sequences, SequencesExt, FiniteSets

CONSTANTS
    Chars,              \* what is typed, a subset of {"/", "x", "wide"}
    Commands,           \* the slash commands, as texts
    ModelCommand, Profiles,     \* /model, and the names it completes
    SwitchCommand, SessionIds,  \* /switch, and the sessions in the order they appear
    Layouts,            \* of the window: [width, height, rows]; rows is a popup's list
    Popups, Counts,     \* popups that open; entries of the tabs of /context and of unwinding
    DetailSize,         \* rows of what a popup shows of an entry
    Label, Options,     \* width of the input's label; options of a question
    MaxLine, MaxPresses

VARIABLES
    line,       \* InputBuffer: [text, col]
    past,       \* input_history, history_index, saved_input: [texts, index, saved]
    select,     \* option_select: [options, cursor], or NoSelect
    completing, \* which of slash_, model_ and switch_select_active are set
    asked,      \* a question is at the front of interaction_queue
    known,      \* the first so many of SessionIds are switch_session_candidates
    popup,      \* [kind, tab, selected, offset]
    window,
    draft,      \* the text from which the history was entered, and whether it came back
    presses

choiceVars == <<select, completing, asked, known>>
panelVars == <<line, past, choiceVars, popup, window, draft, presses>>

None == 0
NoSelect == [options |-> <<>>, cursor |-> 0]
NoPopup == [kind |-> "none", tab |-> "history", selected |-> 0, offset |-> 0]
NoDraft == [text |-> <<>>, back |-> TRUE]
Smaller(a, b) == IF a < b THEN a ELSE b
Minus(a, b) == IF a > b THEN a - b ELSE 0

PanelsInit ==
    /\ line = [text |-> <<>>, col |-> 0]
    /\ past = [texts |-> <<>>, index |-> None, saved |-> <<>>]
    /\ select = NoSelect /\ completing = {} /\ asked = FALSE /\ known = 0
    /\ popup = NoPopup
    /\ window \in Layouts
    /\ draft = NoDraft
    /\ presses = 0

Presses == presses < MaxPresses /\ presses' = presses + 1

----------------------------------------------------------------------------
(* Drawing. *)
Width(c) == IF c = "wide" THEN 2 ELSE 1

(* wrap_input_lines: the row a character is on, and the columns used there. *)
Placed(text, width) ==
    LET at[k \in 0..Len(text)] ==
            IF k = 0 THEN [row |-> 0, used |-> Label]
            ELSE LET before == at[k - 1]
                     w == Width(text[k])
                 IN IF before.used > 0 /\ before.used + w > width
                    THEN [row |-> before.row + 1, used |-> w]
                    ELSE [row |-> before.row, used |-> before.used + w]
    IN at

(* input_cursor_position. *)

CursorPosition(text, col, width) ==
    LET used == FoldLeft(LAMBDA n, c : n + Width(c), Label, SubSeq(text, 1, col))
    IN [row |-> used \div width, col |-> used % width]

(* What is typed after a prefix of the line, its leading blanks left out.   *)
NotBlank(text) == {i \in DOMAIN text : text[i] # " "}
Trim(text) == SubSeq(text, Min(NotBlank(text)), Max(NotBlank(text)))
Typed(prefix, text) ==
    LET rest == SubSeq(text, Len(prefix) + 1, Len(text))
    IN IF NotBlank(rest) = {} THEN <<>> ELSE SubSeq(rest, Min(NotBlank(rest)), Len(rest))

(* slash_command_hint: the commands that start with what is typed.          *)
Hints(text) ==
    IF IsPrefix(<<"/">>, text)
    THEN SelectSeq(Commands, LAMBDA c : IsPrefix(Typed(<<"/">>, text), Tail(c)))
    ELSE <<>>

(* input_content_rows, the height of the input box in draw.                 *)
InputRows == Placed(line.text, window.width)[Len(line.text)].row + 1
ContentRows ==
    LET all == Label + FoldLeft(LAMBDA n, c : n + Width(c), 0, line.text)
        rows == (all + window.width - 1) \div window.width
        cursor == CursorPosition(line.text, line.col, window.width).row + 1
    IN IF rows > cursor THEN rows ELSE cursor

MostRows == Smaller(window.height \div 2, 12)

InputHeight ==
    LET listed == IF select # NoSelect THEN select.options ELSE Hints(line.text)
        wanted == ContentRows + Len(listed) + 2
    IN Smaller(IF wanted < 3 THEN 3 ELSE wanted, MostRows)

(* draw_input: the cursor is put inside the box, whose text is not scrolled. *)
DrawnCursor ==
    LET at == CursorPosition(line.text, line.col, window.width)
    IN [row |-> Smaller(at.row + 1, Minus(InputHeight, 2)), col |-> Smaller(at.col + 1, window.width)]

OptionRows == Minus(InputHeight, 2 + InputRows)

(* option_window_bounds, context_list_scroll: the first that is shown.      *)
OptionStart(total, cursor, rows) ==
    IF total <= rows THEN 0 ELSE Smaller(Minus(cursor, rows - 1), total - rows)

ListScroll(selected, count, rows) ==
    IF rows = 0 \/ count <= rows THEN 0 ELSE Smaller(Minus(selected, rows \div 2), count - rows)

(* render_wrapped_lines leaves the offset within the text it draws; that of *)
(* the entries to unwind to follows the one that is selected.               *)
Clamped(p, rows) == [p EXCEPT !.offset = Smaller(@, Minus(DetailSize, rows))]
DrawPopup(p, rows) ==
    IF p.kind = "unwind" /\ Counts.unwind > 0
    THEN [p EXCEPT !.offset = ListScroll(p.selected, Counts.unwind, rows)]
    ELSE Clamped(p, rows)

----------------------------------------------------------------------------
(* The input line: what is typed, and what completes it.                    *)
Keys == popup.kind = "none"
Choosing == select # NoSelect /\ completing = {}
Edits == Keys /\ ~Choosing

SetFromString(text) == [text |-> text, col |-> Len(text)]
Inserted(c) == [text |-> InsertAt(line.text, line.col + 1, c), col |-> line.col + 1]
DeletedBefore == [text |-> RemoveAt(line.text, line.col), col |-> line.col - 1]

(* The refresh of a completion: with something to offer it takes the place  *)
(* of those it clears, and the cursor stays where it is, if it can; without *)
(* anything it withdraws what it had offered itself.                        *)
Offer(choice, kind, options, clears) ==
    IF options # <<>>
    THEN [select |-> [options |-> options, cursor |-> Smaller(choice.select.cursor, Len(options) - 1)],
          active |-> (choice.active \ clears) \cup {kind}]
    ELSE IF kind \in choice.active
    THEN [select |-> NoSelect, active |-> choice.active \ {kind}]
    ELSE choice

Names(command, names, text) ==
    IF IsPrefix(command, text)
    THEN SelectSeq(names, LAMBDA name : IsPrefix(Typed(command, text), name))
    ELSE <<>>

RefreshSlash(choice, text) == Offer(choice, "slash", Hints(text), {"model", "switch"})
RefreshModel(choice, text) == Offer(choice, "model", Names(ModelCommand, Profiles, text), {"slash", "switch"})
RefreshSwitch(choice, text, count) ==
    Offer(choice, "switch", Names(SwitchCommand, SubSeq(SessionIds, 1, count), text), {"slash"})
RefreshNames(choice, text) == RefreshSwitch(RefreshModel(choice, text), text, known)

Choice == [select |-> select, active |-> completing]
Withdrawn(kind) == [select |-> NoSelect, active |-> completing \ {kind}]
Offers(choice) ==
    /\ select' = choice.select /\ completing' = choice.active
    /\ UNCHANGED <<asked, known>>

(* Left and Right refresh the commands only.                                *)
Edit ==
    /\ Presses /\ Edits
    /\ \/ /\ \/ \E c \in Chars : Len(line.text) < MaxLine /\ line' = Inserted(c)
             \/ line' = IF line.col = 0 THEN line ELSE DeletedBefore
          /\ Offers(RefreshNames(RefreshSlash(Choice, line'.text), line'.text))
       \/ /\ \/ line' = [line EXCEPT !.col = Minus(@, 1)]
             \/ line' = [line EXCEPT !.col = Smaller(@ + 1, Len(line.text))]
          /\ Offers(RefreshSlash(Choice, line.text))
    /\ UNCHANGED <<past, popup, window, draft>>

(* Enter and Tab take what is highlighted: a session, a profile, a command. *)
Highlighted == select.options[select.cursor + 1]

AcceptName(command, kind) ==
    /\ select # NoSelect
    /\ line' = SetFromString(command \o <<" ">> \o Highlighted)
    /\ Offers(Withdrawn(kind))

AcceptCommand ==
    /\ "slash" \in completing /\ select # NoSelect
    /\ line' = SetFromString(Highlighted \o <<" ">>)
    /\ Offers(RefreshNames(Withdrawn("slash"), line'.text))

(* Tab completes the only command that starts with what is typed.           *)
Autocomplete ==
    /\ "slash" \notin completing
    /\ Len(Hints(line.text)) = 1
    /\ line' = SetFromString(Hints(line.text)[1] \o <<" ">>)
    /\ Offers(RefreshSlash(Choice, line'.text))

Accept ==
    /\ Presses /\ Edits
    /\ IF "switch" \in completing THEN AcceptName(SwitchCommand, "switch")
       ELSE IF "model" \in completing THEN AcceptName(ModelCommand, "model")
       ELSE AcceptCommand \/ Autocomplete
    /\ UNCHANGED <<past, popup, window, draft>>

(* submit_input, without a question. *)
SubmitLine ==
    /\ Presses /\ Keys /\ ~asked
    /\ completing \subseteq {"slash"} /\ (completing # {} => select = NoSelect)
    /\ NotBlank(line.text) # {}
    /\ line' = SetFromString(<<>>)
    /\ past' = [texts |-> Append(past.texts, Trim(line.text)), index |-> None, saved |-> <<>>]
    /\ Offers([select |-> NoSelect, active |-> {}])
    /\ draft' = NoDraft
    /\ UNCHANGED <<popup, window>>

\* Mutant: every step back in the history saves the line again.
PrevSavesAlways(i) == [past EXCEPT !.index = i, !.saved = line.text]

(* history_prev and history_next. *)
Prev(i) == [past EXCEPT !.index = i, !.saved = IF past.index = None THEN line.text ELSE @]

HistoryPrev ==
    /\ past.texts # <<>>
    /\ LET i == IF past.index = None THEN Len(past.texts) ELSE IF past.index = 1 THEN 1 ELSE past.index - 1
       IN past' = Prev(i) /\ line' = SetFromString(past.texts[i])
    /\ draft' = IF past.index = None THEN [text |-> line.text, back |-> TRUE] ELSE draft
    /\ UNCHANGED choiceVars

HistoryNext ==
    /\ past.index # None
    /\ IF past.index < Len(past.texts)
       THEN /\ past' = [past EXCEPT !.index = @ + 1]
            /\ line' = SetFromString(past.texts[past.index + 1])
            /\ UNCHANGED draft
       ELSE /\ past' = [past EXCEPT !.index = None, !.saved = <<>>]
            /\ line' = SetFromString(past.saved)
            /\ draft' = [text |-> <<>>, back |-> past.saved = draft.text]
    /\ UNCHANGED choiceVars

(* option_cursor_up, option_cursor_down, preview_slash_command_option.      *)
MoveCursor(cursor) ==
    LET moved == [Choice EXCEPT !.select.cursor = cursor]
        text == select.options[cursor + 1]
    IN /\ IF "slash" \in completing
          THEN line' = SetFromString(text) /\ Offers(RefreshNames(moved, text))
          ELSE Offers(moved) /\ UNCHANGED line
       /\ UNCHANGED <<past, draft>>

UpOrDown ==
    /\ Presses /\ Keys
    /\ IF select # NoSelect
       THEN \/ MoveCursor(Minus(select.cursor, 1))
            \/ MoveCursor(Smaller(select.cursor + 1, Len(select.options) - 1))
       ELSE HistoryPrev \/ HistoryNext
    /\ UNCHANGED <<popup, window>>

(* A question's options, or that it has none, replace those of a completion *)
(* that was open. One question at a time.                                   *)
AskQuestion ==
    /\ Presses /\ ~asked
    /\ asked' = TRUE
    /\ select' \in {[options |-> Options, cursor |-> 0], NoSelect}
    /\ UNCHANGED <<line, past, completing, known, popup, window, draft>>

(* Enter answers, but "Other..." only closes the options, and so does Esc.  *)
AnswerQuestion ==
    /\ Presses /\ Keys /\ Choosing
    /\ select' = NoSelect
    /\ asked' \in {asked, FALSE}
    /\ UNCHANGED <<line, past, completing, known, popup, window, draft>>

(* observe_session_notification: another session is a candidate.            *)
SessionAppears ==
    /\ known < Len(SessionIds)
    /\ known' = known + 1
    /\ LET choice == RefreshSwitch(Choice, line.text, known + 1)
       IN select' = choice.select /\ completing' = choice.active
    /\ UNCHANGED <<line, past, asked, popup, window, draft, presses>>

----------------------------------------------------------------------------
(* The popups. *)
Tabs == <<"history", "tools", "skills", "plans">>
TabAt(tab) == CHOOSE i \in 1..Len(Tabs) : Tabs[i] = tab
Count == IF popup.kind = "unwind" THEN Counts.unwind
         ELSE IF popup.kind = "context" /\ popup.tab # "plans" THEN Counts[popup.tab] ELSE 0

(* What a popup's key did, and the frame that follows it.                   *)
Turns(p) ==
    /\ Presses /\ popup.kind # "none"
    /\ popup' = DrawPopup(p, window.rows)
    /\ UNCHANGED <<line, past, choiceVars, window, draft>>

OpenPopup ==
    /\ Presses /\ Keys /\ ~Choosing
    /\ \E kind \in Popups :
         popup' = DrawPopup([NoPopup EXCEPT
                      !.kind = kind, !.selected = IF kind = "unwind" THEN Minus(Counts.unwind, 1) ELSE 0],
                            window.rows)
    /\ UNCHANGED <<line, past, choiceVars, window, draft>>

ClosePopup == Turns(NoPopup)

OtherTab(tab) == [popup EXCEPT !.tab = tab, !.selected = 0, !.offset = 0]
SwitchTab ==
    LET i == TabAt(popup.tab)
    IN \/ /\ popup.kind = "ps"
          /\ Turns(OtherTab(IF popup.tab = "history" THEN "tools" ELSE "history"))
       \/ /\ popup.kind = "context"
          /\ \E j \in {(i % Len(Tabs)) + 1, ((i + Len(Tabs) - 2) % Len(Tabs)) + 1} : Turns(OtherTab(Tabs[j]))

Selects(i) == Turns([popup EXCEPT !.selected = i, !.offset = 0])
ScrollsTo(offset) == Turns([popup EXCEPT !.offset = offset])
Everything == 99    \* u16::MAX

(* Up and Down go round in /context, and stop at the ends when unwinding.   *)
MoveEntry ==
    IF Count = 0
    THEN popup.kind # "unwind" /\ \E to \in {Minus(popup.offset, 1), popup.offset + 1} : ScrollsTo(to)
    ELSE IF popup.kind = "context"
    THEN \E i \in {(popup.selected + Count - 1) % Count, (popup.selected + 1) % Count} : Selects(i)
    ELSE \E i \in {Minus(popup.selected, 1), Smaller(popup.selected + 1, Count - 1)} : Selects(i)

(* PageUp, PageDown and the wheel: by entries when unwinding, else by rows. *)
PageStep == IF window.rows > 1 THEN window.rows - 1 ELSE 1
WheelStep == IF window.rows \div 3 > 3 THEN window.rows \div 3 ELSE 3
TurnPage(step) ==
    IF popup.kind = "unwind"
    THEN Count > 0 /\ \E i \in {Minus(popup.selected, step), Smaller(popup.selected + step, Count - 1)} : Selects(i)
    ELSE \E to \in {Minus(popup.offset, step), Smaller(popup.offset + step, Everything)} : ScrollsTo(to)

(* End shows the first row of the last entry, but the last row of /ps.      *)
HomeOrEnd ==
    IF popup.kind = "ps" THEN ScrollsTo(0) \/ ScrollsTo(Everything)
    ELSE IF Count > 0 THEN Selects(0) \/ Selects(Count - 1) ELSE ScrollsTo(0)

ResizeWindow ==
    /\ Presses
    /\ \E size \in Layouts \ {window} :
         /\ window' = size
         /\ popup' = DrawPopup(popup, size.rows)
    /\ UNCHANGED <<line, past, choiceVars, draft>>

PanelsNext ==
    \/ Edit \/ Accept \/ SubmitLine \/ UpOrDown \/ AskQuestion \/ AnswerQuestion \/ SessionAppears
    \/ OpenPopup \/ ClosePopup \/ SwitchTab \/ MoveEntry \/ HomeOrEnd \/ ResizeWindow
    \/ \E step \in {WheelStep, PageStep} : TurnPage(step)

PanelsSpec == PanelsInit /\ [][PanelsNext]_panelVars

(***************************************************************************)
(* The cursor is drawn where the next character of the line is drawn: three *)
(* computations that divide the line into rows agree (wrap_input_lines,     *)
(* input_cursor_position, input_content_rows). A line that is taller than   *)
(* the box can become is cut below, and the cursor waits on the last row.   *)
(* Excepted are a wide character that is wrapped early and a label wider    *)
(* than the window.                                                         *)
NextAt == Placed(Append(line.text, "x"), window.width)[line.col + 1]
RowIsDrawn == NextAt.row + 1 <= Minus(InputHeight, 2)

CursorFollowsText ==
    (\A i \in 1..Len(line.text) : line.text[i] # "wide") /\ Label <= window.width =>
        /\ DrawnCursor.col = NextAt.used
        /\ IF RowIsDrawn THEN DrawnCursor.row = NextAt.row + 1
           ELSE InputHeight = MostRows /\ DrawnCursor.row = Minus(MostRows, 2)

(***************************************************************************)
(* What one would expect and the code does not keep: whatever is typed, the *)
(* row with the cursor's character is drawn.                                *)
CursorRowIsDrawn == RowIsDrawn

(***************************************************************************)
(* What is highlighted, and would be taken by Enter, is among the rows that *)
(* are drawn, and a popup's text is not scrolled past its end               *)
(* (option_window_bounds, context_list_scroll, render_wrapped_lines).       *)
HighlightIsShown ==
    /\ select # NoSelect /\ OptionRows > 0 =>
           LET start == OptionStart(Len(select.options), select.cursor, OptionRows)
           IN select.cursor \in start..(start + OptionRows - 1)
    /\ Count > 0 =>
           LET start == IF popup.kind = "unwind" THEN popup.offset ELSE ListScroll(popup.selected, Count, window.rows)
           IN popup.selected < Count /\ popup.selected \in start..(start + window.rows - 1)
    /\ popup.kind # "unwind" => popup.offset <= Minus(DetailSize, window.rows)

(***************************************************************************)
(* features/008: what was being typed is there again after going through    *)
(* the history (history_prev, history_next, submit_input).                  *)
DraftSurvivesHistory == draft.back
=============================================================================
