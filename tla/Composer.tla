------------------------------ MODULE Composer ------------------------------
(***************************************************************************)
(* The prompt under the conversation: its text, its cursor, and the recall *)
(* of earlier prompts with Up and Down, which keeps the text being written *)
(* aside until the user comes back to it.                                  *)
(*                                                                         *)
(* A text is a sequence of "x" (any character), "/" and "nl".  Positions   *)
(* count characters, as in the code, which converts them to byte offsets   *)
(* at each use.                                                            *)
(***************************************************************************)
EXTENDS Naturals, Sequences, SequencesExt

CONSTANTS
  MaxText,          \* characters of a text
  MaxHistory,       \* MAX_PROMPT_HISTORY
  Questions         \* TRUE: a /debug investigation may ask something

ASSUME ComposerAssumption ==
  MaxText \in Nat \ {0, 1} /\ MaxHistory \in Nat \ {0} /\ Questions \in BOOLEAN

VARIABLES
  text, cursor,
  history,          \* prompt_history
  browsing,         \* history_cursor, counted from 1; 0 for none
  draft,            \* draft_before_history
  question          \* debug.next_question() is some

composerVars == <<text, cursor, history, browsing, draft, question>>

Command == <<"/", "x">>     \* a known slash command
NoDraft == <<>>             \* unwrap_or_default

Suggested(t) == t # <<>> /\ IsPrefix(t, Command)

LineStart(t, at) ==
  LET breaks == {i \in 1 .. at : t[i] = "nl"}
  IN  IF breaks = {} THEN 0 ELSE CHOOSE i \in breaks : \A j \in breaks : j <= i

LineEnd(t, at) ==
  LET breaks == {i \in at + 1 .. Len(t) : t[i] = "nl"}
  IN  IF breaks = {} THEN Len(t) ELSE (CHOOSE i \in breaks : \A j \in breaks : i <= j) - 1

SetChatInput(t) == text' = t /\ cursor' = Len(t)
NotBrowsing == browsing' = 0 /\ draft' = NoDraft

InsertAtCursor ==
  \E c \in {"x", "/", "nl"} :
    /\ Len(text) < MaxText
    /\ text' = SubSeq(text, 1, cursor) \o <<c>> \o SubSeq(text, cursor + 1, Len(text))
    /\ cursor' = cursor + 1
    /\ NotBrowsing
    /\ UNCHANGED <<history, question>>

BackspaceAtCursor ==
  /\ cursor > 0
  /\ text' = SubSeq(text, 1, cursor - 1) \o SubSeq(text, cursor + 1, Len(text))
  /\ cursor' = cursor - 1
  /\ NotBrowsing
  /\ UNCHANGED <<history, question>>

MoveSideways ==
  /\ cursor' \in {IF cursor = 0 THEN 0 ELSE cursor - 1,
                  IF cursor < Len(text) THEN cursor + 1 ELSE cursor}
  /\ UNCHANGED <<text, history, browsing, draft, question>>

Autocomplete ==
  /\ Suggested(text)
  /\ SetChatInput(Command) /\ NotBrowsing
  /\ UNCHANGED <<history, question>>

RecallPrevious ==
  /\ ~Suggested(text) /\ LineStart(text, cursor) = 0
  /\ history # <<>> /\ browsing # 1
  /\ browsing' = (IF browsing = 0 THEN Len(history) ELSE browsing - 1)
  /\ draft' = IF browsing = 0 THEN text ELSE draft
  /\ SetChatInput(history[browsing'])
  /\ UNCHANGED <<history, question>>

RecallNext ==
  /\ ~Suggested(text) /\ LineEnd(text, cursor) = Len(text)
  /\ browsing > 0
  /\ \/ /\ browsing < Len(history)
        /\ SetChatInput(history[browsing + 1])
        /\ browsing' = browsing + 1 /\ UNCHANGED draft
     \/ /\ browsing >= Len(history)
        /\ SetChatInput(draft) /\ NotBrowsing
  /\ UNCHANGED <<history, question>>

\* The same column of the line above or below, or that line's end.
MoveVertical ==
  /\ ~Suggested(text)
  /\ LET start == LineStart(text, cursor)
         column == cursor - start
         above == LineStart(text, start - 1)
         end == LineEnd(text, cursor)
         below == LineEnd(text, end + 1)
     IN  \/ /\ start > 0
            /\ cursor' = IF above + column < start THEN above + column ELSE start - 1
         \/ /\ end < Len(text)
            /\ cursor' = IF end + 1 + column < below THEN end + 1 + column ELSE below
  /\ UNCHANGED <<text, history, browsing, draft, question>>

Remember(t) ==
  IF history # <<>> /\ Last(history) = t THEN history
  ELSE LET longer == Append(history, t)
       IN  IF Len(longer) > MaxHistory THEN Tail(longer) ELSE longer

\* Mutant: the place in the history outlives the prompt it was recalled for.
EnterKeepsPlace ==
  /\ {text[i] : i \in DOMAIN text} \ {"nl"} # {}
  /\ text' = <<>> /\ cursor' = 0
  /\ history' = IF Suggested(text) THEN history ELSE Remember(text)
  /\ UNCHANGED <<browsing, draft, question>>

\* A command and an answer to a question are not remembered and leave the place
\* in the history as it is; a shell command is remembered like a prompt.
Enter ==
  /\ {text[i] : i \in DOMAIN text} \ {"nl"} # {}
  /\ text' = <<>> /\ cursor' = 0
  /\ IF Suggested(text) \/ question
     THEN UNCHANGED <<history, browsing, draft>>
     ELSE history' = Remember(text) /\ NotBrowsing
  /\ UNCHANGED question

DebugStateUpdated ==
  /\ Questions /\ question' = ~question
  /\ UNCHANGED <<text, cursor, history, browsing, draft>>

\* A failed prompt put back, a suggested name or the next step of a subagent.
Prefill ==
  /\ \E t \in {<<"x">>, <<"/", "x", "x">>} : Len(t) <= MaxText /\ SetChatInput(t)
  /\ NotBrowsing
  /\ UNCHANGED <<history, question>>

ComposerInit ==
  /\ text = <<>> /\ cursor = 0 /\ history = <<>>
  /\ browsing = 0 /\ draft = NoDraft /\ question = FALSE

ComposerNext ==
  \/ InsertAtCursor \/ BackspaceAtCursor \/ MoveSideways \/ Autocomplete
  \/ RecallPrevious \/ RecallNext \/ MoveVertical
  \/ Enter \/ DebugStateUpdated \/ Prefill

ComposerSpec == ComposerInit /\ [][ComposerNext]_composerVars

-----------------------------------------------------------------------------
\* BrowsedShown: while the user walks the history the prompt shows the entry the
\* place points at, the place is a valid index although the oldest entries drop
\* out, and the cursor is inside the text. With questions it fails: an answer
\* leaves the place behind, and Down brings an old draft back.
BrowsedShown ==
  /\ cursor <= Len(text)
  /\ browsing > 0 => browsing <= Len(history) /\ text = history[browsing]

=============================================================================
