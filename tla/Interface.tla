----------------------------- MODULE Interface -----------------------------
(***************************************************************************)
(* The terminal interface: a reducer over the events of the runtime, and a *)
(* loop that offers every key to one handler after the other until one     *)
(* takes it.  A handler that does not take a key may still have moved a    *)
(* cursor or a screen, so each one is an operator from the state and the   *)
(* key to the state, what is sent, and whether the key is used up.         *)
(*                                                                         *)
(* Wording, scrolling, selection by mouse and the transcript are left out; *)
(* Composer has the prompt's text.                                         *)
(***************************************************************************)
EXTENDS Naturals, Sequences, SequencesExt

CONSTANTS
  MaxEvents,      \* events after boot
  MaxConflicts    \* files of a merge conflict

ASSUME InterfaceAssumption == MaxEvents \in Nat /\ MaxConflicts \in Nat \ {0}

VARIABLES
  ui,             \* AppState
  eventsSeen      \* events so far

interfaceVars == <<ui, eventsSeen>>

Closed == [view |-> "closed", pick |-> 0]
Popup(view) == [view |-> view, pick |-> 0]
NoForm == [step |-> "none", http |-> FALSE, keyed |-> FALSE, typed |-> {}]
NoConflict == [open |-> FALSE, pick |-> 1, resolved |-> {}]

Blank == [
  screen |-> "boot", model |-> FALSE, models |-> FALSE, sessions |-> FALSE,
  flow |-> FALSE,           \* model_flow_pending_effort
  chosen |-> FALSE,         \* pending_model is some
  credential |-> FALSE,     \* credential_input is not empty
  activity |-> FALSE, queued |-> FALSE, blocking |-> FALSE,
  permission |-> FALSE, guided |-> 0, choice |-> 0, removal |-> FALSE,
  confirm |-> "none", conflict |-> NoConflict, undo |-> FALSE,
  update |-> "none", no |-> FALSE, later |-> FALSE,
  help |-> FALSE, skills |-> Closed, mcp |-> Closed, form |-> NoForm,
  agents |-> Closed, setting |-> 0, gone |-> FALSE]

Letters == {"y", "n", "one", "two", "o", "t", "c", "f", "d", "r"}
Keys == Letters \cup {"enter", "esc", "up", "down", "right", "space", "back", "backtab"}

\* What Enter may submit in the composer; "other" is any command that only sends.
Submissions == {"prompt", "review", "model", "effort", "settings", "resume", "help",
                "skills", "mcp", "agents", "removal", "exit", "other"}

-----------------------------------------------------------------------------
(* Outcomes of a handler *)

Pass(u) == [ui |-> u, stop |-> FALSE, sent |-> <<>>]
Taken(u) == [Pass(u) EXCEPT !.stop = TRUE]
Sends(u, command) == [Taken(u) EXCEPT !.sent = <<command>>]

\* A card that is open answers the keys it knows and lets the others through.
Card(u, open, keys, shut, k) ==
  IF open /\ k \in DOMAIN keys THEN Sends(shut, keys[k]) ELSE Pass(u)

BeginRun(u) == [u EXCEPT !.activity = TRUE]

Earlier(pick) == IF pick = 0 THEN 0 ELSE pick - 1

-----------------------------------------------------------------------------
(* The reducer *)

Covered(u) ==
  \/ u.permission \/ u.removal \/ u.confirm # "none" \/ u.conflict.open \/ u.undo

\* The slot's prompt starts the next run in the same step.
Dequeue(u) == [u EXCEPT !.queued = FALSE, !.activity = u.queued]

ShowQueuedUpdate(u) ==
  IF u.later /\ u.screen = "chat" /\ ~Covered(u) /\ u.update = "none"
  THEN [u EXCEPT !.update = "prompt", !.no = FALSE, !.later = FALSE] ELSE u

RunEnded(u) == Dequeue(ShowQueuedUpdate(u))

UpdateAvailable(u) ==
  IF u.screen = "chat" /\ ~u.activity /\ ~Covered(u)
  THEN [u EXCEPT !.update = "prompt", !.no = FALSE]
  ELSE [u EXCEPT !.later = TRUE]

\* Events that only choose a screen.
ScreenOf == [CredentialRequired |-> "onboarding", CredentialValidationFailed |-> "onboarding",
             ModelsAvailable |-> "models", ModelSelected |-> "chat",
             ReasoningEffortChanged |-> "chat", SessionSwitched |-> "chat",
             SessionResumeFailed |-> "chat"]

AgentsView(u, view) == [u EXCEPT !.agents = Popup(view)]

Apply(u, e) ==
  CASE e \in DOMAIN ScreenOf ->
         [u EXCEPT !.screen = ScreenOf[e], !.model = @ \/ e = "ModelSelected",
                   !.models = @ \/ e = "ModelsAvailable"]
    [] e = "SessionListAvailable" -> [u EXCEPT !.sessions = TRUE]
    [] e = "AgentStateChanged" -> BeginRun(u)
    [] e = "ProviderFailed" -> Dequeue(u)
    [] e = "AgentCompleted" -> RunEnded(u)
    [] e \in {"AgentCancelled", "AgentStopped"} -> RunEnded([u EXCEPT !.permission = FALSE])
    [] e = "BlockingError" -> [u EXCEPT !.activity = FALSE, !.blocking = TRUE]
    [] e = "UpdateAvailable" -> UpdateAvailable(u)
    [] e = "UpdateReady" -> [u EXCEPT !.update = IF @ = "none" THEN @ ELSE "completed"]
    [] e = "UpdateFailed" -> [u EXCEPT !.update = IF @ = "none" THEN @ ELSE "failed"]
    [] e = "ExitForUpdate" -> [u EXCEPT !.gone = TRUE]
    [] e = "PermissionRequested" -> [u EXCEPT !.permission = TRUE]
    [] e = "AgentDiffReady" -> [u EXCEPT !.confirm = "apply"]
    [] e = "AgentCleanupWarning" -> [u EXCEPT !.confirm = "cleanup"]
    [] e = "AgentDetailAvailable" -> AgentsView(u, "detail")
    [] e = "AgentDetailMissing" -> AgentsView(u, "closed")
    [] e = "AgentMergeConflict" -> [u EXCEPT !.conflict = [NoConflict EXCEPT !.open = TRUE]]
    [] e = "AgentMergeFinished" -> [u EXCEPT !.conflict = NoConflict]
    [] e = "UndoConflict" -> [u EXCEPT !.undo = TRUE]

\* Mutant: the cursor stays where the question before it left it.
QuestionKeepsCursor(u, choices, recommended) == [u EXCEPT !.guided = choices]

GuidedQuestionRequested(u, choices, recommended) ==
  [u EXCEPT !.guided = choices, !.choice = recommended]

AgentConflictFileResolved(u, file) ==
  IF u.conflict.open THEN [u EXCEPT !.conflict.resolved = @ \cup {file}] ELSE u

Events == DOMAIN ScreenOf \cup
  {"SessionListAvailable", "AgentStateChanged", "ProviderFailed", "AgentCompleted",
   "AgentCancelled", "AgentStopped", "BlockingError", "UpdateAvailable", "UpdateReady",
   "UpdateFailed", "ExitForUpdate", "PermissionRequested", "AgentDiffReady",
   "AgentCleanupWarning", "AgentDetailAvailable", "AgentDetailMissing",
   "AgentMergeConflict", "AgentMergeFinished", "UndoConflict"}

\* What the command loop sends only in answer to the interface.
Expected(u, e) ==
  /\ e \in {"UpdateReady", "UpdateFailed"} => u.update = "downloading"
  /\ e = "ExitForUpdate" => u.update = "completed"
  /\ e = "AgentMergeFinished" => u.conflict.open

-----------------------------------------------------------------------------
(* Cards *)

HandleInterrupt(u, k) == Card(u, u.activity, [esc |-> "cancel"], u, k)

HandlePermission(u, k) ==
  Card(u, u.permission,
       [one |-> "once", y |-> "once", enter |-> "once", two |-> "always",
        n |-> "deny", esc |-> "deny"],
       [u EXCEPT !.permission = FALSE], k)

\* Up and Down move the cursor and go on to the handlers below.
HandleGuided(u, k) ==
  IF u.guided > 0 /\ k \in {"up", "down"}
  THEN Pass([u EXCEPT !.choice = IF k = "up" THEN Earlier(@)
                                 ELSE IF @ + 1 < u.guided THEN @ + 1 ELSE @])
  ELSE Card(u, u.guided > 0, [enter |-> "answer", esc |-> "answer"],
            [u EXCEPT !.guided = 0, !.choice = 0], k)

Decisions == [y |-> "yes", enter |-> "yes", n |-> "no", esc |-> "no"]

HandleRemoval(u, k) == Card(u, u.removal, Decisions, [u EXCEPT !.removal = FALSE], k)

HandleConfirm(u, k) ==
  Card(u, u.confirm # "none", Decisions, [u EXCEPT !.confirm = "none"], k)

HandleConflict(u, k) ==
  LET c == u.conflict
  IN  CASE ~c.open -> Pass(u)
        [] c.open /\ k = "up" -> Taken([u EXCEPT !.conflict.pick = IF @ > 1 THEN @ - 1 ELSE @])
        [] c.open /\ k = "down" ->
             Taken([u EXCEPT !.conflict.pick = IF @ < MaxConflicts THEN @ + 1 ELSE @])
        [] c.open /\ k \in {"o", "t"} -> Sends(u, "resolve")
        [] c.open /\ k = "enter" /\ c.resolved = 1 .. MaxConflicts -> Sends(u, "finish")
        [] c.open /\ k \in {"esc", "c"} -> Sends(u, "abort")
        [] OTHER -> Taken(u)

HandleUndo(u, k) ==
  IF u.undo /\ k = "d" THEN Taken(u)
  ELSE Card(u, u.undo, [f |-> "force", c |-> "kept", esc |-> "kept"],
            [u EXCEPT !.undo = FALSE], k)

\* Once open, the update card takes every key.
HandleUpdate(u, k) ==
  LET rejects == k \in {"n", "esc"} \/ (k = "enter" /\ u.no)
      accepts == k = "y" \/ (k = "enter" /\ ~u.no)
      closes == k \in {"enter", "esc", "space"}
  IN  CASE u.update = "none" -> Pass(u)
        [] u.update = "prompt" /\ rejects -> Sends([u EXCEPT !.update = "none"], "reject")
        [] u.update = "prompt" /\ accepts -> Sends([u EXCEPT !.update = "downloading"], "accept")
        [] u.update = "prompt" /\ k \in {"right", "backtab"} -> Taken([u EXCEPT !.no = ~@])
        [] u.update = "completed" /\ closes -> Sends(u, "restart")
        [] u.update = "failed" /\ closes -> Taken([u EXCEPT !.update = "none"])
        [] OTHER -> Taken(u)

-----------------------------------------------------------------------------
(* Screens *)

\* Mutant: what is typed must be deleted before Esc leaves the screen.
OnboardingHolds(u, k) ==
  CASE u.screen # "onboarding" -> Pass(u)
    [] u.screen = "onboarding" /\ k \in Letters -> Pass([u EXCEPT !.credential = TRUE])
    [] u.screen = "onboarding" /\ k = "esc" /\ u.model /\ ~u.credential ->
         Pass([u EXCEPT !.screen = "chat"])
    [] OTHER -> Pass(u)

\* Leaving with Esc lets the key through to whatever is below.
HandleOnboarding(u, k) ==
  CASE u.screen # "onboarding" -> Pass(u)
    [] u.screen = "onboarding" /\ k \in Letters \cup {"space"} ->
         Pass([u EXCEPT !.credential = TRUE])
    [] u.screen = "onboarding" /\ k = "back" -> Pass([u EXCEPT !.credential = FALSE])
    [] u.screen = "onboarding" /\ k = "enter" /\ u.credential ->
         Sends([u EXCEPT !.credential = FALSE], "credential")
    [] u.screen = "onboarding" /\ k = "esc" /\ u.model ->
         Pass([u EXCEPT !.credential = FALSE, !.screen = "chat"])
    [] OTHER -> Pass(u)

HandleModelPicker(u, k) ==
  CASE u.screen # "models" -> Pass(u)
    [] u.screen = "models" /\ k = "enter" /\ u.models /\ u.flow ->
         Taken([u EXCEPT !.chosen = TRUE, !.screen = "effort"])
    [] u.screen = "models" /\ k = "enter" /\ u.models /\ ~u.flow -> Sends(u, "select")
    [] u.screen = "models" /\ k = "esc" /\ u.model ->
         Taken([u EXCEPT !.flow = FALSE, !.screen = "chat"])
    [] OTHER -> Pass(u)

HandleSettings(u, k) ==
  LET left == [u EXCEPT !.setting = 0]
  IN  CASE u.screen # "settings" -> Pass(u)
        [] u.screen = "settings" /\ k = "up" -> Taken([u EXCEPT !.setting = Earlier(@)])
        [] u.screen = "settings" /\ k = "down" -> Taken([u EXCEPT !.setting = IF @ < 2 THEN @ + 1 ELSE 2])
        [] u.screen = "settings" /\ k = "enter" ->
             Taken(CASE u.setting = 0 -> [left EXCEPT !.screen = "onboarding", !.credential = FALSE]
                     [] u.setting = 1 -> [left EXCEPT !.screen = "models", !.flow = FALSE]
                     [] OTHER -> [left EXCEPT !.screen = "effort"])
        [] u.screen = "settings" /\ k = "esc" -> Taken([left EXCEPT !.screen = "chat"])
        [] OTHER -> Taken(u)

\* Confirming or leaving the picker sends the model chosen before it, if any.
HandleEffortPicker(u, k) ==
  LET model == IF u.chosen THEN <<"select">> ELSE <<>>
      done == [u EXCEPT !.chosen = FALSE, !.flow = @ /\ ~u.chosen]
  IN  CASE u.screen # "effort" -> Pass(u)
        [] u.screen = "effort" /\ k = "enter" ->
             [Taken(done) EXCEPT !.sent = Append(model, "effort")]
        [] u.screen = "effort" /\ k = "esc" ->
             [ui |-> [done EXCEPT !.screen = "chat"], stop |-> u.chosen, sent |-> model]
        [] OTHER -> Pass(u)

HandleSessionPicker(u, k) ==
  CASE u.screen # "sessions" -> Pass(u)
    [] u.screen = "sessions" /\ k = "enter" /\ u.sessions -> Sends(u, "resume")
    [] u.screen = "sessions" /\ k = "esc" /\ u.model -> Pass([u EXCEPT !.screen = "chat"])
    [] OTHER -> Pass(u)

-----------------------------------------------------------------------------
(* Popups *)

HandleHelp(u, k) ==
  IF u.help THEN Taken([u EXCEPT !.help = @ /\ k \notin {"esc", "enter"}]) ELSE Pass(u)

HandleSkills(u, k) ==
  LET s == u.skills
      at(next) == Taken([u EXCEPT !.skills = next])
  IN  CASE s.view = "closed" -> Pass(u)
        [] s.view = "menu" /\ k \in {"up", "down"} -> at([s EXCEPT !.pick = 1 - @])
        [] s.view = "menu" /\ k = "enter" -> at(Popup(IF s.pick = 0 THEN "list" ELSE "toggle"))
        [] s.view = "menu" /\ k = "esc" -> at(Closed)
        [] s.view = "list" /\ k \in {"esc", "enter"} -> at(Popup("menu"))
        [] s.view = "toggle" /\ k = "esc" -> at(Popup("menu"))
        [] s.view = "toggle" /\ k \in {"enter", "space"} -> Sends(u, "toggle")
        [] OTHER -> Taken(u)

HandleAgents(u, k) ==
  LET view == u.agents.view
  IN  CASE view = "closed" -> Pass(u)
        [] view = "list" /\ k \in {"enter", "right"} -> Taken(AgentsView(u, "detail"))
        [] view = "list" /\ k = "esc" -> Taken(AgentsView(u, "closed"))
        [] view = "detail" /\ k = "esc" -> Taken(AgentsView(u, "list"))
        [] view = "detail" /\ k = "n" -> Taken(AgentsView(u, "closed"))
        [] view \in {"list", "detail"} /\ k = "r" -> Sends(u, "list")
        [] OTHER -> Taken(u)

\* The wizard that adds a server: the field of each step, the step after it, and
\* the step Esc goes back to.
Endpoint(f) == IF f.http THEN "url" ELSE "command"
Forward(f) == [name |-> "transport", transport |-> Endpoint(f), url |-> "auth",
               command |-> "auth", auth |-> IF f.keyed THEN "key" ELSE "done", key |-> "done"]
Backward(f) == [name |-> "none", transport |-> "name", url |-> "transport",
                command |-> "transport", auth |-> Endpoint(f), key |-> "auth"]
Fields == {"name", "url", "command", "key"}

FormKey(f, k) ==
  CASE k = "esc" -> [f EXCEPT !.step = Backward(f)[f.step]]
    [] k = "enter" /\ f.step \in Fields \ f.typed -> f
    [] k = "enter" /\ f.step \notin Fields \ f.typed -> [f EXCEPT !.step = Forward(f)[f.step]]
    [] f.step \in Fields /\ k \in Letters \cup {"space"} -> [f EXCEPT !.typed = @ \cup {f.step}]
    [] f.step \in Fields /\ k = "back" -> [f EXCEPT !.typed = @ \ {f.step}]
    [] f.step = "transport" /\ k \in {"up", "down", "right"} -> [f EXCEPT !.http = ~@]
    [] f.step = "auth" /\ k \in {"up", "down", "right"} -> [f EXCEPT !.keyed = ~@]
    [] OTHER -> f

\* A draft is cleared when the wizard is entered, so none is kept outside it.
HandleForm(u, k) ==
  LET f == FormKey(u.form, k)
      left == [u EXCEPT !.mcp = Popup("menu"), !.form = NoForm]
  IN  CASE f.step = "done" -> Sends(left, [f EXCEPT !.step = "add"])
        [] f.step = "none" -> Taken([left EXCEPT !.mcp.pick = 1])
        [] OTHER -> Taken([u EXCEPT !.form = f])

HandleMcp(u, k) ==
  LET m == u.mcp
      at(next) == Taken([u EXCEPT !.mcp = next])
  IN  CASE m.view = "closed" -> Pass(u)
        [] m.view = "add" -> HandleForm(u, k)
        [] m.view = "menu" /\ k \in {"up", "down"} -> at([m EXCEPT !.pick = 1 - @])
        [] m.view = "menu" /\ k = "enter" /\ m.pick = 0 -> at(Popup("servers"))
        [] m.view = "menu" /\ k = "enter" /\ m.pick # 0 ->
             Taken([u EXCEPT !.mcp = Popup("add"), !.form = [NoForm EXCEPT !.step = "name"]])
        [] m.view = "menu" /\ k = "esc" -> at(Closed)
        [] m.view = "servers" /\ k = "right" -> at(Popup("server"))
        [] m.view = "servers" /\ k = "enter" -> Sends(u, "connect")
        [] m.view = "servers" /\ k = "o" -> Sends(u, "authorize")
        [] m.view = "servers" /\ k = "esc" -> at(Popup("menu"))
        [] m.view = "server" /\ k \in {"esc", "enter"} -> at(Popup("servers"))
        [] OTHER -> Taken(u)

-----------------------------------------------------------------------------
(* The composer, and what is left of a key at the end *)

Focused(u) ==
  u.screen = "chat" /\ ~u.blocking /\ ~Covered(u) /\ u.guided = 0

HandlePermissionMode(u, k) ==
  Card(u, Focused(u) /\ u.update = "none", [backtab |-> "mode"], u, k)

Submit(u, s) ==
  CASE s = "prompt" /\ u.activity -> Pass([u EXCEPT !.queued = TRUE])
    [] s = "review" \/ (s = "prompt" /\ ~u.activity) -> Sends(BeginRun(u), "submit")
    [] s = "model" -> Taken([u EXCEPT !.screen = "models", !.flow = TRUE])
    [] s = "effort" -> Taken([u EXCEPT !.screen = "effort", !.flow = FALSE, !.chosen = FALSE])
    [] s = "settings" -> Taken([u EXCEPT !.screen = "settings", !.setting = 0])
    [] s = "resume" -> Sends([u EXCEPT !.screen = "sessions"], "sessions")
    [] s = "help" -> Taken([u EXCEPT !.help = TRUE])
    [] s = "skills" -> Taken([u EXCEPT !.skills = Popup("menu")])
    [] s = "mcp" -> Taken([u EXCEPT !.mcp = Popup("menu")])
    [] s = "agents" -> Sends(AgentsView(u, "list"), "list")
    [] s = "removal" -> Taken([u EXCEPT !.removal = TRUE])
    [] s = "exit" -> Sends([u EXCEPT !.gone = TRUE], "exit")
    [] s = "other" -> Sends(u, "other")

HandleChat(u, k, s) ==
  IF Focused(u) /\ u.update = "none" /\ k = "enter" THEN Submit(u, s) ELSE Pass(u)

HandleEscape(u, k) == Card(u, Focused(u), [esc |-> "cancel"], u, k)

\* A key goes on only while nobody took it.
Or(out, Handler(_, _), k) == IF out.stop THEN out ELSE Handler(out.ui, k)

OfferCards(u, k) ==
  Or(Or(Or(HandleInterrupt(u, k), HandlePermission, k), HandleGuided, k), HandleRemoval, k)

OfferNotices(u, k) ==
  Or(Or(Or(Or(OfferCards(u, k), HandleConfirm, k), HandleConflict, k), HandleUndo, k),
     HandleUpdate, k)

OfferScreens(u, k) ==
  Or(Or(Or(OfferNotices(u, k), HandleOnboarding, k), HandleModelPicker, k), HandleSettings, k)

OfferPickers(u, k) ==
  Or(Or(Or(OfferScreens(u, k), HandleEffortPicker, k), HandleSessionPicker, k),
     HandlePermissionMode, k)

OfferPopups(u, k) ==
  Or(Or(Or(Or(OfferPickers(u, k), HandleHelp, k), HandleSkills, k), HandleMcp, k),
     HandleAgents, k)

Route(u, k, s) ==
  LET out == OfferPopups(u, k)
  IN  Or(IF out.stop THEN out ELSE HandleChat(out.ui, k, s), HandleEscape, k)

-----------------------------------------------------------------------------
\* Bound: the wizard, with its many drafts, comes with one event fewer.
Bounded == ui'.mcp.view = "add" => eventsSeen' < MaxEvents

Boot ==
  /\ ui.screen = "boot"
  /\ ui' \in {[ui EXCEPT !.screen = "chat", !.model = TRUE, !.models = TRUE],
              [ui EXCEPT !.screen = "onboarding"]}
  /\ UNCHANGED eventsSeen

Receive ==
  /\ ~ui.gone /\ ui.screen # "boot" /\ eventsSeen < MaxEvents
  /\ \/ \E e \in Events : Expected(ui, e) /\ ui' = Apply(ui, e)
     \/ \E choices \in {2, 3} : \E recommended \in 0 .. choices - 1 :
          ui' = GuidedQuestionRequested(ui, choices, recommended)
     \/ \E file \in 1 .. MaxConflicts :
          ui.conflict.open /\ ui' = AgentConflictFileResolved(ui, file)
  /\ eventsSeen' = eventsSeen + 1
  /\ Bounded

Press ==
  /\ ~ui.gone /\ ui.screen # "boot"
  /\ \E k \in Keys : \E s \in IF k = "enter" /\ Focused(ui) THEN Submissions ELSE {"other"} :
       ui' = Route(ui, k, s).ui
  /\ UNCHANGED eventsSeen
  /\ Bounded

\* Twice within the window; a first press only says so.
CtrlC ==
  /\ ~ui.gone
  /\ ui' = [ui EXCEPT !.gone = TRUE]
  /\ UNCHANGED eventsSeen

InterfaceInit == ui = Blank /\ eventsSeen = 0

InterfaceNext == Boot \/ Receive \/ Press \/ CtrlC

InterfaceSpec == InterfaceInit /\ [][InterfaceNext]_interfaceVars

-----------------------------------------------------------------------------
(* Properties *)

Escaped(u) ==
  LET out == Route(u, "esc", "other")
  IN  IF out.sent = <<"abort">> THEN Apply(out.ui, "AgentMergeFinished") ELSE out.ui

\* How many times Esc has something to close.
Depth(u) ==
  LET one(open) == IF open THEN 1 ELSE 0
      skills == [closed |-> 0, menu |-> 1, list |-> 2, toggle |-> 2]
      agents == [closed |-> 0, list |-> 1, detail |-> 2]
      mcp == [closed |-> 0, menu |-> 1, servers |-> 2, server |-> 3, add |-> 1]
      form == [none |-> 0, name |-> 1, transport |-> 2, url |-> 3, command |-> 3,
               auth |-> 4, key |-> 5]
  IN  one(u.screen # "chat") + one(u.permission) + one(u.guided > 0) + one(u.removal)
      + one(u.confirm # "none") + one(u.conflict.open) + one(u.undo)
      + one(u.update # "none") + one(u.help) + skills[u.skills.view]
      + agents[u.agents.view] + mcp[u.mcp.view] + form[u.form.step]

\* EscapeFrees: with no run active, pressing Esc leads from every combination of
\* screens, cards and popups back to the bare conversation, closing something
\* each time; a merge's abort is answered. Left out: the first start without a
\* model, the download, which cannot be stopped, its end, which restarts, and
\* the blocking error, which nothing dismisses.
EscapeFrees ==
  /\ ui.model /\ ~ui.activity /\ ~ui.blocking /\ ~ui.gone
  /\ ui.update \notin {"downloading", "completed"} /\ Depth(ui) > 0
  => Depth(Escaped(ui)) < Depth(ui)

\* ChoiceInRange: Enter on a guided question indexes its choices with the cursor,
\* which an earlier question with more choices may have moved.
ChoiceInRange == ui.guided > 0 => ui.choice < ui.guided

\* ErrorDismissed: a blocking error suppresses chat input "until dismissed", as the
\* name of a test says; no key and no event takes it away.
ErrorDismissed == ui.blocking => \E k \in Keys : ~Route(ui, k, "other").ui.blocking

\* The card that render_chat draws, of those that are open.
Owner(u) ==
  CASE u.screen # "chat" -> "screen"
    [] u.screen = "chat" /\ u.permission -> "permission"
    [] u.screen = "chat" /\ ~u.permission /\ u.guided > 0 -> "guided"
    [] OTHER -> "other"

\* OneOwner: "Only one modal should own interaction at a time", docs/TUI.md says:
\* what is drawn is what a key answers.
OneOwner ==
  \A k \in Keys :
    LET sent == Route(ui, k, "other").sent
        c == IF sent = <<>> THEN "none" ELSE sent[1]
    IN  /\ c \in {"once", "always", "deny"} => Owner(ui) = "permission"
        /\ c \in {"force", "abort", "resolve", "yes"} => Owner(ui) = "other"

\* UpdateWaits: an update is shown after the coding task, not over it.
UpdateWaits ==
  [][ui.update = "none" /\ ui'.update = "prompt" => ~ui'.activity /\ ui'.guided = 0]_interfaceVars

=============================================================================
