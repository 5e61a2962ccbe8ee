--------------------------- MODULE TerminalProofs ---------------------------
(***************************************************************************)
(* What the user of the terminal relies on, for instances of any size: Esc *)
(* leads out of whatever is open and an answer names a choice there is,    *)
(* the prompt shows the entry of the history that was browsed to, the      *)
(* terminal and the command loop never wait for each other, and the        *)
(* question on the screen is the one its session has open.                 *)
(***************************************************************************)
EXTENDS Interface, Composer, Channels, Debug,
        SequenceTheorems, WellFoundedInduction, TLAPS

-----------------------------------------------------------------------------
(* The interface: what every handler and every event keeps                 *)

Screens == {"boot", "chat", "onboarding", "models", "effort", "sessions", "settings"}
UpdateStates == {"none", "prompt", "downloading", "completed", "failed"}
SkillsViews == {"closed", "menu", "list", "toggle"}
McpViews == {"closed", "menu", "servers", "server", "add"}
AgentViews == {"closed", "list", "detail"}
PopupType(views) == [view : views, pick : {0, 1}]
FormType == [step : {"none", "name", "transport", "url", "command", "auth", "key"},
             http : BOOLEAN, keyed : BOOLEAN, typed : SUBSET Fields]
ConflictType == [open : BOOLEAN, pick : Nat, resolved : SUBSET (1 .. MaxConflicts)]

UiType == [
  screen : Screens, model : BOOLEAN, models : BOOLEAN, sessions : BOOLEAN,
  flow : BOOLEAN, chosen : BOOLEAN, credential : BOOLEAN,
  activity : BOOLEAN, queued : BOOLEAN, blocking : BOOLEAN,
  permission : BOOLEAN, guided : Nat, choice : Nat, removal : BOOLEAN,
  confirm : {"none", "apply", "cleanup"}, conflict : ConflictType, undo : BOOLEAN,
  update : UpdateStates,
  no : BOOLEAN, later : BOOLEAN,
  help : BOOLEAN, skills : PopupType(SkillsViews),
  mcp : PopupType(McpViews), form : FormType,
  agents : PopupType(AgentViews), setting : Nat, gone : BOOLEAN]

\* Before the start is over there is no model; the cursor is on a choice of the
\* question that is asked; the wizard has a step exactly while it is open.
UiInv(u) ==
  /\ u \in UiType
  /\ u.screen = "boot" => ~u.model
  /\ u.guided > 0 => u.choice < u.guided
  /\ u.mcp.view = "add" <=> u.form.step # "none"

USE DEF UpdateStates, SkillsViews, McpViews, AgentViews

LEMMA BlankFits == UiInv(Blank)
BY DEF UiInv, UiType, Blank, Closed, NoForm, NoConflict, Screens, PopupType, FormType, ConflictType

\* A field changes within its type.
LEMMA SwitchTyped ==
  ASSUME NEW u \in UiType
  PROVE  /\ \A x \in BOOLEAN : [u EXCEPT !.model = x] \in UiType
         /\ \A x \in BOOLEAN : [u EXCEPT !.models = x] \in UiType
         /\ \A x \in BOOLEAN : [u EXCEPT !.sessions = x] \in UiType
         /\ \A x \in BOOLEAN : [u EXCEPT !.flow = x] \in UiType
         /\ \A x \in BOOLEAN : [u EXCEPT !.chosen = x] \in UiType
         /\ \A x \in BOOLEAN : [u EXCEPT !.credential = x] \in UiType
         /\ \A x \in BOOLEAN : [u EXCEPT !.activity = x] \in UiType
         /\ \A x \in BOOLEAN : [u EXCEPT !.queued = x] \in UiType
BY DEF UiType

LEMMA CardTyped ==
  ASSUME NEW u \in UiType
  PROVE  /\ \A x \in BOOLEAN : [u EXCEPT !.blocking = x] \in UiType
         /\ \A x \in BOOLEAN : [u EXCEPT !.permission = x] \in UiType
         /\ \A x \in BOOLEAN : [u EXCEPT !.removal = x] \in UiType
         /\ \A x \in BOOLEAN : [u EXCEPT !.undo = x] \in UiType
BY DEF UiType

LEMMA NoticeTyped ==
  ASSUME NEW u \in UiType
  PROVE  /\ \A x \in BOOLEAN : [u EXCEPT !.no = x] \in UiType
         /\ \A x \in BOOLEAN : [u EXCEPT !.later = x] \in UiType
         /\ \A x \in BOOLEAN : [u EXCEPT !.help = x] \in UiType
         /\ \A x \in BOOLEAN : [u EXCEPT !.gone = x] \in UiType
BY DEF UiType

LEMMA FieldTyped ==
  ASSUME NEW u \in UiType
  PROVE  /\ \A x \in Screens : [u EXCEPT !.screen = x] \in UiType
         /\ \A x \in Nat : [u EXCEPT !.guided = x] \in UiType
         /\ \A x \in Nat : [u EXCEPT !.choice = x] \in UiType
         /\ \A x \in Nat : [u EXCEPT !.setting = x] \in UiType
         /\ \A x \in {"none", "apply", "cleanup"} : [u EXCEPT !.confirm = x] \in UiType
         /\ \A x \in ConflictType : [u EXCEPT !.conflict = x] \in UiType
BY DEF UiType

LEMMA PopupTyped ==
  ASSUME NEW u \in UiType
  PROVE  /\ \A x \in UpdateStates : [u EXCEPT !.update = x] \in UiType
         /\ \A x \in PopupType(SkillsViews) : [u EXCEPT !.skills = x] \in UiType
         /\ \A x \in PopupType(McpViews) : [u EXCEPT !.mcp = x] \in UiType
         /\ \A x \in FormType : [u EXCEPT !.form = x] \in UiType
         /\ \A x \in PopupType(AgentViews) : [u EXCEPT !.agents = x] \in UiType
BY DEF UiType

LEMMA FieldTypes ==
  ASSUME NEW u \in UiType
  PROVE  /\ u.guided \in Nat /\ u.choice \in Nat /\ u.setting \in Nat
         /\ u.conflict \in ConflictType /\ u.form \in FormType
         /\ u.skills \in PopupType(SkillsViews)
         /\ u.mcp \in PopupType(McpViews)
BY DEF UiType

\* What the invariant does not mention may change.
LEMMA SwitchKept ==
  ASSUME NEW u, UiInv(u)
  PROVE  /\ \A x \in BOOLEAN : UiInv([u EXCEPT !.models = x])
         /\ \A x \in BOOLEAN : UiInv([u EXCEPT !.sessions = x])
         /\ \A x \in BOOLEAN : UiInv([u EXCEPT !.activity = x])
         /\ \A x \in BOOLEAN : UiInv([u EXCEPT !.queued = x])
         /\ \A x \in BOOLEAN : UiInv([u EXCEPT !.flow = x])
         /\ \A x \in BOOLEAN : UiInv([u EXCEPT !.chosen = x])
         /\ \A x \in BOOLEAN : UiInv([u EXCEPT !.credential = x])
<1>1. u \in UiType
  BY DEF UiInv
<1> QED
  BY <1>1, SwitchTyped DEF UiInv, UiType

LEMMA CardKept ==
  ASSUME NEW u, UiInv(u)
  PROVE  /\ \A x \in BOOLEAN : UiInv([u EXCEPT !.blocking = x])
         /\ \A x \in BOOLEAN : UiInv([u EXCEPT !.permission = x])
         /\ \A x \in BOOLEAN : UiInv([u EXCEPT !.removal = x])
         /\ \A x \in BOOLEAN : UiInv([u EXCEPT !.undo = x])
<1>1. u \in UiType
  BY DEF UiInv
<1> QED
  BY <1>1, CardTyped DEF UiInv, UiType

LEMMA NoticeKept ==
  ASSUME NEW u, UiInv(u)
  PROVE  /\ \A x \in BOOLEAN : UiInv([u EXCEPT !.no = x])
         /\ \A x \in BOOLEAN : UiInv([u EXCEPT !.later = x])
         /\ \A x \in BOOLEAN : UiInv([u EXCEPT !.help = x])
         /\ \A x \in BOOLEAN : UiInv([u EXCEPT !.gone = x])
         /\ \A x \in UpdateStates : UiInv([u EXCEPT !.update = x])
<1>1. u \in UiType
  BY DEF UiInv
<1>2. /\ \A x \in BOOLEAN : UiInv([u EXCEPT !.no = x])
      /\ \A x \in BOOLEAN : UiInv([u EXCEPT !.later = x])
      /\ \A x \in BOOLEAN : UiInv([u EXCEPT !.help = x])
  BY <1>1, NoticeTyped DEF UiInv, UiType
<1>3. \A x \in BOOLEAN : UiInv([u EXCEPT !.gone = x])
  BY <1>1, NoticeTyped DEF UiInv, UiType
<1>4. \A x \in UpdateStates : UiInv([u EXCEPT !.update = x])
  BY <1>1, PopupTyped DEF UiInv, UiType
<1> QED
  BY <1>2, <1>3, <1>4

LEMMA FieldKept ==
  ASSUME NEW u, UiInv(u)
  PROVE  /\ \A x \in Screens \ {"boot"} : UiInv([u EXCEPT !.screen = x])
         /\ \A x \in Nat : UiInv([u EXCEPT !.setting = x])
         /\ \A x \in {"none", "apply", "cleanup"} : UiInv([u EXCEPT !.confirm = x])
         /\ \A x \in ConflictType : UiInv([u EXCEPT !.conflict = x])
         /\ \A x \in PopupType(SkillsViews) : UiInv([u EXCEPT !.skills = x])
         /\ \A x \in PopupType(AgentViews) : UiInv([u EXCEPT !.agents = x])
<1>1. u \in UiType
  BY DEF UiInv
<1>2. /\ \A x \in Screens \ {"boot"} : UiInv([u EXCEPT !.screen = x])
      /\ \A x \in Nat : UiInv([u EXCEPT !.setting = x])
  BY <1>1, FieldTyped DEF UiInv, UiType
<1>3. /\ \A x \in {"none", "apply", "cleanup"} : UiInv([u EXCEPT !.confirm = x])
      /\ \A x \in ConflictType : UiInv([u EXCEPT !.conflict = x])
  BY <1>1, FieldTyped DEF UiInv, UiType
<1>4. /\ \A x \in PopupType(SkillsViews) : UiInv([u EXCEPT !.skills = x])
      /\ \A x \in PopupType(AgentViews) : UiInv([u EXCEPT !.agents = x])
  BY <1>1, PopupTyped DEF UiInv, UiType
<1> QED
  BY <1>2, <1>3, <1>4

\* A card leaves the state or shuts itself.
LEMMA CardFits ==
  ASSUME NEW u, NEW open, NEW keys, NEW shut, NEW k
  PROVE  Card(u, open, keys, shut, k).ui \in {u, shut}
BY DEF Card, Pass, Taken, Sends

LEMMA GuidedTyped ==
  ASSUME NEW u \in UiType, NEW k
  PROVE  HandleGuided(u, k).ui \in UiType
<1>1. \A n \in Nat : [u EXCEPT !.choice = n] \in UiType
  BY FieldTyped
<1>2. [u EXCEPT !.guided = 0, !.choice = 0] \in UiType
  BY FieldTyped
<1>3. Earlier(u.choice) \in Nat /\ u.choice \in Nat /\ u.choice + 1 \in Nat
  BY FieldTypes DEF Earlier
<1>4. CASE u.guided > 0 /\ k \in {"up", "down"}
  BY <1>1, <1>3, <1>4 DEF HandleGuided, Pass
<1>5. CASE ~(u.guided > 0 /\ k \in {"up", "down"})
  BY <1>2, <1>5, CardFits DEF HandleGuided
<1> QED
  BY <1>4, <1>5

LEMMA SettingsTyped ==
  ASSUME NEW u \in UiType, NEW k
  PROVE  HandleSettings(u, k).ui \in UiType
<1>1. \A n \in Nat : [u EXCEPT !.setting = n] \in UiType
  BY FieldTyped
<1>2. Earlier(u.setting) \in Nat /\ u.setting \in Nat /\ u.setting + 1 \in Nat
  BY FieldTypes DEF Earlier
<1> DEFINE left == [u EXCEPT !.setting = 0]
<1>3. left \in UiType
  BY <1>1
<1> HIDE DEF left
<1>4. /\ [left EXCEPT !.screen = "chat"] \in UiType
      /\ [left EXCEPT !.screen = "effort"] \in UiType
      /\ [left EXCEPT !.screen = "onboarding", !.credential = FALSE] \in UiType
      /\ [left EXCEPT !.screen = "models", !.flow = FALSE] \in UiType
  BY <1>3, FieldTyped, SwitchTyped DEF Screens
<1> USE DEF left
<1> QED
  BY <1>1, <1>2, <1>4 DEF HandleSettings, Pass, Taken

LEMMA SkillsTyped ==
  ASSUME NEW u \in UiType, NEW k
  PROVE  HandleSkills(u, k).ui \in UiType
<1>1. \A s \in PopupType(SkillsViews) : [u EXCEPT !.skills = s] \in UiType
  BY PopupTyped, FieldTyped
<1>2. /\ Closed \in PopupType(SkillsViews)
      /\ \A view \in SkillsViews : Popup(view) \in PopupType(SkillsViews)
  BY DEF PopupType, Popup, Closed
<1>3. [u.skills EXCEPT !.pick = 1 - @] \in PopupType(SkillsViews)
  BY FieldTypes DEF PopupType
<1> QED
  BY <1>1, <1>2, <1>3 DEF HandleSkills, Pass, Taken, Sends

\* A key leaves the wizard's form with a step of its own, or ends the wizard.
LEMMA FormKeyTyped ==
  ASSUME NEW f \in FormType, f.step # "none", NEW k
  PROVE  FormKey(f, k) \in [step : {"none", "name", "transport", "url", "command", "auth",
                                    "key", "done"},
                            http : BOOLEAN, keyed : BOOLEAN, typed : SUBSET Fields]
<1>1. CASE k = "esc"
  BY <1>1 DEF FormKey, FormType, Backward, Endpoint
<1>2. CASE k = "enter"
  BY <1>2 DEF FormKey, FormType, Forward, Endpoint
<1>3. CASE k \notin {"esc", "enter"}
  BY <1>3 DEF FormKey, FormType, Fields
<1> QED
  BY <1>1, <1>2, <1>3

LEMMA McpTyped ==
  ASSUME NEW u \in UiType, u.mcp.view = "add" => u.form.step # "none", NEW k
  PROVE  HandleMcp(u, k).ui \in UiType
<1>1. /\ \A m \in PopupType(McpViews) : [u EXCEPT !.mcp = m] \in UiType
      /\ \A m \in PopupType(McpViews), f \in FormType : [u EXCEPT !.mcp = m, !.form = f] \in UiType
      /\ \A f \in FormType : [u EXCEPT !.form = f] \in UiType
  BY PopupTyped, FieldTyped
<1>2. /\ Closed \in PopupType(McpViews)
      /\ \A view \in McpViews : Popup(view) \in PopupType(McpViews)
      /\ NoForm \in FormType /\ [NoForm EXCEPT !.step = "name"] \in FormType
  BY DEF PopupType, Popup, Closed, NoForm, FormType
<1>3. [u.mcp EXCEPT !.pick = 1 - @] \in PopupType(McpViews)
  BY FieldTypes DEF PopupType
<1>4. CASE u.mcp.view = "add"
  <2> DEFINE f == FormKey(u.form, k)
             left == [u EXCEPT !.mcp = Popup("menu"), !.form = NoForm]
  <2>1. f.step \notin {"none", "done"} => f \in FormType
    BY <1>4, FormKeyTyped, FieldTypes DEF FormType
  <2>2. left \in UiType
    BY <1>1, <1>2
  <2>3. left.mcp = Popup("menu")
    BY DEF UiType
  <2>4. [left EXCEPT !.mcp.pick = 1] \in UiType
    <3>1. [left EXCEPT !.mcp.pick = 1] = [left EXCEPT !.mcp = [Popup("menu") EXCEPT !.pick = 1]]
      BY <2>3
    <3>2. [Popup("menu") EXCEPT !.pick = 1] \in PopupType(McpViews)
      BY DEF Popup, PopupType
    <3> QED
      BY <2>2, <3>1, <3>2, PopupTyped, FieldTyped
  <2> HIDE DEF f, left
  <2>5. f.step \notin {"none", "done"} => [u EXCEPT !.form = f] \in UiType
    BY <1>1, <2>1
  <2>6. HandleMcp(u, k) = HandleForm(u, k)
    BY <1>4 DEF HandleMcp
  <2>7. CASE f.step = "done"
    BY <2>2, <2>6, <2>7 DEF HandleForm, f, left, Sends, Taken, Pass
  <2>8. CASE f.step = "none"
    BY <2>4, <2>6, <2>8 DEF HandleForm, f, left, Taken, Pass
  <2>9. CASE f.step \notin {"none", "done"}
    BY <2>5, <2>6, <2>9 DEF HandleForm, f, Taken, Pass
  <2> QED
    BY <2>7, <2>8, <2>9
<1>5. CASE u.mcp.view # "add"
  BY <1>1, <1>2, <1>3, <1>5 DEF HandleMcp, Pass, Taken, Sends
<1> QED
  BY <1>4, <1>5

\* No handler breaks the invariant, whatever the key.
LEMMA InterruptKeeps ==
  ASSUME NEW u, UiInv(u), NEW k
  PROVE  UiInv(HandleInterrupt(u, k).ui)
BY DEF HandleInterrupt, Pass, Taken, Sends, Card

LEMMA PermissionKeeps ==
  ASSUME NEW u, UiInv(u), NEW k
  PROVE  UiInv(HandlePermission(u, k).ui)
BY CardKept DEF HandlePermission, Pass, Taken, Sends, Card

LEMMA GuidedKeeps ==
  ASSUME NEW u, UiInv(u), NEW k
  PROVE  UiInv(HandleGuided(u, k).ui)
<1>1. HandleGuided(u, k).ui \in UiType
  BY GuidedTyped DEF UiInv
<1> QED
  BY <1>1 DEF UiInv, UiType, HandleGuided, Pass, Taken, Sends, Card, Earlier

LEMMA RemovalKeeps ==
  ASSUME NEW u, UiInv(u), NEW k
  PROVE  UiInv(HandleRemoval(u, k).ui)
BY CardKept DEF HandleRemoval, Pass, Taken, Sends, Card, Decisions

LEMMA ConfirmKeeps ==
  ASSUME NEW u, UiInv(u), NEW k
  PROVE  UiInv(HandleConfirm(u, k).ui)
BY FieldKept DEF HandleConfirm, Pass, Taken, Sends, Card, Decisions

LEMMA UndoKeeps ==
  ASSUME NEW u, UiInv(u), NEW k
  PROVE  UiInv(HandleUndo(u, k).ui)
BY CardKept DEF HandleUndo, Pass, Taken, Sends, Card

LEMMA UpdateKeeps ==
  ASSUME NEW u, UiInv(u), NEW k
  PROVE  UiInv(HandleUpdate(u, k).ui)
<1>1. (~u.no) \in BOOLEAN
  BY DEF UiInv, UiType
<1> QED
  BY <1>1, NoticeKept DEF HandleUpdate, Pass, Taken, Sends

LEMMA OnboardingKeeps ==
  ASSUME NEW u, UiInv(u), NEW k
  PROVE  UiInv(HandleOnboarding(u, k).ui)
BY SwitchKept, FieldKept DEF HandleOnboarding, Pass, Taken, Sends, Screens

LEMMA ModelPickerKeeps ==
  ASSUME NEW u, UiInv(u), NEW k
  PROVE  UiInv(HandleModelPicker(u, k).ui)
BY SwitchKept, FieldKept DEF HandleModelPicker, Pass, Taken, Sends, Screens

LEMMA SettingsKeeps ==
  ASSUME NEW u, UiInv(u), NEW k
  PROVE  UiInv(HandleSettings(u, k).ui)
<1>1. HandleSettings(u, k).ui \in UiType
  BY SettingsTyped DEF UiInv
<1> QED
  BY <1>1 DEF UiInv, UiType, HandleSettings, Pass, Taken, Sends, Screens, Earlier

LEMMA EffortPickerKeeps ==
  ASSUME NEW u, UiInv(u), NEW k
  PROVE  UiInv(HandleEffortPicker(u, k).ui)
<1>1. (u.flow /\ ~u.chosen) \in BOOLEAN
  BY DEF UiInv, UiType
<1> QED
  BY <1>1, SwitchKept, FieldKept DEF HandleEffortPicker, Pass, Taken, Sends, Screens

LEMMA SessionPickerKeeps ==
  ASSUME NEW u, UiInv(u), NEW k
  PROVE  UiInv(HandleSessionPicker(u, k).ui)
BY FieldKept DEF HandleSessionPicker, Pass, Taken, Sends, Screens

LEMMA PermissionModeKeeps ==
  ASSUME NEW u, UiInv(u), NEW k
  PROVE  UiInv(HandlePermissionMode(u, k).ui)
BY DEF HandlePermissionMode, Pass, Taken, Sends, Card

LEMMA HelpKeeps ==
  ASSUME NEW u, UiInv(u), NEW k
  PROVE  UiInv(HandleHelp(u, k).ui)
<1>1. (u.help /\ k \notin {"esc", "enter"}) \in BOOLEAN
  BY DEF UiInv, UiType
<1> QED
  BY <1>1, NoticeKept DEF HandleHelp, Pass, Taken, Sends

LEMMA SkillsKeeps ==
  ASSUME NEW u, UiInv(u), NEW k
  PROVE  UiInv(HandleSkills(u, k).ui)
<1>1. HandleSkills(u, k).ui \in UiType
  BY SkillsTyped DEF UiInv
<1> QED
  BY <1>1 DEF UiInv, UiType, HandleSkills, Pass, Taken, Sends, Popup, PopupType, Closed

LEMMA AgentsKeeps ==
  ASSUME NEW u, UiInv(u), NEW k
  PROVE  UiInv(HandleAgents(u, k).ui)
BY FieldKept DEF HandleAgents, Pass, Taken, Sends, AgentsView, Popup, PopupType

LEMMA EscapeKeeps ==
  ASSUME NEW u, UiInv(u), NEW k
  PROVE  UiInv(HandleEscape(u, k).ui)
BY DEF HandleEscape, Pass, Taken, Sends, Card

LEMMA ConflictKeeps ==
  ASSUME NEW u, UiInv(u), NEW k
  PROVE  UiInv(HandleConflict(u, k).ui)
<1>1. \A n \in Nat : [u.conflict EXCEPT !.pick = n] \in ConflictType
  BY FieldTypes DEF UiInv, ConflictType
<1>2. u.conflict.pick \in Nat /\ u.conflict.pick + 1 \in Nat
      /\ (u.conflict.pick > 1 => u.conflict.pick - 1 \in Nat)
  BY FieldTypes DEF UiInv, ConflictType
<1>3. \A n \in Nat : UiInv([u EXCEPT !.conflict = [u.conflict EXCEPT !.pick = n]])
  BY <1>1, FieldKept
<1> QED
  BY <1>2, <1>3 DEF HandleConflict, Pass, Taken, Sends

LEMMA McpKeeps ==
  ASSUME NEW u, UiInv(u), NEW k
  PROVE  UiInv(HandleMcp(u, k).ui)
<1> DEFINE v == HandleMcp(u, k).ui
<1>1. v \in UiType /\ u \in UiType
  BY McpTyped DEF UiInv
<1>2. v.screen = "boot" => ~v.model
  BY DEF UiInv, UiType, HandleMcp, HandleForm, Pass, Taken, Sends
<1>3. v.guided > 0 => v.choice < v.guided
  BY DEF UiInv, UiType, HandleMcp, HandleForm, Pass, Taken, Sends
<1>4. v.mcp.view = "add" <=> v.form.step # "none"
  <2>1. CASE u.mcp.view = "add"
    <3> DEFINE f == FormKey(u.form, k)
    <3>1. HandleMcp(u, k) = HandleForm(u, k)
      BY <2>1 DEF HandleMcp
    <3> HIDE DEF f
    <3> QED
      BY <1>1, <2>1, <3>1 DEF HandleForm, f, UiType, Pass, Taken, Sends, Popup, NoForm
  <2>2. CASE u.mcp.view # "add"
    <3>1. u.form.step = "none"
      BY <2>2 DEF UiInv
    <3> QED
      BY <1>1, <2>2, <3>1 DEF UiType, HandleMcp, Pass, Taken, Sends, Popup, PopupType, Closed, NoForm
  <2> QED
    BY <2>1, <2>2
<1> QED
  BY <1>1, <1>2, <1>3, <1>4 DEF UiInv

LEMMA SubmitKeeps ==
  ASSUME NEW u, UiInv(u), u.mcp.view = "closed", NEW s \in Submissions
  PROVE  UiInv(Submit(u, s).ui)
<1>1. CASE s \in {"prompt", "review", "other", "exit", "help", "removal"}
  BY <1>1, SwitchKept, CardKept, NoticeKept DEF Submit, Pass, Taken, Sends, BeginRun
<1>2. CASE s \in {"model", "effort", "settings", "resume"}
  BY <1>2, SwitchKept, FieldKept DEF Submit, Pass, Taken, Sends, Screens
<1>3. CASE s \in {"skills", "agents"}
  BY <1>3, FieldKept DEF Submit, Pass, Taken, Sends, AgentsView, Popup, PopupType
<1>4. CASE s = "mcp"
  <2>1. [u EXCEPT !.mcp = Popup("menu")] \in UiType
    BY PopupTyped DEF UiInv, Popup, PopupType
  <2>2. UiInv([u EXCEPT !.mcp = Popup("menu")])
    BY <2>1 DEF UiInv, UiType, Popup
  <2> QED
    BY <1>4, <2>2 DEF Submit, Pass, Taken
<1> QED
  BY <1>1, <1>2, <1>3, <1>4 DEF Submissions

LEMMA DequeueKeeps ==
  ASSUME NEW u, UiInv(u)
  PROVE  UiInv(Dequeue(u)) /\ UiInv(ShowQueuedUpdate(u))
<1>1. u.queued \in BOOLEAN
  BY DEF UiInv, UiType
<1> QED
  BY <1>1, SwitchKept, NoticeKept DEF Dequeue, ShowQueuedUpdate

LEMMA ApplyKeeps ==
  ASSUME NEW u, UiInv(u), NEW e \in Events
  PROVE  UiInv(Apply(u, e))
<1>1. CASE e \in DOMAIN ScreenOf
  <2> DEFINE v == [u EXCEPT !.screen = ScreenOf[e], !.model = @ \/ e = "ModelSelected",
                            !.models = @ \/ e = "ModelsAvailable"]
  <2>1. ScreenOf[e] \in Screens \ {"boot"}
    BY <1>1 DEF ScreenOf, Screens
  <2>2. Apply(u, e) = v
    BY <1>1 DEF Apply, ScreenOf
  <2>3. /\ u \in UiType
        /\ (u.model \/ e = "ModelSelected") \in BOOLEAN
        /\ (u.models \/ e = "ModelsAvailable") \in BOOLEAN
    BY DEF UiInv, UiType
  <2>4. v \in UiType
    BY <2>1, <2>3, SwitchTyped, FieldTyped
  <2>5. /\ v.screen = ScreenOf[e] /\ v.guided = u.guided /\ v.choice = u.choice
        /\ v.mcp = u.mcp /\ v.form = u.form
    BY <2>3 DEF UiType
  <2> HIDE DEF v
  <2> QED
    BY <2>1, <2>2, <2>4, <2>5 DEF UiInv
<1>2. CASE e \in {"AgentCompleted", "AgentCancelled", "AgentStopped"}
  <2>1. UiInv([u EXCEPT !.permission = FALSE])
    BY CardKept
  <2>2. ASSUME NEW v, UiInv(v) PROVE UiInv(RunEnded(v))
    BY <2>2, DequeueKeeps DEF RunEnded
  <2> QED
    BY <1>2, <2>1, <2>2 DEF Apply, ScreenOf
<1>3. CASE e \in {"SessionListAvailable", "AgentStateChanged", "BlockingError", "ExitForUpdate"}
  BY <1>3, SwitchKept, CardKept, NoticeKept DEF Apply, ScreenOf, BeginRun
<1>4. CASE e \in {"ProviderFailed", "PermissionRequested", "UndoConflict"}
  BY <1>4, DequeueKeeps, CardKept DEF Apply, ScreenOf
<1>5. CASE e \in {"UpdateAvailable", "UpdateReady", "UpdateFailed"}
  <2>1. \A next \in {"completed", "failed"} :
          UiInv([u EXCEPT !.update = IF @ = "none" THEN @ ELSE next])
    BY NoticeKept DEF UiInv, UiType
  <2> QED
    BY <1>5, <2>1, NoticeKept DEF Apply, ScreenOf, UpdateAvailable
<1>6. CASE e \in {"AgentDiffReady", "AgentCleanupWarning", "AgentDetailAvailable",
                 "AgentDetailMissing"}
  BY <1>6, FieldKept DEF Apply, ScreenOf, AgentsView, Popup, PopupType
<1>7. CASE e \in {"AgentMergeConflict", "AgentMergeFinished"}
  BY <1>7, FieldKept DEF Apply, ScreenOf, NoConflict, ConflictType
<1> QED
  BY <1>1, <1>2, <1>3, <1>4, <1>5, <1>6, <1>7 DEF Events, ScreenOf

LEMMA QuestionKeeps ==
  ASSUME NEW u, UiInv(u), NEW choices \in Nat, NEW recommended \in 0 .. choices - 1
  PROVE  UiInv(GuidedQuestionRequested(u, choices, recommended))
<1>1. u \in UiType /\ recommended \in Nat
  BY DEF UiInv
<1>2. GuidedQuestionRequested(u, choices, recommended) \in UiType
  BY <1>1, FieldTyped DEF GuidedQuestionRequested
<1> QED
  BY <1>1, <1>2 DEF UiInv, UiType, GuidedQuestionRequested

LEMMA ResolvedKeeps ==
  ASSUME NEW u, UiInv(u), NEW file \in 1 .. MaxConflicts
  PROVE  UiInv(AgentConflictFileResolved(u, file))
<1>1. [u.conflict EXCEPT !.resolved = @ \cup {file}] \in ConflictType
  BY FieldTypes DEF UiInv, ConflictType
<1> QED
  BY <1>1, FieldKept DEF AgentConflictFileResolved

-----------------------------------------------------------------------------
(* Esc: each handler lets it through, because its own part is shut, or     *)
(* closes something, or asks for a merge to be aborted                     *)

\* The states EscapeFrees is about.
Freeable(u) ==
  UiInv(u) /\ u.model /\ ~u.activity /\ u.update \in {"none", "prompt", "failed"}

\* out is what a handler makes of Esc in the state u, its part being shut or not.
Closes(u, out, shut) ==
  \/ out = Pass(u) /\ shut
  \/ Depth(out.ui) < Depth(u) /\ out.sent # <<"abort">>
  \/ out = Sends(u, "abort") /\ u.conflict.open

\* Depth, in two sums: the screen with its cards, and the popups.
Counted(open) == IF open THEN 1 ELSE 0
SkillsDepth == [closed |-> 0, menu |-> 1, list |-> 2, toggle |-> 2]
AgentsDepth == [closed |-> 0, list |-> 1, detail |-> 2]
McpDepth == [closed |-> 0, menu |-> 1, servers |-> 2, server |-> 3, add |-> 1]
FormDepth == [none |-> 0, name |-> 1, transport |-> 2, url |-> 3, command |-> 3,
               auth |-> 4, key |-> 5]
CardDepth(u) ==
  Counted(u.screen # "chat") + Counted(u.permission) + Counted(u.guided > 0)
      + Counted(u.removal) + Counted(u.confirm # "none") + Counted(u.conflict.open)
      + Counted(u.undo)
      + Counted(u.update # "none") + Counted(u.help)
PopupDepth(u) == SkillsDepth[u.skills.view]
      + AgentsDepth[u.agents.view] + McpDepth[u.mcp.view] + FormDepth[u.form.step]

LEMMA PopupsTyped == ASSUME NEW u \in UiType PROVE
   /\ SkillsDepth[u.skills.view] \in Nat /\ AgentsDepth[u.agents.view] \in Nat
   /\ McpDepth[u.mcp.view] \in Nat /\ FormDepth[u.form.step] \in Nat
BY DEF UiType, PopupType, FormType, SkillsDepth, AgentsDepth, McpDepth, FormDepth

LEMMA DepthIs == ASSUME NEW u \in UiType PROVE
   Depth(u) = CardDepth(u) + PopupDepth(u)
BY PopupsTyped DEF Depth, CardDepth, PopupDepth, Counted, SkillsDepth, AgentsDepth, McpDepth,
   FormDepth

LEMMA PermissionCloses ==
  ASSUME NEW u, Freeable(u), UiInv(HandlePermission(u, "esc").ui)
  PROVE  Closes(u, HandlePermission(u, "esc"), ~u.permission)
<1> DEFINE v == [u EXCEPT !.permission = FALSE]
<1>1. CASE ~u.permission
  BY <1>1 DEF Closes, HandlePermission, Pass, Taken, Sends, Card
<1>2. CASE ~(~u.permission)
  <2>1. HandlePermission(u, "esc").ui = v /\ HandlePermission(u, "esc").sent # <<"abort">>
    BY <1>2 DEF Freeable, UiInv, UiType, HandlePermission, Pass, Taken, Sends, Card
  <2>2. u \in UiType /\ v \in UiType
    BY <2>1 DEF Freeable, UiInv
  <2>3. CardDepth(v) < CardDepth(u) /\ PopupDepth(v) = PopupDepth(u)
    BY <1>2, <2>2 DEF CardDepth, PopupDepth, Counted, UiType
  <2>4. Depth(v) < Depth(u)
    <3> HIDE DEF v
    <3> QED
      BY <2>2, <2>3, DepthIs, PopupsTyped DEF CardDepth, PopupDepth, Counted
  <2> QED
    BY <2>1, <2>4 DEF Closes
<1> QED
  BY <1>1, <1>2

LEMMA GuidedCloses ==
  ASSUME NEW u, Freeable(u), UiInv(HandleGuided(u, "esc").ui)
  PROVE  Closes(u, HandleGuided(u, "esc"), u.guided = 0)
<1> DEFINE v == [u EXCEPT !.guided = 0, !.choice = 0]
<1>1. CASE u.guided = 0
  BY <1>1 DEF Closes, HandleGuided, Pass, Taken, Sends, Card, Earlier
<1>2. CASE ~(u.guided = 0)
  <2>1. HandleGuided(u, "esc").ui = v /\ HandleGuided(u, "esc").sent # <<"abort">>
    BY <1>2 DEF Freeable, UiInv, UiType, HandleGuided, Pass, Taken, Sends, Card, Earlier
  <2>2. u \in UiType /\ v \in UiType
    BY <2>1 DEF Freeable, UiInv
  <2>3. CardDepth(v) < CardDepth(u) /\ PopupDepth(v) = PopupDepth(u)
    BY <1>2, <2>2 DEF CardDepth, PopupDepth, Counted, UiType
  <2>4. Depth(v) < Depth(u)
    <3> HIDE DEF v
    <3> QED
      BY <2>2, <2>3, DepthIs, PopupsTyped DEF CardDepth, PopupDepth, Counted
  <2> QED
    BY <2>1, <2>4 DEF Closes
<1> QED
  BY <1>1, <1>2

LEMMA RemovalCloses ==
  ASSUME NEW u, Freeable(u), UiInv(HandleRemoval(u, "esc").ui)
  PROVE  Closes(u, HandleRemoval(u, "esc"), ~u.removal)
<1> DEFINE v == [u EXCEPT !.removal = FALSE]
<1>1. CASE ~u.removal
  BY <1>1 DEF Closes, HandleRemoval, Pass, Taken, Sends, Card, Decisions
<1>2. CASE ~(~u.removal)
  <2>1. HandleRemoval(u, "esc").ui = v /\ HandleRemoval(u, "esc").sent # <<"abort">>
    BY <1>2 DEF Freeable, UiInv, UiType, HandleRemoval, Pass, Taken, Sends, Card, Decisions
  <2>2. u \in UiType /\ v \in UiType
    BY <2>1 DEF Freeable, UiInv
  <2>3. CardDepth(v) < CardDepth(u) /\ PopupDepth(v) = PopupDepth(u)
    BY <1>2, <2>2 DEF CardDepth, PopupDepth, Counted, UiType
  <2>4. Depth(v) < Depth(u)
    <3> HIDE DEF v
    <3> QED
      BY <2>2, <2>3, DepthIs, PopupsTyped DEF CardDepth, PopupDepth, Counted
  <2> QED
    BY <2>1, <2>4 DEF Closes
<1> QED
  BY <1>1, <1>2

LEMMA ConfirmCloses ==
  ASSUME NEW u, Freeable(u), UiInv(HandleConfirm(u, "esc").ui)
  PROVE  Closes(u, HandleConfirm(u, "esc"), u.confirm = "none")
<1> DEFINE v == [u EXCEPT !.confirm = "none"]
<1>1. CASE u.confirm = "none"
  BY <1>1 DEF Closes, HandleConfirm, Pass, Taken, Sends, Card, Decisions
<1>2. CASE ~(u.confirm = "none")
  <2>1. HandleConfirm(u, "esc").ui = v /\ HandleConfirm(u, "esc").sent # <<"abort">>
    BY <1>2 DEF Freeable, UiInv, UiType, HandleConfirm, Pass, Taken, Sends, Card, Decisions
  <2>2. u \in UiType /\ v \in UiType
    BY <2>1 DEF Freeable, UiInv
  <2>3. CardDepth(v) < CardDepth(u) /\ PopupDepth(v) = PopupDepth(u)
    BY <1>2, <2>2 DEF CardDepth, PopupDepth, Counted, UiType
  <2>4. Depth(v) < Depth(u)
    <3> HIDE DEF v
    <3> QED
      BY <2>2, <2>3, DepthIs, PopupsTyped DEF CardDepth, PopupDepth, Counted
  <2> QED
    BY <2>1, <2>4 DEF Closes
<1> QED
  BY <1>1, <1>2

LEMMA UndoCloses ==
  ASSUME NEW u, Freeable(u), UiInv(HandleUndo(u, "esc").ui)
  PROVE  Closes(u, HandleUndo(u, "esc"), ~u.undo)
<1> DEFINE v == [u EXCEPT !.undo = FALSE]
<1>1. CASE ~u.undo
  BY <1>1 DEF Closes, HandleUndo, Pass, Taken, Sends, Card
<1>2. CASE ~(~u.undo)
  <2>1. HandleUndo(u, "esc").ui = v /\ HandleUndo(u, "esc").sent # <<"abort">>
    BY <1>2 DEF Freeable, UiInv, UiType, HandleUndo, Pass, Taken, Sends, Card
  <2>2. u \in UiType /\ v \in UiType
    BY <2>1 DEF Freeable, UiInv
  <2>3. CardDepth(v) < CardDepth(u) /\ PopupDepth(v) = PopupDepth(u)
    BY <1>2, <2>2 DEF CardDepth, PopupDepth, Counted, UiType
  <2>4. Depth(v) < Depth(u)
    <3> HIDE DEF v
    <3> QED
      BY <2>2, <2>3, DepthIs, PopupsTyped DEF CardDepth, PopupDepth, Counted
  <2> QED
    BY <2>1, <2>4 DEF Closes
<1> QED
  BY <1>1, <1>2

LEMMA UpdateCloses ==
  ASSUME NEW u, Freeable(u), UiInv(HandleUpdate(u, "esc").ui)
  PROVE  Closes(u, HandleUpdate(u, "esc"), u.update = "none")
<1> DEFINE v == [u EXCEPT !.update = "none"]
<1>1. CASE u.update = "none"
  BY <1>1 DEF Closes, HandleUpdate, Pass, Taken, Sends
<1>2. CASE ~(u.update = "none")
  <2>1. HandleUpdate(u, "esc").ui = v /\ HandleUpdate(u, "esc").sent # <<"abort">>
    BY <1>2 DEF Freeable, UiInv, UiType, HandleUpdate, Pass, Taken, Sends
  <2>2. u \in UiType /\ v \in UiType
    BY <2>1 DEF Freeable, UiInv
  <2>3. CardDepth(v) < CardDepth(u) /\ PopupDepth(v) = PopupDepth(u)
    BY <1>2, <2>2 DEF CardDepth, PopupDepth, Counted, UiType
  <2>4. Depth(v) < Depth(u)
    <3> HIDE DEF v
    <3> QED
      BY <2>2, <2>3, DepthIs, PopupsTyped DEF CardDepth, PopupDepth, Counted
  <2> QED
    BY <2>1, <2>4 DEF Closes
<1> QED
  BY <1>1, <1>2

LEMMA OnboardingCloses ==
  ASSUME NEW u, Freeable(u), UiInv(HandleOnboarding(u, "esc").ui)
  PROVE  Closes(u, HandleOnboarding(u, "esc"), u.screen # "onboarding")
<1> DEFINE v == [u EXCEPT !.credential = FALSE, !.screen = "chat"]
<1>1. CASE u.screen # "onboarding"
  BY <1>1 DEF Closes, HandleOnboarding, Pass, Taken, Sends, Screens
<1>2. CASE ~(u.screen # "onboarding")
  <2>1. HandleOnboarding(u, "esc").ui = v /\ HandleOnboarding(u, "esc").sent # <<"abort">>
    BY <1>2 DEF Freeable, UiInv, UiType, HandleOnboarding, Pass, Taken, Sends, Screens
  <2>2. u \in UiType /\ v \in UiType
    BY <2>1 DEF Freeable, UiInv
  <2>3. CardDepth(v) < CardDepth(u) /\ PopupDepth(v) = PopupDepth(u)
    BY <1>2, <2>2 DEF CardDepth, PopupDepth, Counted, UiType
  <2>4. Depth(v) < Depth(u)
    <3> HIDE DEF v
    <3> QED
      BY <2>2, <2>3, DepthIs, PopupsTyped DEF CardDepth, PopupDepth, Counted
  <2> QED
    BY <2>1, <2>4 DEF Closes
<1> QED
  BY <1>1, <1>2

LEMMA ModelPickerCloses ==
  ASSUME NEW u, Freeable(u), UiInv(HandleModelPicker(u, "esc").ui)
  PROVE  Closes(u, HandleModelPicker(u, "esc"), u.screen # "models")
<1> DEFINE v == [u EXCEPT !.flow = FALSE, !.screen = "chat"]
<1>1. CASE u.screen # "models"
  BY <1>1 DEF Closes, HandleModelPicker, Pass, Taken, Sends, Screens
<1>2. CASE ~(u.screen # "models")
  <2>1. HandleModelPicker(u, "esc").ui = v /\ HandleModelPicker(u, "esc").sent # <<"abort">>
    BY <1>2 DEF Freeable, UiInv, UiType, HandleModelPicker, Pass, Taken, Sends, Screens
  <2>2. u \in UiType /\ v \in UiType
    BY <2>1 DEF Freeable, UiInv
  <2>3. CardDepth(v) < CardDepth(u) /\ PopupDepth(v) = PopupDepth(u)
    BY <1>2, <2>2 DEF CardDepth, PopupDepth, Counted, UiType
  <2>4. Depth(v) < Depth(u)
    <3> HIDE DEF v
    <3> QED
      BY <2>2, <2>3, DepthIs, PopupsTyped DEF CardDepth, PopupDepth, Counted
  <2> QED
    BY <2>1, <2>4 DEF Closes
<1> QED
  BY <1>1, <1>2

LEMMA SettingsCloses ==
  ASSUME NEW u, Freeable(u), UiInv(HandleSettings(u, "esc").ui)
  PROVE  Closes(u, HandleSettings(u, "esc"), u.screen # "settings")
<1> DEFINE v == [[u EXCEPT !.setting = 0] EXCEPT !.screen = "chat"]
<1>1. CASE u.screen # "settings"
  BY <1>1 DEF Closes, HandleSettings, Pass, Taken, Sends, Screens, Earlier
<1>2. CASE ~(u.screen # "settings")
  <2>1. HandleSettings(u, "esc").ui = v /\ HandleSettings(u, "esc").sent # <<"abort">>
    BY <1>2 DEF Freeable, UiInv, UiType, HandleSettings, Pass, Taken, Sends, Screens, Earlier
  <2>2. u \in UiType /\ v \in UiType
    BY <2>1 DEF Freeable, UiInv
  <2>3. CardDepth(v) < CardDepth(u) /\ PopupDepth(v) = PopupDepth(u)
    BY <1>2, <2>2 DEF CardDepth, PopupDepth, Counted, UiType
  <2>4. Depth(v) < Depth(u)
    <3> HIDE DEF v
    <3> QED
      BY <2>2, <2>3, DepthIs, PopupsTyped DEF CardDepth, PopupDepth, Counted
  <2> QED
    BY <2>1, <2>4 DEF Closes
<1> QED
  BY <1>1, <1>2

LEMMA EffortPickerCloses ==
  ASSUME NEW u, Freeable(u), UiInv(HandleEffortPicker(u, "esc").ui)
  PROVE  Closes(u, HandleEffortPicker(u, "esc"), u.screen # "effort")
<1> DEFINE v == [[u EXCEPT !.chosen = FALSE, !.flow = @ /\ ~u.chosen] EXCEPT !.screen = "chat"]
<1>1. CASE u.screen # "effort"
  BY <1>1 DEF Closes, HandleEffortPicker, Pass, Taken, Sends, Screens
<1>2. CASE ~(u.screen # "effort")
  <2>1. HandleEffortPicker(u, "esc").ui = v /\ HandleEffortPicker(u, "esc").sent # <<"abort">>
    BY <1>2 DEF Freeable, UiInv, UiType, HandleEffortPicker, Pass, Taken, Sends, Screens
  <2>2. u \in UiType /\ v \in UiType
    BY <2>1 DEF Freeable, UiInv
  <2>3. CardDepth(v) < CardDepth(u) /\ PopupDepth(v) = PopupDepth(u)
    BY <1>2, <2>2 DEF CardDepth, PopupDepth, Counted, UiType
  <2>4. Depth(v) < Depth(u)
    <3> HIDE DEF v
    <3> QED
      BY <2>2, <2>3, DepthIs, PopupsTyped DEF CardDepth, PopupDepth, Counted
  <2> QED
    BY <2>1, <2>4 DEF Closes
<1> QED
  BY <1>1, <1>2

LEMMA SessionPickerCloses ==
  ASSUME NEW u, Freeable(u), UiInv(HandleSessionPicker(u, "esc").ui)
  PROVE  Closes(u, HandleSessionPicker(u, "esc"), u.screen # "sessions")
<1> DEFINE v == [u EXCEPT !.screen = "chat"]
<1>1. CASE u.screen # "sessions"
  BY <1>1 DEF Closes, HandleSessionPicker, Pass, Taken, Sends, Screens
<1>2. CASE ~(u.screen # "sessions")
  <2>1. HandleSessionPicker(u, "esc").ui = v /\ HandleSessionPicker(u, "esc").sent # <<"abort">>
    BY <1>2 DEF Freeable, UiInv, UiType, HandleSessionPicker, Pass, Taken, Sends, Screens
  <2>2. u \in UiType /\ v \in UiType
    BY <2>1 DEF Freeable, UiInv
  <2>3. CardDepth(v) < CardDepth(u) /\ PopupDepth(v) = PopupDepth(u)
    BY <1>2, <2>2 DEF CardDepth, PopupDepth, Counted, UiType
  <2>4. Depth(v) < Depth(u)
    <3> HIDE DEF v
    <3> QED
      BY <2>2, <2>3, DepthIs, PopupsTyped DEF CardDepth, PopupDepth, Counted
  <2> QED
    BY <2>1, <2>4 DEF Closes
<1> QED
  BY <1>1, <1>2

LEMMA HelpCloses ==
  ASSUME NEW u, Freeable(u), UiInv(HandleHelp(u, "esc").ui)
  PROVE  Closes(u, HandleHelp(u, "esc"), ~u.help)
<1> DEFINE v == [u EXCEPT !.help = FALSE]
<1>1. CASE ~u.help
  BY <1>1 DEF Closes, HandleHelp, Pass, Taken, Sends
<1>2. CASE ~(~u.help)
  <2>1. HandleHelp(u, "esc").ui = v /\ HandleHelp(u, "esc").sent # <<"abort">>
    BY <1>2 DEF Freeable, UiInv, UiType, HandleHelp, Pass, Taken, Sends
  <2>2. u \in UiType /\ v \in UiType
    BY <2>1 DEF Freeable, UiInv
  <2>3. CardDepth(v) < CardDepth(u) /\ PopupDepth(v) = PopupDepth(u)
    BY <1>2, <2>2 DEF CardDepth, PopupDepth, Counted, UiType
  <2>4. Depth(v) < Depth(u)
    <3> HIDE DEF v
    <3> QED
      BY <2>2, <2>3, DepthIs, PopupsTyped DEF CardDepth, PopupDepth, Counted
  <2> QED
    BY <2>1, <2>4 DEF Closes
<1> QED
  BY <1>1, <1>2

LEMMA InterruptCloses ==
  ASSUME NEW u, Freeable(u)
  PROVE  HandleInterrupt(u, "esc") = Pass(u)
BY DEF Freeable, HandleInterrupt, Card

LEMMA PermissionModeCloses ==
  ASSUME NEW u
  PROVE  HandlePermissionMode(u, "esc") = Pass(u)
BY DEF HandlePermissionMode, Card

LEMMA EscapeCloses ==
  ASSUME NEW u
  PROVE  HandleEscape(u, "esc").ui = u /\ HandleEscape(u, "esc").sent # <<"abort">>
BY DEF HandleEscape, Card, Pass, Taken, Sends

LEMMA ChatCloses ==
  ASSUME NEW u, NEW s
  PROVE  HandleChat(u, "esc", s) = Pass(u)
BY DEF HandleChat

LEMMA ConflictCloses ==
  ASSUME NEW u, Freeable(u)
  PROVE  Closes(u, HandleConflict(u, "esc"), ~u.conflict.open)
BY DEF Closes, HandleConflict, Freeable, UiInv, UiType, ConflictType

\* What is left when a popup of the kind is one level less deep.
LEMMA PopupShuts ==
  ASSUME NEW u \in UiType, NEW v \in UiType, CardDepth(v) = CardDepth(u),
         PopupDepth(v) < PopupDepth(u)
  PROVE  Depth(v) < Depth(u)
BY DepthIs, PopupsTyped DEF CardDepth, PopupDepth, Counted

LEMMA SkillsCloses ==
  ASSUME NEW u, Freeable(u), UiInv(HandleSkills(u, "esc").ui)
  PROVE  Closes(u, HandleSkills(u, "esc"), u.skills.view = "closed")
<1> DEFINE v == HandleSkills(u, "esc").ui
<1>1. CASE u.skills.view = "closed"
  BY <1>1 DEF Closes, HandleSkills
<1>2. CASE u.skills.view # "closed"
  <2>1. u.skills.view \in {"menu", "list", "toggle"}
    BY <1>2 DEF Freeable, UiInv, UiType, PopupType
  <2>2. /\ v = [u EXCEPT !.skills = IF u.skills.view = "menu" THEN Closed ELSE Popup("menu")]
        /\ HandleSkills(u, "esc").sent # <<"abort">>
    BY <2>1 DEF HandleSkills, Taken, Pass
  <2>3. u \in UiType /\ v \in UiType
    BY DEF Freeable, UiInv
  <2>4. /\ v.skills.view = IF u.skills.view = "menu" THEN "closed" ELSE "menu"
        /\ v.agents = u.agents /\ v.mcp = u.mcp /\ v.form = u.form
    BY <2>2, <2>3 DEF UiType, Closed, Popup
  <2>5. CardDepth(v) = CardDepth(u)
    BY <2>2, <2>3 DEF CardDepth, Counted, UiType
  <2>6. PopupDepth(v) < PopupDepth(u)
    <3> HIDE DEF v
    <3>1. SkillsDepth[v.skills.view] < SkillsDepth[u.skills.view]
      BY <2>1, <2>4 DEF SkillsDepth
    <3> QED
      BY <2>3, <2>4, <3>1, PopupsTyped DEF PopupDepth
  <2> QED
    BY <2>2, <2>3, <2>5, <2>6, PopupShuts DEF Closes
<1> QED
  BY <1>1, <1>2

LEMMA AgentsCloses ==
  ASSUME NEW u, Freeable(u), UiInv(HandleAgents(u, "esc").ui)
  PROVE  Closes(u, HandleAgents(u, "esc"), u.agents.view = "closed")
<1> DEFINE v == HandleAgents(u, "esc").ui
<1>1. CASE u.agents.view = "closed"
  BY <1>1 DEF Closes, HandleAgents
<1>2. CASE u.agents.view # "closed"
  <2>1. u.agents.view \in {"list", "detail"}
    BY <1>2 DEF Freeable, UiInv, UiType, PopupType
  <2>2. /\ v = AgentsView(u, IF u.agents.view = "list" THEN "closed" ELSE "list")
        /\ HandleAgents(u, "esc").sent # <<"abort">>
    BY <2>1 DEF HandleAgents, Taken, Pass
  <2>3. u \in UiType /\ v \in UiType
    BY DEF Freeable, UiInv
  <2>4. /\ v.agents.view = IF u.agents.view = "list" THEN "closed" ELSE "list"
        /\ v.skills = u.skills /\ v.mcp = u.mcp /\ v.form = u.form
    BY <2>2, <2>3 DEF UiType, AgentsView, Popup
  <2>5. CardDepth(v) = CardDepth(u)
    BY <2>2, <2>3 DEF CardDepth, Counted, UiType, AgentsView
  <2>6. PopupDepth(v) < PopupDepth(u)
    <3> HIDE DEF v
    <3>1. AgentsDepth[v.agents.view] < AgentsDepth[u.agents.view]
      BY <2>1, <2>4 DEF AgentsDepth
    <3> QED
      BY <2>3, <2>4, <3>1, PopupsTyped DEF PopupDepth
  <2> QED
    BY <2>2, <2>3, <2>5, <2>6, PopupShuts DEF Closes
<1> QED
  BY <1>1, <1>2

LEMMA McpCloses ==
  ASSUME NEW u, Freeable(u), UiInv(HandleMcp(u, "esc").ui)
  PROVE  Closes(u, HandleMcp(u, "esc"), u.mcp.view = "closed")
<1> DEFINE v == HandleMcp(u, "esc").ui
           form == FormKey(u.form, "esc")
<1>0. u \in UiType /\ v \in UiType
  BY DEF Freeable, UiInv
<1>1. CASE u.mcp.view = "closed"
  BY <1>1 DEF Closes, HandleMcp
<1>2. CASE u.mcp.view \in {"menu", "servers", "server"}
  <2> DEFINE next == IF u.mcp.view = "menu" THEN Closed
                     ELSE Popup(IF u.mcp.view = "servers" THEN "menu" ELSE "servers")
  <2>2. v = [u EXCEPT !.mcp = next] /\ HandleMcp(u, "esc").sent # <<"abort">>
    BY <1>2 DEF HandleMcp, Taken, Pass
  <2>4. /\ v.mcp = next /\ McpDepth[next.view] < McpDepth[u.mcp.view]
        /\ v.agents = u.agents /\ v.skills = u.skills /\ v.form = u.form
    BY <1>0, <1>2, <2>2 DEF UiType, Closed, Popup, McpDepth
  <2>5. CardDepth(v) = CardDepth(u)
    BY <1>0, <2>2 DEF CardDepth, Counted, UiType
  <2>6. PopupDepth(v) < PopupDepth(u)
    <3> HIDE DEF v, next
    <3> QED
      BY <1>0, <2>4, PopupsTyped DEF PopupDepth
  <2> QED
    BY <1>0, <2>2, <2>5, <2>6, PopupShuts DEF Closes
<1>3. CASE u.mcp.view = "add"
  <2>1. HandleMcp(u, "esc") = HandleForm(u, "esc")
    BY <1>3 DEF HandleMcp
  <2>2. form.step = Backward(u.form)[u.form.step] /\ u.form.step # "none" /\ u.form \in FormType
    <3>1. u.form \in FormType
      BY <1>0, FieldTypes
    <3>2. u.form.step # "none"
      BY <1>3 DEF Freeable, UiInv
    <3>3. form = [u.form EXCEPT !.step = Backward(u.form)[u.form.step]]
      BY DEF FormKey, form, Letters
    <3> QED
      BY <3>1, <3>2, <3>3 DEF FormType
  <2>3. /\ form.step \in {"none", "name", "transport", "url", "command", "auth"}
        /\ FormDepth[form.step] < FormDepth[u.form.step]
    BY <2>2 DEF FormType, Backward, Endpoint, FormDepth
  <2> HIDE DEF form
  <2>4. CASE form.step = "none"
    <3> DEFINE left == [u EXCEPT !.mcp = Popup("menu"), !.form = NoForm]
    <3>1. v = [left EXCEPT !.mcp.pick = 1] /\ HandleMcp(u, "esc").sent # <<"abort">>
      BY <2>1, <2>4 DEF HandleForm, form, Taken, Pass
    <3>2. /\ left \in UiType /\ left.mcp = Popup("menu") /\ left.form = NoForm
          /\ left.agents = u.agents /\ left.skills = u.skills /\ CardDepth(left) = CardDepth(u)
      <4>1. left \in UiType
        BY <1>0, PopupTyped, FieldTyped DEF Popup, PopupType, NoForm, FormType
      <4>2. CardDepth(left) = CardDepth(u)
        BY <1>0 DEF CardDepth, Counted, UiType
      <4> QED
        BY <1>0, <4>1, <4>2 DEF UiType
    <3> HIDE DEF left
    <3>3. /\ v.mcp.view = "menu" /\ v.form = NoForm
          /\ v.agents = u.agents /\ v.skills = u.skills
      BY <3>1, <3>2 DEF UiType, Popup
    <3>6. CardDepth(v) = CardDepth(u)
      <4>1. CardDepth(v) = CardDepth(left)
        BY <3>1, <3>2 DEF CardDepth, Counted, UiType
      <4> QED
        BY <3>2, <4>1
    <3>4. /\ McpDepth[v.mcp.view] = 1 /\ McpDepth[u.mcp.view] = 1
          /\ FormDepth[v.form.step] = 0 /\ FormDepth[u.form.step] > 0
      BY <1>3, <2>3, <2>4, <3>3 DEF McpDepth, FormDepth, NoForm
    <3> HIDE DEF v
    <3>5. PopupDepth(v) < PopupDepth(u)
      BY <1>0, <3>3, <3>4, PopupsTyped DEF PopupDepth
    <3> QED
      BY <1>0, <3>1, <3>5, <3>6, PopupShuts DEF Closes, v
  <2>5. CASE form.step # "none"
    <3>1. v = [u EXCEPT !.form = form] /\ HandleMcp(u, "esc").sent # <<"abort">>
      BY <2>1, <2>3, <2>5 DEF HandleForm, form, Taken, Pass
    <3>2. v.form = form /\ v.mcp = u.mcp /\ v.agents = u.agents /\ v.skills = u.skills
      BY <1>0, <3>1 DEF UiType
    <3>3. CardDepth(v) = CardDepth(u)
      BY <1>0, <3>1 DEF CardDepth, Counted, UiType
    <3>4. PopupDepth(v) < PopupDepth(u)
      <4> HIDE DEF v
      <4> QED
        BY <1>0, <2>3, <3>2, PopupsTyped DEF PopupDepth
    <3> QED
      BY <1>0, <3>1, <3>3, <3>4, PopupShuts DEF Closes
  <2> QED
    BY <2>4, <2>5
<1> QED
  BY <1>0, <1>1, <1>2, <1>3 DEF UiType, PopupType

\* Esc leads from a state EscapeFrees is about to another one.
LEMMA PermissionFreeable ==
  ASSUME NEW u, Freeable(u)
  PROVE  Freeable(HandlePermission(u, "esc").ui)
<1> DEFINE v == HandlePermission(u, "esc").ui
<1>1. /\ UiInv(u) /\ u \in UiType
      /\ u.model /\ ~u.activity /\ u.update \in {"none", "prompt", "failed"}
  BY DEF Freeable, UiInv
<1>2. v.model /\ ~v.activity /\ v.update \in {"none", "prompt", "failed"}
  BY <1>1 DEF UiType, HandlePermission, Pass, Taken, Sends, Card
<1>3. UiInv(v)
  BY <1>1, PermissionKeeps
<1>4. Freeable(v)
  <2> HIDE DEF v
  <2> QED
    BY <1>2, <1>3 DEF Freeable
<1> QED
  BY <1>4

LEMMA GuidedFreeable ==
  ASSUME NEW u, Freeable(u)
  PROVE  Freeable(HandleGuided(u, "esc").ui)
<1> DEFINE v == HandleGuided(u, "esc").ui
<1>1. /\ UiInv(u) /\ u \in UiType
      /\ u.model /\ ~u.activity /\ u.update \in {"none", "prompt", "failed"}
  BY DEF Freeable, UiInv
<1>2. v.model /\ ~v.activity /\ v.update \in {"none", "prompt", "failed"}
  BY <1>1 DEF UiType, HandleGuided, Pass, Taken, Sends, Card, Earlier
<1>3. UiInv(v)
  BY <1>1, GuidedKeeps
<1>4. Freeable(v)
  <2> HIDE DEF v
  <2> QED
    BY <1>2, <1>3 DEF Freeable
<1> QED
  BY <1>4

LEMMA RemovalFreeable ==
  ASSUME NEW u, Freeable(u)
  PROVE  Freeable(HandleRemoval(u, "esc").ui)
<1> DEFINE v == HandleRemoval(u, "esc").ui
<1>1. /\ UiInv(u) /\ u \in UiType
      /\ u.model /\ ~u.activity /\ u.update \in {"none", "prompt", "failed"}
  BY DEF Freeable, UiInv
<1>2. v.model /\ ~v.activity /\ v.update \in {"none", "prompt", "failed"}
  BY <1>1 DEF UiType, HandleRemoval, Pass, Taken, Sends, Card, Decisions
<1>3. UiInv(v)
  BY <1>1, RemovalKeeps
<1>4. Freeable(v)
  <2> HIDE DEF v
  <2> QED
    BY <1>2, <1>3 DEF Freeable
<1> QED
  BY <1>4

LEMMA ConfirmFreeable ==
  ASSUME NEW u, Freeable(u)
  PROVE  Freeable(HandleConfirm(u, "esc").ui)
<1> DEFINE v == HandleConfirm(u, "esc").ui
<1>1. /\ UiInv(u) /\ u \in UiType
      /\ u.model /\ ~u.activity /\ u.update \in {"none", "prompt", "failed"}
  BY DEF Freeable, UiInv
<1>2. v.model /\ ~v.activity /\ v.update \in {"none", "prompt", "failed"}
  BY <1>1 DEF UiType, HandleConfirm, Pass, Taken, Sends, Card, Decisions
<1>3. UiInv(v)
  BY <1>1, ConfirmKeeps
<1>4. Freeable(v)
  <2> HIDE DEF v
  <2> QED
    BY <1>2, <1>3 DEF Freeable
<1> QED
  BY <1>4

LEMMA ConflictFreeable ==
  ASSUME NEW u, Freeable(u)
  PROVE  Freeable(HandleConflict(u, "esc").ui)
<1> DEFINE v == HandleConflict(u, "esc").ui
<1>1. /\ UiInv(u) /\ u \in UiType
      /\ u.model /\ ~u.activity /\ u.update \in {"none", "prompt", "failed"}
  BY DEF Freeable, UiInv
<1>2. v.model /\ ~v.activity /\ v.update \in {"none", "prompt", "failed"}
  BY <1>1 DEF UiType, HandleConflict, Pass, Taken, Sends
<1>3. UiInv(v)
  BY <1>1, ConflictKeeps
<1>4. Freeable(v)
  <2> HIDE DEF v
  <2> QED
    BY <1>2, <1>3 DEF Freeable
<1> QED
  BY <1>4

LEMMA UndoFreeable ==
  ASSUME NEW u, Freeable(u)
  PROVE  Freeable(HandleUndo(u, "esc").ui)
<1> DEFINE v == HandleUndo(u, "esc").ui
<1>1. /\ UiInv(u) /\ u \in UiType
      /\ u.model /\ ~u.activity /\ u.update \in {"none", "prompt", "failed"}
  BY DEF Freeable, UiInv
<1>2. v.model /\ ~v.activity /\ v.update \in {"none", "prompt", "failed"}
  BY <1>1 DEF UiType, HandleUndo, Pass, Taken, Sends, Card
<1>3. UiInv(v)
  BY <1>1, UndoKeeps
<1>4. Freeable(v)
  <2> HIDE DEF v
  <2> QED
    BY <1>2, <1>3 DEF Freeable
<1> QED
  BY <1>4

LEMMA UpdateFreeable ==
  ASSUME NEW u, Freeable(u)
  PROVE  Freeable(HandleUpdate(u, "esc").ui)
<1> DEFINE v == HandleUpdate(u, "esc").ui
<1>1. /\ UiInv(u) /\ u \in UiType
      /\ u.model /\ ~u.activity /\ u.update \in {"none", "prompt", "failed"}
  BY DEF Freeable, UiInv
<1>2. v.model /\ ~v.activity /\ v.update \in {"none", "prompt", "failed"}
  BY <1>1 DEF UiType, HandleUpdate, Pass, Taken, Sends
<1>3. UiInv(v)
  BY <1>1, UpdateKeeps
<1>4. Freeable(v)
  <2> HIDE DEF v
  <2> QED
    BY <1>2, <1>3 DEF Freeable
<1> QED
  BY <1>4

LEMMA OnboardingFreeable ==
  ASSUME NEW u, Freeable(u)
  PROVE  Freeable(HandleOnboarding(u, "esc").ui)
<1> DEFINE v == HandleOnboarding(u, "esc").ui
<1>1. /\ UiInv(u) /\ u \in UiType
      /\ u.model /\ ~u.activity /\ u.update \in {"none", "prompt", "failed"}
  BY DEF Freeable, UiInv
<1>2. v.model /\ ~v.activity /\ v.update \in {"none", "prompt", "failed"}
  BY <1>1 DEF UiType, HandleOnboarding, Pass, Taken, Sends
<1>3. UiInv(v)
  BY <1>1, OnboardingKeeps
<1>4. Freeable(v)
  <2> HIDE DEF v
  <2> QED
    BY <1>2, <1>3 DEF Freeable
<1> QED
  BY <1>4

LEMMA ModelPickerFreeable ==
  ASSUME NEW u, Freeable(u)
  PROVE  Freeable(HandleModelPicker(u, "esc").ui)
<1> DEFINE v == HandleModelPicker(u, "esc").ui
<1>1. /\ UiInv(u) /\ u \in UiType
      /\ u.model /\ ~u.activity /\ u.update \in {"none", "prompt", "failed"}
  BY DEF Freeable, UiInv
<1>2. v.model /\ ~v.activity /\ v.update \in {"none", "prompt", "failed"}
  BY <1>1 DEF UiType, HandleModelPicker, Pass, Taken, Sends
<1>3. UiInv(v)
  BY <1>1, ModelPickerKeeps
<1>4. Freeable(v)
  <2> HIDE DEF v
  <2> QED
    BY <1>2, <1>3 DEF Freeable
<1> QED
  BY <1>4

LEMMA SettingsFreeable ==
  ASSUME NEW u, Freeable(u)
  PROVE  Freeable(HandleSettings(u, "esc").ui)
<1> DEFINE v == HandleSettings(u, "esc").ui
<1>1. /\ UiInv(u) /\ u \in UiType
      /\ u.model /\ ~u.activity /\ u.update \in {"none", "prompt", "failed"}
  BY DEF Freeable, UiInv
<1>2. v.model /\ ~v.activity /\ v.update \in {"none", "prompt", "failed"}
  BY <1>1 DEF UiType, HandleSettings, Pass, Taken, Sends
<1>3. UiInv(v)
  BY <1>1, SettingsKeeps
<1>4. Freeable(v)
  <2> HIDE DEF v
  <2> QED
    BY <1>2, <1>3 DEF Freeable
<1> QED
  BY <1>4

LEMMA EffortPickerFreeable ==
  ASSUME NEW u, Freeable(u)
  PROVE  Freeable(HandleEffortPicker(u, "esc").ui)
<1> DEFINE v == HandleEffortPicker(u, "esc").ui
<1>1. /\ UiInv(u) /\ u \in UiType
      /\ u.model /\ ~u.activity /\ u.update \in {"none", "prompt", "failed"}
  BY DEF Freeable, UiInv
<1>2. v.model /\ ~v.activity /\ v.update \in {"none", "prompt", "failed"}
  BY <1>1 DEF UiType, HandleEffortPicker, Pass, Taken, Sends
<1>3. UiInv(v)
  BY <1>1, EffortPickerKeeps
<1>4. Freeable(v)
  <2> HIDE DEF v
  <2> QED
    BY <1>2, <1>3 DEF Freeable
<1> QED
  BY <1>4

LEMMA SessionPickerFreeable ==
  ASSUME NEW u, Freeable(u)
  PROVE  Freeable(HandleSessionPicker(u, "esc").ui)
<1> DEFINE v == HandleSessionPicker(u, "esc").ui
<1>1. /\ UiInv(u) /\ u \in UiType
      /\ u.model /\ ~u.activity /\ u.update \in {"none", "prompt", "failed"}
  BY DEF Freeable, UiInv
<1>2. v.model /\ ~v.activity /\ v.update \in {"none", "prompt", "failed"}
  BY <1>1 DEF UiType, HandleSessionPicker, Pass, Taken, Sends
<1>3. UiInv(v)
  BY <1>1, SessionPickerKeeps
<1>4. Freeable(v)
  <2> HIDE DEF v
  <2> QED
    BY <1>2, <1>3 DEF Freeable
<1> QED
  BY <1>4

LEMMA HelpFreeable ==
  ASSUME NEW u, Freeable(u)
  PROVE  Freeable(HandleHelp(u, "esc").ui)
<1> DEFINE v == HandleHelp(u, "esc").ui
<1>1. /\ UiInv(u) /\ u \in UiType
      /\ u.model /\ ~u.activity /\ u.update \in {"none", "prompt", "failed"}
  BY DEF Freeable, UiInv
<1>2. v.model /\ ~v.activity /\ v.update \in {"none", "prompt", "failed"}
  BY <1>1 DEF UiType, HandleHelp, Pass, Taken, Sends
<1>3. UiInv(v)
  BY <1>1, HelpKeeps
<1>4. Freeable(v)
  <2> HIDE DEF v
  <2> QED
    BY <1>2, <1>3 DEF Freeable
<1> QED
  BY <1>4

LEMMA SkillsFreeable ==
  ASSUME NEW u, Freeable(u)
  PROVE  Freeable(HandleSkills(u, "esc").ui)
<1> DEFINE v == HandleSkills(u, "esc").ui
<1>1. /\ UiInv(u) /\ u \in UiType
      /\ u.model /\ ~u.activity /\ u.update \in {"none", "prompt", "failed"}
  BY DEF Freeable, UiInv
<1>2. v.model /\ ~v.activity /\ v.update \in {"none", "prompt", "failed"}
  BY <1>1 DEF UiType, HandleSkills, Pass, Taken, Sends
<1>3. UiInv(v)
  BY <1>1, SkillsKeeps
<1>4. Freeable(v)
  <2> HIDE DEF v
  <2> QED
    BY <1>2, <1>3 DEF Freeable
<1> QED
  BY <1>4

LEMMA McpFreeable ==
  ASSUME NEW u, Freeable(u)
  PROVE  Freeable(HandleMcp(u, "esc").ui)
<1> DEFINE v == HandleMcp(u, "esc").ui
<1>1. /\ UiInv(u) /\ u \in UiType
      /\ u.model /\ ~u.activity /\ u.update \in {"none", "prompt", "failed"}
  BY DEF Freeable, UiInv
<1>2. v.model /\ ~v.activity /\ v.update \in {"none", "prompt", "failed"}
  BY <1>1 DEF UiType, HandleMcp, Pass, Taken, Sends, HandleForm
<1>3. UiInv(v)
  BY <1>1, McpKeeps
<1>4. Freeable(v)
  <2> HIDE DEF v
  <2> QED
    BY <1>2, <1>3 DEF Freeable
<1> QED
  BY <1>4

LEMMA AgentsFreeable ==
  ASSUME NEW u, Freeable(u)
  PROVE  Freeable(HandleAgents(u, "esc").ui)
<1> DEFINE v == HandleAgents(u, "esc").ui
<1>1. /\ UiInv(u) /\ u \in UiType
      /\ u.model /\ ~u.activity /\ u.update \in {"none", "prompt", "failed"}
  BY DEF Freeable, UiInv
<1>2. v.model /\ ~v.activity /\ v.update \in {"none", "prompt", "failed"}
  BY <1>1 DEF UiType, HandleAgents, Pass, Taken, Sends, AgentsView
<1>3. UiInv(v)
  BY <1>1, AgentsKeeps
<1>4. Freeable(v)
  <2> HIDE DEF v
  <2> QED
    BY <1>2, <1>3 DEF Freeable
<1> QED
  BY <1>4

-----------------------------------------------------------------------------
(* Esc, offered to one handler after the other                             *)

\* What the handlers so far have made of Esc: they let it through, or closed
\* something, or one of them asked for the abort.
Progress(u, out) ==
  /\ Freeable(out.ui)
  /\ \/ out = Pass(u)
     \/ Depth(out.ui) < Depth(u) /\ out.sent # <<"abort">>
     \/ Depth(out.ui) <= Depth(u) /\ out.sent = <<"abort">> /\ out.stop /\ out.ui.conflict.open

LEMMA DepthNat ==
  ASSUME NEW u \in UiType
  PROVE  Depth(u) \in Nat
BY DepthIs, PopupsTyped DEF CardDepth, PopupDepth, Counted

LEMMA PassIs ==
  ASSUME NEW u
  PROVE  /\ Pass(u).ui = u /\ ~Pass(u).stop /\ Pass(u).sent = <<>>
         /\ \A c : Sends(u, c).ui = u /\ Sends(u, c).stop /\ Sends(u, c).sent = <<c>>
BY DEF Pass, Sends, Taken

\* What one handler makes of the key adds to what those before it made of it.
LEMMA KeyCloses ==
  ASSUME NEW u, Freeable(u), NEW out, Progress(u, out), NEW then, Freeable(then.ui),
         \/ then = Pass(out.ui)
         \/ Depth(then.ui) < Depth(out.ui) /\ then.sent # <<"abort">>
         \/ then = Sends(out.ui, "abort") /\ out.ui.conflict.open,
         NEW next, next = IF out.stop THEN out ELSE then
  PROVE  Progress(u, next) /\ (next = Pass(u) => out = Pass(u) /\ then = Pass(u))
<1>1. Depth(u) \in Nat /\ Depth(out.ui) \in Nat /\ Depth(then.ui) \in Nat
  BY DepthNat DEF Progress, Freeable, UiInv
<1>2. CASE out.stop
  BY <1>2, PassIs
<1>3. CASE ~out.stop /\ out = Pass(u)
  BY <1>1, <1>3, PassIs DEF Progress
<1>4. CASE ~out.stop /\ out # Pass(u)
  <2>1. Depth(out.ui) < Depth(u) /\ next = then
    BY <1>4 DEF Progress
  <2>5. Depth(then.ui) < Depth(u)
    <3>1. then.ui = out.ui \/ Depth(then.ui) < Depth(out.ui)
      BY PassIs
    <3>2. CASE then.ui = out.ui
      BY <2>1, <3>2
    <3>3. CASE Depth(then.ui) < Depth(out.ui)
      BY <1>1, <2>1, <3>3
    <3> QED
      BY <3>1, <3>2, <3>3
  <2>2. then.ui # u
    BY <1>1, <2>5
  <2>3. next # Pass(u)
    BY <2>1, <2>2, PassIs
  <2>4. Progress(u, next)
    <3>1. Freeable(next.ui) /\ Depth(next.ui) <= Depth(u) /\ Depth(next.ui) < Depth(u)
      BY <1>1, <2>1, <2>5
    <3>2. next.sent = <<"abort">> => next.stop /\ next.ui.conflict.open
      BY <2>1, PassIs
    <3> QED
      BY <3>1, <3>2 DEF Progress
  <2> QED
    BY <2>3, <2>4
<1> QED
  BY <1>2, <1>3, <1>4

\* One more handler: if the key is still untouched, that handler's part is shut.
LEMMA PermissionOn ==
  ASSUME NEW u, Freeable(u), NEW out, Progress(u, out),
         NEW next, next = IF out.stop THEN out ELSE HandlePermission(out.ui, "esc")
  PROVE  Progress(u, next) /\ (next = Pass(u) => out = Pass(u) /\ ~u.permission)
<1> DEFINE then == HandlePermission(out.ui, "esc")
<1>1. Freeable(out.ui) /\ Freeable(then.ui)
  BY PermissionFreeable DEF Progress
<1>2. Closes(out.ui, then, ~out.ui.permission)
  BY <1>1, PermissionCloses DEF Freeable
<1> HIDE DEF then
<1>3. Progress(u, next) /\ (next = Pass(u) => out = Pass(u) /\ then = Pass(u))
  BY <1>1, <1>2, KeyCloses DEF Closes, then
<1>4. Depth(u) \in Nat
  BY DepthNat DEF Freeable, UiInv
<1> QED
  BY <1>2, <1>3, <1>4, PassIs DEF Closes

LEMMA GuidedOn ==
  ASSUME NEW u, Freeable(u), NEW out, Progress(u, out),
         NEW next, next = IF out.stop THEN out ELSE HandleGuided(out.ui, "esc")
  PROVE  Progress(u, next) /\ (next = Pass(u) => out = Pass(u) /\ u.guided = 0)
<1> DEFINE then == HandleGuided(out.ui, "esc")
<1>1. Freeable(out.ui) /\ Freeable(then.ui)
  BY GuidedFreeable DEF Progress
<1>2. Closes(out.ui, then, out.ui.guided = 0)
  BY <1>1, GuidedCloses DEF Freeable
<1> HIDE DEF then
<1>3. Progress(u, next) /\ (next = Pass(u) => out = Pass(u) /\ then = Pass(u))
  BY <1>1, <1>2, KeyCloses DEF Closes, then
<1>4. Depth(u) \in Nat
  BY DepthNat DEF Freeable, UiInv
<1> QED
  BY <1>2, <1>3, <1>4, PassIs DEF Closes

LEMMA RemovalOn ==
  ASSUME NEW u, Freeable(u), NEW out, Progress(u, out),
         NEW next, next = IF out.stop THEN out ELSE HandleRemoval(out.ui, "esc")
  PROVE  Progress(u, next) /\ (next = Pass(u) => out = Pass(u) /\ ~u.removal)
<1> DEFINE then == HandleRemoval(out.ui, "esc")
<1>1. Freeable(out.ui) /\ Freeable(then.ui)
  BY RemovalFreeable DEF Progress
<1>2. Closes(out.ui, then, ~out.ui.removal)
  BY <1>1, RemovalCloses DEF Freeable
<1> HIDE DEF then
<1>3. Progress(u, next) /\ (next = Pass(u) => out = Pass(u) /\ then = Pass(u))
  BY <1>1, <1>2, KeyCloses DEF Closes, then
<1>4. Depth(u) \in Nat
  BY DepthNat DEF Freeable, UiInv
<1> QED
  BY <1>2, <1>3, <1>4, PassIs DEF Closes

LEMMA ConfirmOn ==
  ASSUME NEW u, Freeable(u), NEW out, Progress(u, out),
         NEW next, next = IF out.stop THEN out ELSE HandleConfirm(out.ui, "esc")
  PROVE  Progress(u, next) /\ (next = Pass(u) => out = Pass(u) /\ u.confirm = "none")
<1> DEFINE then == HandleConfirm(out.ui, "esc")
<1>1. Freeable(out.ui) /\ Freeable(then.ui)
  BY ConfirmFreeable DEF Progress
<1>2. Closes(out.ui, then, out.ui.confirm = "none")
  BY <1>1, ConfirmCloses DEF Freeable
<1> HIDE DEF then
<1>3. Progress(u, next) /\ (next = Pass(u) => out = Pass(u) /\ then = Pass(u))
  BY <1>1, <1>2, KeyCloses DEF Closes, then
<1>4. Depth(u) \in Nat
  BY DepthNat DEF Freeable, UiInv
<1> QED
  BY <1>2, <1>3, <1>4, PassIs DEF Closes

LEMMA ConflictOn ==
  ASSUME NEW u, Freeable(u), NEW out, Progress(u, out),
         NEW next, next = IF out.stop THEN out ELSE HandleConflict(out.ui, "esc")
  PROVE  Progress(u, next) /\ (next = Pass(u) => out = Pass(u) /\ ~u.conflict.open)
<1> DEFINE then == HandleConflict(out.ui, "esc")
<1>1. Freeable(out.ui) /\ Freeable(then.ui)
  BY ConflictFreeable DEF Progress
<1>2. Closes(out.ui, then, ~out.ui.conflict.open)
  BY <1>1, ConflictCloses DEF Freeable
<1> HIDE DEF then
<1>3. Progress(u, next) /\ (next = Pass(u) => out = Pass(u) /\ then = Pass(u))
  BY <1>1, <1>2, KeyCloses DEF Closes, then
<1>4. Depth(u) \in Nat
  BY DepthNat DEF Freeable, UiInv
<1> QED
  BY <1>2, <1>3, <1>4, PassIs DEF Closes

LEMMA UndoOn ==
  ASSUME NEW u, Freeable(u), NEW out, Progress(u, out),
         NEW next, next = IF out.stop THEN out ELSE HandleUndo(out.ui, "esc")
  PROVE  Progress(u, next) /\ (next = Pass(u) => out = Pass(u) /\ ~u.undo)
<1> DEFINE then == HandleUndo(out.ui, "esc")
<1>1. Freeable(out.ui) /\ Freeable(then.ui)
  BY UndoFreeable DEF Progress
<1>2. Closes(out.ui, then, ~out.ui.undo)
  BY <1>1, UndoCloses DEF Freeable
<1> HIDE DEF then
<1>3. Progress(u, next) /\ (next = Pass(u) => out = Pass(u) /\ then = Pass(u))
  BY <1>1, <1>2, KeyCloses DEF Closes, then
<1>4. Depth(u) \in Nat
  BY DepthNat DEF Freeable, UiInv
<1> QED
  BY <1>2, <1>3, <1>4, PassIs DEF Closes

LEMMA UpdateOn ==
  ASSUME NEW u, Freeable(u), NEW out, Progress(u, out),
         NEW next, next = IF out.stop THEN out ELSE HandleUpdate(out.ui, "esc")
  PROVE  Progress(u, next) /\ (next = Pass(u) => out = Pass(u) /\ u.update = "none")
<1> DEFINE then == HandleUpdate(out.ui, "esc")
<1>1. Freeable(out.ui) /\ Freeable(then.ui)
  BY UpdateFreeable DEF Progress
<1>2. Closes(out.ui, then, out.ui.update = "none")
  BY <1>1, UpdateCloses DEF Freeable
<1> HIDE DEF then
<1>3. Progress(u, next) /\ (next = Pass(u) => out = Pass(u) /\ then = Pass(u))
  BY <1>1, <1>2, KeyCloses DEF Closes, then
<1>4. Depth(u) \in Nat
  BY DepthNat DEF Freeable, UiInv
<1> QED
  BY <1>2, <1>3, <1>4, PassIs DEF Closes

LEMMA OnboardingOn ==
  ASSUME NEW u, Freeable(u), NEW out, Progress(u, out),
         NEW next, next = IF out.stop THEN out ELSE HandleOnboarding(out.ui, "esc")
  PROVE  Progress(u, next) /\ (next = Pass(u) => out = Pass(u) /\ u.screen # "onboarding")
<1> DEFINE then == HandleOnboarding(out.ui, "esc")
<1>1. Freeable(out.ui) /\ Freeable(then.ui)
  BY OnboardingFreeable DEF Progress
<1>2. Closes(out.ui, then, out.ui.screen # "onboarding")
  BY <1>1, OnboardingCloses DEF Freeable
<1> HIDE DEF then
<1>3. Progress(u, next) /\ (next = Pass(u) => out = Pass(u) /\ then = Pass(u))
  BY <1>1, <1>2, KeyCloses DEF Closes, then
<1>4. Depth(u) \in Nat
  BY DepthNat DEF Freeable, UiInv
<1> QED
  BY <1>2, <1>3, <1>4, PassIs DEF Closes

LEMMA ModelPickerOn ==
  ASSUME NEW u, Freeable(u), NEW out, Progress(u, out),
         NEW next, next = IF out.stop THEN out ELSE HandleModelPicker(out.ui, "esc")
  PROVE  Progress(u, next) /\ (next = Pass(u) => out = Pass(u) /\ u.screen # "models")
<1> DEFINE then == HandleModelPicker(out.ui, "esc")
<1>1. Freeable(out.ui) /\ Freeable(then.ui)
  BY ModelPickerFreeable DEF Progress
<1>2. Closes(out.ui, then, out.ui.screen # "models")
  BY <1>1, ModelPickerCloses DEF Freeable
<1> HIDE DEF then
<1>3. Progress(u, next) /\ (next = Pass(u) => out = Pass(u) /\ then = Pass(u))
  BY <1>1, <1>2, KeyCloses DEF Closes, then
<1>4. Depth(u) \in Nat
  BY DepthNat DEF Freeable, UiInv
<1> QED
  BY <1>2, <1>3, <1>4, PassIs DEF Closes

LEMMA SettingsOn ==
  ASSUME NEW u, Freeable(u), NEW out, Progress(u, out),
         NEW next, next = IF out.stop THEN out ELSE HandleSettings(out.ui, "esc")
  PROVE  Progress(u, next) /\ (next = Pass(u) => out = Pass(u) /\ u.screen # "settings")
<1> DEFINE then == HandleSettings(out.ui, "esc")
<1>1. Freeable(out.ui) /\ Freeable(then.ui)
  BY SettingsFreeable DEF Progress
<1>2. Closes(out.ui, then, out.ui.screen # "settings")
  BY <1>1, SettingsCloses DEF Freeable
<1> HIDE DEF then
<1>3. Progress(u, next) /\ (next = Pass(u) => out = Pass(u) /\ then = Pass(u))
  BY <1>1, <1>2, KeyCloses DEF Closes, then
<1>4. Depth(u) \in Nat
  BY DepthNat DEF Freeable, UiInv
<1> QED
  BY <1>2, <1>3, <1>4, PassIs DEF Closes

LEMMA EffortPickerOn ==
  ASSUME NEW u, Freeable(u), NEW out, Progress(u, out),
         NEW next, next = IF out.stop THEN out ELSE HandleEffortPicker(out.ui, "esc")
  PROVE  Progress(u, next) /\ (next = Pass(u) => out = Pass(u) /\ u.screen # "effort")
<1> DEFINE then == HandleEffortPicker(out.ui, "esc")
<1>1. Freeable(out.ui) /\ Freeable(then.ui)
  BY EffortPickerFreeable DEF Progress
<1>2. Closes(out.ui, then, out.ui.screen # "effort")
  BY <1>1, EffortPickerCloses DEF Freeable
<1> HIDE DEF then
<1>3. Progress(u, next) /\ (next = Pass(u) => out = Pass(u) /\ then = Pass(u))
  BY <1>1, <1>2, KeyCloses DEF Closes, then
<1>4. Depth(u) \in Nat
  BY DepthNat DEF Freeable, UiInv
<1> QED
  BY <1>2, <1>3, <1>4, PassIs DEF Closes

LEMMA SessionPickerOn ==
  ASSUME NEW u, Freeable(u), NEW out, Progress(u, out),
         NEW next, next = IF out.stop THEN out ELSE HandleSessionPicker(out.ui, "esc")
  PROVE  Progress(u, next) /\ (next = Pass(u) => out = Pass(u) /\ u.screen # "sessions")
<1> DEFINE then == HandleSessionPicker(out.ui, "esc")
<1>1. Freeable(out.ui) /\ Freeable(then.ui)
  BY SessionPickerFreeable DEF Progress
<1>2. Closes(out.ui, then, out.ui.screen # "sessions")
  BY <1>1, SessionPickerCloses DEF Freeable
<1> HIDE DEF then
<1>3. Progress(u, next) /\ (next = Pass(u) => out = Pass(u) /\ then = Pass(u))
  BY <1>1, <1>2, KeyCloses DEF Closes, then
<1>4. Depth(u) \in Nat
  BY DepthNat DEF Freeable, UiInv
<1> QED
  BY <1>2, <1>3, <1>4, PassIs DEF Closes

LEMMA HelpOn ==
  ASSUME NEW u, Freeable(u), NEW out, Progress(u, out),
         NEW next, next = IF out.stop THEN out ELSE HandleHelp(out.ui, "esc")
  PROVE  Progress(u, next) /\ (next = Pass(u) => out = Pass(u) /\ ~u.help)
<1> DEFINE then == HandleHelp(out.ui, "esc")
<1>1. Freeable(out.ui) /\ Freeable(then.ui)
  BY HelpFreeable DEF Progress
<1>2. Closes(out.ui, then, ~out.ui.help)
  BY <1>1, HelpCloses DEF Freeable
<1> HIDE DEF then
<1>3. Progress(u, next) /\ (next = Pass(u) => out = Pass(u) /\ then = Pass(u))
  BY <1>1, <1>2, KeyCloses DEF Closes, then
<1>4. Depth(u) \in Nat
  BY DepthNat DEF Freeable, UiInv
<1> QED
  BY <1>2, <1>3, <1>4, PassIs DEF Closes

LEMMA SkillsOn ==
  ASSUME NEW u, Freeable(u), NEW out, Progress(u, out),
         NEW next, next = IF out.stop THEN out ELSE HandleSkills(out.ui, "esc")
  PROVE  Progress(u, next) /\ (next = Pass(u) => out = Pass(u) /\ u.skills.view = "closed")
<1> DEFINE then == HandleSkills(out.ui, "esc")
<1>1. Freeable(out.ui) /\ Freeable(then.ui)
  BY SkillsFreeable DEF Progress
<1>2. Closes(out.ui, then, out.ui.skills.view = "closed")
  BY <1>1, SkillsCloses DEF Freeable
<1> HIDE DEF then
<1>3. Progress(u, next) /\ (next = Pass(u) => out = Pass(u) /\ then = Pass(u))
  BY <1>1, <1>2, KeyCloses DEF Closes, then
<1>4. Depth(u) \in Nat
  BY DepthNat DEF Freeable, UiInv
<1> QED
  BY <1>2, <1>3, <1>4, PassIs DEF Closes

LEMMA McpOn ==
  ASSUME NEW u, Freeable(u), NEW out, Progress(u, out),
         NEW next, next = IF out.stop THEN out ELSE HandleMcp(out.ui, "esc")
  PROVE  Progress(u, next) /\ (next = Pass(u) => out = Pass(u) /\ u.mcp.view = "closed")
<1> DEFINE then == HandleMcp(out.ui, "esc")
<1>1. Freeable(out.ui) /\ Freeable(then.ui)
  BY McpFreeable DEF Progress
<1>2. Closes(out.ui, then, out.ui.mcp.view = "closed")
  BY <1>1, McpCloses DEF Freeable
<1> HIDE DEF then
<1>3. Progress(u, next) /\ (next = Pass(u) => out = Pass(u) /\ then = Pass(u))
  BY <1>1, <1>2, KeyCloses DEF Closes, then
<1>4. Depth(u) \in Nat
  BY DepthNat DEF Freeable, UiInv
<1> QED
  BY <1>2, <1>3, <1>4, PassIs DEF Closes

LEMMA AgentsOn ==
  ASSUME NEW u, Freeable(u), NEW out, Progress(u, out),
         NEW next, next = IF out.stop THEN out ELSE HandleAgents(out.ui, "esc")
  PROVE  Progress(u, next) /\ (next = Pass(u) => out = Pass(u) /\ u.agents.view = "closed")
<1> DEFINE then == HandleAgents(out.ui, "esc")
<1>1. Freeable(out.ui) /\ Freeable(then.ui)
  BY AgentsFreeable DEF Progress
<1>2. Closes(out.ui, then, out.ui.agents.view = "closed")
  BY <1>1, AgentsCloses DEF Freeable
<1> HIDE DEF then
<1>3. Progress(u, next) /\ (next = Pass(u) => out = Pass(u) /\ then = Pass(u))
  BY <1>1, <1>2, KeyCloses DEF Closes, then
<1>4. Depth(u) \in Nat
  BY DepthNat DEF Freeable, UiInv
<1> QED
  BY <1>2, <1>3, <1>4, PassIs DEF Closes

\* The handlers of a group, offered the key one after the other.
LEMMA CardsKept ==
  ASSUME NEW u, UiInv(u), NEW k
  PROVE  UiInv(OfferCards(u, k).ui)
<1> DEFINE a0 == HandleInterrupt(u, k)
           a1 == Or(a0, HandlePermission, k)
           a2 == Or(a1, HandleGuided, k)
           a3 == Or(a2, HandleRemoval, k)
<1>0. OfferCards(u, k) = a3
  BY DEF OfferCards
<1>1. a1 = IF a0.stop THEN a0 ELSE HandlePermission(a0.ui, k)
  BY DEF Or
<1>2. a2 = IF a1.stop THEN a1 ELSE HandleGuided(a1.ui, k)
  BY DEF Or
<1>3. a3 = IF a2.stop THEN a2 ELSE HandleRemoval(a2.ui, k)
  BY DEF Or
<1>4. UiInv(a0.ui)
  BY InterruptKeeps
<1> HIDE DEF a0, a1, a2, a3
<1>5. UiInv(a1.ui)
  BY <1>1, <1>4, PermissionKeeps
<1>6. UiInv(a2.ui)
  BY <1>2, <1>5, GuidedKeeps
<1>7. UiInv(a3.ui)
  BY <1>3, <1>6, RemovalKeeps
<1> QED
  BY <1>0, <1>7

LEMMA NoticesKept ==
  ASSUME NEW u, UiInv(u), NEW k
  PROVE  UiInv(OfferNotices(u, k).ui)
<1> DEFINE a0 == OfferCards(u, k)
           a1 == Or(a0, HandleConfirm, k)
           a2 == Or(a1, HandleConflict, k)
           a3 == Or(a2, HandleUndo, k)
           a4 == Or(a3, HandleUpdate, k)
<1>0. OfferNotices(u, k) = a4
  BY DEF OfferNotices
<1>1. a1 = IF a0.stop THEN a0 ELSE HandleConfirm(a0.ui, k)
  BY DEF Or
<1>2. a2 = IF a1.stop THEN a1 ELSE HandleConflict(a1.ui, k)
  BY DEF Or
<1>3. a3 = IF a2.stop THEN a2 ELSE HandleUndo(a2.ui, k)
  BY DEF Or
<1>4. a4 = IF a3.stop THEN a3 ELSE HandleUpdate(a3.ui, k)
  BY DEF Or
<1>5. UiInv(a0.ui)
  BY CardsKept
<1> HIDE DEF a0, a1, a2, a3, a4
<1>6. UiInv(a1.ui)
  BY <1>1, <1>5, ConfirmKeeps
<1>7. UiInv(a2.ui)
  BY <1>2, <1>6, ConflictKeeps
<1>8. UiInv(a3.ui)
  BY <1>3, <1>7, UndoKeeps
<1>9. UiInv(a4.ui)
  BY <1>4, <1>8, UpdateKeeps
<1> QED
  BY <1>0, <1>9

LEMMA ScreensKept ==
  ASSUME NEW u, UiInv(u), NEW k
  PROVE  UiInv(OfferScreens(u, k).ui)
<1> DEFINE a0 == OfferNotices(u, k)
           a1 == Or(a0, HandleOnboarding, k)
           a2 == Or(a1, HandleModelPicker, k)
           a3 == Or(a2, HandleSettings, k)
<1>0. OfferScreens(u, k) = a3
  BY DEF OfferScreens
<1>1. a1 = IF a0.stop THEN a0 ELSE HandleOnboarding(a0.ui, k)
  BY DEF Or
<1>2. a2 = IF a1.stop THEN a1 ELSE HandleModelPicker(a1.ui, k)
  BY DEF Or
<1>3. a3 = IF a2.stop THEN a2 ELSE HandleSettings(a2.ui, k)
  BY DEF Or
<1>4. UiInv(a0.ui)
  BY NoticesKept
<1> HIDE DEF a0, a1, a2, a3
<1>5. UiInv(a1.ui)
  BY <1>1, <1>4, OnboardingKeeps
<1>6. UiInv(a2.ui)
  BY <1>2, <1>5, ModelPickerKeeps
<1>7. UiInv(a3.ui)
  BY <1>3, <1>6, SettingsKeeps
<1> QED
  BY <1>0, <1>7

LEMMA PickersKept ==
  ASSUME NEW u, UiInv(u), NEW k
  PROVE  UiInv(OfferPickers(u, k).ui)
<1> DEFINE a0 == OfferScreens(u, k)
           a1 == Or(a0, HandleEffortPicker, k)
           a2 == Or(a1, HandleSessionPicker, k)
           a3 == Or(a2, HandlePermissionMode, k)
<1>0. OfferPickers(u, k) = a3
  BY DEF OfferPickers
<1>1. a1 = IF a0.stop THEN a0 ELSE HandleEffortPicker(a0.ui, k)
  BY DEF Or
<1>2. a2 = IF a1.stop THEN a1 ELSE HandleSessionPicker(a1.ui, k)
  BY DEF Or
<1>3. a3 = IF a2.stop THEN a2 ELSE HandlePermissionMode(a2.ui, k)
  BY DEF Or
<1>4. UiInv(a0.ui)
  BY ScreensKept
<1> HIDE DEF a0, a1, a2, a3
<1>5. UiInv(a1.ui)
  BY <1>1, <1>4, EffortPickerKeeps
<1>6. UiInv(a2.ui)
  BY <1>2, <1>5, SessionPickerKeeps
<1>7. UiInv(a3.ui)
  BY <1>3, <1>6, PermissionModeKeeps
<1> QED
  BY <1>0, <1>7

LEMMA McpPasses ==
  ASSUME NEW u, UiInv(u), NEW k, ~HandleMcp(u, k).stop
  PROVE  HandleMcp(u, k).ui = u /\ u.mcp.view = "closed"
BY DEF HandleMcp, HandleForm, Pass, Taken, Sends

LEMMA AgentsPasses ==
  ASSUME NEW u, NEW k, ~HandleAgents(u, k).stop
  PROVE  HandleAgents(u, k).ui = u
BY DEF HandleAgents, Pass, Taken, Sends

LEMMA PopupsKept ==
  ASSUME NEW u, UiInv(u), NEW k
  PROVE  UiInv(OfferPopups(u, k).ui)
         /\ (~OfferPopups(u, k).stop => OfferPopups(u, k).ui.mcp.view = "closed")
<1> DEFINE a0 == OfferPickers(u, k)
           a1 == Or(a0, HandleHelp, k)
           a2 == Or(a1, HandleSkills, k)
           a3 == Or(a2, HandleMcp, k)
           a4 == Or(a3, HandleAgents, k)
<1>0. OfferPopups(u, k) = a4
  BY DEF OfferPopups
<1>1. a1 = IF a0.stop THEN a0 ELSE HandleHelp(a0.ui, k)
  BY DEF Or
<1>2. a2 = IF a1.stop THEN a1 ELSE HandleSkills(a1.ui, k)
  BY DEF Or
<1>3. a3 = IF a2.stop THEN a2 ELSE HandleMcp(a2.ui, k)
  BY DEF Or
<1>4. a4 = IF a3.stop THEN a3 ELSE HandleAgents(a3.ui, k)
  BY DEF Or
<1>5. UiInv(a0.ui)
  BY PickersKept
<1> HIDE DEF a0, a1, a2, a3, a4
<1>6. UiInv(a1.ui)
  BY <1>1, <1>5, HelpKeeps
<1>7. UiInv(a2.ui)
  BY <1>2, <1>6, SkillsKeeps
<1>8. UiInv(a3.ui)
  BY <1>3, <1>7, McpKeeps
<1>9. UiInv(a4.ui)
  BY <1>4, <1>8, AgentsKeeps
<1>10. ~a3.stop => a3.ui.mcp.view = "closed"
  BY <1>3, <1>7, McpPasses
<1>11. ~a4.stop => a4.ui.mcp.view = "closed"
  BY <1>4, <1>10, AgentsPasses
<1> QED
  BY <1>0, <1>9, <1>11

LEMMA RouteKeeps ==
  ASSUME NEW u, UiInv(u), NEW k, NEW s \in Submissions
  PROVE  UiInv(Route(u, k, s).ui)
<1> DEFINE out == OfferPopups(u, k)
           chat == IF out.stop THEN out ELSE HandleChat(out.ui, k, s)
<1>1. Route(u, k, s) = IF chat.stop THEN chat ELSE HandleEscape(chat.ui, k)
  BY DEF Route, Or
<1>2. UiInv(out.ui) /\ (~out.stop => out.ui.mcp.view = "closed")
  BY PopupsKept
<1>3. UiInv(chat.ui)
  BY <1>2, SubmitKeeps DEF HandleChat, Pass
<1> HIDE DEF chat
<1> QED
  BY <1>1, <1>3, EscapeKeeps

LEMMA PermissionModeOn ==
  ASSUME NEW u, Freeable(u), NEW out, Progress(u, out),
         NEW next, next = IF out.stop THEN out ELSE HandlePermissionMode(out.ui, "esc")
  PROVE  Progress(u, next) /\ (next = Pass(u) => out = Pass(u))
<1>1. next = IF out.stop THEN out ELSE Pass(out.ui)
  BY PermissionModeCloses
<1>2. Freeable(u) /\ Freeable(Pass(out.ui).ui)
  BY PassIs DEF Progress
<1> QED
  BY <1>1, <1>2, KeyCloses, PassIs

\* What a group of handlers makes of Esc; untouched, it finds its parts shut.
LEMMA CardsFree ==
  ASSUME NEW u, Freeable(u)
  PROVE  /\ Progress(u, OfferCards(u, "esc"))
         /\ OfferCards(u, "esc") = Pass(u) => ~u.permission /\ u.guided = 0 /\ ~u.removal
<1> DEFINE a0 == HandleInterrupt(u, "esc")
           a1 == Or(a0, HandlePermission, "esc")
           a2 == Or(a1, HandleGuided, "esc")
           a3 == Or(a2, HandleRemoval, "esc")
<1>0. OfferCards(u, "esc") = a3
  BY DEF OfferCards
<1>1. a1 = IF a0.stop THEN a0 ELSE HandlePermission(a0.ui, "esc")
  BY DEF Or
<1>2. a2 = IF a1.stop THEN a1 ELSE HandleGuided(a1.ui, "esc")
  BY DEF Or
<1>3. a3 = IF a2.stop THEN a2 ELSE HandleRemoval(a2.ui, "esc")
  BY DEF Or
<1>4. Progress(u, a0)
  BY InterruptCloses, PassIs DEF Progress
<1> HIDE DEF a0, a1, a2, a3
<1>5. Progress(u, a1) /\ (a1 = Pass(u) => a0 = Pass(u) /\ ~u.permission)
  BY <1>1, <1>4, PermissionOn
<1>6. Progress(u, a2) /\ (a2 = Pass(u) => a1 = Pass(u) /\ u.guided = 0)
  BY <1>2, <1>5, GuidedOn
<1>7. Progress(u, a3) /\ (a3 = Pass(u) => a2 = Pass(u) /\ ~u.removal)
  BY <1>3, <1>6, RemovalOn
<1> QED
  BY <1>0, <1>5, <1>6, <1>7

LEMMA NoticesFree ==
  ASSUME NEW u, Freeable(u)
  PROVE  /\ Progress(u, OfferNotices(u, "esc"))
         /\ OfferNotices(u, "esc") = Pass(u) =>
              OfferCards(u, "esc") = Pass(u) /\ u.confirm = "none" /\ ~u.conflict.open /\
              ~u.undo /\ u.update = "none"
<1> DEFINE a0 == OfferCards(u, "esc")
           a1 == Or(a0, HandleConfirm, "esc")
           a2 == Or(a1, HandleConflict, "esc")
           a3 == Or(a2, HandleUndo, "esc")
           a4 == Or(a3, HandleUpdate, "esc")
<1>0. OfferNotices(u, "esc") = a4
  BY DEF OfferNotices
<1>1. a1 = IF a0.stop THEN a0 ELSE HandleConfirm(a0.ui, "esc")
  BY DEF Or
<1>2. a2 = IF a1.stop THEN a1 ELSE HandleConflict(a1.ui, "esc")
  BY DEF Or
<1>3. a3 = IF a2.stop THEN a2 ELSE HandleUndo(a2.ui, "esc")
  BY DEF Or
<1>4. a4 = IF a3.stop THEN a3 ELSE HandleUpdate(a3.ui, "esc")
  BY DEF Or
<1>5. Progress(u, a0)
  BY CardsFree
<1> HIDE DEF a0, a1, a2, a3, a4
<1>6. Progress(u, a1) /\ (a1 = Pass(u) => a0 = Pass(u) /\ u.confirm = "none")
  BY <1>1, <1>5, ConfirmOn
<1>7. Progress(u, a2) /\ (a2 = Pass(u) => a1 = Pass(u) /\ ~u.conflict.open)
  BY <1>2, <1>6, ConflictOn
<1>8. Progress(u, a3) /\ (a3 = Pass(u) => a2 = Pass(u) /\ ~u.undo)
  BY <1>3, <1>7, UndoOn
<1>9. Progress(u, a4) /\ (a4 = Pass(u) => a3 = Pass(u) /\ u.update = "none")
  BY <1>4, <1>8, UpdateOn
<1> QED
  BY <1>0, <1>6, <1>7, <1>8, <1>9 DEF a0

LEMMA ScreensFree ==
  ASSUME NEW u, Freeable(u)
  PROVE  /\ Progress(u, OfferScreens(u, "esc"))
         /\ OfferScreens(u, "esc") = Pass(u) =>
              OfferNotices(u, "esc") = Pass(u) /\ u.screen # "onboarding" /\
              u.screen # "models" /\ u.screen # "settings"
<1> DEFINE a0 == OfferNotices(u, "esc")
           a1 == Or(a0, HandleOnboarding, "esc")
           a2 == Or(a1, HandleModelPicker, "esc")
           a3 == Or(a2, HandleSettings, "esc")
<1>0. OfferScreens(u, "esc") = a3
  BY DEF OfferScreens
<1>1. a1 = IF a0.stop THEN a0 ELSE HandleOnboarding(a0.ui, "esc")
  BY DEF Or
<1>2. a2 = IF a1.stop THEN a1 ELSE HandleModelPicker(a1.ui, "esc")
  BY DEF Or
<1>3. a3 = IF a2.stop THEN a2 ELSE HandleSettings(a2.ui, "esc")
  BY DEF Or
<1>4. Progress(u, a0)
  BY NoticesFree
<1> HIDE DEF a0, a1, a2, a3
<1>5. Progress(u, a1) /\ (a1 = Pass(u) => a0 = Pass(u) /\ u.screen # "onboarding")
  BY <1>1, <1>4, OnboardingOn
<1>6. Progress(u, a2) /\ (a2 = Pass(u) => a1 = Pass(u) /\ u.screen # "models")
  BY <1>2, <1>5, ModelPickerOn
<1>7. Progress(u, a3) /\ (a3 = Pass(u) => a2 = Pass(u) /\ u.screen # "settings")
  BY <1>3, <1>6, SettingsOn
<1> QED
  BY <1>0, <1>5, <1>6, <1>7 DEF a0

LEMMA PickersFree ==
  ASSUME NEW u, Freeable(u)
  PROVE  /\ Progress(u, OfferPickers(u, "esc"))
         /\ OfferPickers(u, "esc") = Pass(u) =>
              OfferScreens(u, "esc") = Pass(u) /\ u.screen # "effort" /\ u.screen # "sessions"
<1> DEFINE a0 == OfferScreens(u, "esc")
           a1 == Or(a0, HandleEffortPicker, "esc")
           a2 == Or(a1, HandleSessionPicker, "esc")
           a3 == Or(a2, HandlePermissionMode, "esc")
<1>0. OfferPickers(u, "esc") = a3
  BY DEF OfferPickers
<1>1. a1 = IF a0.stop THEN a0 ELSE HandleEffortPicker(a0.ui, "esc")
  BY DEF Or
<1>2. a2 = IF a1.stop THEN a1 ELSE HandleSessionPicker(a1.ui, "esc")
  BY DEF Or
<1>3. a3 = IF a2.stop THEN a2 ELSE HandlePermissionMode(a2.ui, "esc")
  BY DEF Or
<1>4. Progress(u, a0)
  BY ScreensFree
<1> HIDE DEF a0, a1, a2, a3
<1>5. Progress(u, a1) /\ (a1 = Pass(u) => a0 = Pass(u) /\ u.screen # "effort")
  BY <1>1, <1>4, EffortPickerOn
<1>6. Progress(u, a2) /\ (a2 = Pass(u) => a1 = Pass(u) /\ u.screen # "sessions")
  BY <1>2, <1>5, SessionPickerOn
<1>7. Progress(u, a3) /\ (a3 = Pass(u) => a2 = Pass(u))
  BY <1>3, <1>6, PermissionModeOn
<1> QED
  BY <1>0, <1>5, <1>6, <1>7 DEF a0

LEMMA PopupsFree ==
  ASSUME NEW u, Freeable(u)
  PROVE  /\ Progress(u, OfferPopups(u, "esc"))
         /\ OfferPopups(u, "esc") = Pass(u) =>
              OfferPickers(u, "esc") = Pass(u) /\ ~u.help /\ u.skills.view = "closed" /\
              u.mcp.view = "closed" /\ u.agents.view = "closed"
<1> DEFINE a0 == OfferPickers(u, "esc")
           a1 == Or(a0, HandleHelp, "esc")
           a2 == Or(a1, HandleSkills, "esc")
           a3 == Or(a2, HandleMcp, "esc")
           a4 == Or(a3, HandleAgents, "esc")
<1>0. OfferPopups(u, "esc") = a4
  BY DEF OfferPopups
<1>1. a1 = IF a0.stop THEN a0 ELSE HandleHelp(a0.ui, "esc")
  BY DEF Or
<1>2. a2 = IF a1.stop THEN a1 ELSE HandleSkills(a1.ui, "esc")
  BY DEF Or
<1>3. a3 = IF a2.stop THEN a2 ELSE HandleMcp(a2.ui, "esc")
  BY DEF Or
<1>4. a4 = IF a3.stop THEN a3 ELSE HandleAgents(a3.ui, "esc")
  BY DEF Or
<1>5. Progress(u, a0)
  BY PickersFree
<1> HIDE DEF a0, a1, a2, a3, a4
<1>6. Progress(u, a1) /\ (a1 = Pass(u) => a0 = Pass(u) /\ ~u.help)
  BY <1>1, <1>5, HelpOn
<1>7. Progress(u, a2) /\ (a2 = Pass(u) => a1 = Pass(u) /\ u.skills.view = "closed")
  BY <1>2, <1>6, SkillsOn
<1>8. Progress(u, a3) /\ (a3 = Pass(u) => a2 = Pass(u) /\ u.mcp.view = "closed")
  BY <1>3, <1>7, McpOn
<1>9. Progress(u, a4) /\ (a4 = Pass(u) => a3 = Pass(u) /\ u.agents.view = "closed")
  BY <1>4, <1>8, AgentsOn
<1> QED
  BY <1>0, <1>6, <1>7, <1>8, <1>9 DEF a0

\* Nothing is left to close once every handler lets Esc through.
LEMMA BareIsShallow ==
  ASSUME NEW u, Freeable(u), OfferPopups(u, "esc") = Pass(u)
  PROVE  Depth(u) = 0
<1>1. /\ ~u.help /\ u.skills.view = "closed" /\ u.mcp.view = "closed" /\ u.agents.view = "closed"
      /\ u.screen \notin {"onboarding", "models", "settings", "effort", "sessions"}
      /\ u.confirm = "none" /\ ~u.conflict.open /\ ~u.undo /\ u.update = "none"
      /\ ~u.permission /\ u.guided = 0 /\ ~u.removal
  BY PopupsFree, PickersFree, ScreensFree, NoticesFree, CardsFree
<1>2. u \in UiType
  BY DEF Freeable, UiInv
<1>3. u.screen = "chat"
  BY <1>1, <1>2 DEF Freeable, UiInv, UiType, Screens
<1>4. u.form.step = "none"
  BY <1>1 DEF Freeable, UiInv
<1>5. CardDepth(u) = 0
  BY <1>1, <1>3 DEF CardDepth, Counted
<1>6. PopupDepth(u) = 0
  BY <1>1, <1>4 DEF PopupDepth, SkillsDepth, AgentsDepth, McpDepth, FormDepth
<1> QED
  BY <1>2, <1>5, <1>6, DepthIs

LEMMA MergeFinishedFrees ==
  ASSUME NEW u, UiInv(u), u.conflict.open
  PROVE  Depth(Apply(u, "AgentMergeFinished")) < Depth(u)
<1> DEFINE v == [u EXCEPT !.conflict = NoConflict]
<1>1. Apply(u, "AgentMergeFinished") = v
  BY DEF Apply, ScreenOf
<1>2. u \in UiType /\ v \in UiType
  BY FieldTyped DEF UiInv, NoConflict, ConflictType
<1>3. CardDepth(v) < CardDepth(u) /\ PopupDepth(v) = PopupDepth(u)
  BY <1>2 DEF CardDepth, PopupDepth, Counted, UiType, NoConflict
<1> HIDE DEF v
<1> QED
  BY <1>1, <1>2, <1>3, DepthIs, PopupsTyped DEF CardDepth, PopupDepth, Counted

LEMMA UiEscapes ==
  ASSUME UiInv(ui)
  PROVE  EscapeFrees
<1> SUFFICES ASSUME ui.model, ~ui.activity, ui.update \notin {"downloading", "completed"},
                    Depth(ui) > 0
             PROVE  Depth(Escaped(ui)) < Depth(ui)
  BY DEF EscapeFrees
<1> DEFINE out == OfferPopups(ui, "esc")
           route == Route(ui, "esc", "other")
<1>1. Freeable(ui)
  BY DEF Freeable, UiInv, UiType
<1>2. Progress(ui, out) /\ out # Pass(ui)
  BY <1>1, PopupsFree, BareIsShallow
<1>3. route = IF out.stop THEN out ELSE HandleEscape(out.ui, "esc")
  <2>1. HandleChat(out.ui, "esc", "other") = Pass(out.ui)
    BY ChatCloses
  <2> DEFINE chat == IF out.stop THEN out ELSE HandleChat(out.ui, "esc", "other")
  <2>2. route = IF chat.stop THEN chat ELSE HandleEscape(chat.ui, "esc")
    BY DEF Route, Or
  <2> QED
    BY <2>1, <2>2, PassIs
<1> HIDE DEF out, route
<1>4. route.ui = out.ui /\ (route.sent = <<"abort">> => out.sent = <<"abort">>)
      /\ (out.stop => route = out)
  BY <1>3, EscapeCloses
<1>5. Escaped(ui) = IF route.sent = <<"abort">> THEN Apply(route.ui, "AgentMergeFinished")
                    ELSE route.ui
  BY DEF Escaped, route
<1>6. CASE out.sent = <<"abort">>
  <2>1. Depth(out.ui) <= Depth(ui) /\ out.stop /\ out.ui.conflict.open /\ UiInv(out.ui)
    BY <1>2, <1>6 DEF Progress, Freeable
  <2>2. Depth(Apply(out.ui, "AgentMergeFinished")) < Depth(out.ui)
    BY <2>1, MergeFinishedFrees
  <2>3. Escaped(ui) = Apply(out.ui, "AgentMergeFinished")
    BY <1>4, <1>5, <1>6, <2>1
  <2>4. /\ Depth(ui) \in Nat /\ Depth(out.ui) \in Nat
        /\ Depth(Apply(out.ui, "AgentMergeFinished")) \in Nat
    BY <2>1, DepthNat, ApplyKeeps DEF UiInv, Events
  <2> QED
    BY <2>1, <2>2, <2>3, <2>4
<1>7. CASE out.sent # <<"abort">>
  BY <1>2, <1>4, <1>5, <1>7 DEF Progress
<1> QED
  BY <1>6, <1>7

-----------------------------------------------------------------------------
InterfaceInv == UiInv(ui)

LEMMA InterfaceStart == InterfaceInit => InterfaceInv
BY BlankFits DEF InterfaceInit, InterfaceInv

LEMMA InterfaceStep ==
  InterfaceInv /\ [InterfaceNext]_interfaceVars => InterfaceInv'
<1> SUFFICES ASSUME UiInv(ui), [InterfaceNext]_interfaceVars
             PROVE  UiInv(ui')
  BY DEF InterfaceInv
<1>1. CASE Boot
  <2>1. ui \in UiType
    BY DEF UiInv
  <2>2. UiInv([ui EXCEPT !.screen = "onboarding"])
    BY FieldKept DEF Screens
  <2>3. [ui EXCEPT !.screen = "chat", !.model = TRUE, !.models = TRUE] \in UiType
    BY <2>1, SwitchTyped, FieldTyped DEF Screens
  <2>4. UiInv([ui EXCEPT !.screen = "chat", !.model = TRUE, !.models = TRUE])
    BY <2>1, <2>3 DEF UiInv, UiType
  <2> QED
    BY <1>1, <2>2, <2>4 DEF Boot
<1>2. CASE Receive
  <2>1. CASE \E e \in Events : ui' = Apply(ui, e)
    BY <2>1, ApplyKeeps
  <2>2. CASE \E choices \in {2, 3} : \E recommended \in 0 .. choices - 1 :
               ui' = GuidedQuestionRequested(ui, choices, recommended)
    BY <2>2, QuestionKeeps
  <2>3. CASE \E file \in 1 .. MaxConflicts : ui' = AgentConflictFileResolved(ui, file)
    BY <2>3, ResolvedKeeps
  <2> QED
    BY <1>2, <2>1, <2>2, <2>3 DEF Receive
<1>3. CASE Press
  BY <1>3, RouteKeeps DEF Press, Submissions
<1>4. CASE CtrlC
  BY <1>4, NoticeKept DEF CtrlC
<1>5. CASE UNCHANGED interfaceVars
  BY <1>5 DEF interfaceVars
<1> QED
  BY <1>1, <1>2, <1>3, <1>4, <1>5 DEF InterfaceNext

LEMMA InterfaceSafe == InterfaceInv => EscapeFrees /\ ChoiceInRange
BY UiEscapes DEF InterfaceInv, UiInv, ChoiceInRange

\* EscapeFrees, ChoiceInRange: with no run active Esc closes something in every
\* reachable combination of screens, cards and popups until nothing is open, and
\* the cursor of a guided question is on one of its choices, for any number of
\* events and of files in conflict (tui lib.rs 4373-4640, 5605-5862).
THEOREM EscapeAlwaysFrees == InterfaceSpec => [](EscapeFrees /\ ChoiceInRange)
BY InterfaceStart, InterfaceStep, InterfaceSafe, PTL DEF InterfaceSpec

-----------------------------------------------------------------------------
(* The composer: the place in the history                                  *)

Text == Seq({"x", "/", "nl"})

ComposerTypes ==
  /\ text \in Text /\ cursor \in 0 .. Len(text)
  /\ history \in Seq({t \in Text : ~Suggested(t)})
  /\ browsing \in 0 .. Len(history) /\ draft \in Text
  /\ question = FALSE

\* A prompt that is remembered is no command, so a place in the history is left by
\* every key that takes the entry away.
ComposerInv ==
  /\ ComposerTypes
  /\ browsing > 0 => text = history[browsing]

LEMMA LeastPlace ==
  ASSUME NEW T \in SUBSET Nat, T # {}
  PROVE  \E k \in T : \A m \in T : k <= m
<1>1. PICK k \in T : \A m \in T : ~(<<m, k>> \in OpToRel(<, Nat))
  BY WFMin, NatLessThanWellFounded
<1>2. \A m \in T : ~(m < k)
  BY <1>1 DEF OpToRel
<1> QED
  BY <1>2

LEMMA GreatestPlace ==
  ASSUME NEW n \in Nat, NEW T \in SUBSET (1 .. n), T # {}
  PROVE  \E k \in T : \A m \in T : m <= k
<1> DEFINE U == {n - m : m \in T}
<1>1. U \in SUBSET Nat /\ U # {}
  <2>1. \A m \in T : n - m \in Nat
    OBVIOUS
  <2> QED
    BY <2>1
<1>2. PICK u \in U : \A v \in U : u <= v
  <2> HIDE DEF U
  <2> QED
    BY <1>1, LeastPlace
<1>3. PICK k \in T : u = n - k
  BY <1>2
<1>4. \A m \in T : n - k <= n - m
  BY <1>2, <1>3
<1> QED
  BY <1>4

LEMMA LineStartFits ==
  ASSUME NEW t, NEW at \in Nat
  PROVE  LineStart(t, at) \in 0 .. at
<1> DEFINE breaks == {i \in 1 .. at : t[i] = "nl"}
<1>1. CASE breaks = {}
  BY <1>1 DEF LineStart
<1>2. CASE breaks # {}
  <2>1. \E i \in breaks : \A j \in breaks : j <= i
    BY <1>2, GreatestPlace
  <2>2. LineStart(t, at) = CHOOSE i \in breaks : \A j \in breaks : j <= i
    BY <1>2 DEF LineStart
  <2>3. LineStart(t, at) \in breaks
    <3> HIDE DEF breaks
    <3> QED
      BY <2>1, <2>2
  <2> QED
    BY <2>3
<1> QED
  BY <1>1, <1>2

LEMMA LineEndFits ==
  ASSUME NEW t \in Text, NEW at \in Nat
  PROVE  LineEnd(t, at) \in 0 .. Len(t)
<1> DEFINE breaks == {i \in at + 1 .. Len(t) : t[i] = "nl"}
<1>0. Len(t) \in Nat
  BY DEF Text
<1>1. CASE breaks = {}
  BY <1>0, <1>1 DEF LineEnd
<1>2. CASE breaks # {}
  <2>0. breaks \in SUBSET Nat
    BY <1>0
  <2>1. \E i \in breaks : \A j \in breaks : i <= j
    BY <1>2, <2>0, LeastPlace
  <2>2. LineEnd(t, at) = (CHOOSE i \in breaks : \A j \in breaks : i <= j) - 1
    BY <1>2 DEF LineEnd
  <2>3. (CHOOSE i \in breaks : \A j \in breaks : i <= j) \in breaks
    <3> HIDE DEF breaks
    <3> QED
      BY <2>1
  <2> HIDE DEF breaks
  <2>4. \A i \in breaks : i \in 1 .. Len(t)
    BY <1>0 DEF breaks
  <2> QED
    BY <1>0, <2>2, <2>3, <2>4
<1> QED
  BY <1>1, <1>2

LEMMA TextJoined ==
  ASSUME NEW a \in Text, NEW b \in Text
  PROVE  a \o b \in Text /\ Len(a \o b) = Len(a) + Len(b)
BY DEF Text

LEMMA Remembered ==
  ASSUME NEW t \in Text, ~Suggested(t), history \in Seq({s \in Text : ~Suggested(s)})
  PROVE  Remember(t) \in Seq({s \in Text : ~Suggested(s)})
<1> DEFINE Kept == {s \in Text : ~Suggested(s)}
           longer == Append(history, t)
<1>1. t \in Kept /\ history \in Seq(Kept)
  OBVIOUS
<1> HIDE DEF Kept
<1>2. longer \in Seq(Kept) /\ longer # <<>>
  BY <1>1
<1>3. Tail(longer) \in Seq(Kept)
  BY <1>2
<1> HIDE DEF longer
<1>4. Remember(t) \in {history, longer, Tail(longer)}
  BY DEF Remember, longer
<1> QED
  BY <1>1, <1>2, <1>3, <1>4 DEF Kept

LEMMA ComposerStart == ComposerInit => ComposerInv
BY DEF ComposerInit, ComposerInv, ComposerTypes, Text, NoDraft

LEMMA Retyped ==
  ASSUME ComposerInv, text' \in Text, cursor' \in 0 .. Len(text'), NotBrowsing,
         UNCHANGED <<history, question>>
  PROVE  ComposerInv'
<1>1. Len(history) \in Nat
  BY DEF ComposerInv, ComposerTypes
<1> QED
  BY <1>1 DEF ComposerInv, ComposerTypes, NotBrowsing, NoDraft, Text

LEMMA ComposerStep ==
  ~Questions /\ ComposerInv /\ [ComposerNext]_composerVars => ComposerInv'
<1> SUFFICES ASSUME ~Questions, ComposerInv, [ComposerNext]_composerVars
             PROVE  ComposerInv'
  OBVIOUS
<1>0. /\ text \in Text /\ Len(text) \in Nat /\ cursor \in 0 .. Len(text)
      /\ Len(history) \in Nat /\ browsing \in 0 .. Len(history)
      /\ \A i \in 1 .. Len(history) : history[i] \in Text /\ ~Suggested(history[i])
  BY DEF ComposerInv, ComposerTypes, Text
<1>1. CASE InsertAtCursor
  <2>1. PICK c \in {"x", "/", "nl"} :
          /\ text' = SubSeq(text, 1, cursor) \o <<c>> \o SubSeq(text, cursor + 1, Len(text))
          /\ cursor' = cursor + 1 /\ NotBrowsing /\ UNCHANGED <<history, question>>
    BY <1>1 DEF InsertAtCursor
  <2> DEFINE before == SubSeq(text, 1, cursor)
             after == SubSeq(text, cursor + 1, Len(text))
  <2>2. before \in Text /\ Len(before) = cursor /\ after \in Text /\ Len(after) \in Nat
    BY <1>0 DEF Text
  <2> HIDE DEF before, after
  <2>3. before \o <<c>> \o after \in Text /\ Len(before \o <<c>> \o after) = cursor + 1 + Len(after)
    <3>1. <<c>> \in Text /\ Len(<<c>>) = 1
      BY DEF Text
    <3> DEFINE middle == before \o <<c>>
    <3>2. middle \in Text /\ Len(middle) = cursor + 1
      BY <2>2, <3>1, TextJoined
    <3> HIDE DEF middle
    <3>3. middle \o after \in Text /\ Len(middle \o after) = cursor + 1 + Len(after)
      BY <2>2, <3>2, TextJoined
    <3> QED
      BY <3>3 DEF middle
  <2>4. text' \in Text /\ cursor' \in 0 .. Len(text')
    <3> DEFINE whole == before \o <<c>> \o after
    <3>1. text' = whole /\ cursor' = cursor + 1
      BY <2>1 DEF before, after
    <3>2. whole \in Text /\ Len(whole) = cursor + 1 + Len(after)
      BY <2>3
    <3> HIDE DEF whole
    <3>3. cursor \in Nat /\ Len(after) \in Nat
      BY <1>0, <2>2
    <3> QED
      BY <3>1, <3>2, <3>3
  <2> QED
    BY <2>1, <2>4, Retyped
<1>2. CASE BackspaceAtCursor
  <2> DEFINE before == SubSeq(text, 1, cursor - 1)
             after == SubSeq(text, cursor + 1, Len(text))
  <2>1. /\ cursor > 0 /\ text' = before \o after /\ cursor' = cursor - 1
        /\ NotBrowsing /\ UNCHANGED <<history, question>>
    BY <1>2 DEF BackspaceAtCursor
  <2>2. before \in Text /\ Len(before) = cursor - 1 /\ after \in Text /\ Len(after) \in Nat
    BY <1>0, <2>1 DEF Text
  <2> HIDE DEF before, after
  <2>3. text' \in Text /\ cursor' \in 0 .. Len(text')
    BY <1>0, <2>1, <2>2 DEF Text
  <2> QED
    BY <2>1, <2>3, Retyped
<1>3. CASE MoveSideways
  <2>1. cursor' \in 0 .. Len(text)
    BY <1>0, <1>3 DEF MoveSideways
  <2> QED
    BY <1>3, <2>1 DEF MoveSideways, ComposerInv, ComposerTypes
<1>4. CASE Autocomplete
  <2>1. Command \in Text /\ Len(Command) \in Nat
    BY DEF Command, Text
  <2> QED
    BY <1>4, <2>1, Retyped DEF Autocomplete, SetChatInput
<1>5. CASE RecallPrevious
  <2>1. browsing' \in 1 .. Len(history)
    <3>1. Len(history) > 0
      BY <1>0, <1>5 DEF RecallPrevious, ComposerInv, ComposerTypes
    <3> QED
      BY <1>0, <1>5, <3>1 DEF RecallPrevious
  <2>2. text' = history[browsing'] /\ cursor' = Len(text') /\ UNCHANGED <<history, question>>
        /\ draft' \in Text
    BY <1>0, <1>5 DEF RecallPrevious, SetChatInput, ComposerInv, ComposerTypes
  <2>3. text' \in Text /\ Len(text') \in Nat
    BY <1>0, <2>1, <2>2 DEF Text
  <2> QED
    BY <1>0, <2>1, <2>2, <2>3 DEF ComposerInv, ComposerTypes
<1>6. CASE RecallNext
  <2>1. CASE browsing < Len(history) /\ SetChatInput(history[browsing + 1])
             /\ browsing' = browsing + 1 /\ UNCHANGED draft
    <3>1. browsing' \in 1 .. Len(history)
      BY <1>0, <2>1
    <3>2. text' = history[browsing'] /\ cursor' = Len(text') /\ UNCHANGED <<history, question>>
      BY <1>6, <2>1 DEF RecallNext, SetChatInput
    <3>3. text' \in Text /\ Len(text') \in Nat
      BY <1>0, <3>1, <3>2 DEF Text
    <3> QED
      BY <1>0, <2>1, <3>1, <3>2, <3>3 DEF ComposerInv, ComposerTypes
  <2>2. CASE SetChatInput(draft) /\ NotBrowsing
    <3>1. text' \in Text /\ cursor' \in 0 .. Len(text')
      BY <2>2 DEF SetChatInput, ComposerInv, ComposerTypes, Text
    <3> QED
      BY <1>6, <2>2, <3>1, Retyped DEF RecallNext
  <2> QED
    BY <1>6, <2>1, <2>2 DEF RecallNext
<1>7. CASE MoveVertical
  <2> DEFINE start == LineStart(text, cursor)
             column == cursor - start
             above == LineStart(text, start - 1)
             end == LineEnd(text, cursor)
             below == LineEnd(text, end + 1)
  <2>1. start \in 0 .. cursor /\ end \in 0 .. Len(text)
    <3>1. cursor \in Nat
      BY <1>0
    <3>2. start \in 0 .. cursor
      BY <3>1, LineStartFits
    <3>3. end \in 0 .. Len(text)
      BY <1>0, <3>1, LineEndFits
    <3> QED
      BY <3>2, <3>3
  <2>2. start > 0 => above \in 0 .. start - 1
    BY <1>0, <2>1, LineStartFits
  <2>3. below \in 0 .. Len(text)
    <3>1. end + 1 \in Nat
      BY <1>0, <2>1
    <3> HIDE DEF end
    <3> QED
      BY <1>0, <3>1, LineEndFits
  <2>4. \/ start > 0 /\ cursor' = IF above + column < start THEN above + column ELSE start - 1
        \/ cursor' = IF end + 1 + column < below THEN end + 1 + column ELSE below
    BY <1>7 DEF MoveVertical
  <2> HIDE DEF start, above, end, below
  <2>5. cursor' \in 0 .. Len(text)
    BY <1>0, <2>1, <2>2, <2>3, <2>4
  <2> QED
    BY <1>7, <2>5 DEF MoveVertical, ComposerInv, ComposerTypes
<1>8. CASE Enter
  <2>1. text' = <<>> /\ cursor' = 0 /\ question' = question /\ text' \in Text
    BY <1>8 DEF Enter, Text
  <2>2. CASE Suggested(text)
    <3>1. browsing = 0
      BY <1>0, <2>2 DEF ComposerInv
    <3> QED
      BY <1>8, <2>1, <2>2, <3>1 DEF Enter, ComposerInv, ComposerTypes
  <2>3. CASE ~Suggested(text)
    <3>1. history' = Remember(text) /\ NotBrowsing
      BY <1>8, <2>3 DEF Enter, ComposerInv, ComposerTypes
    <3>2. history' \in Seq({t \in Text : ~Suggested(t)})
      BY <1>0, <2>3, <3>1, Remembered DEF ComposerInv, ComposerTypes
    <3>3. Len(history') \in Nat
      BY <3>2
    <3> QED
      BY <2>1, <3>1, <3>2, <3>3 DEF ComposerInv, ComposerTypes, NotBrowsing, NoDraft, Text
  <2> QED
    BY <2>2, <2>3
<1>9. CASE DebugStateUpdated
  BY <1>9 DEF DebugStateUpdated
<1>10. CASE Prefill
  <2>1. text' \in {<<"x">>, <<"/", "x", "x">>} /\ cursor' = Len(text')
    BY <1>10 DEF Prefill, SetChatInput
  <2>2. text' \in Text /\ cursor' \in 0 .. Len(text')
    BY <2>1 DEF Text
  <2> QED
    BY <1>10, <2>2, Retyped DEF Prefill
<1>11. CASE UNCHANGED composerVars
  BY <1>11 DEF composerVars, ComposerInv, ComposerTypes
<1> QED
  BY <1>1, <1>2, <1>3, <1>4, <1>5, <1>6, <1>7, <1>8, <1>9, <1>10, <1>11 DEF ComposerNext

LEMMA ComposerSafe == ComposerInv => BrowsedShown
BY DEF ComposerInv, ComposerTypes, BrowsedShown

\* BrowsedShown: without an investigation's questions the prompt shows the entry the
\* place in the history points at and the cursor is inside the text, for texts and
\* histories of any length (tui lib.rs 6680-6900).
THEOREM PromptBrowses ==
  ASSUME ~Questions
  PROVE  ComposerSpec => []BrowsedShown
<1>1. ComposerInv /\ [ComposerNext]_composerVars => ComposerInv'
  BY ComposerStep
<1> QED
  BY <1>1, ComposerStart, ComposerSafe, PTL DEF ComposerSpec

-----------------------------------------------------------------------------
(* The investigation: its session, its file and its copy on the screen      *)

Investigation == [number : Nat, described : BOOLEAN, answers : Seq(Nat), stopped : BOOLEAN]
DebugLine == [kind : {"start", "answer", "stop", "new", "fork", "resume"}, arg : Nat]
DebugNews == [kind : {"updated", "ready"}, debug : Investigation]

DebugTypes ==
  /\ shown \in Investigation
  /\ investigated \in [id : SessionIds, debug : Investigation]
  /\ debugFiles \in [SessionIds -> Investigation]
  /\ entered \in Seq(DebugLine) /\ debugNews \in Seq(DebugNews)
  /\ starts \in Nat /\ created \in Nat /\ linesEntered \in Nat

\* Every line makes at most one session, so the numbers do not run out.
SessionsFit ==
  /\ investigated.id <= created
  /\ created + Len(entered) <= linesEntered + 1
  /\ linesEntered <= MaxEntered

ResumesKnown ==
  \A i \in 1 .. Len(entered) : entered[i].kind = "resume" => entered[i].arg \in SessionIds

FilesAgree ==
  /\ \A s \in SessionIds : s > created => debugFiles[s] = NoInvestigation
  /\ debugFiles[investigated.id] \in {NoInvestigation, investigated.debug}
  /\ Started(investigated.debug) => debugFiles[investigated.id] = investigated.debug

\* d is what the interface shows once it has received all of news.
NewestDebug(news, before, d) ==
  /\ (\A i \in 1 .. Len(news) : news[i].kind # "updated") => before = d
  /\ \A i \in 1 .. Len(news) :
       /\ news[i].kind = "updated"
       /\ \A j \in 1 .. Len(news) : j > i => news[j].kind # "updated"
       => news[i].debug = d

DebugInv ==
  /\ DebugTypes /\ SessionsFit /\ ResumesKnown /\ FilesAgree
  /\ NewestDebug(debugNews, shown, investigated.debug)

LEMMA BlankInvestigations ==
  Uninvestigated \in Investigation /\ NoInvestigation \in Investigation
<1>1. <<>> \in Seq(Nat) /\ <<0>> \in Seq(Nat)
  OBVIOUS
<1> QED
  BY <1>1 DEF Uninvestigated, NoInvestigation, Investigation

LEMMA Appended ==
  ASSUME NEW S, NEW s \in Seq(S), NEW x \in S, NEW t, t = Append(s, x)
  PROVE  /\ t \in Seq(S) /\ Len(s) \in Nat /\ Len(t) = Len(s) + 1 /\ t[Len(s) + 1] = x
         /\ \A i \in 1 .. Len(s) : t[i] = s[i]
OBVIOUS

LEMMA PublishedLast ==
  ASSUME NEW news \in Seq(DebugNews), NEW d \in Investigation, NEW before
  PROVE  /\ Append(news, DebugEvent("updated", d)) \in Seq(DebugNews)
         /\ NewestDebug(Append(news, DebugEvent("updated", d)), before, d)
<1> DEFINE e == DebugEvent("updated", d)
           more == Append(news, e)
<1>1. e \in DebugNews /\ e.kind = "updated" /\ e.debug = d
  BY DEF DebugEvent, DebugNews
<1> HIDE DEF e
<1>2. /\ more \in Seq(DebugNews) /\ Len(more) = Len(news) + 1 /\ Len(news) \in Nat
      /\ more[Len(news) + 1] = e
  BY <1>1
<1> HIDE DEF more
<1>3. NewestDebug(more, before, d)
  BY <1>1, <1>2 DEF NewestDebug
<1> QED
  BY <1>2, <1>3 DEF more, e

LEMMA ReadyBesides ==
  ASSUME NEW told \in Seq(DebugNews), NEW r \in DebugNews, r.kind = "ready", NEW before, NEW d,
         NewestDebug(told, before, d)
  PROVE  Append(told, r) \in Seq(DebugNews) /\ NewestDebug(Append(told, r), before, d)
<1> DEFINE more == Append(told, r)
<1>1. /\ more \in Seq(DebugNews) /\ Len(more) = Len(told) + 1 /\ Len(told) \in Nat
      /\ more[Len(told) + 1] = r
      /\ \A i \in 1 .. Len(told) : more[i] = told[i]
  BY Appended
<1> HIDE DEF more
<1>2. (\A i \in 1 .. Len(more) : more[i].kind # "updated") => before = d
  BY <1>1 DEF NewestDebug
<1>3. ASSUME NEW i \in 1 .. Len(more), more[i].kind = "updated",
             \A j \in 1 .. Len(more) : j > i => more[j].kind # "updated"
      PROVE  more[i].debug = d
  <2>1. i \in 1 .. Len(told) /\ told[i].kind = "updated"
    BY <1>1, <1>3
  <2>2. \A j \in 1 .. Len(told) : j > i => told[j].kind # "updated"
    BY <1>1, <1>3
  <2> QED
    BY <1>1, <2>1, <2>2 DEF NewestDebug
<1>4. NewestDebug(more, before, d)
  BY <1>2, <1>3 DEF NewestDebug
<1> QED
  BY <1>1, <1>4 DEF more

LEMMA ReadyAfterPublished ==
  ASSUME NEW news \in Seq(DebugNews), NEW d \in Investigation, NEW before, NEW more,
         more = news \o <<DebugEvent("updated", d)>>
                     \o (IF Complete(d) THEN <<DebugEvent("ready", d)>> ELSE <<>>)
  PROVE  more \in Seq(DebugNews) /\ NewestDebug(more, before, d)
<1> DEFINE e == DebugEvent("updated", d)
           r == DebugEvent("ready", d)
           told == Append(news, e)
<1>1. e \in DebugNews /\ r \in DebugNews /\ r.kind = "ready"
  BY DEF DebugEvent, DebugNews
<1>2. told \in Seq(DebugNews) /\ NewestDebug(told, before, d)
  BY PublishedLast
<1>3. news \o <<e>> = told
  BY <1>1
<1>4. CASE ~Complete(d)
  <2>1. more = told
    BY <1>2, <1>3, <1>4
  <2> QED
    BY <1>2, <2>1
<1>5. CASE Complete(d)
  <2> HIDE DEF e, r
  <2>1. more = Append(told, r)
    BY <1>1, <1>2, <1>3, <1>5 DEF e, r
  <2> HIDE DEF told
  <2> QED
    BY <1>1, <1>2, <2>1, ReadyBesides
<1> QED
  BY <1>4, <1>5

\* One line fewer, and those left are the ones that were behind it.
LEMMA LineTaken ==
  ASSUME DebugInv, NEW kind, TakesLine(kind)
  PROVE  /\ Head(entered) \in DebugLine /\ Head(entered).kind = kind
         /\ kind = "resume" => Head(entered).arg \in SessionIds
         /\ entered' \in Seq(DebugLine) /\ Len(entered') = Len(entered) - 1 /\ Len(entered) \in Nat \ {0}
         /\ \A i \in 1 .. Len(entered') :
              entered'[i].kind = "resume" => entered'[i].arg \in SessionIds
         /\ created + 1 \in SessionIds /\ created \in Nat
<1>1. /\ entered \in Seq(DebugLine) /\ entered # <<>> /\ entered' = Tail(entered)
      /\ Head(entered).kind = kind
  BY DEF DebugInv, DebugTypes, TakesLine
<1>2. /\ Len(entered) \in Nat \ {0} /\ Head(entered) = entered[1] /\ entered[1] \in DebugLine
      /\ entered' \in Seq(DebugLine) /\ Len(entered') = Len(entered) - 1
      /\ \A i \in 1 .. Len(entered') : entered'[i] = entered[i + 1] /\ i + 1 \in 1 .. Len(entered)
  BY <1>1
<1>3. created + 1 \in SessionIds
  BY <1>2, DebugAssumption DEF DebugInv, DebugTypes, SessionsFit, SessionIds
<1> QED
  BY <1>1, <1>2, <1>3 DEF DebugInv, DebugTypes, ResumesKnown

LEMMA EnterKeeps ==
  ASSUME DebugInv, NEW kind, NEW arg, Enters(kind, arg), [kind |-> kind, arg |-> arg] \in DebugLine,
         kind = "resume" => arg \in SessionIds
  PROVE  DebugInv'
<1> DEFINE line == [kind |-> kind, arg |-> arg]
<1>1. /\ linesEntered < MaxEntered /\ linesEntered' = linesEntered + 1
      /\ entered' = Append(entered, line)
      /\ UNCHANGED <<shown, investigated, debugFiles, debugNews, investigations, starts, created>>
  BY DEF Enters
<1>2. line.kind = kind /\ line.arg = arg /\ line \in DebugLine
  OBVIOUS
<1> HIDE DEF line
<1>3. /\ entered \in Seq(DebugLine) /\ entered' \in Seq(DebugLine) /\ Len(entered) \in Nat
      /\ Len(entered') = Len(entered) + 1 /\ entered'[Len(entered) + 1] = line
      /\ \A i \in 1 .. Len(entered) : entered'[i] = entered[i]
  BY <1>1, <1>2 DEF DebugInv, DebugTypes
<1>4. DebugTypes'
  BY <1>1, <1>3 DEF DebugInv, DebugTypes
<1>5. SessionsFit'
  BY <1>1, <1>3, DebugAssumption DEF DebugInv, DebugTypes, SessionsFit
<1>6. ResumesKnown'
  BY <1>1, <1>2, <1>3 DEF DebugInv, ResumesKnown
<1>7. FilesAgree' /\ NewestDebug(debugNews, shown, investigated.debug)'
  BY <1>1 DEF DebugInv, FilesAgree, NewestDebug
<1> QED
  BY <1>4, <1>5, <1>6, <1>7 DEF DebugInv

LEMMA InvestigatesKeeps ==
  ASSUME DebugInv, NEW kind, TakesLine(kind), NEW d \in Investigation, Investigates(d),
         starts' \in Nat
  PROVE  DebugInv'
<1>1. /\ investigated' = [investigated EXCEPT !.debug = d]
      /\ debugFiles' = [debugFiles EXCEPT ![investigated.id] = d]
      /\ UNCHANGED <<shown, created, linesEntered>>
  BY DEF Investigates
<1>2. debugNews' \in Seq(DebugNews) /\ NewestDebug(debugNews', shown, d)
  BY ReadyAfterPublished DEF Investigates, DebugInv, DebugTypes
<1>3. investigated'.id = investigated.id /\ investigated'.debug = d
      /\ investigated.id \in SessionIds
      /\ investigated' \in [id : SessionIds, debug : Investigation]
  BY <1>1 DEF DebugInv, DebugTypes
<1>4. DebugTypes'
  BY <1>1, <1>2, <1>3, LineTaken DEF DebugInv, DebugTypes
<1>5. SessionsFit' /\ ResumesKnown'
  BY <1>1, <1>3, LineTaken DEF DebugInv, DebugTypes, SessionsFit, ResumesKnown
<1>6. FilesAgree'
  BY <1>1, <1>3 DEF DebugInv, DebugTypes, FilesAgree, SessionsFit, SessionIds
<1>7. NewestDebug(debugNews, shown, investigated.debug)'
  BY <1>1, <1>2, <1>3
<1> QED
  BY <1>4, <1>5, <1>6, <1>7 DEF DebugInv

\* Another session, whose investigation is published.
LEMMA InstalledKeeps ==
  ASSUME DebugInv, NEW kind, TakesLine(kind), NEW id \in SessionIds, NEW d \in Investigation,
         Installs(id, d), Published(d), created' \in {created, created + 1}, id <= created',
         debugFiles' \in [SessionIds -> Investigation],
         \A s \in SessionIds : s > created' => debugFiles'[s] = NoInvestigation,
         debugFiles'[id] = d \/ (debugFiles'[id] = NoInvestigation /\ ~Started(d)),
         UNCHANGED <<shown, starts, linesEntered>>
  PROVE  DebugInv'
<1>1. investigated'.id = id /\ investigated'.debug = d
      /\ investigated' \in [id : SessionIds, debug : Investigation]
  BY DEF Installs
<1>2. debugNews' \in Seq(DebugNews) /\ NewestDebug(debugNews', shown, d)
  BY PublishedLast DEF Published, DebugInv, DebugTypes
<1>3. DebugTypes'
  BY <1>1, <1>2, LineTaken DEF DebugInv, DebugTypes
<1>4. SessionsFit' /\ ResumesKnown'
  BY <1>1, LineTaken DEF DebugInv, DebugTypes, SessionsFit, ResumesKnown
<1>5. FilesAgree'
  BY <1>1 DEF FilesAgree
<1>6. NewestDebug(debugNews, shown, investigated.debug)'
  BY <1>1, <1>2
<1> QED
  BY <1>3, <1>4, <1>5, <1>6 DEF DebugInv

LEMMA ReceivedKeeps ==
  ASSUME DebugInv, debugNews # <<>>, debugNews' = Tail(debugNews),
         shown' = IF Head(debugNews).kind = "updated" THEN Head(debugNews).debug ELSE shown,
         UNCHANGED <<investigated, debugFiles, entered, starts, created, linesEntered>>
  PROVE  DebugInv'
<1>1. /\ debugNews \in Seq(DebugNews) /\ Len(debugNews) \in Nat \ {0}
      /\ Head(debugNews) = debugNews[1] /\ debugNews[1] \in DebugNews
      /\ debugNews' \in Seq(DebugNews) /\ Len(debugNews') = Len(debugNews) - 1
      /\ \A i \in 1 .. Len(debugNews') :
           debugNews'[i] = debugNews[i + 1] /\ i + 1 \in 1 .. Len(debugNews)
      /\ \A i \in 2 .. Len(debugNews) :
           debugNews'[i - 1] = debugNews[i] /\ i - 1 \in 1 .. Len(debugNews')
  BY DEF DebugInv, DebugTypes
<1>2. DebugTypes'
  BY <1>1 DEF DebugInv, DebugTypes, DebugNews
<1>3. SessionsFit' /\ ResumesKnown' /\ FilesAgree'
  BY DEF DebugInv, SessionsFit, ResumesKnown, FilesAgree
<1>4. NewestDebug(debugNews', shown', investigated.debug)
  <2> DEFINE d == investigated.debug
  <2>1. NewestDebug(debugNews, shown, d)
    BY DEF DebugInv
  <2>2. ASSUME \A i \in 1 .. Len(debugNews') : debugNews'[i].kind # "updated"
        PROVE  shown' = d
    <3>1. ASSUME NEW i \in 1 .. Len(debugNews), i > 1
          PROVE  debugNews[i].kind # "updated"
      <4>1. i \in 2 .. Len(debugNews)
        BY <3>1
      <4> QED
        BY <1>1, <2>2, <4>1
    <3> QED
      BY <1>1, <2>1, <3>1 DEF NewestDebug
  <2>3. ASSUME NEW i \in 1 .. Len(debugNews'), debugNews'[i].kind = "updated",
               \A j \in 1 .. Len(debugNews') : j > i => debugNews'[j].kind # "updated"
        PROVE  debugNews'[i].debug = d
    <3>1. ASSUME NEW j \in 1 .. Len(debugNews), j > i + 1
          PROVE  debugNews[j].kind # "updated"
      <4>1. j \in 2 .. Len(debugNews) /\ j - 1 > i
        BY <3>1
      <4> QED
        BY <1>1, <2>3, <4>1
    <3> QED
      BY <1>1, <2>1, <2>3, <3>1 DEF NewestDebug
  <2> QED
    BY <2>2, <2>3 DEF NewestDebug
<1> QED
  BY <1>2, <1>3, <1>4 DEF DebugInv

LEMMA DebugStarts == DebugInit => DebugInv
BY BlankInvestigations, DebugAssumption
   DEF DebugInit, DebugInv, DebugTypes, SessionsFit, ResumesKnown, FilesAgree, NewestDebug,
       SessionIds, Started, Uninvestigated

LEMMA DebugStep ==
  ~Clears /\ DebugInv /\ [DebugNext]_debugVars => DebugInv'
<1> SUFFICES ASSUME ~Clears, DebugInv, [DebugNext]_debugVars
             PROVE  DebugInv'
  OBVIOUS
<1>1. CASE EnterDebug
  BY <1>1, EnterKeeps DEF EnterDebug, DebugLine
<1>2. CASE EnterAnswer
  <2>1. Len(shown.answers) + 1 \in Nat
    BY DEF DebugInv, DebugTypes, Investigation
  <2> QED
    BY <1>2, <2>1, EnterKeeps DEF EnterAnswer, DebugLine
<1>3. CASE EnterSession
  BY <1>3, EnterKeeps DEF EnterSession, DebugLine, SessionIds
<1>4. CASE DebugStart
  <2>1. [Uninvestigated EXCEPT !.number = starts + 1, !.described = Head(entered).arg = 1]
          \in Investigation
    <3>1. \A n \in Nat, b \in BOOLEAN :
            [Uninvestigated EXCEPT !.number = n, !.described = b] \in Investigation
      BY BlankInvestigations DEF Investigation
    <3>2. starts + 1 \in Nat /\ (Head(entered).arg = 1) \in BOOLEAN
      BY DEF DebugInv, DebugTypes
    <3> QED
      BY <3>1, <3>2
  <2> QED
    BY <1>4, <2>1, InvestigatesKeeps DEF DebugStart, DebugInv, DebugTypes
<1>5. CASE DebugAnswer
  <2> DEFINE d == investigated.debug
             next == IF Asking(d) THEN [d EXCEPT !.answers = Append(@, Head(entered).arg)] ELSE d
  <2>1. d \in Investigation /\ Head(entered).arg \in Nat
    BY <1>5, LineTaken DEF DebugAnswer, DebugInv, DebugTypes, DebugLine
  <2>2. Append(d.answers, Head(entered).arg) \in Seq(Nat)
    BY <2>1 DEF Investigation
  <2>3. [d EXCEPT !.answers = Append(@, Head(entered).arg)] \in Investigation
    BY <2>1, <2>2 DEF Investigation
  <2> QED
    BY <1>5, <2>1, <2>3, InvestigatesKeeps DEF DebugAnswer, DebugInv, DebugTypes
<1>6. CASE DebugStop
  <2> DEFINE d == [investigated.debug EXCEPT !.stopped = TRUE]
  <2>1. d \in Investigation
    BY DEF DebugInv, DebugTypes, Investigation
  <2>2. Installs(investigated.id, d)
    BY <1>6 DEF DebugStop, Installs, DebugInv, DebugTypes
  <2>3. investigated.id \in SessionIds /\ investigated.id <= created /\ created \in Nat
    BY DEF DebugInv, DebugTypes, SessionsFit
  <2>4. /\ debugFiles' \in [SessionIds -> Investigation] /\ debugFiles'[investigated.id] = d
        /\ \A s \in SessionIds : s > created => debugFiles'[s] = NoInvestigation
    BY <1>6, <2>1, <2>3 DEF DebugStop, DebugInv, DebugTypes, FilesAgree, SessionIds
  <2> QED
    BY <1>6, <2>1, <2>2, <2>3, <2>4, InstalledKeeps DEF DebugStop
<1>7. CASE NewDebugSession
  <2>1. created + 1 \in SessionIds /\ created \in Nat
    BY <1>7, LineTaken DEF NewDebugSession
  <2>2. /\ debugFiles' \in [SessionIds -> Investigation]
        /\ debugFiles'[created + 1] = NoInvestigation
        /\ \A s \in SessionIds : s > created + 1 => debugFiles'[s] = NoInvestigation
    BY <1>7, <2>1 DEF NewDebugSession, DebugInv, DebugTypes, FilesAgree, SessionIds
  <2>3. ~Started(Uninvestigated)
    BY DEF Started, Uninvestigated
  <2> QED
    BY <1>7, <2>1, <2>2, <2>3, BlankInvestigations, InstalledKeeps DEF NewDebugSession
<1>8. CASE ClearDebugSession
  <2>1. Head(entered).kind = "clear" /\ Head(entered) \in DebugLine
    BY <1>8, LineTaken DEF ClearDebugSession
  <2> QED
    BY <2>1 DEF DebugLine
<1>9. CASE ForkDebugSession
  <2> DEFINE d == investigated.debug
  <2>1. created + 1 \in SessionIds /\ created \in Nat /\ d \in Investigation
        /\ investigated.id \in SessionIds /\ investigated.id <= created
    BY <1>9, LineTaken DEF ForkDebugSession, DebugInv, DebugTypes, SessionsFit
  <2>2. /\ debugFiles' \in [SessionIds -> Investigation] /\ debugFiles'[created + 1] = d
        /\ \A s \in SessionIds : s > created + 1 => debugFiles'[s] = NoInvestigation
    BY <1>9, <2>1 DEF ForkDebugSession, DebugInv, DebugTypes, FilesAgree, SessionIds
  <2> QED
    BY <1>9, <2>1, <2>2, InstalledKeeps DEF ForkDebugSession
<1>10. CASE ResumeDebugSession
  <2> DEFINE s == Head(entered).arg
  <2>1. s \in SessionIds /\ debugFiles[s] \in Investigation /\ created \in Nat
    BY <1>10, LineTaken DEF ResumeDebugSession, DebugInv, DebugTypes
  <2>2. CASE debugFiles[s] = NoInvestigation
    <3>1. UNCHANGED <<shown, investigated, debugFiles, debugNews, starts, created, linesEntered>>
      BY <1>10, <2>2 DEF ResumeDebugSession
    <3>2. DebugTypes' /\ SessionsFit' /\ ResumesKnown'
      BY <1>10, <3>1, LineTaken
      DEF ResumeDebugSession, DebugInv, DebugTypes, SessionsFit, ResumesKnown
    <3>3. FilesAgree' /\ NewestDebug(debugNews, shown, investigated.debug)'
      BY <3>1 DEF DebugInv, FilesAgree, NewestDebug
    <3> QED
      BY <3>2, <3>3 DEF DebugInv
  <2>3. CASE debugFiles[s] # NoInvestigation
    <3>1. Installs(s, debugFiles[s]) /\ Published(debugFiles[s])
          /\ UNCHANGED <<shown, debugFiles, starts, created, linesEntered>>
      BY <1>10, <2>3 DEF ResumeDebugSession
    <3>2. s <= created
      BY <2>1, <2>3 DEF DebugInv, FilesAgree, SessionIds
    <3> QED
      BY <1>10, <2>1, <3>1, <3>2, InstalledKeeps
      DEF ResumeDebugSession, DebugInv, DebugTypes, FilesAgree
  <2> QED
    BY <2>2, <2>3
<1>11. CASE ReceiveUpdated
  BY <1>11, ReceivedKeeps DEF ReceiveUpdated
<1>12. CASE ReceiveReady
  BY <1>12, ReceivedKeeps DEF ReceiveReady
<1>13. CASE UNCHANGED debugVars
  BY <1>13 DEF debugVars, DebugInv, DebugTypes, SessionsFit, ResumesKnown, FilesAgree, NewestDebug
<1> QED
  BY <1>1, <1>2, <1>3, <1>4, <1>5, <1>6, <1>7, <1>8, <1>9, <1>10, <1>11, <1>12, <1>13 DEF DebugNext

LEMMA DebugSafe == DebugInv => InvestigationShown
<1> SUFFICES ASSUME DebugInv PROVE InvestigationShown
  OBVIOUS
<1>1. debugNews = <<>> => shown = investigated.debug
  BY DEF DebugInv, NewestDebug
<1> QED
  BY <1>1 DEF DebugInv, FilesAgree, InvestigationShown

\* InvestigationShown: without /clear the interface asks, once nothing is on the way,
\* the question its session has open, and a file of the session holds its answers,
\* for any number of lines and questions (main.rs 1515-1641, 1969-2116).
THEOREM InvestigationFollowed ==
  ASSUME ~Clears
  PROVE  DebugSpec => []InvestigationShown
<1>1. DebugInv /\ [DebugNext]_debugVars => DebugInv'
  BY DebugStep
<1> QED
  BY <1>1, DebugStarts, DebugSafe, PTL DEF DebugSpec

-----------------------------------------------------------------------------
(* The two channels between the terminal and the command loop               *)

ChannelsTypes ==
  /\ commandCount \in 0 .. ChannelSize
  /\ eventCount \in 0 .. ChannelSize
  /\ owed \in 0 .. MaxReplies
  /\ terminal \in {"drain", "poll", "sendKey", "sendBoth"}

\* The terminal went to the keys with the event channel empty.  Until its first
\* command is sent, a full command channel means that the loop has taken none since,
\* so all the events there are belong to the command it was answering then, and one
\* place free that it took one at most.  The first command fills that place: before
\* the second, a full command channel goes with the events of two commands.
RoomToReply ==
  /\ terminal \in {"poll", "sendBoth"} /\ commandCount = ChannelSize
       => eventCount + owed <= MaxReplies
  /\ terminal \in {"poll", "sendBoth"} /\ commandCount = ChannelSize - 1
       => eventCount + owed <= 2 * MaxReplies
  /\ terminal = "sendKey" /\ commandCount = ChannelSize
       => eventCount + owed <= 2 * MaxReplies

ChannelsInv == ChannelsTypes /\ RoomToReply

LEMMA ChannelsStart == ChannelsInit => ChannelsInv
  BY ChannelsAssumption DEF ChannelsInit, ChannelsInv, ChannelsTypes, RoomToReply

\* Two counts of at most m are at most 2 * m together.
LEMMA TwiceAtMost ==
  ASSUME NEW a \in Nat, NEW b \in Nat, NEW m \in Nat, a <= m, b <= m
  PROVE  a + b <= 2 * m
  OBVIOUS

LEMMA ChannelsStep ==
  ~Background /\ ChannelsInv /\ [ChannelsNext]_channelsVars => ChannelsInv'
<1> SUFFICES ASSUME ~Background, ChannelsInv, [ChannelsNext]_channelsVars
             PROVE  ChannelsInv'
  OBVIOUS
<1> USE ChannelsAssumption DEF ChannelsInv, ChannelsTypes, RoomToReply
<1>1. CASE Drain
  BY <1>1 DEF Drain
<1>2. CASE Poll
  BY <1>2 DEF Poll
<1>3. CASE BlockingSend
  BY <1>3 DEF BlockingSend, Sending
<1>4. CASE TakeCommand
  <2>1. commandCount' = commandCount - 1 /\ commandCount > 0 /\ owed = 0
    BY <1>4 DEF TakeCommand
  <2>2. owed' \in 0 .. MaxReplies
    BY <1>4 DEF TakeCommand
  <2>3. UNCHANGED <<eventCount, terminal>>
    BY <1>4 DEF TakeCommand
  <2>4. ChannelsTypes'
    BY <2>1, <2>2, <2>3
  <2>5. commandCount' # ChannelSize
    BY <2>1
  <2>6. ASSUME terminal \in {"poll", "sendBoth"}, commandCount' = ChannelSize - 1
        PROVE  eventCount' + owed' <= 2 * MaxReplies
    <3>1. commandCount = ChannelSize
      BY <2>1, <2>6
    <3>2. eventCount <= MaxReplies
      BY <3>1, <2>1, <2>6
    <3>3. eventCount' \in Nat /\ eventCount' <= MaxReplies
      BY <3>2, <2>3
    <3>4. owed' \in Nat /\ owed' <= MaxReplies /\ MaxReplies \in Nat
      BY <2>2
    <3> QED
      BY <3>3, <3>4, TwiceAtMost
  <2>7. RoomToReply'
    BY <2>3, <2>5, <2>6
  <2> QED
    BY <2>4, <2>7
<1>5. CASE Reply
  BY <1>5 DEF Reply
<1>6. CASE RunReports
  BY <1>6 DEF RunReports
<1>7. CASE UNCHANGED channelsVars
  BY <1>7 DEF channelsVars
<1> QED
  BY <1>1, <1>2, <1>3, <1>4, <1>5, <1>6, <1>7 DEF ChannelsNext

LEMMA ChannelsSafe == ChannelsInv => Unstuck
  BY ChannelsAssumption DEF ChannelsInv, ChannelsTypes, RoomToReply, Unstuck,
     Sending

\* While no events come but the answers to commands, the terminal's blocking sends and
\* the loop's replies never wait for each other (tui lib.rs 4291-4297), for any size
\* of the channels that holds the replies to two commands: one input sends two
\* (4515-4522).
THEOREM NeverStuck ==
  ASSUME ~Background
  PROVE  ChannelsSpec => []Unstuck
<1>1. ChannelsInit => ChannelsInv
  BY ChannelsStart
<1>2. ChannelsInv /\ [ChannelsNext]_channelsVars => ChannelsInv'
  BY ChannelsStep
<1>3. ChannelsInv => Unstuck
  BY ChannelsSafe
<1> QED
  BY <1>1, <1>2, <1>3, PTL DEF ChannelsSpec

=============================================================================
