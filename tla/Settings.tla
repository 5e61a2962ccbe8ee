------------------------------ MODULE Settings ------------------------------
(***************************************************************************)
(* The settings files of one user and project: what a process reads of     *)
(* them when it boots, what each command writes back from memory, and a    *)
(* write that takes several steps, any of which may be the process's last. *)
(***************************************************************************)
EXTENDS Naturals, FiniteSets

CONSTANTS
  Programs,    \* processes, a set of numbers
  MaxSaves,    \* commands that save, in one behaviour
  MaxKills,    \* processes killed in one behaviour
  ByHand,      \* TRUE: the user may leave a file that does not parse
  Layered,     \* TRUE: project.toml may name a model of its own
  Unlisted     \* TRUE: the provider may not list the remembered model at boot

ASSUME SettingsAssumption ==
  /\ IsFiniteSet(Programs) /\ MaxSaves \in Nat /\ MaxKills \in Nat
  /\ {ByHand, Layered, Unlisted} \subseteq BOOLEAN

VARIABLES
  disk,        \* file -> its form and, for a whole one, what it says
  layer,       \* the model project.toml names, 0 for none
  memory,      \* process -> what it holds
  saving,      \* process -> the write it is in the middle of
  chosen,      \* what the user last chose and was told is saved
  saves, kills

settingsVars == <<disk, layer, memory, saving, chosen, saves, kills>>

Models == 1 .. 2
Names == 1 .. 2
Stores == {"config", "preferences", "mcp", "skills"}
Says == [model |-> 0, effort |-> 0, theme |-> 0, names |-> {}]
Whole(says) == [form |-> "whole", says |-> says]
Missing == [form |-> "missing", says |-> Says]
Off == [phase |-> "off", model |-> 0, effort |-> 0, theme |-> 0]
NoWrite == [step |-> "none", file |-> "config", says |-> Says, ack |-> {}]
Unreadable(file) == disk[file].form \in {"torn", "malformed"}

-----------------------------------------------------------------------------
(* Boot *)

\* A config.toml that does not parse keeps the program from starting; preferences
\* fall back to defaults; the model is the project's, else the user's, if listed.
BootProgram(p) ==
  /\ memory[p].phase = "off" /\ ~Unreadable("config")
  /\ LET resolved == IF layer # 0 THEN layer ELSE disk["config"].says.model
     IN  \E listed \in {TRUE, ~Unlisted} :
           memory' = [memory EXCEPT ![p] =
             [phase |-> "on", model |-> IF listed THEN resolved ELSE 0,
              effort |-> disk["config"].says.effort,
              theme |-> IF Unreadable("preferences") THEN 0 ELSE disk["preferences"].says.theme]]
  /\ disk' = [disk EXCEPT !["config"] = IF @ = Missing THEN Whole(Says) ELSE @]
  /\ UNCHANGED <<layer, saving, chosen, saves, kills>>

-----------------------------------------------------------------------------
(* Saves: what is written, and what the user chose by it *)

Begins(p, file, says, ack) ==
  /\ memory[p].phase = "on" /\ saving[p].step = "none" /\ saves < MaxSaves
  /\ saving' = [saving EXCEPT ![p] = [step |-> "begun", file |-> file, says |-> says, ack |-> ack]]
  /\ saves' = saves + 1
  /\ UNCHANGED <<disk, layer, chosen, kills>>

SelectModel(p) ==
  \E m \in Models :
    /\ Begins(p, "config", [Says EXCEPT !.model = m, !.effort = memory[p].effort], {m})
    /\ memory' = [memory EXCEPT ![p].model = m]

\* Mutant: only what changed is passed on.
SavesEffortAlone(p) ==
  \E e \in Models :
    /\ Begins(p, "config", [Says EXCEPT !.effort = e], {})
    /\ memory' = [memory EXCEPT ![p].effort = e]

SetReasoningEffort(p) ==
  \E e \in Models :
    /\ Begins(p, "config", [Says EXCEPT !.model = memory[p].model, !.effort = e], {})
    /\ memory' = [memory EXCEPT ![p].effort = e]

SetPreferences(p) ==
  \E t \in Models :
    /\ Begins(p, "preferences", [Says EXCEPT !.theme = t], {})
    /\ memory' = [memory EXCEPT ![p].theme = t]

\* The file as it is now, or an empty one when it cannot be read, plus the change.
McpAddServer(p) ==
  \E n \in Names :
    /\ Begins(p, "mcp", [Says EXCEPT !.names = disk["mcp"].says.names \cup {n}], {})
    /\ UNCHANGED memory

SetSkillEnabled(p) ==
  \E n \in Names, names \in {disk["skills"].says.names} :
    /\ \E after \in {names \cup {n}, names \ {n}} :
         Begins(p, "skills", [Says EXCEPT !.names = after], {})
    /\ UNCHANGED memory

-----------------------------------------------------------------------------
(* atomic_write, and the plain write of disabled_skills.json *)

Saved(p) ==
  /\ chosen' = IF saving[p].ack = {} THEN chosen ELSE CHOOSE m \in saving[p].ack : TRUE
  /\ saving' = [saving EXCEPT ![p] = NoWrite]

\* Mutant: the file itself is truncated and written.
WritesInPlace(p) ==
  \/ /\ saving[p].step = "begun"
     /\ disk' = [disk EXCEPT ![saving[p].file] = [form |-> "torn", says |-> Says]]
     /\ saving' = [saving EXCEPT ![p].step = "temporary"] /\ UNCHANGED chosen
  \/ /\ saving[p].step = "temporary"
     /\ disk' = [disk EXCEPT ![saving[p].file] = Whole(saving[p].says)]
     /\ Saved(p)

\* A temporary file of a new name, flushed, then renamed over the file.
AtomicWrite(p) ==
  \/ /\ saving[p].step = "begun"
     /\ saving' = [saving EXCEPT ![p].step = "temporary"] /\ UNCHANGED <<disk, chosen>>
  \/ /\ saving[p].step = "temporary"
     /\ disk' = [disk EXCEPT ![saving[p].file] = Whole(saving[p].says)]
     /\ Saved(p)

PlainWrite(p) ==
  \/ /\ saving[p].step = "begun"
     /\ disk' = [disk EXCEPT ![saving[p].file] = [form |-> "torn", says |-> Says]]
     /\ saving' = [saving EXCEPT ![p].step = "truncated"] /\ UNCHANGED chosen
  \/ /\ saving[p].step = "truncated"
     /\ disk' = [disk EXCEPT ![saving[p].file] = Whole(saving[p].says)]
     /\ Saved(p)

WriteStep(p) ==
  /\ IF saving[p].file = "skills" THEN PlainWrite(p) ELSE AtomicWrite(p)
  /\ UNCHANGED <<layer, memory, saves, kills>>

\* A failed write of the model, effort or preferences ends the program; the others warn.
WriteFails(p) ==
  /\ saving[p].step = "begun"
  /\ saving' = [saving EXCEPT ![p] = NoWrite]
  /\ memory' = IF saving[p].file \in {"config", "preferences"}
               THEN [memory EXCEPT ![p] = Off] ELSE memory
  /\ UNCHANGED <<disk, layer, chosen, saves, kills>>

Killed(p) ==
  /\ memory[p].phase = "on" /\ kills < MaxKills
  /\ memory' = [memory EXCEPT ![p] = Off]
  /\ saving' = [saving EXCEPT ![p] = NoWrite]
  /\ kills' = kills + 1
  /\ UNCHANGED <<disk, layer, chosen, saves>>

EditsByHand ==
  /\ ByHand
  /\ \E file \in {"preferences", "mcp"} :
       disk[file].form = "whole" /\ disk' = [disk EXCEPT ![file].form = "malformed", ![file].says = Says]
  /\ UNCHANGED <<layer, memory, saving, chosen, saves, kills>>

-----------------------------------------------------------------------------
SettingsInit ==
  /\ disk = [file \in Stores |-> Missing]
  /\ layer \in {0} \cup (IF Layered THEN {1} ELSE {})
  /\ memory = [p \in Programs |-> Off] /\ saving = [p \in Programs |-> NoWrite]
  /\ chosen = 0 /\ saves = 0 /\ kills = 0

SettingsNext ==
  \/ EditsByHand
  \/ \E p \in Programs :
       \/ BootProgram(p) \/ SelectModel(p) \/ SetReasoningEffort(p) \/ SetPreferences(p)
       \/ McpAddServer(p) \/ SetSkillEnabled(p) \/ WriteStep(p) \/ WriteFails(p) \/ Killed(p)

SettingsSpec == SettingsInit /\ [][SettingsNext]_settingsVars

-----------------------------------------------------------------------------
(* Properties *)

\* NeverTorn: a process killed at any step of a save leaves the old file or the new
\* one, so its own writes never keep the program from starting (core lib.rs 1720-1764).
NeverTorn == \A file \in Stores \ {"skills"} : disk[file].form # "torn"

\* ModelKept: the model on disk is the last one the user was told is saved, whatever
\* else is saved after it; "an update to one does not appear to erase the others"
\* (core lib.rs 1612-1613).
ModelKept ==
  (\A p \in Programs : saving[p].step = "none" \/ saving[p].file # "config")
    => disk["config"].says.model = chosen

SettingsSafe == NeverTorn /\ ModelKept

\* SkillsWhole: "Configuration and state writes should be atomic" (SECURITY.md:538).
SkillsWhole == \A p \in Programs : saving[p].step = "none" => disk["skills"].form # "torn"

\* MalformedKept: a file that does not parse is left for the user to mend, "leaves the
\* original file untouched" (CONFIG.md:265-267).
MalformedKept ==
  [][\A file \in Stores : disk[file].form = "malformed" => disk'[file] = disk[file]]_settingsVars
=============================================================================
