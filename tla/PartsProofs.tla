----------------------------- MODULE PartsProofs -----------------------------
(***************************************************************************)
(* Machine-checked theorems about the components that run beside the       *)
(* conversation: the updater, the settings files, a language's server and  *)
(* the merging of a subagent's branch.  Each is about the component's own  *)
(* specification, for instances of any size; the last three lift what was  *)
(* proved of the files, of the terminal and of the text that is passed on  *)
(* to the parts checked together.                                          *)
(***************************************************************************)
EXTENDS MCParts, TerminalProofs, TextProofs, FiniteSetTheorems, TLAPS

-----------------------------------------------------------------------------
(* Updater: where a working executable is at each step of the replacement  *)

Working == {"old", "new"}
Replacing == {"check", "aside", "put", "back", "clean"}

\* An archive is checked before it is unpacked and unpacked before it is put
\* in place; a release is replaced only by what was prepared.
PreparedInv ==
  /\ app = "running" => swap = "none"
  /\ app = "leaving" \/ swap \in Replacing => prepared = "taken"
  /\ prepared = "verified" => files["archive"] \in {"new", "none"}
  /\ prepared \in {"staged", "taken"} => files["unpacked"] \in {"new", "none"}
  /\ files["installed"] # "bad" /\ files["backup"] # "bad"

\* The backup goes only while the executable is in its place; the executable is
\* away only after its backup was made, and until then the new one is there too.
\* A second rename fails only with the one fault there is.
ReplaceInv ==
  /\ swap \in {"none", "check", "aside", "clean"} /\ (swap = "none" => app # "gone") =>
       files["installed"] \in Working
  /\ swap \in {"put", "back"} => files["backup"] \in Working
  /\ swap \in {"aside", "put"} => files["unpacked"] # "none"
  /\ swap = "back" => renameFaults >= 1
  /\ Recoverable

UpdaterTypeOK ==
  /\ app \in {"running", "leaving", "gone"}
  /\ prepared \in {"idle", "wiped", "downloaded", "verified", "staged", "failed", "taken"}
  /\ files \in [Paths -> Content]
  /\ swap \in Replacing \cup {"none", "over"}
  /\ tries \in Nat /\ renameFaults \in 0 .. MaxRenameFaults

UpdaterInv == UpdaterTypeOK /\ PreparedInv /\ ReplaceInv

USE UpdaterAssumption

LEMMA UpdaterInitial == UpdaterInit => UpdaterInv
BY DEF UpdaterInit, UpdaterInv, UpdaterTypeOK, PreparedInv, ReplaceInv, Recoverable, Working,
       Replacing, Paths, Staging, Content

\* A step that keeps the executable, its backup and the step of the replacement
\* keeps where a working executable is.
LEMMA ReplaceKept ==
  ASSUME ReplaceInv, UNCHANGED <<swap, renameFaults>>,
         files'["installed"] = files["installed"], files'["backup"] = files["backup"],
         swap \in {"none", "over"}, swap = "none" => app # "gone" \/ app' = "gone"
  PROVE  ReplaceInv'
BY DEF ReplaceInv, Recoverable

LEMMA PreparingStep ==
  ASSUME UpdaterInv,
         \/ AcceptUpdate \/ DownloadChunk \/ DownloadEnds \/ VerifySha256 \/ Extract
         \/ PrepareFails \/ ExtractFails
  PROVE  UpdaterInv'
<1>1. app = "running" /\ swap = "none" /\ UNCHANGED <<app, swap, tries, renameFaults>>
  BY DEF UpdaterInv, PreparedInv, AcceptUpdate, DownloadChunk, DownloadEnds, VerifySha256,
         Extract, PrepareFails, ExtractFails, Preparing
<1>2. /\ files' \in [Paths -> Content]
      /\ files'["installed"] = files["installed"] /\ files'["backup"] = files["backup"]
  BY DEF UpdaterInv, UpdaterTypeOK, AcceptUpdate, DownloadChunk, DownloadEnds, VerifySha256,
         Extract, PrepareFails, ExtractFails, Preparing, Wiped, Paths, Staging, Content
<1>3. /\ prepared' \in {"idle", "wiped", "downloaded", "verified", "staged", "failed"}
      /\ prepared' = "verified" => files'["archive"] \in {"new", "none"}
      /\ prepared' = "staged" => files'["unpacked"] \in {"new", "none"}
  BY DEF UpdaterInv, UpdaterTypeOK, PreparedInv, AcceptUpdate, DownloadChunk, DownloadEnds,
         VerifySha256, Extract, PrepareFails, ExtractFails, Preparing, Wiped, Paths, Staging,
         Content
<1>4. UpdaterTypeOK' /\ PreparedInv'
  BY <1>1, <1>2, <1>3 DEF UpdaterInv, UpdaterTypeOK, PreparedInv, Replacing
<1> QED
  BY <1>1, <1>2, <1>4, ReplaceKept DEF UpdaterInv

LEMMA LeavingStep ==
  ASSUME UpdaterInv, RestartForUpdate \/ InstallAndRestart \/ UserExits \/ UpdaterCrash \/ Launch
  PROVE  UpdaterInv'
<1> USE DEF UpdaterInv, UpdaterTypeOK, PreparedInv, ReplaceInv, Recoverable, Working, Replacing
<1>1. CASE RestartForUpdate
  BY <1>1 DEF RestartForUpdate, Preparing
<1>2. CASE InstallAndRestart
  BY <1>2 DEF InstallAndRestart
<1>3. CASE UserExits
  BY <1>3 DEF UserExits
<1>4. CASE UpdaterCrash
  BY <1>4 DEF UpdaterCrash
<1>5. CASE Launch
  BY <1>5 DEF Launch, Content, Paths, Staging
<1> QED
  BY <1>1, <1>2, <1>3, <1>4, <1>5

LEMMA ReplacingStep ==
  ASSUME UpdaterInv, MaxRenameFaults <= 1,
         RemoveBackup \/ SetAside \/ PutNew \/ PutBack \/ CleanBackup
  PROVE  UpdaterInv'
<1> USE DEF UpdaterInv, UpdaterTypeOK, PreparedInv, ReplaceInv, Recoverable, Working, Replacing
<1>0. files \in [Paths -> Content] /\ {"installed", "backup", "unpacked", "archive"} \subseteq Paths
  BY DEF Paths, Staging
<1>1. CASE RemoveBackup
  BY <1>0, <1>1 DEF RemoveBackup, Attempt, Content
<1>2. CASE SetAside
  <2>1. CASE /\ files' = [files EXCEPT !.backup = files.installed, !.installed = "none"]
             /\ swap' = "put" /\ UNCHANGED <<tries, app, renameFaults, prepared>>
    <3>1. /\ files' \in [Paths -> Content]
          /\ files'["installed"] = "none" /\ files'["backup"] = files["installed"]
          /\ files'["unpacked"] = files["unpacked"] /\ files'["archive"] = files["archive"]
      BY <1>0, <2>1 DEF Content
    <3> QED
      BY <1>0, <1>2, <2>1, <3>1 DEF SetAside
  <2>2. CASE UNCHANGED <<files, prepared>> /\ Attempt(TRUE)
    BY <1>0, <1>2, <2>2 DEF SetAside, Attempt, RenameFails
  <2> QED
    BY <1>2, <2>1, <2>2 DEF SetAside
<1>3. CASE PutNew
  <2>1. CASE /\ files.unpacked # "none"
             /\ files' = [files EXCEPT !.installed = files.unpacked, !.unpacked = "none"]
             /\ swap' = "clean" /\ UNCHANGED renameFaults
    <3>1. /\ files' \in [Paths -> Content]
          /\ files'["installed"] = files["unpacked"] /\ files'["unpacked"] = "none"
          /\ files'["backup"] = files["backup"] /\ files'["archive"] = files["archive"]
      BY <1>0, <2>1 DEF Content
    <3> QED
      BY <1>0, <1>3, <2>1, <3>1 DEF PutNew
  <2>2. CASE /\ swap' = "back" /\ UNCHANGED files
             /\ (files.unpacked = "none" /\ UNCHANGED renameFaults) \/ RenameFails
    BY <1>0, <1>3, <2>2 DEF PutNew, RenameFails
  <2> QED
    BY <1>3, <2>1, <2>2 DEF PutNew
<1>4. CASE PutBack
  <2>1. CASE /\ files' = [files EXCEPT !.installed = files.backup, !.backup = "none"]
             /\ UNCHANGED renameFaults
    <3>1. /\ files' \in [Paths -> Content]
          /\ files'["installed"] = files["backup"] /\ files'["backup"] = "none"
          /\ files'["unpacked"] = files["unpacked"] /\ files'["archive"] = files["archive"]
      BY <1>0, <2>1 DEF Content
    <3> QED
      BY <1>0, <1>4, <2>1, <3>1 DEF PutBack, Attempt
  <2>2. ~RenameFails
    BY <1>4 DEF PutBack, RenameFails
  <2> QED
    BY <1>4, <2>1, <2>2 DEF PutBack
<1>5. CASE CleanBackup
  BY <1>0, <1>5 DEF CleanBackup, Attempt, Content
<1> QED
  BY <1>1, <1>2, <1>3, <1>4, <1>5

\* With one rename that fails for no reason of the program's, and no second Gocode
\* in the same directory, a working executable is left after every step and crash,
\* and what is installed was verified.
LEMMA UpdaterStep ==
  ASSUME MaxRenameFaults <= 1, ~OtherProcess, UpdaterInv, [UpdaterNext]_updaterVars
  PROVE  UpdaterInv'
<1>1. CASE UNCHANGED updaterVars
  BY <1>1 DEF updaterVars, UpdaterInv, UpdaterTypeOK, PreparedInv, ReplaceInv, Recoverable
<1> QED
  BY <1>1, PreparingStep, LeavingStep, ReplacingStep DEF UpdaterNext, ForeignPrepare
-----------------------------------------------------------------------------
(* Settings: what a save that is under way will leave                      *)

FileStates == [form : {"whole", "missing", "torn", "malformed"},
               says : [model : Nat, effort : Nat, theme : Nat, names : SUBSET Names]]
Memories == [phase : {"on", "off"}, model : Nat, effort : Nat, theme : Nat]
SavingSteps == [step : {"none", "begun", "temporary", "truncated"}, file : Stores,
                says : [model : Nat, effort : Nat, theme : Nat, names : SUBSET Names],
                ack : SUBSET Models]

SettingsTypeOK ==
  /\ disk \in [Stores -> FileStates]
  /\ memory \in [Programs -> Memories]
  /\ saving \in [Programs -> SavingSteps]
  /\ chosen \in Nat

ConfigSave(p) == saving[p].step # "none" /\ saving[p].file = "config"

\* The model on disk is the one chosen last, a program that runs has it in memory,
\* and a save under way writes it again or acknowledges the one it writes.
ChosenInv ==
  /\ disk["config"].says.model = chosen
  /\ \A p \in Programs :
       /\ memory[p].phase = "off" => saving[p].step = "none"
       /\ memory[p].phase = "on" /\ ~ConfigSave(p) => memory[p].model = chosen
       /\ ConfigSave(p) =>
            /\ memory[p].model = saving[p].says.model
            /\ saving[p].ack \in {{}, {saving[p].says.model}}
            /\ saving[p].ack = {} => saving[p].says.model = chosen
       /\ saving[p].file # "config" => saving[p].ack = {}

SettingsInv == SettingsTypeOK /\ NeverTorn /\ layer = 0 /\ ChosenInv

USE SettingsAssumption

\* What is written is well typed.
LEMMA SettingsTypes ==
  /\ NoWrite.file = "config" /\ NoWrite.ack = {}
  /\ Says \in [model : Nat, effort : Nat, theme : Nat, names : SUBSET Names]
  /\ Missing \in FileStates /\ Off \in Memories /\ NoWrite \in SavingSteps
  /\ Missing.form = "missing" /\ Missing.says.model = 0
  /\ Off.phase = "off" /\ NoWrite.step = "none"
  /\ "config" \in Stores /\ "skills" \in Stores /\ Models \subseteq Nat
BY DEF Says, Missing, Off, NoWrite, FileStates, Memories, SavingSteps, Stores, Models, Names

LEMMA SettingsInitial == ~Layered /\ SettingsInit => SettingsInv
BY SettingsTypes DEF SettingsInit, SettingsInv, SettingsTypeOK, NeverTorn, ChosenInv, ConfigSave

\* A program that begins to save: it runs, and saves nothing yet.
LEMMA BeginsStep ==
  ASSUME SettingsInv, NEW p \in Programs, NEW file \in Stores,
         NEW says \in [model : Nat, effort : Nat, theme : Nat, names : SUBSET Names],
         NEW ack \in SUBSET Models, Begins(p, file, says, ack),
         NEW m \in Memories, memory' = [memory EXCEPT ![p] = m], m.phase = "on",
         file = "config" => /\ m.model = says.model
                            /\ \/ ack = {says.model}
                               \/ ack = {} /\ says.model = memory[p].model,
         file # "config" => m.model = memory[p].model /\ ack = {}
  PROVE  SettingsInv'
<1> DEFINE w == [step |-> "begun", file |-> file, says |-> says, ack |-> ack]
<1>1. /\ memory[p].phase = "on" /\ saving[p].step = "none"
      /\ saving' = [saving EXCEPT ![p] = w]
      /\ UNCHANGED <<disk, layer, chosen>>
  BY DEF Begins
<1>2. w \in SavingSteps /\ w.step = "begun" /\ w.file = file /\ w.says = says /\ w.ack = ack
  BY DEF SavingSteps
<1> HIDE DEF w
<1>3. /\ saving' \in [Programs -> SavingSteps] /\ saving'[p] = w
      /\ memory' \in [Programs -> Memories] /\ memory'[p] = m
      /\ \A x \in Programs \ {p} : saving'[x] = saving[x] /\ memory'[x] = memory[x]
  BY <1>1, <1>2 DEF SettingsInv, SettingsTypeOK
<1>4. memory[p].model = chosen
  BY <1>1 DEF SettingsInv, ChosenInv, ConfigSave
<1>5. SettingsTypeOK' /\ NeverTorn'
  BY <1>1, <1>3 DEF SettingsInv, SettingsTypeOK, NeverTorn
<1>6. ASSUME NEW x \in Programs
      PROVE  /\ memory'[x].phase = "off" => saving'[x].step = "none"
             /\ memory'[x].phase = "on" /\ ~ConfigSave(x)' => memory'[x].model = chosen
             /\ ConfigSave(x)' =>
                  /\ memory'[x].model = saving'[x].says.model
                  /\ saving'[x].ack \in {{}, {saving'[x].says.model}}
                  /\ saving'[x].ack = {} => saving'[x].says.model = chosen
             /\ saving'[x].file # "config" => saving'[x].ack = {}
  <2>1. CASE x = p
    BY <1>2, <1>3, <1>4, <2>1 DEF ConfigSave
  <2>2. CASE x # p
    BY <1>3, <2>2 DEF SettingsInv, ChosenInv, ConfigSave
  <2> QED
    BY <2>1, <2>2
<1> QED
  BY <1>1, <1>5, <1>6 DEF SettingsInv, ChosenInv

\* What a program that stops, or whose write fails, leaves.
LEMMA GivesUpStep ==
  ASSUME SettingsInv, NEW p \in Programs, saving' = [saving EXCEPT ![p] = NoWrite],
         UNCHANGED <<disk, layer, chosen>>,
         \/ memory' = [memory EXCEPT ![p] = Off]
         \/ memory' = memory /\ ~ConfigSave(p)
  PROVE  SettingsInv'
<1>1. /\ saving' \in [Programs -> SavingSteps] /\ saving'[p] = NoWrite
      /\ memory' \in [Programs -> Memories] /\ memory'[p] \in {Off, memory[p]}
      /\ \A x \in Programs \ {p} : saving'[x] = saving[x] /\ memory'[x] = memory[x]
  BY SettingsTypes DEF SettingsInv, SettingsTypeOK
<1>2. SettingsTypeOK' /\ NeverTorn'
  BY <1>1 DEF SettingsInv, SettingsTypeOK, NeverTorn
<1>3. memory'[p].phase = "on" => memory'[p].model = chosen
  BY <1>1, SettingsTypes DEF SettingsInv, ChosenInv, SettingsTypeOK
<1>4. ASSUME NEW x \in Programs
      PROVE  /\ memory'[x].phase = "off" => saving'[x].step = "none"
             /\ memory'[x].phase = "on" /\ ~ConfigSave(x)' => memory'[x].model = chosen
             /\ ConfigSave(x)' =>
                  /\ memory'[x].model = saving'[x].says.model
                  /\ saving'[x].ack \in {{}, {saving'[x].says.model}}
                  /\ saving'[x].ack = {} => saving'[x].says.model = chosen
             /\ saving'[x].file # "config" => saving'[x].ack = {}
  <2>1. CASE x = p
    BY <1>1, <1>3, <2>1, SettingsTypes DEF ConfigSave
  <2>2. CASE x # p
    BY <1>1, <2>2 DEF SettingsInv, ChosenInv, ConfigSave
  <2> QED
    BY <2>1, <2>2
<1> QED
  BY <1>2, <1>4 DEF SettingsInv, ChosenInv

\* A file is put in place whole; where it is the config, its model is the chosen one.
LEMMA SavedStep ==
  ASSUME SettingsInv, \A p, q \in Programs : p = q, NEW p \in Programs,
         saving[p].step # "none", Saved(p), UNCHANGED <<memory, layer>>,
         disk' = [disk EXCEPT ![saving[p].file] = Whole(saving[p].says)]
  PROVE  SettingsInv'
<1> DEFINE f == saving[p].file
<1> DEFINE w == Whole(saving[p].says)
<1>1. /\ f \in Stores /\ w \in FileStates /\ w.form = "whole" /\ w.says = saving[p].says
      /\ saving[p].ack \in SUBSET Models /\ saving[p].says.model \in Nat
  BY DEF SettingsInv, SettingsTypeOK, SavingSteps, FileStates, Whole
<1>2. /\ saving' = [saving EXCEPT ![p] = NoWrite] /\ disk' = [disk EXCEPT ![f] = w]
      /\ chosen' = IF saving[p].ack = {} THEN chosen ELSE CHOOSE m \in saving[p].ack : TRUE
  BY DEF Saved
<1> HIDE DEF f, w
<1>3. /\ saving' \in [Programs -> SavingSteps] /\ saving'[p] = NoWrite
      /\ disk' \in [Stores -> FileStates] /\ disk'[f] = w
      /\ \A file \in Stores \ {f} : disk'[file] = disk[file]
  <2>1. saving \in [Programs -> SavingSteps] /\ disk \in [Stores -> FileStates]
    BY DEF SettingsInv, SettingsTypeOK
  <2>2. saving' \in [Programs -> SavingSteps] /\ saving'[p] = NoWrite
    BY <1>2, <2>1, SettingsTypes
  <2>3. /\ disk' \in [Stores -> FileStates] /\ disk'[f] = w
        /\ \A file \in Stores \ {f} : disk'[file] = disk[file]
    BY <1>1, <1>2, <2>1
  <2> QED
    BY <2>2, <2>3
<1>4. chosen' \in Nat
  <2>1. saving[p].ack # {} => (CHOOSE m \in saving[p].ack : TRUE) \in saving[p].ack
    OBVIOUS
  <2> QED
    BY <1>1, <1>2, <2>1, SettingsTypes DEF SettingsInv, SettingsTypeOK
<1>5. SettingsTypeOK' /\ NeverTorn'
  BY <1>1, <1>3, <1>4 DEF SettingsInv, SettingsTypeOK, NeverTorn
<1>6. memory[p].phase = "on"
  BY DEF SettingsInv, ChosenInv, SettingsTypeOK, Memories
<1>7. disk'["config"].says.model = chosen' /\ memory[p].model = chosen'
  <2>1. saving[p].ack = {} => chosen' = chosen
    BY <1>2
  <2>2. \A n \in Nat : (CHOOSE m \in {n} : TRUE) = n
    OBVIOUS
  <2>3. saving[p].ack # {} /\ saving[p].ack = {saving[p].says.model} => chosen' = saving[p].says.model
    BY <1>1, <1>2, <2>2
  <2>4. CASE f = "config"
    <3>1. ConfigSave(p) /\ disk'["config"] = w
      BY <1>3, <2>4 DEF f, ConfigSave
    <3> QED
      BY <1>1, <2>1, <2>3, <3>1 DEF SettingsInv, ChosenInv
  <2>5. CASE f # "config"
    <3>1. ~ConfigSave(p) /\ disk'["config"] = disk["config"] /\ saving[p].ack = {}
      BY <1>3, <2>5, SettingsTypes DEF f, ConfigSave, SettingsInv, ChosenInv
    <3> QED
      BY <1>6, <2>1, <3>1 DEF SettingsInv, ChosenInv
  <2> QED
    BY <2>4, <2>5
<1> QED
  BY <1>2, <1>3, <1>5, <1>6, <1>7, SettingsTypes DEF SettingsInv, ChosenInv, ConfigSave

\* What is in memory after a boot is what the file says.
LEMMA BootStep ==
  ASSUME SettingsInv, ~Unlisted, NEW p \in Programs, BootProgram(p)
  PROVE  SettingsInv'
<1> DEFINE m == [phase |-> "on", model |-> disk["config"].says.model,
                 effort |-> disk["config"].says.effort,
                 theme |-> IF Unreadable("preferences") THEN 0
                           ELSE disk["preferences"].says.theme]
<1> DEFINE c == IF disk["config"] = Missing THEN Whole(Says) ELSE disk["config"]
<1>1. /\ memory[p].phase = "off" /\ saving[p].step = "none" /\ layer = 0
      /\ UNCHANGED <<layer, saving, chosen>>
  BY DEF BootProgram, SettingsInv, ChosenInv
<1>2. memory' = [memory EXCEPT ![p] = m]
  BY <1>1 DEF BootProgram
<1>3. disk' = [disk EXCEPT !["config"] = c]
  BY DEF BootProgram
<1>4. /\ m \in Memories /\ m.phase = "on" /\ m.model = chosen
  BY SettingsTypes DEF Memories, SettingsInv, SettingsTypeOK, FileStates, ChosenInv, Stores
<1>5. /\ c \in FileStates /\ c.form # "torn" /\ c.says.model = chosen
  <2>1. Whole(Says) \in FileStates /\ Whole(Says).form = "whole" /\ Whole(Says).says.model = 0
    BY DEF Whole, Says, FileStates
  <2>2. disk["config"] \in FileStates /\ disk["config"].form # "torn" /\ disk["config"].says.model = chosen
    BY SettingsTypes DEF SettingsInv, SettingsTypeOK, NeverTorn, ChosenInv, Stores
  <2> QED
    BY <2>1, <2>2, SettingsTypes
<1> HIDE DEF m, c
<1>6. /\ memory' \in [Programs -> Memories] /\ memory'[p] = m
      /\ \A x \in Programs \ {p} : memory'[x] = memory[x]
      /\ disk' \in [Stores -> FileStates] /\ disk'["config"] = c
      /\ \A file \in Stores \ {"config"} : disk'[file] = disk[file]
  BY <1>2, <1>3, <1>4, <1>5, SettingsTypes DEF SettingsInv, SettingsTypeOK
<1>7. SettingsTypeOK' /\ NeverTorn'
  BY <1>1, <1>5, <1>6 DEF SettingsInv, SettingsTypeOK, NeverTorn
<1>8. \A x \in Programs : ConfigSave(x)' <=> ConfigSave(x)
  BY <1>1 DEF ConfigSave
<1>9. ~ConfigSave(p)
  BY <1>1 DEF ConfigSave
<1> QED
  BY <1>1, <1>4, <1>5, <1>6, <1>7, <1>8, <1>9 DEF SettingsInv, ChosenInv

\* The file itself is truncated: only disabled_skills.json ever is.
LEMMA WritingStep ==
  ASSUME SettingsInv, \A p, q \in Programs : p = q, NEW p \in Programs, WriteStep(p)
  PROVE  SettingsInv'
<1>1. CASE saving[p].step # "none" /\ Saved(p)
           /\ disk' = [disk EXCEPT ![saving[p].file] = Whole(saving[p].says)]
  BY <1>1, SavedStep DEF WriteStep
<1>2. CASE /\ \E s \in {"temporary", "truncated"} : saving' = [saving EXCEPT ![p].step = s]
           /\ saving[p].step = "begun" /\ UNCHANGED chosen
           /\ \/ disk' = disk
              \/ saving[p].file = "skills"
                 /\ disk' = [disk EXCEPT !["skills"] = [form |-> "torn", says |-> Says]]
  <2>1. UNCHANGED <<memory, layer, chosen>>
    BY <1>2 DEF WriteStep
  <2>2. /\ saving' \in [Programs -> SavingSteps]
        /\ saving'[p].file = saving[p].file /\ saving'[p].says = saving[p].says
        /\ saving'[p].ack = saving[p].ack /\ saving'[p].step # "none"
        /\ \A x \in Programs \ {p} : saving'[x] = saving[x]
    BY <1>2 DEF SettingsInv, SettingsTypeOK, SavingSteps
  <2>3. /\ disk' \in [Stores -> FileStates]
        /\ \A file \in Stores \ {"skills"} : disk'[file] = disk[file]
    <3>1. [form |-> "torn", says |-> Says] \in FileStates
      BY SettingsTypes DEF FileStates
    <3> QED
      BY <1>2, <3>1, SettingsTypes DEF SettingsInv, SettingsTypeOK
  <2>4. SettingsTypeOK' /\ NeverTorn' /\ disk'["config"] = disk["config"]
    BY <2>1, <2>2, <2>3, SettingsTypes DEF SettingsInv, SettingsTypeOK, NeverTorn, Stores
  <2>5. \A x \in Programs : (ConfigSave(x)' <=> ConfigSave(x)) /\ saving'[x].says = saving[x].says
                             /\ saving'[x].ack = saving[x].ack /\ saving'[x].file = saving[x].file
                             /\ (saving'[x].step = "none" => saving[x].step = "none")
    BY <1>2, <2>2 DEF ConfigSave
  <2> QED
    BY <1>2, <2>1, <2>2, <2>4, <2>5 DEF SettingsInv, ChosenInv
<1> QED
  <2>1. CASE saving[p].file = "skills"
    BY <1>1, <1>2, <2>1 DEF WriteStep, PlainWrite
  <2>2. CASE saving[p].file # "skills"
    BY <1>1, <1>2, <2>2 DEF WriteStep, AtomicWrite
  <2> QED
    BY <2>1, <2>2

LEMMA HandStep ==
  ASSUME SettingsInv, EditsByHand
  PROVE  SettingsInv'
<1>1. PICK file \in {"preferences", "mcp"} :
        disk' = [disk EXCEPT ![file].form = "malformed", ![file].says = Says]
  BY DEF EditsByHand
<1>2. /\ disk' \in [Stores -> FileStates] /\ disk'[file].form = "malformed"
      /\ \A other \in Stores \ {file} : disk'[other] = disk[other]
  BY <1>1, SettingsTypes DEF SettingsInv, SettingsTypeOK, FileStates, Stores
<1>3. UNCHANGED <<layer, memory, saving, chosen>> /\ disk'["config"] = disk["config"]
  BY <1>2, SettingsTypes DEF EditsByHand
<1>4. SettingsTypeOK' /\ NeverTorn'
  BY <1>2, <1>3 DEF SettingsInv, SettingsTypeOK, NeverTorn
<1> QED
  BY <1>3, <1>4 DEF SettingsInv, ChosenInv, ConfigSave

\* The five commands that save.
LEMMA CommandStep ==
  ASSUME SettingsInv, NEW p \in Programs,
         \/ SelectModel(p) \/ SetReasoningEffort(p) \/ SetPreferences(p)
         \/ McpAddServer(p) \/ SetSkillEnabled(p)
  PROVE  SettingsInv'
<1> DEFINE Sayings == [model : Nat, effort : Nat, theme : Nat, names : SUBSET Names]
<1>1. /\ memory[p] \in Memories /\ memory[p].model \in Nat /\ memory[p].effort \in Nat
      /\ \A file \in Stores : disk[file].says.names \in SUBSET Names
      /\ Begins(p, "config", Says, {}) => memory[p].phase = "on"
  BY DEF SettingsInv, SettingsTypeOK, Memories, FileStates, Begins
<1>2. CASE SelectModel(p)
  <2>1. PICK m \in Models :
          /\ Begins(p, "config", [Says EXCEPT !.model = m, !.effort = memory[p].effort], {m})
          /\ memory' = [memory EXCEPT ![p].model = m]
    BY <1>2 DEF SelectModel
  <2> DEFINE s == [Says EXCEPT !.model = m, !.effort = memory[p].effort]
  <2> DEFINE n == [memory[p] EXCEPT !.model = m]
  <2>2. s \in Sayings /\ s.model = m /\ {m} \in SUBSET Models
    BY <1>1, SettingsTypes DEF Says
  <2>3. memory[p].phase = "on" /\ n \in Memories /\ n.phase = "on" /\ n.model = m
    BY <1>1, <2>1, SettingsTypes DEF Memories, Begins
  <2>4. memory' = [memory EXCEPT ![p] = n]
    BY <2>1 DEF SettingsInv, SettingsTypeOK
  <2>5. Begins(p, "config", s, {m})
    BY <2>1
  <2> HIDE DEF s, n
  <2> QED
    BY <2>2, <2>3, <2>4, <2>5, SettingsTypes, BeginsStep
<1>3. CASE SetReasoningEffort(p)
  <2>1. PICK e \in Models :
          /\ Begins(p, "config", [Says EXCEPT !.model = memory[p].model, !.effort = e], {})
          /\ memory' = [memory EXCEPT ![p].effort = e]
    BY <1>3 DEF SetReasoningEffort
  <2> DEFINE s == [Says EXCEPT !.model = memory[p].model, !.effort = e]
  <2> DEFINE n == [memory[p] EXCEPT !.effort = e]
  <2>2. s \in Sayings /\ s.model = memory[p].model
    BY <1>1, SettingsTypes DEF Says
  <2>3. memory[p].phase = "on" /\ n \in Memories /\ n.phase = "on" /\ n.model = memory[p].model
    BY <1>1, <2>1, SettingsTypes DEF Memories, Begins
  <2>4. memory' = [memory EXCEPT ![p] = n]
    BY <2>1 DEF SettingsInv, SettingsTypeOK
  <2>5. Begins(p, "config", s, {})
    BY <2>1
  <2> HIDE DEF s, n
  <2> QED
    BY <2>2, <2>3, <2>4, <2>5, SettingsTypes, BeginsStep
<1>4. CASE SetPreferences(p)
  <2>1. PICK t \in Models :
          /\ Begins(p, "preferences", [Says EXCEPT !.theme = t], {})
          /\ memory' = [memory EXCEPT ![p].theme = t]
    BY <1>4 DEF SetPreferences
  <2> DEFINE s == [Says EXCEPT !.theme = t]
  <2> DEFINE n == [memory[p] EXCEPT !.theme = t]
  <2>2. s \in Sayings /\ "preferences" \in Stores
    BY SettingsTypes DEF Says, Stores
  <2>3. memory[p].phase = "on" /\ n \in Memories /\ n.phase = "on" /\ n.model = memory[p].model
    BY <1>1, <2>1, SettingsTypes DEF Memories, Begins
  <2>4. memory' = [memory EXCEPT ![p] = n]
    BY <2>1 DEF SettingsInv, SettingsTypeOK
  <2>5. Begins(p, "preferences", s, {})
    BY <2>1
  <2> HIDE DEF s, n
  <2> QED
    BY <2>2, <2>3, <2>4, <2>5, SettingsTypes, BeginsStep
<1>5. ASSUME NEW file \in {"mcp", "skills"}, NEW names \in SUBSET Names,
             Begins(p, file, [Says EXCEPT !.names = names], {}), memory' = memory
      PROVE  SettingsInv'
  <2> DEFINE s == [Says EXCEPT !.names = names]
  <2> DEFINE n == memory[p]
  <2>2. s \in Sayings /\ file \in Stores /\ file # "config"
    BY SettingsTypes DEF Says, Stores
  <2>3. n \in Memories /\ n.phase = "on" /\ n.model = memory[p].model
    BY <1>1, <1>5 DEF Begins
  <2>4. memory' = [memory EXCEPT ![p] = n]
    BY <1>5 DEF SettingsInv, SettingsTypeOK
  <2>5. Begins(p, file, s, {})
    BY <1>5
  <2> HIDE DEF s, n
  <2> QED
    BY <2>2, <2>3, <2>4, <2>5, SettingsTypes, BeginsStep
<1>6. CASE McpAddServer(p)
  <2>1. PICK n \in Names :
          Begins(p, "mcp", [Says EXCEPT !.names = disk["mcp"].says.names \cup {n}], {})
    BY <1>6 DEF McpAddServer
  <2>2. disk["mcp"].says.names \cup {n} \in SUBSET Names
    BY <1>1 DEF Stores
  <2> QED
    BY <1>5, <1>6, <2>1, <2>2 DEF McpAddServer
<1>7. CASE SetSkillEnabled(p)
  <2>1. PICK after \in SUBSET Names : Begins(p, "skills", [Says EXCEPT !.names = after], {})
    <3>1. disk["skills"].says.names \in SUBSET Names
      BY <1>1 DEF Stores
    <3> QED
      BY <1>7, <3>1 DEF SetSkillEnabled
  <2> QED
    BY <1>5, <1>7, <2>1 DEF SetSkillEnabled
<1> QED
  BY <1>2, <1>3, <1>4, <1>6, <1>7

LEMMA SettingsStep ==
  ASSUME SettingsInv, ~Unlisted, \A p, q \in Programs : p = q, [SettingsNext]_settingsVars
  PROVE  SettingsInv'
<1>1. CASE EditsByHand
  BY <1>1, HandStep
<1>2. ASSUME NEW p \in Programs, WriteFails(p)
      PROVE  SettingsInv'
  BY <1>2, GivesUpStep DEF WriteFails, ConfigSave
<1>3. ASSUME NEW p \in Programs, Killed(p)
      PROVE  SettingsInv'
  BY <1>3, GivesUpStep DEF Killed
<1>4. CASE UNCHANGED settingsVars
  BY <1>4 DEF settingsVars, SettingsInv, SettingsTypeOK, NeverTorn, ChosenInv, ConfigSave
<1> QED
  BY <1>1, <1>2, <1>3, <1>4, BootStep, WritingStep, CommandStep DEF SettingsNext
-----------------------------------------------------------------------------
(* Lsp: who holds the map of clients, and which versions are given out      *)

TaskPhases == {"none", "lock", "find", "initialize", "read", "version", "open", "send", "over"}
LspTypeOK ==
  /\ tasks \in [Clients -> [phase : TaskPhases, text : Nat, version : Nat]]
  /\ lockedBy \in Clients \cup {0}
  /\ processes \in [1 .. MaxStarts -> {"none", "starting", "up", "gone"}]
  /\ cached \in 0 .. MaxStarts
  /\ openVersion \in Nat /\ document \in Nat
  /\ told.all \subseteq [version : Nat, text : Nat]

\* A server is started by whoever holds the map, and only while there is none.
ServerInv ==
  /\ \A t \in Clients : tasks[t].phase \in {"find", "initialize"} <=> lockedBy = t
  /\ \A t \in Clients : tasks[t].phase = "initialize" =>
       /\ cached = 0
       /\ tasks[t].version \in 1 .. MaxStarts /\ processes[tasks[t].version] = "starting"
  /\ \A p \in 1 .. MaxStarts :
       /\ processes[p] = "starting" =>
            \E t \in Clients : tasks[t].phase = "initialize" /\ tasks[t].version = p
       /\ processes[p] = "up" => cached = p

\* The document is opened by one task, before any other takes a version, and the
\* versions that are on their way are different and already counted.
VersionInv ==
  /\ ~told.repeated
  /\ \A t \in Clients : tasks[t].phase = "open" => openVersion = 0
  /\ \A t, u \in Clients : tasks[t].phase = "open" /\ tasks[u].phase = "open" => t = u
  /\ \A t \in Clients : tasks[t].phase = "send" => tasks[t].version \in 1 .. openVersion
  /\ \A m \in told.all : m.version \in 1 .. openVersion
  /\ \A t, u \in Clients :
       tasks[t].phase = "send" /\ tasks[u].phase = "send" /\ tasks[t].version = tasks[u].version
         => t = u
  /\ \A t \in Clients, m \in told.all :
       tasks[t].phase = "send" => tasks[t].version # m.version

LspInv == LspTypeOK /\ ServerInv /\ VersionInv

USE LspAssumption

LEMMA LspNames == /\ Clients \subseteq Nat \ {0} /\ Query \in Clients /\ Writes \subseteq Clients
BY DEF Clients, Writes, Query

LEMMA LspInitial == LspInit => LspInv
BY LspNames DEF LspInit, LspInv, LspTypeOK, ServerInv, VersionInv, TaskPhases, Idle

\* Where one task goes: its phase, and what the others keep.
Goes(t, phase) ==
  /\ tasks' \in [Clients -> [phase : TaskPhases, text : Nat, version : Nat]]
  /\ tasks'[t].phase = phase
  /\ \A u \in Clients \ {t} : tasks'[u] = tasks[u]

LEMMA GoesOn ==
  ASSUME LspTypeOK, NEW t \in Clients, NEW phase \in TaskPhases,
         tasks' = [tasks EXCEPT ![t].phase = phase]
  PROVE  Goes(t, phase)
<1> DEFINE Tasks == [phase : TaskPhases, text : Nat, version : Nat]
<1> DEFINE m == [tasks[t] EXCEPT !.phase = phase]
<1>1. tasks \in [Clients -> Tasks]
  BY DEF LspTypeOK
<1>2. m \in Tasks /\ m.phase = phase
  BY <1>1
<1>3. tasks' = [tasks EXCEPT ![t] = m]
  BY <1>1
<1> HIDE DEF m, Tasks
<1>4. /\ tasks' \in [Clients -> Tasks] /\ tasks'[t] = m
      /\ \A u \in Clients \ {t} : tasks'[u] = tasks[u]
  BY <1>1, <1>2, <1>3
<1> QED
  BY <1>2, <1>4 DEF Goes, Tasks

LEMMA GoesReading ==
  ASSUME LspTypeOK, NEW t \in Clients, NEW phase \in TaskPhases, NEW read \in Nat,
         tasks' = [tasks EXCEPT ![t].phase = phase, ![t].text = read]
  PROVE  Goes(t, phase)
<1> DEFINE Tasks == [phase : TaskPhases, text : Nat, version : Nat]
<1> DEFINE m == [tasks[t] EXCEPT !.phase = phase, !.text = read]
<1>1. tasks \in [Clients -> Tasks]
  BY DEF LspTypeOK
<1>2. m \in Tasks /\ m.phase = phase
  BY <1>1
<1>3. tasks' = [tasks EXCEPT ![t] = m]
  BY <1>1
<1> HIDE DEF m, Tasks
<1>4. /\ tasks' \in [Clients -> Tasks] /\ tasks'[t] = m
      /\ \A u \in Clients \ {t} : tasks'[u] = tasks[u]
  BY <1>1, <1>2, <1>3
<1> QED
  BY <1>2, <1>4 DEF Goes, Tasks

LEMMA GoesTo ==
  ASSUME LspTypeOK, NEW t \in Clients, NEW phase \in TaskPhases, NEW version \in Nat,
         tasks' = [tasks EXCEPT ![t].phase = phase, ![t].version = version]
  PROVE  Goes(t, phase) /\ tasks'[t].version = version
<1> DEFINE Tasks == [phase : TaskPhases, text : Nat, version : Nat]
<1> DEFINE m == [tasks[t] EXCEPT !.phase = phase, !.version = version]
<1>1. tasks \in [Clients -> Tasks]
  BY DEF LspTypeOK
<1>2. m \in Tasks /\ m.phase = phase /\ m.version = version
  BY <1>1
<1>3. tasks' = [tasks EXCEPT ![t] = m]
  BY <1>1
<1> HIDE DEF m, Tasks
<1>4. /\ tasks' \in [Clients -> Tasks] /\ tasks'[t] = m
      /\ \A u \in Clients \ {t} : tasks'[u] = tasks[u]
  BY <1>1, <1>2, <1>3
<1> QED
  BY <1>2, <1>4 DEF Goes, Tasks

\* A task that neither takes the map nor starts a server leaves the servers alone.
LEMMA ServersKept ==
  ASSUME ServerInv, NEW t \in Clients, NEW phase \in TaskPhases \ {"find", "initialize"},
         Goes(t, phase), tasks[t].phase \notin {"find", "initialize"},
         UNCHANGED <<lockedBy, processes, cached>>
  PROVE  ServerInv'
<1>1. \A u \in Clients : tasks[u].phase \in {"find", "initialize"} => u # t /\ tasks'[u] = tasks[u]
  BY DEF Goes
<1>2. \A u \in Clients : tasks'[u].phase \in {"find", "initialize"} => u # t /\ tasks'[u] = tasks[u]
  BY DEF Goes
<1> QED
  BY <1>1, <1>2 DEF ServerInv

\* A task that is not about the document leaves the versions alone.
LEMMA VersionsKept ==
  ASSUME VersionInv, NEW t \in Clients, NEW phase \in TaskPhases \ {"open", "send"},
         Goes(t, phase), UNCHANGED <<openVersion, told>>
  PROVE  VersionInv'
<1>1. \A u \in Clients : tasks'[u].phase \in {"open", "send"} => u # t /\ tasks'[u] = tasks[u]
  BY DEF Goes
<1> QED
  BY <1>1 DEF VersionInv

LEMMA LockStep ==
  ASSUME LspInv, NEW t \in Clients, LockClients(t)
  PROVE  LspInv'
<1>1. PICK phase \in {"over", "find"} :
        /\ tasks' = [tasks EXCEPT ![t].phase = phase]
        /\ lockedBy' = IF phase = "find" THEN t ELSE lockedBy
  BY DEF LockClients
<1>2. /\ tasks[t].phase = "lock" /\ lockedBy = 0
      /\ UNCHANGED <<document, processes, cached, openVersion, told>>
  BY DEF LockClients
<1>3. Goes(t, phase)
  BY <1>1, GoesOn DEF LspInv, TaskPhases
<1>4. LspTypeOK'
  BY <1>1, <1>2, <1>3 DEF LspInv, LspTypeOK, Goes
<1>5. VersionInv'
  BY <1>2, <1>3, VersionsKept DEF LspInv, TaskPhases
<1>6. CASE phase = "over"
  BY <1>1, <1>2, <1>3, <1>4, <1>5, <1>6, ServersKept DEF LspInv, TaskPhases
<1>7. CASE phase = "find"
  <2>1. \A u \in Clients : tasks[u].phase \notin {"find", "initialize"}
    BY <1>2, LspNames DEF LspInv, ServerInv
  <2>2. \A u \in Clients : tasks'[u].phase \in {"find", "initialize"} <=> u = t
    BY <1>3, <1>7, <2>1 DEF Goes
  <2>3. \A u \in Clients : tasks'[u].phase # "initialize"
    BY <1>3, <1>7, <2>1 DEF Goes
  <2>4. ServerInv'
    BY <1>1, <1>2, <1>7, <2>1, <2>2, <2>3 DEF LspInv, ServerInv
  <2> QED
    BY <1>4, <1>5, <2>4 DEF LspInv
<1> QED
  BY <1>6, <1>7

LEMMA FindStep ==
  ASSUME LspInv, NEW t \in Clients, FindClient(t)
  PROVE  LspInv'
<1>1. /\ tasks[t].phase = "find" /\ lockedBy' = 0 /\ lockedBy = t /\ cached # 0
      /\ UNCHANGED <<document, processes, cached, openVersion, told>>
  BY DEF FindClient, LspInv, ServerInv
<1>2. Goes(t, "read")
  BY GoesOn DEF FindClient, LspInv, TaskPhases
<1>3. LspTypeOK'
  BY <1>1, <1>2 DEF LspInv, LspTypeOK, Goes
<1>4. VersionInv'
  BY <1>1, <1>2, VersionsKept DEF LspInv, TaskPhases
<1>5. \A u \in Clients : tasks'[u].phase \notin {"find", "initialize"}
  BY <1>1, <1>2 DEF LspInv, ServerInv, Goes
<1>6. \A p \in 1 .. MaxStarts : processes[p] # "starting"
  BY <1>1 DEF LspInv, ServerInv
<1>7. ServerInv'
  BY <1>1, <1>5, <1>6, LspNames DEF LspInv, ServerInv
<1> QED
  BY <1>3, <1>4, <1>7 DEF LspInv

LEMMA SpawnStep ==
  ASSUME LspInv, NEW t \in Clients, SpawnServer(t)
  PROVE  LspInv'
<1>1. /\ tasks[t].phase = "find" /\ lockedBy = t /\ cached = 0
      /\ UNCHANGED <<document, cached, openVersion, told>>
  BY DEF SpawnServer, LspInv, ServerInv
<1>2. PICK p \in 1 .. MaxStarts :
        /\ processes[p] = "none"
        /\ \/ /\ processes' = [processes EXCEPT ![p] = "starting"] /\ lockedBy' = lockedBy
              /\ tasks' = [tasks EXCEPT ![t].phase = "initialize", ![t].version = p]
           \/ /\ processes' = [processes EXCEPT ![p] = "gone"] /\ lockedBy' = 0
              /\ tasks' = [tasks EXCEPT ![t].phase = "over"]
  BY DEF SpawnServer
<1>3. PICK phase \in {"initialize", "over"} :
        /\ Goes(t, phase)
        /\ phase = "initialize" => /\ tasks'[t].version = p /\ lockedBy' = t
                                   /\ processes' = [processes EXCEPT ![p] = "starting"]
        /\ phase = "over" => lockedBy' = 0 /\ processes' = [processes EXCEPT ![p] = "gone"]
  <2>1. CASE /\ processes' = [processes EXCEPT ![p] = "starting"] /\ lockedBy' = lockedBy
             /\ tasks' = [tasks EXCEPT ![t].phase = "initialize", ![t].version = p]
    <3>1. p \in Nat /\ "initialize" \in TaskPhases /\ LspTypeOK
      BY DEF LspInv, TaskPhases
    <3>2. Goes(t, "initialize") /\ tasks'[t].version = p
      BY <2>1, <3>1, GoesTo
    <3> QED
      BY <1>1, <2>1, <3>2
  <2>2. CASE /\ processes' = [processes EXCEPT ![p] = "gone"] /\ lockedBy' = 0
             /\ tasks' = [tasks EXCEPT ![t].phase = "over"]
    <3>1. Goes(t, "over")
      BY <2>2, GoesOn DEF LspInv, TaskPhases
    <3> QED
      BY <2>2, <3>1
  <2> QED
    BY <1>2, <2>1, <2>2
<1>4. /\ \A q \in 1 .. MaxStarts \ {p} : processes'[q] = processes[q]
      /\ processes' \in [1 .. MaxStarts -> {"none", "starting", "up", "gone"}]
      /\ processes'[p] = IF phase = "initialize" THEN "starting" ELSE "gone"
  BY <1>3 DEF LspInv, LspTypeOK
<1>5. LspTypeOK'
  BY <1>1, <1>3, <1>4 DEF LspInv, LspTypeOK, Goes
<1>6. VersionInv'
  BY <1>1, <1>3, VersionsKept DEF LspInv, TaskPhases
<1>7. \A u \in Clients \ {t} : tasks'[u].phase \notin {"find", "initialize"}
  BY <1>1, <1>3 DEF LspInv, ServerInv, Goes
<1>8. \A q \in 1 .. MaxStarts : processes[q] \notin {"starting", "up"}
  BY <1>1 DEF LspInv, ServerInv
<1>9. CASE phase = "initialize"
  <2>1. tasks'[t].phase = "initialize" /\ tasks'[t].version = p /\ lockedBy' = t
    BY <1>3, <1>9 DEF Goes
  <2>2. ServerInv'
    BY <1>1, <1>4, <1>7, <1>8, <1>9, <2>1 DEF ServerInv
  <2> QED
    BY <1>5, <1>6, <2>2 DEF LspInv
<1>10. CASE phase = "over"
  <2>1. tasks'[t].phase = "over" /\ lockedBy' = 0
    BY <1>3, <1>10 DEF Goes
  <2>2. \A u \in Clients : tasks'[u].phase \notin {"find", "initialize"}
    BY <1>7, <2>1
  <2>3. \A q \in 1 .. MaxStarts : processes'[q] \notin {"starting", "up"}
    BY <1>4, <1>8, <1>10
  <2>4. ServerInv'
    BY <2>1, <2>2, <2>3, LspNames DEF ServerInv
  <2> QED
    BY <1>5, <1>6, <2>4 DEF LspInv
<1> QED
  BY <1>9, <1>10

LEMMA InitializedStep ==
  ASSUME LspInv, NEW t \in Clients, ServerInitialized(t)
  PROVE  LspInv'
<1> DEFINE p == tasks[t].version
<1>1. /\ tasks[t].phase = "initialize" /\ lockedBy = t /\ lockedBy' = 0 /\ cached = 0
      /\ p \in 1 .. MaxStarts /\ processes[p] = "starting"
      /\ UNCHANGED <<document, openVersion, told>>
  BY DEF ServerInitialized, LspInv, ServerInv
<1>2. PICK phase \in {"read", "over"}, form \in {"up", "gone"} :
        /\ Goes(t, phase) /\ processes' = [processes EXCEPT ![p] = form]
        /\ cached' = IF form = "up" THEN p ELSE cached
  <2>1. CASE /\ cached' = tasks[t].version
             /\ processes' = [processes EXCEPT ![tasks[t].version] = "up"]
             /\ tasks' = [tasks EXCEPT ![t].phase = "read", ![t].version = 0]
    <3>1. Goes(t, "read")
      BY <2>1, GoesTo DEF LspInv, TaskPhases
    <3> QED
      BY <2>1, <3>1
  <2>2. CASE /\ processes' = [processes EXCEPT ![tasks[t].version] = "gone"]
             /\ tasks' = [tasks EXCEPT ![t].phase = "over"] /\ UNCHANGED cached
    <3>1. Goes(t, "over")
      BY <2>2, GoesOn DEF LspInv, TaskPhases
    <3> QED
      BY <2>2, <3>1
  <2> QED
    BY <2>1, <2>2 DEF ServerInitialized
<1>3. /\ \A q \in 1 .. MaxStarts \ {p} : processes'[q] = processes[q]
      /\ processes' \in [1 .. MaxStarts -> {"none", "starting", "up", "gone"}]
      /\ processes'[p] = form
  BY <1>1, <1>2 DEF LspInv, LspTypeOK
<1>4. LspTypeOK'
  BY <1>1, <1>2, <1>3 DEF LspInv, LspTypeOK, Goes
<1>5. VersionInv'
  BY <1>1, <1>2, VersionsKept DEF LspInv, TaskPhases
<1>6. \A u \in Clients : tasks'[u].phase \notin {"find", "initialize"}
  BY <1>1, <1>2 DEF LspInv, ServerInv, Goes
<1>7. \A q \in 1 .. MaxStarts \ {p} : processes[q] \notin {"starting", "up"}
  BY <1>1 DEF LspInv, ServerInv
<1>8. ServerInv'
  BY <1>1, <1>2, <1>3, <1>6, <1>7, LspNames DEF ServerInv
<1> QED
  BY <1>4, <1>5, <1>8 DEF LspInv

LEMMA VersionStep ==
  ASSUME LspInv, ~OpensTwice, NEW t \in Clients, NextVersion(t)
  PROVE  LspInv'
<1>1. /\ tasks[t].phase = "version" /\ \A u \in Clients : tasks[u].phase # "open"
      /\ UNCHANGED <<document, lockedBy, processes, cached, told>>
  BY DEF NextVersion
<1>2. CASE openVersion = 0
  <2>1. openVersion' = openVersion /\ tasks' = [tasks EXCEPT ![t].phase = "open"]
    BY <1>2 DEF NextVersion
  <2>2. Goes(t, "open")
    BY <2>1, GoesOn DEF LspInv, TaskPhases
  <2>3. LspTypeOK'
    BY <1>1, <2>1, <2>2 DEF LspInv, LspTypeOK, Goes
  <2>4. ServerInv'
    BY <1>1, <2>2, ServersKept DEF LspInv, TaskPhases
  <2>5. /\ \A u \in Clients : tasks'[u].phase = "open" => u = t
        /\ \A u \in Clients : tasks'[u].phase = "send" => u # t /\ tasks'[u] = tasks[u]
    BY <1>1, <2>2 DEF Goes
  <2>6. VersionInv'
    BY <1>1, <1>2, <2>1, <2>5 DEF LspInv, VersionInv
  <2> QED
    BY <2>3, <2>4, <2>6 DEF LspInv
<1>3. CASE openVersion # 0
  <2>1. /\ openVersion' = openVersion + 1
        /\ tasks' = [tasks EXCEPT ![t].phase = "send", ![t].version = openVersion + 1]
    BY <1>3 DEF NextVersion
  <2>2. openVersion \in Nat /\ openVersion + 1 \in Nat /\ "send" \in TaskPhases
    BY DEF LspInv, LspTypeOK, TaskPhases
  <2>3. Goes(t, "send") /\ tasks'[t].version = openVersion + 1 /\ openVersion \in Nat
    BY <2>1, <2>2, GoesTo DEF LspInv
  <2>4. LspTypeOK'
    BY <1>1, <2>1, <2>3 DEF LspInv, LspTypeOK, Goes
  <2>5. ServerInv'
    BY <1>1, <2>3, ServersKept DEF LspInv, TaskPhases
  <2>6. /\ \A u \in Clients : tasks'[u].phase # "open"
        /\ \A u \in Clients \ {t} : tasks'[u] = tasks[u]
        /\ tasks'[t].version \in 1 .. openVersion'
        /\ 1 .. openVersion \subseteq 1 .. openVersion'
        /\ \A v \in 1 .. openVersion : v # tasks'[t].version
    BY <1>1, <2>1, <2>3 DEF Goes
  <2>7. VersionInv'
    <3>1. \A u \in Clients : tasks'[u].phase = "send" /\ u # t =>
            tasks'[u].version \in 1 .. openVersion /\ tasks[u].phase = "send"
              /\ tasks'[u].version = tasks[u].version
      BY <2>6 DEF LspInv, VersionInv
    <3> QED
      BY <1>1, <2>6, <3>1 DEF LspInv, VersionInv
  <2> QED
    BY <2>4, <2>5, <2>7 DEF LspInv
<1> QED
  BY <1>2, <1>3

LEMMA OpenStep ==
  ASSUME LspInv, NEW t \in Clients, OpenDocument(t)
  PROVE  LspInv'
<1>1. /\ tasks[t].phase = "open" /\ openVersion' = 1 /\ openVersion = 0
      /\ UNCHANGED <<document, lockedBy, processes, cached, told>>
  BY DEF OpenDocument, LspInv, VersionInv
<1>2. Goes(t, "send") /\ tasks'[t].version = 1
  BY GoesTo DEF OpenDocument, LspInv, TaskPhases
<1>3. LspTypeOK'
  BY <1>1, <1>2 DEF LspInv, LspTypeOK, Goes
<1>4. ServerInv'
  BY <1>1, <1>2, ServersKept DEF LspInv, TaskPhases
<1>5. 1 .. openVersion = {}
  BY <1>1
<1>6. told.all = {} /\ \A u \in Clients : tasks[u].phase = "send" => FALSE
  BY <1>5 DEF LspInv, VersionInv
<1>7. \A u \in Clients : /\ tasks'[u].phase # "open"
                         /\ tasks'[u].phase = "send" => u = t
  BY <1>1, <1>2, <1>6 DEF Goes, LspInv, VersionInv
<1>8. VersionInv'
  BY <1>1, <1>2, <1>6, <1>7 DEF LspInv, VersionInv
<1> QED
  BY <1>3, <1>4, <1>8 DEF LspInv

LEMMA SendStep ==
  ASSUME LspInv, NEW t \in Clients, SendText(t)
  PROVE  LspInv'
<1> DEFINE m == [version |-> tasks[t].version, text |-> tasks[t].text]
<1>1. /\ tasks[t].phase = "send" /\ UNCHANGED <<document, lockedBy, processes, cached, openVersion>>
      /\ told'.all = told.all \cup {m}
      /\ told'.repeated = (told.repeated \/ (m.version > 1 /\
                             \E n \in told.all : n.version = m.version))
  BY DEF SendText
<1>2. m.version = tasks[t].version /\ m \in [version : Nat, text : Nat]
  BY DEF LspInv, LspTypeOK
<1> HIDE DEF m
<1>3. Goes(t, "over")
  BY GoesOn DEF SendText, LspInv, TaskPhases
<1>4. LspTypeOK'
  BY <1>1, <1>2, <1>3 DEF LspInv, LspTypeOK, Goes
<1>5. ServerInv'
  BY <1>1, <1>3, ServersKept DEF LspInv, TaskPhases
<1>6. ~told'.repeated
  BY <1>1, <1>2 DEF LspInv, VersionInv
<1>7. \A u \in Clients : tasks'[u].phase \in {"open", "send"} => u # t /\ tasks'[u] = tasks[u]
  BY <1>3 DEF Goes
<1>8. \A n \in told'.all : n.version \in 1 .. openVersion
  BY <1>1, <1>2 DEF LspInv, VersionInv
<1>9. \A u \in Clients, n \in told'.all : tasks'[u].phase = "send" => tasks'[u].version # n.version
  BY <1>1, <1>2, <1>7 DEF LspInv, VersionInv
<1>10. VersionInv'
  BY <1>1, <1>6, <1>7, <1>8, <1>9 DEF LspInv, VersionInv
<1> QED
  BY <1>4, <1>5, <1>10 DEF LspInv

LEMMA LspStep ==
  ASSUME LspInv, ~OpensTwice, [LspNext]_lspVars
  PROVE  LspInv'
<1>1. ASSUME NEW t \in Clients, NEW phase \in TaskPhases \ {"find", "initialize", "open", "send"},
             Goes(t, phase), tasks[t].phase \notin {"find", "initialize"},
             UNCHANGED <<lockedBy, processes, cached, openVersion, told>>, document' \in Nat
      PROVE  LspInv'
  <2>1. LspTypeOK'
    BY <1>1 DEF LspInv, LspTypeOK, Goes
  <2> QED
    BY <1>1, <2>1, ServersKept, VersionsKept DEF LspInv
<1>2. CASE WriteFile
  <2>1. PICK w \in Writes, phase \in {"lock", "over"} :
          tasks[w].phase = "none" /\ tasks' = [tasks EXCEPT ![w].phase = phase]
    BY <1>2 DEF WriteFile
  <2>2. Goes(w, phase)
    BY <2>1, LspNames, GoesOn DEF LspInv, TaskPhases
  <2> QED
    BY <1>1, <1>2, <2>1, <2>2, LspNames DEF WriteFile, TaskPhases, Writes
<1>3. CASE AskServer
  <2>1. Goes(Query, "lock")
    BY <1>3, LspNames, GoesOn DEF AskServer, LspInv, TaskPhases
  <2> QED
    BY <1>1, <1>3, <2>1, LspNames DEF AskServer, TaskPhases, LspInv, LspTypeOK
<1>4. ASSUME NEW t \in Clients, ReadText(t)
      PROVE  LspInv'
  <2>1. PICK phase \in {"over", "version"}, read \in Nat :
          tasks' = [tasks EXCEPT ![t].phase = phase, ![t].text = read]
    BY <1>4 DEF ReadText, LspInv, LspTypeOK
  <2>2. Goes(t, phase)
    BY <2>1, GoesReading DEF LspInv, TaskPhases
  <2> QED
    BY <1>1, <1>4, <2>1, <2>2 DEF ReadText, TaskPhases, LspInv, LspTypeOK
<1>5. CASE PublishDiagnostics \/ UNCHANGED lspVars
  BY <1>5 DEF PublishDiagnostics, lspVars, LspInv, LspTypeOK, ServerInv, VersionInv
<1> QED
  BY <1>2, <1>3, <1>4, <1>5, LockStep, FindStep, SpawnStep, InitializedStep, VersionStep,
     OpenStep, SendStep DEF LspNext

\* One process at most is starting or up.
LEMMA OneServer == LspInv => LspSafe
<1> SUFFICES ASSUME LspInv PROVE LspSafe
  OBVIOUS
<1> DEFINE S == {p \in 1 .. MaxStarts : processes[p] \in {"starting", "up"}}
<1>1. \A p, q \in S : p = q
  <2>1. ASSUME NEW p \in S, processes[p] = "starting"
        PROVE  /\ lockedBy \in Clients /\ tasks[lockedBy].phase = "initialize"
               /\ tasks[lockedBy].version = p /\ cached = 0
    BY <2>1 DEF LspInv, ServerInv
  <2>2. ASSUME NEW p \in S, processes[p] = "up"
        PROVE  cached = p /\ cached # 0
    BY <2>2 DEF LspInv, ServerInv
  <2> QED
    BY <2>1, <2>2
<1>2. CASE S = {}
  BY <1>2, FS_EmptySet DEF LspSafe, ServerStartedOnce, LspInv, VersionInv, VersionsDistinct
<1>3. CASE S # {}
  <2>1. PICK p : S = {p}
    BY <1>1, <1>3
  <2>2. Cardinality(S) = 1
    BY <2>1, FS_Singleton
  <2> QED
    BY <2>2 DEF LspSafe, ServerStartedOnce, LspInv, VersionInv, VersionsDistinct
<1> QED
  BY <1>2, <1>3
-----------------------------------------------------------------------------
(* Merging: the order of what is on its way, and whose merge is in progress *)

Has(s, kinds) == \E i \in 1 .. Len(s) : s[i].kind \in kinds
Before(s, first, second) ==
  \A i, j \in 1 .. Len(s) : s[i].kind \in first /\ s[j].kind \in second => i < j

\* The last conflict that was told is one of agent a; every finish is for a.
LastTold(s, a) ==
  \E i \in 1 .. Len(s) : /\ s[i].kind = "conflict" /\ s[i].agent = a
                         /\ \A j \in i + 1 .. Len(s) : s[j].kind # "conflict"
Finishes(s, a) == \A i \in 1 .. Len(s) : s[i].kind = "finish" => s[i].agent = a

ResolverOrders == {"resolve", "finish", "abort"}
ResolverNews == {"resolved", "finished"}
MoveOrders == {"switch", "remove", "create"}
SidesTaken == {"ours", "theirs"}
Sides == {"clean", "open"} \cup SidesTaken

Orders ==
  {o \in [kind : {"diff", "apply", "cleanup"} \cup ResolverOrders \cup MoveOrders,
          agent : Trees, file : Files \cup {0}, side : {""} \cup SidesTaken] :
     /\ o.kind \notin MoveOrders => o.agent \in Agents
     /\ o.kind = "resolve" => o.file \in Files /\ o.side \in SidesTaken}
NewsItems ==
  {n \in [kind : {"notice", "conflict"} \cup ResolverNews, agent : Agents,
          files : [Files -> Sides], file : Files \cup {0}, side : {""} \cup SidesTaken] :
     /\ n.kind = "conflict" => Open(n.files) # {}
     /\ n.kind = "resolved" => n.file \in Files /\ n.side \in SidesTaken}
Merges == [agent : Agents \cup {0}, upto : Nat, files : [Files -> Sides], hidden : BOOLEAN]
Reports == [agent : Agents, tree : Trees, made : Nat, upto : Nat]

MergingTypeOK ==
  /\ projectRoot \in Trees /\ trees \subseteq Trees
  /\ made \in [Agents -> Nat] /\ committed \in [Agents -> Nat]
  /\ contains \in [Trees -> [Agents -> Nat]]
  /\ merging \in [Trees -> Merges]
  /\ orders \in Seq(Orders) /\ news \in Seq(NewsItems)
  /\ popup \in [agent : Agents \cup {0}, files : [Files -> Sides]]
  /\ applied \subseteq Reports

\* While the popup is open only the resolver sends, so what it sent is behind every
\* apply and every conflict; while it is closed they are behind what it sent.
QueueInv ==
  IF popup # NoPopup
  THEN /\ Before(news, {"conflict"}, ResolverNews)
       /\ Has(news, ResolverNews) => ~Has(orders, {"apply"})
       /\ Before(orders, {"apply"}, ResolverOrders)
  ELSE /\ Before(news, ResolverNews, {"conflict"})
       /\ Has(news, {"conflict"}) => ~Has(orders, ResolverOrders)
       /\ Before(orders, ResolverOrders, {"apply"})

\* When the popup has no open conflict left, none is on its way.
PopupInv ==
  popup # NoPopup =>
    /\ popup.agent \in Agents
    /\ Open(popup.files) = {} => ~Has(news, {"conflict"}) /\ ~Has(orders, {"apply"})

\* There is one merge at most, where the loop works, and the last conflict that was
\* told is its conflict.  What ends a merge was sent for that one.
MergeInv ==
  /\ \A t \in Trees : merging[t] # NoMerge => t = projectRoot /\ merging[t].agent \in Agents
  /\ Before(orders, MoveOrders, {"apply"}) /\ Before(orders, {"finish"}, {"apply"})
  /\ Here # NoMerge =>
       /\ ~Has(orders, MoveOrders)
       /\ Has(news, {"conflict"}) => LastTold(news, Here.agent)
       /\ popup # NoPopup /\ ~Has(news, {"conflict"}) => popup.agent = Here.agent
       /\ Finishes(orders, Here.agent)

\* A worktree loses nothing that was merged into it.
ContainsInv ==
  /\ \A t \in Trees, a \in Agents : contains[t][a] <= committed[a]
  /\ \A t \in Trees : merging[t] # NoMerge =>
       /\ contains[t][merging[t].agent] <= merging[t].upto
       /\ merging[t].upto <= committed[merging[t].agent]

MergingInv ==
  MergingTypeOK /\ QueueInv /\ PopupInv /\ MergeInv /\ ContainsInv /\ AppliedIsMerged

USE MergingAssumption

LEMMA MergingNames ==
  /\ 0 \in Trees /\ StartTree \in Trees /\ Task \in Trees /\ Agents \subseteq Trees
  /\ 0 \notin Agents /\ 1 \in Agents
  /\ NoMerge \in Merges /\ NoMerge.agent = 0
  /\ Untouched \in [Files -> Sides] /\ Open(Untouched) = {}
  /\ NoPopup \in [agent : Agents \cup {0}, files : [Files -> Sides]] /\ NoPopup.agent = 0
BY DEF Trees, Task, Agents, Merges, NoMerge, NoPopup, Untouched, Open, Sides, Files

-----------------------------------------------------------------------------
(* What joins a queue at its end, and what leaves it at its head *)

LEMMA Joins ==
  ASSUME NEW S, NEW s \in Seq(S), NEW x \in S
  PROVE  /\ Append(s, x) \in Seq(S)
         /\ \A A : Has(Append(s, x), A) <=> Has(s, A) \/ x.kind \in A
         /\ \A A, B : Before(s, A, B) /\ (x.kind \in A => ~Has(s, B) /\ x.kind \notin B)
                        => Before(Append(s, x), A, B)
<1>1. /\ Append(s, x) \in Seq(S) /\ Len(Append(s, x)) = Len(s) + 1 /\ Len(s) \in Nat
      /\ Append(s, x)[Len(s) + 1] = x
      /\ \A i \in 1 .. Len(s) : Append(s, x)[i] = s[i]
  OBVIOUS
<1>2. 1 .. Len(s) + 1 = 1 .. Len(s) \cup {Len(s) + 1}
  BY <1>1
<1>3. \A A : Has(Append(s, x), A) <=> Has(s, A) \/ x.kind \in A
  BY <1>1, <1>2 DEF Has
<1>4. ASSUME NEW A, NEW B, Before(s, A, B), x.kind \in A => ~Has(s, B) /\ x.kind \notin B
      PROVE  Before(Append(s, x), A, B)
  <2> DEFINE q == Append(s, x)
  <2> SUFFICES ASSUME NEW i \in 1 .. Len(s) + 1, NEW j \in 1 .. Len(s) + 1,
                      q[i].kind \in A, q[j].kind \in B
               PROVE  i < j
    BY <1>1 DEF Before
  <2>1. CASE i = Len(s) + 1
    <3>1. x.kind \in A
      BY <1>1, <2>1
    <3>2. j \notin 1 .. Len(s) /\ j # Len(s) + 1
      BY <1>1, <1>4, <3>1 DEF Has
    <3> QED
      BY <1>2, <3>2
  <2>2. CASE i \in 1 .. Len(s) /\ j \in 1 .. Len(s)
    BY <1>1, <1>4, <2>2 DEF Before
  <2>3. CASE i \in 1 .. Len(s) /\ j = Len(s) + 1
    BY <1>1, <2>3
  <2> QED
    BY <1>2, <2>1, <2>2, <2>3
<1> QED
  BY <1>1, <1>3, <1>4

LEMMA Leaves ==
  ASSUME NEW S, NEW s \in Seq(S), s # <<>>
  PROVE  /\ Tail(s) \in Seq(S) /\ Head(s) \in S
         /\ \A A : Has(s, A) <=> Head(s).kind \in A \/ Has(Tail(s), A)
         /\ \A A, B : Before(s, A, B) => /\ Before(Tail(s), A, B)
                                         /\ Head(s).kind \in B => ~Has(s, A)
<1>1. /\ Tail(s) \in Seq(S) /\ Head(s) \in S /\ Head(s) = s[1]
      /\ Len(s) \in Nat \ {0} /\ Len(Tail(s)) = Len(s) - 1
      /\ \A i \in 1 .. Len(s) - 1 : Tail(s)[i] = s[i + 1]
  OBVIOUS
<1>2. \A i \in 1 .. Len(s) : i = 1 \/ (i - 1 \in 1 .. Len(s) - 1 /\ Tail(s)[i - 1] = s[i])
  BY <1>1
<1>3. \A i \in 1 .. Len(s) - 1 : i + 1 \in 1 .. Len(s) /\ i \in Int
  BY <1>1
<1>4. ASSUME NEW A
      PROVE  Has(s, A) <=> Head(s).kind \in A \/ Has(Tail(s), A)
  <2>1. Has(s, A) => Head(s).kind \in A \/ Has(Tail(s), A)
    BY <1>1, <1>2 DEF Has
  <2>2. Has(Tail(s), A) => Has(s, A)
    BY <1>1, <1>3 DEF Has
  <2>3. Head(s).kind \in A => Has(s, A)
    BY <1>1 DEF Has
  <2> QED
    BY <2>1, <2>2, <2>3
<1>5. ASSUME NEW A, NEW B, Before(s, A, B)
      PROVE  /\ Before(Tail(s), A, B)
             /\ Head(s).kind \in B => ~Has(s, A)
  <2>1. Before(Tail(s), A, B)
    <3> SUFFICES ASSUME NEW i \in 1 .. Len(s) - 1, NEW j \in 1 .. Len(s) - 1,
                        Tail(s)[i].kind \in A, Tail(s)[j].kind \in B
                 PROVE  i < j
      BY <1>1 DEF Before
    <3>1. s[i + 1].kind \in A /\ s[j + 1].kind \in B
      BY <1>1
    <3>2. i + 1 < j + 1
      BY <1>3, <1>5, <3>1 DEF Before
    <3> QED
      BY <3>2
  <2>2. Head(s).kind \in B => ~Has(s, A)
    BY <1>1, <1>5 DEF Before, Has
  <2> QED
    BY <2>1, <2>2
<1> QED
  BY <1>1, <1>4, <1>5

LEMMA TellsLast ==
  ASSUME NEW S, NEW s \in Seq(S), NEW x \in S, NEW a
  PROVE  /\ x.kind = "conflict" /\ x.agent = a => LastTold(Append(s, x), a)
         /\ x.kind # "conflict" /\ LastTold(s, a) => LastTold(Append(s, x), a)
         /\ Finishes(s, a) /\ (x.kind = "finish" => x.agent = a) => Finishes(Append(s, x), a)
<1>1. /\ Len(Append(s, x)) = Len(s) + 1 /\ Len(s) \in Nat
      /\ Append(s, x)[Len(s) + 1] = x
      /\ \A i \in 1 .. Len(s) : Append(s, x)[i] = s[i]
  OBVIOUS
<1>2. 1 .. Len(s) + 1 = 1 .. Len(s) \cup {Len(s) + 1}
  BY <1>1
<1>3. Finishes(s, a) /\ (x.kind = "finish" => x.agent = a) => Finishes(Append(s, x), a)
  BY <1>1, <1>2 DEF Finishes
<1>4. ASSUME x.kind = "conflict", x.agent = a
      PROVE  LastTold(Append(s, x), a)
  <2>1. Len(s) + 1 \in 1 .. Len(s) + 1 /\ (Len(s) + 1) + 1 .. Len(s) + 1 = {}
    BY <1>1
  <2> QED
    BY <1>1, <1>4, <2>1 DEF LastTold
<1>5. ASSUME x.kind # "conflict", LastTold(s, a)
      PROVE  LastTold(Append(s, x), a)
  <2>1. PICK i \in 1 .. Len(s) : /\ s[i].kind = "conflict" /\ s[i].agent = a
                                 /\ \A j \in i + 1 .. Len(s) : s[j].kind # "conflict"
    BY <1>5 DEF LastTold
  <2>2. \A j \in i + 1 .. Len(s) + 1 : Append(s, x)[j].kind # "conflict"
    <3> TAKE j \in i + 1 .. Len(s) + 1
    <3>1. CASE j = Len(s) + 1
      BY <1>1, <1>5, <3>1
    <3>2. CASE j \in i + 1 .. Len(s)
      BY <1>1, <2>1, <3>2
    <3> QED
      BY <1>1, <3>1, <3>2
  <2>3. i \in 1 .. Len(s) + 1 /\ Append(s, x)[i] = s[i]
    BY <1>1
  <2> QED
    BY <1>1, <2>1, <2>2, <2>3 DEF LastTold
<1> QED
  BY <1>3, <1>4, <1>5

LEMMA LeavesLast ==
  ASSUME NEW S, NEW s \in Seq(S), s # <<>>, NEW a
  PROVE  /\ LastTold(s, a) /\ Has(Tail(s), {"conflict"}) => LastTold(Tail(s), a)
         /\ LastTold(s, a) /\ ~Has(Tail(s), {"conflict"})
              => Head(s).kind = "conflict" /\ Head(s).agent = a
         /\ Finishes(s, a) => /\ Finishes(Tail(s), a)
                              /\ Head(s).kind = "finish" => Head(s).agent = a
<1>1. /\ Head(s) = s[1] /\ Len(s) \in Nat \ {0} /\ Len(Tail(s)) = Len(s) - 1
      /\ \A i \in 1 .. Len(s) - 1 : Tail(s)[i] = s[i + 1] /\ i + 1 \in 1 .. Len(s)
  OBVIOUS
<1>2. Finishes(s, a) => /\ Finishes(Tail(s), a)
                        /\ Head(s).kind = "finish" => Head(s).agent = a
  BY <1>1 DEF Finishes
<1>3. ASSUME LastTold(s, a)
      PROVE  /\ Has(Tail(s), {"conflict"}) => LastTold(Tail(s), a)
             /\ ~Has(Tail(s), {"conflict"}) => Head(s).kind = "conflict" /\ Head(s).agent = a
  <2>1. PICK i \in 1 .. Len(s) : /\ s[i].kind = "conflict" /\ s[i].agent = a
                                 /\ \A j \in i + 1 .. Len(s) : s[j].kind # "conflict"
    BY <1>3 DEF LastTold
  <2>2. CASE i = 1
    <3>1. \A j \in 1 .. Len(s) - 1 : Tail(s)[j].kind # "conflict"
      BY <1>1, <2>1, <2>2
    <3> QED
      BY <1>1, <2>1, <2>2, <3>1 DEF Has
  <2>3. CASE i # 1
    <3>1. i - 1 \in 1 .. Len(s) - 1 /\ Tail(s)[i - 1] = s[i]
      BY <1>1, <2>3
    <3>2. \A j \in (i - 1) + 1 .. Len(s) - 1 : Tail(s)[j].kind # "conflict"
      BY <1>1, <2>1
    <3>3. LastTold(Tail(s), a)
      BY <1>1, <2>1, <3>1, <3>2 DEF LastTold
    <3>4. Has(Tail(s), {"conflict"})
      BY <1>1, <2>1, <3>1 DEF Has
    <3> QED
      BY <3>3, <3>4
  <2> QED
    BY <2>2, <2>3
<1> QED
  BY <1>2, <1>3

LEMMA NoneBefore ==
  \A s, A, B : ~Has(s, A) \/ ~Has(s, B) => Before(s, A, B)
BY DEF Has, Before

-----------------------------------------------------------------------------
(* The interface sends *)

LEMMA SendsStep ==
  ASSUME MergingInv, NEW o \in Orders, orders' = Append(orders, o),
         UNCHANGED <<projectRoot, trees, git, news, popup, applied>>,
         IF popup = NoPopup
         THEN o.kind \in {"diff", "apply", "cleanup"} \cup MoveOrders
         ELSE o.kind \in ResolverOrders /\ o.agent = popup.agent,
         o.kind \in MoveOrders =>
           (\A t \in Trees : merging[t] = NoMerge) /\ ~Has(orders, {"apply"}),
         o.kind = "finish" => Open(popup.files) = {}
  PROVE  MergingInv'
<1>1. /\ orders' \in Seq(Orders)
      /\ \A A : Has(orders', A) <=> Has(orders, A) \/ o.kind \in A
      /\ \A A, B : Before(orders, A, B) /\ (o.kind \in A => ~Has(orders, B) /\ o.kind \notin B)
                     => Before(orders', A, B)
      /\ \A a : Finishes(orders, a) /\ (o.kind = "finish" => o.agent = a) => Finishes(orders', a)
  BY Joins, TellsLast DEF MergingInv, MergingTypeOK
<1>2. UNCHANGED <<projectRoot, merging, news, popup, made, committed, contains, applied, trees>>
  BY DEF git
<1>3. MergingTypeOK' /\ ContainsInv' /\ AppliedIsMerged'
  BY <1>1, <1>2 DEF MergingInv, MergingTypeOK, ContainsInv, AppliedIsMerged, Reports, Open
<1>4. QueueInv'
  <2>1. CASE popup = NoPopup
    BY <1>1, <1>2, <2>1 DEF MergingInv, QueueInv, ResolverOrders, MoveOrders
  <2>2. CASE popup # NoPopup
    BY <1>1, <1>2, <2>2 DEF MergingInv, QueueInv, ResolverOrders
  <2> QED
    BY <2>1, <2>2
<1>5. PopupInv'
  BY <1>1, <1>2 DEF MergingInv, PopupInv, ResolverOrders
<1>6. o.kind = "finish" => /\ popup # NoPopup /\ o.agent = popup.agent
                           /\ ~Has(news, {"conflict"}) /\ ~Has(orders, {"apply"})
  BY DEF MergingInv, PopupInv, MoveOrders
<1>7. Before(orders', MoveOrders, {"apply"}) /\ Before(orders', {"finish"}, {"apply"})
  BY <1>1, <1>6 DEF MergingInv, MergeInv, MoveOrders
<1>8. Here' = Here /\ Here = merging[projectRoot] /\ projectRoot \in Trees
  BY <1>2 DEF Here, MergingInv, MergingTypeOK
<1>9. ASSUME Here # NoMerge
      PROVE  ~Has(orders', MoveOrders) /\ Finishes(orders', Here.agent)
  BY <1>1, <1>6, <1>8, <1>9 DEF MergingInv, MergeInv
<1>10. MergeInv'
  BY <1>2, <1>7, <1>8, <1>9 DEF MergingInv, MergeInv
<1> QED
  BY <1>3, <1>4, <1>5, <1>10 DEF MergingInv

LEMMA TypeStep ==
  ASSUME MergingInv, ~MovesMidMerge, TypeCommand \/ ResolverKey
  PROVE  MergingInv'
<1>1. PICK o \in Orders :
        /\ orders' = Append(orders, o)
        /\ UNCHANGED <<projectRoot, trees, git, news, popup, applied>>
        /\ IF popup = NoPopup
           THEN o.kind \in {"diff", "apply", "cleanup"} \cup MoveOrders
           ELSE o.kind \in ResolverOrders /\ o.agent = popup.agent
        /\ o.kind \in MoveOrders => BetweenMerges
        /\ o.kind = "finish" => Open(popup.files) = {}
  <2> DEFINE O(k, a, f, s) == [kind |-> k, agent |-> a, file |-> f, side |-> s]
  <2>1. ASSUME NEW a \in Agents, NEW k \in {"diff", "apply", "cleanup"}, popup = NoPopup,
               Sent(k, a, 0, "")
        PROVE  O(k, a, 0, "") \in Orders /\ orders' = Append(orders, O(k, a, 0, ""))
    BY <2>1, MergingNames DEF Sent, Orders, ResolverOrders, MoveOrders
  <2>2. ASSUME NEW t \in Trees, NEW k \in MoveOrders, popup = NoPopup, Sent(k, t, 0, "")
        PROVE  O(k, t, 0, "") \in Orders /\ orders' = Append(orders, O(k, t, 0, ""))
    BY <2>2, MergingNames DEF Sent, Orders, ResolverOrders, MoveOrders
  <2>3. ASSUME NEW f \in Files, NEW s \in SidesTaken, popup # NoPopup,
               Sent("resolve", popup.agent, f, s)
        PROVE  /\ O("resolve", popup.agent, f, s) \in Orders
               /\ orders' = Append(orders, O("resolve", popup.agent, f, s))
    BY <2>3, MergingNames DEF Sent, Orders, ResolverOrders, MoveOrders, MergingInv, PopupInv
  <2>4. ASSUME NEW k \in {"finish", "abort"}, popup # NoPopup, Sent(k, popup.agent, 0, "")
        PROVE  /\ O(k, popup.agent, 0, "") \in Orders
               /\ orders' = Append(orders, O(k, popup.agent, 0, ""))
    BY <2>4, MergingNames DEF Sent, Orders, ResolverOrders, MoveOrders, MergingInv, PopupInv
  <2>5. \A k, a, f, s : /\ O(k, a, f, s).kind = k /\ O(k, a, f, s).agent = a
                        /\ Sent(k, a, f, s) =>
                             UNCHANGED <<projectRoot, trees, git, news, popup, applied>>
    BY DEF Sent
  <2> HIDE DEF O
  <2>6. CASE TypeCommand
    <3>1. CASE \E a \in Agents, k \in {"diff", "apply", "cleanup"} : Sent(k, a, 0, "")
      <4>1. PICK a \in Agents, k \in {"diff", "apply", "cleanup"} : Sent(k, a, 0, "")
        BY <3>1
      <4>2. popup = NoPopup /\ k \notin MoveOrders /\ k # "finish"
        BY <2>6 DEF TypeCommand, MoveOrders
      <4>3. O(k, a, 0, "") \in Orders /\ orders' = Append(orders, O(k, a, 0, ""))
        BY <2>1, <4>1, <4>2
      <4>4. /\ O(k, a, 0, "").kind = k
            /\ UNCHANGED <<projectRoot, trees, git, news, popup, applied>>
        BY <4>1 DEF Sent, O
      <4> QED
        BY <4>2, <4>3, <4>4
    <3>2. CASE BetweenMerges /\ \E t \in Trees, k \in MoveOrders : Sent(k, t, 0, "")
      <4>1. PICK t \in Trees, k \in MoveOrders : Sent(k, t, 0, "")
        BY <3>2
      <4>2. popup = NoPopup /\ k # "finish"
        BY <2>6 DEF TypeCommand, MoveOrders
      <4>3. O(k, t, 0, "") \in Orders /\ orders' = Append(orders, O(k, t, 0, ""))
        BY <2>2, <4>1, <4>2
      <4>4. /\ O(k, t, 0, "").kind = k
            /\ UNCHANGED <<projectRoot, trees, git, news, popup, applied>>
        BY <4>1 DEF Sent, O
      <4> QED
        BY <3>2, <4>2, <4>3, <4>4
    <3> QED
      BY <2>6, <3>1, <3>2, MergingNames DEF TypeCommand, MoveOrders
  <2>7. CASE ResolverKey
    <3>1. popup # NoPopup
      BY <2>7 DEF ResolverKey
    <3>2. CASE \E f \in Files, s \in SidesTaken : Sent("resolve", popup.agent, f, s)
      BY <2>3, <2>5, <3>1, <3>2 DEF MoveOrders, ResolverOrders
    <3>3. CASE Open(popup.files) = {} /\ Sent("finish", popup.agent, 0, "")
      <4>1. /\ O("finish", popup.agent, 0, "") \in Orders
            /\ orders' = Append(orders, O("finish", popup.agent, 0, ""))
        BY <2>4, <3>1, <3>3
      <4>2. /\ O("finish", popup.agent, 0, "").kind = "finish"
            /\ O("finish", popup.agent, 0, "").agent = popup.agent
            /\ UNCHANGED <<projectRoot, trees, git, news, popup, applied>>
        BY <3>3 DEF Sent, O
      <4> QED
        BY <3>1, <3>3, <4>1, <4>2 DEF MoveOrders, ResolverOrders
    <3>4. CASE Sent("abort", popup.agent, 0, "")
      <4>1. /\ O("abort", popup.agent, 0, "") \in Orders
            /\ orders' = Append(orders, O("abort", popup.agent, 0, ""))
        BY <2>4, <3>1, <3>4
      <4>2. /\ O("abort", popup.agent, 0, "").kind = "abort"
            /\ O("abort", popup.agent, 0, "").agent = popup.agent
            /\ UNCHANGED <<projectRoot, trees, git, news, popup, applied>>
        BY <3>4 DEF Sent, O
      <4> QED
        BY <3>1, <3>4, <4>1, <4>2 DEF MoveOrders, ResolverOrders
    <3> QED
      BY <2>7, <3>2, <3>3, <3>4 DEF ResolverKey, SidesTaken
  <2> QED
    BY <2>6, <2>7
<1>2. BetweenMerges => (\A t \in Trees : merging[t] = NoMerge) /\ ~Has(orders, {"apply"})
  BY DEF BetweenMerges, Has
<1> QED
  BY <1>1, <1>2, SendsStep

-----------------------------------------------------------------------------
(* The interface receives *)

LEMMA ReceiveStep ==
  ASSUME MergingInv, ReceiveNews
  PROVE  MergingInv'
<1> DEFINE e == Head(news)
<1> DEFINE mine == e.agent = popup.agent
<1>1. /\ news # <<>> /\ news' = Tail(news)
      /\ UNCHANGED <<projectRoot, trees, made, committed, contains, merging, orders, applied>>
  BY DEF ReceiveNews, git
<1>2. /\ news' \in Seq(NewsItems) /\ e \in NewsItems
      /\ \A A : Has(news, A) <=> e.kind \in A \/ Has(news', A)
      /\ \A A, B : Before(news, A, B) => Before(news', A, B) /\ (e.kind \in B => ~Has(news, A))
      /\ \A a : /\ LastTold(news, a) /\ Has(news', {"conflict"}) => LastTold(news', a)
                /\ LastTold(news, a) /\ ~Has(news', {"conflict"})
                     => e.kind = "conflict" /\ e.agent = a
  BY <1>1, Leaves, LeavesLast DEF MergingInv, MergingTypeOK
<1>3. /\ e.agent \in Agents /\ e.files \in [Files -> Sides]
      /\ e.kind = "conflict" => Open(e.files) # {}
      /\ e.kind = "resolved" => e.file \in Files /\ e.side \in SidesTaken
  BY <1>2 DEF NewsItems
<1>4. /\ e.kind = "conflict" => popup' = [agent |-> e.agent, files |-> e.files]
      /\ e.kind = "resolved" /\ mine => popup' = [popup EXCEPT !.files[e.file] = e.side]
      /\ e.kind = "finished" /\ mine => popup' = NoPopup
      /\ e.kind # "conflict" /\ (e.kind \in ResolverNews => ~mine) => popup' = popup
      /\ e.kind \in {"resolved", "finished", "conflict"} \/ e.kind \notin ResolverNews
  BY DEF ReceiveNews, ResolverNews
<1>5. Here' = Here /\ Here = merging[projectRoot]
  BY <1>1 DEF Here
<1> DEFINE Popups == [agent : Agents \cup {0}, files : [Files -> Sides]]
<1>6. popup \in Popups
  BY DEF MergingInv, MergingTypeOK
<1> HIDE DEF e
<1>7. CASE e.kind = "conflict"
  <2>1. /\ popup' \in Popups /\ popup'.agent = e.agent /\ popup'.files = e.files
        /\ popup' # NoPopup
    BY <1>3, <1>4, <1>7, MergingNames
  <2>2. QueueInv'
    <3>1. CASE popup # NoPopup
      BY <1>1, <1>2, <2>1, <3>1 DEF MergingInv, QueueInv
    <3>2. CASE popup = NoPopup
      <4>1. ~Has(news', ResolverNews) /\ ~Has(orders, ResolverOrders)
        BY <1>2, <1>7, <3>2 DEF MergingInv, QueueInv
      <4> QED
        BY <1>1, <2>1, <4>1, NoneBefore DEF QueueInv
    <3> QED
      BY <3>1, <3>2
  <2>3. PopupInv'
    BY <1>3, <1>7, <2>1 DEF PopupInv
  <2>4. ASSUME Here # NoMerge
        PROVE  /\ Has(news', {"conflict"}) => LastTold(news', Here.agent)
               /\ ~Has(news', {"conflict"}) => popup'.agent = Here.agent
    BY <1>2, <1>7, <2>1, <2>4 DEF MergingInv, MergeInv
  <2> QED
    BY <1>1, <1>2, <1>5, <2>1, <2>2, <2>3, <2>4
    DEF MergingInv, MergingTypeOK, MergeInv, ContainsInv, AppliedIsMerged
<1>8. CASE e.kind = "resolved" /\ mine
  <2>1. /\ popup' \in Popups /\ popup'.agent = popup.agent /\ popup # NoPopup /\ popup' # NoPopup
    BY <1>3, <1>4, <1>6, <1>8, MergingNames DEF Sides
  <2>2. ~Has(news, {"conflict"}) /\ ~Has(orders, {"apply"})
    BY <1>2, <1>8, <2>1 DEF MergingInv, QueueInv, ResolverNews
  <2>3. QueueInv'
    BY <1>1, <1>2, <2>1 DEF MergingInv, QueueInv
  <2>4. PopupInv'
    BY <1>1, <1>2, <2>1, <2>2 DEF MergingInv, PopupInv
  <2>5. ~Has(news', {"conflict"}) /\ (Here # NoMerge => popup'.agent = Here.agent)
    BY <1>2, <2>1, <2>2 DEF MergingInv, MergeInv
  <2> QED
    BY <1>1, <1>2, <1>5, <2>1, <2>3, <2>4, <2>5
    DEF MergingInv, MergingTypeOK, MergeInv, ContainsInv, AppliedIsMerged
<1>9. CASE e.kind = "finished" /\ mine
  <2>1. popup' = NoPopup /\ popup # NoPopup
    BY <1>3, <1>4, <1>9, MergingNames
  <2>2. ~Has(news, {"conflict"}) /\ ~Has(orders, {"apply"})
    BY <1>2, <1>9, <2>1 DEF MergingInv, QueueInv, ResolverNews
  <2>3. /\ Before(news', ResolverNews, {"conflict"}) /\ ~Has(news', {"conflict"})
        /\ Before(orders, ResolverOrders, {"apply"})
    BY <1>2, <2>2, NoneBefore
  <2>4. QueueInv' /\ PopupInv'
    BY <1>1, <2>1, <2>3 DEF QueueInv, PopupInv
  <2> QED
    BY <1>1, <1>2, <1>5, <2>1, <2>3, <2>4, MergingNames
    DEF MergingInv, MergingTypeOK, MergeInv, ContainsInv, AppliedIsMerged
<1>10. CASE e.kind # "conflict" /\ (e.kind \in ResolverNews => ~mine)
  <2>1. popup' = popup /\ (Has(news', {"conflict"}) <=> Has(news, {"conflict"}))
    BY <1>2, <1>4, <1>10
  <2>2. QueueInv' /\ PopupInv'
    BY <1>1, <1>2, <2>1 DEF MergingInv, QueueInv, PopupInv
  <2> QED
    BY <1>1, <1>2, <1>5, <2>1, <2>2
    DEF MergingInv, MergingTypeOK, MergeInv, ContainsInv, AppliedIsMerged
<1> QED
  BY <1>7, <1>8, <1>9, <1>10 DEF ResolverNews

-----------------------------------------------------------------------------
(* The command loop takes an order, and may tell what became of it *)

Telling(n) == news' = news \/ news' = Append(news, n)

LEMMA TakesStep ==
  ASSUME MergingInv, orders # <<>>, orders' = Tail(orders), NEW n \in NewsItems, Telling(n),
         UNCHANGED popup,
         n.kind = "conflict" => Head(orders).kind = "apply",
         n.kind \in ResolverNews => Head(orders).kind \in ResolverOrders
  PROVE  /\ orders' \in Seq(Orders) /\ news' \in Seq(NewsItems) /\ Head(orders) \in Orders
         /\ QueueInv' /\ PopupInv'
         /\ Before(orders', MoveOrders, {"apply"}) /\ Before(orders', {"finish"}, {"apply"})
<1> DEFINE o == Head(orders)
<1>1. /\ orders' \in Seq(Orders) /\ o \in Orders
      /\ \A A : Has(orders, A) <=> o.kind \in A \/ Has(orders', A)
      /\ \A A, B : Before(orders, A, B) => Before(orders', A, B) /\ (o.kind \in B => ~Has(orders, A))
  BY Leaves DEF MergingInv, MergingTypeOK
<1>2. /\ news' \in Seq(NewsItems)
      /\ \A A : Has(news', A) => Has(news, A) \/ n.kind \in A
      /\ \A A, B : Before(news, A, B) /\ (n.kind \in A => ~Has(news, B) /\ n.kind \notin B)
                     => Before(news', A, B)
  <2>1. news \in Seq(NewsItems)
    BY DEF MergingInv, MergingTypeOK
  <2>2. CASE news' = news
    BY <2>1, <2>2
  <2>3. CASE news' = Append(news, n)
    BY <2>1, <2>3, Joins
  <2> QED
    BY <2>2, <2>3 DEF Telling
<1> HIDE DEF o
<1>3. Before(orders', MoveOrders, {"apply"}) /\ Before(orders', {"finish"}, {"apply"})
  BY <1>1 DEF MergingInv, MergeInv
<1>4. /\ n.kind = "conflict" => o.kind = "apply"
      /\ n.kind \in ResolverNews => o.kind \in ResolverOrders
  BY DEF o
<1>5. QueueInv'
  <2>1. CASE popup # NoPopup
    <3>1. n.kind = "conflict" => ~Has(news, ResolverNews) /\ n.kind \notin ResolverNews
      BY <1>1, <1>4, <2>1 DEF MergingInv, QueueInv, ResolverNews
    <3>2. n.kind \in ResolverNews => ~Has(orders', {"apply"})
      BY <1>1, <1>4, <2>1 DEF MergingInv, QueueInv
    <3> QED
      BY <1>1, <1>2, <2>1, <3>1, <3>2 DEF MergingInv, QueueInv
  <2>2. CASE popup = NoPopup
    <3>1. n.kind \in ResolverNews => ~Has(news, {"conflict"}) /\ n.kind \notin {"conflict"}
      BY <1>1, <1>4, <2>2 DEF MergingInv, QueueInv, ResolverNews
    <3>2. n.kind = "conflict" => ~Has(orders', ResolverOrders)
      BY <1>1, <1>4, <2>2 DEF MergingInv, QueueInv
    <3> QED
      BY <1>1, <1>2, <2>2, <3>1, <3>2 DEF MergingInv, QueueInv
  <2> QED
    BY <2>1, <2>2
<1>6. PopupInv'
  BY <1>1, <1>2, <1>4 DEF MergingInv, PopupInv
<1> QED
  BY <1>1, <1>2, <1>3, <1>5, <1>6 DEF o

\* No merge is in progress afterwards.
LEMMA NoMergeLeft ==
  ASSUME Before(orders', MoveOrders, {"apply"}), Before(orders', {"finish"}, {"apply"}),
         \A t \in Trees : merging'[t] = NoMerge, projectRoot' \in Trees
  PROVE  MergeInv'
BY DEF MergeInv, Here

\* The merge in progress stays that of the same agent.
LEMMA SameMerge ==
  ASSUME MergingInv, orders # <<>>, orders' = Tail(orders), NEW n \in NewsItems, Telling(n),
         UNCHANGED <<popup, projectRoot>>, n.kind # "conflict",
         Before(orders', MoveOrders, {"apply"}), Before(orders', {"finish"}, {"apply"}),
         \A t \in Trees : /\ merging'[t] # NoMerge => merging[t] # NoMerge
                          /\ merging'[t].agent = merging[t].agent
  PROVE  MergeInv'
<1>1. /\ \A A : Has(orders', A) => Has(orders, A)
      /\ \A a : Finishes(orders, a) => Finishes(orders', a)
  BY Leaves, LeavesLast DEF MergingInv, MergingTypeOK
<1>2. /\ Has(news', {"conflict"}) <=> Has(news, {"conflict"})
      /\ \A a : LastTold(news, a) => LastTold(news', a)
  <2>1. news \in Seq(NewsItems)
    BY DEF MergingInv, MergingTypeOK
  <2>2. CASE news' = news
    BY <2>2
  <2>3. CASE news' = Append(news, n)
    BY <2>1, <2>3, Joins, TellsLast
  <2> QED
    BY <2>2, <2>3 DEF Telling
<1>3. projectRoot \in Trees
  BY DEF MergingInv, MergingTypeOK
<1> QED
  BY <1>1, <1>2, <1>3 DEF MergingInv, MergeInv, Here

LEMMA OrderKinds ==
  ASSUME NEW o \in Orders
  PROVE  /\ o.agent \in Trees /\ (o.kind \notin MoveOrders => o.agent \in Agents)
         /\ o.kind = "resolve" => o.file \in Files /\ o.side \in SidesTaken
         /\ \A k \in {"diff", "apply", "cleanup", "resolve", "finish", "abort"} : k \notin MoveOrders
<1>1. \A k \in {"diff", "apply", "cleanup", "resolve", "finish", "abort"} : k \notin MoveOrders
  BY DEF MoveOrders
<1>2. o.agent \in Trees /\ (o.kind \notin MoveOrders => o.agent \in Agents)
  BY DEF Orders
<1>3. o.kind = "resolve" => o.file \in Files /\ o.side \in SidesTaken
  BY DEF Orders
<1> QED
  BY <1>1, <1>2, <1>3

LEMMA NewsMade ==
  ASSUME NEW a \in Agents
  PROVE  /\ Notice(a) \in NewsItems /\ Notice(a).kind = "notice"
         /\ News("finished", a) \in NewsItems /\ News("finished", a).kind = "finished"
BY MergingNames DEF News, Notice, NewsItems, ResolverNews

SideTaken(a, f, side) == [News("resolved", a) EXCEPT !.file = f, !.side = side]
ConflictTold(a, fs) == [News("conflict", a) EXCEPT !.files = fs]

LEMMA ResolvedMade ==
  ASSUME NEW a \in Agents, NEW f \in Files, NEW side \in SidesTaken
  PROVE  SideTaken(a, f, side) \in NewsItems /\ SideTaken(a, f, side).kind = "resolved"
<1> DEFINE n == SideTaken(a, f, side)
<1>1. n.kind = "resolved" /\ n.file = f /\ n.side = side
  BY DEF News, SideTaken
<1>2. n \in [kind : {"notice", "conflict"} \cup ResolverNews, agent : Agents,
             files : [Files -> Sides], file : Files \cup {0}, side : {""} \cup SidesTaken]
  BY MergingNames DEF News, SideTaken, ResolverNews
<1> HIDE DEF n
<1>3. n \in NewsItems
  BY <1>1, <1>2 DEF NewsItems
<1> QED
  BY <1>1, <1>3 DEF n

LEMMA ConflictMade ==
  ASSUME NEW a \in Agents, NEW fs \in [Files -> Sides], Open(fs) # {}
  PROVE  /\ ConflictTold(a, fs) \in NewsItems
         /\ ConflictTold(a, fs).kind = "conflict" /\ ConflictTold(a, fs).agent = a
<1> DEFINE n == ConflictTold(a, fs)
<1>1. n.kind = "conflict" /\ n.agent = a /\ n.files = fs
  BY DEF News, ConflictTold
<1>2. n \in [kind : {"notice", "conflict"} \cup ResolverNews, agent : Agents,
             files : [Files -> Sides], file : Files \cup {0}, side : {""} \cup SidesTaken]
  BY DEF News, ConflictTold
<1> HIDE DEF n
<1>3. n \in NewsItems
  BY <1>1, <1>2 DEF NewsItems
<1> QED
  BY <1>1, <1>3 DEF n

\* Orders that move the loop, make or remove a worktree, or only look.
LEMMA MovingStep ==
  ASSUME MergingInv, orders # <<>>, orders' = Tail(orders), Head(orders).kind \in MoveOrders,
         projectRoot' \in Trees, trees' \subseteq Trees, UNCHANGED <<git, news, popup, applied>>
  PROVE  MergingInv'
<1>1. Notice(1) \in NewsItems /\ Notice(1).kind = "notice" /\ Telling(Notice(1)) /\ 1 \in Agents
  BY NewsMade, MergingNames DEF Telling
<1>2. /\ orders' \in Seq(Orders) /\ news' \in Seq(NewsItems) /\ QueueInv' /\ PopupInv'
      /\ Before(orders', MoveOrders, {"apply"}) /\ Before(orders', {"finish"}, {"apply"})
  BY <1>1, TakesStep DEF ResolverNews
<1>3. Has(orders, MoveOrders)
  BY Leaves DEF MergingInv, MergingTypeOK
<1>4. \A t \in Trees : merging'[t] = NoMerge
  BY <1>3 DEF git, MergingInv, MergeInv, MergingTypeOK, Here
<1>5. MergeInv'
  BY <1>2, <1>4, NoMergeLeft
<1> QED
  BY <1>2, <1>5 DEF git, MergingInv, MergingTypeOK, ContainsInv, AppliedIsMerged

\* Orders after which no merge has begun or ended.
LEMMA LookingStep ==
  ASSUME MergingInv, orders # <<>>, orders' = Tail(orders), NEW n \in NewsItems, Telling(n),
         n.kind # "conflict", n.kind \in ResolverNews => Head(orders).kind \in ResolverOrders,
         trees' \subseteq Trees,
         UNCHANGED <<projectRoot, made, committed, contains, popup, applied>>,
         merging' \in [Trees -> Merges],
         \A t \in Trees : /\ merging'[t] # NoMerge => merging[t] # NoMerge
                          /\ merging'[t].agent = merging[t].agent
                          /\ merging'[t].upto = merging[t].upto
  PROVE  MergingInv'
<1>1. /\ orders' \in Seq(Orders) /\ news' \in Seq(NewsItems) /\ QueueInv' /\ PopupInv'
      /\ Before(orders', MoveOrders, {"apply"}) /\ Before(orders', {"finish"}, {"apply"})
  BY TakesStep
<1>2. MergeInv'
  BY <1>1, SameMerge
<1>3. MergingTypeOK' /\ AppliedIsMerged'
  BY <1>1 DEF MergingInv, MergingTypeOK, AppliedIsMerged
<1>4. ContainsInv'
  BY DEF MergingInv, ContainsInv
<1> QED
  BY <1>1, <1>2, <1>3, <1>4 DEF MergingInv

\* Orders after which no merge is in progress where the loop works.
LEMMA ClearingStep ==
  ASSUME MergingInv, orders # <<>>, orders' = Tail(orders), NEW n \in NewsItems, Telling(n),
         n.kind # "conflict", n.kind \in ResolverNews => Head(orders).kind \in ResolverOrders,
         merging' = [merging EXCEPT ![projectRoot] = NoMerge],
         UNCHANGED <<projectRoot, trees, made, committed, popup>>
  PROVE  /\ orders' \in Seq(Orders) /\ news' \in Seq(NewsItems) /\ QueueInv' /\ PopupInv'
         /\ MergeInv' /\ (\A t \in Trees : merging'[t] = NoMerge) /\ merging' \in [Trees -> Merges]
         /\ contains' = contains /\ applied' = applied => MergingInv'
<1>1. /\ orders' \in Seq(Orders) /\ news' \in Seq(NewsItems) /\ QueueInv' /\ PopupInv'
      /\ Before(orders', MoveOrders, {"apply"}) /\ Before(orders', {"finish"}, {"apply"})
  BY TakesStep
<1>2. (\A t \in Trees : merging'[t] = NoMerge) /\ merging' \in [Trees -> Merges]
  BY MergingNames DEF MergingInv, MergingTypeOK, MergeInv
<1>3. MergeInv'
  BY <1>1, <1>2, NoMergeLeft DEF MergingInv, MergingTypeOK
<1>4. contains' = contains /\ applied' = applied => MergingInv'
  BY <1>1, <1>2, <1>3 DEF MergingInv, MergingTypeOK, ContainsInv, AppliedIsMerged
<1> QED
  BY <1>1, <1>2, <1>3, <1>4

LEMMA TargetOf ==
  ASSUME MergingInv, NEW kind, Takes(kind)
  PROVE  /\ orders # <<>> /\ orders' = Tail(orders) /\ Head(orders).kind = kind
         /\ Head(orders) \in Orders /\ Target \in Trees
         /\ kind \in {"diff", "apply", "cleanup", "resolve", "finish", "abort"} => Target \in Agents
         /\ kind = "resolve" => Head(orders).file \in Files /\ Head(orders).side \in SidesTaken
<1>1. orders # <<>> /\ orders' = Tail(orders) /\ Head(orders).kind = kind
  BY DEF Takes
<1>2. Head(orders) \in Orders
  BY <1>1, Leaves DEF MergingInv, MergingTypeOK
<1>3. /\ Target \in Trees /\ (Head(orders).kind \notin MoveOrders => Target \in Agents)
      /\ Head(orders).kind = "resolve" => Head(orders).file \in Files /\ Head(orders).side \in SidesTaken
  <2> DEFINE o == Head(orders)
  <2>1. o \in Orders
    BY <1>2
  <2> HIDE DEF o
  <2>2. /\ o.agent \in Trees /\ (o.kind \notin MoveOrders => o.agent \in Agents)
        /\ o.kind = "resolve" => o.file \in Files /\ o.side \in SidesTaken
    BY <2>1, OrderKinds
  <2> QED
    BY <2>2 DEF Target, o
<1>4. kind \in {"diff", "apply", "cleanup", "resolve", "finish", "abort"} => kind \notin MoveOrders
  BY DEF MoveOrders
<1> QED
  BY <1>1, <1>2, <1>3, <1>4

LEMMA DiffStep ==
  ASSUME MergingInv, ComputeSubagentDiff \/ CleanupSubagent
  PROVE  MergingInv'
<1>1. PICK kind \in {"diff", "cleanup"} : Takes(kind)
  BY DEF ComputeSubagentDiff, CleanupSubagent
<1>2. Target \in Agents /\ orders # <<>> /\ orders' = Tail(orders)
  BY <1>1, TargetOf
<1>3. Notice(Target) \in NewsItems /\ Notice(Target).kind = "notice" /\ Telling(Notice(Target))
  BY <1>2, NewsMade DEF ComputeSubagentDiff, CleanupSubagent, Telling, Tells
<1>4. /\ UNCHANGED <<projectRoot, made, committed, contains, merging, popup, applied>>
      /\ trees' \subseteq Trees
  BY DEF ComputeSubagentDiff, CleanupSubagent, git, MergingInv, MergingTypeOK
<1> QED
  BY <1>2, <1>3, <1>4, LookingStep DEF ResolverNews, MergingInv, MergingTypeOK

\* Changes enter the worktree, and are reported.
Merged(t, a, v) == contains' = [contains EXCEPT ![t][a] = v]

LEMMA EntersStep ==
  ASSUME MergingInv, NEW a \in Agents, NEW t \in Trees, NEW v \in Nat,
         Merged(t, a, v), contains[t][a] <= v, v <= committed[a]
  PROVE  /\ contains' \in [Trees -> [Agents -> Nat]] /\ contains'[t][a] = v
         /\ \A u \in Trees, b \in Agents : contains[u][b] <= contains'[u][b]
         /\ \A u \in Trees, b \in Agents : contains'[u][b] <= committed[b]
<1>1. contains \in [Trees -> [Agents -> Nat]] /\ committed \in [Agents -> Nat]
  BY DEF MergingInv, MergingTypeOK
<1>2. /\ contains' \in [Trees -> [Agents -> Nat]] /\ contains'[t][a] = v
      /\ \A u \in Trees, b \in Agents : u # t \/ b # a => contains'[u][b] = contains[u][b]
  BY <1>1 DEF Merged
<1>3. \A u \in Trees, b \in Agents : contains[u][b] \in Nat
  BY <1>1
<1>4. \A u \in Trees, b \in Agents : contains[u][b] <= committed[b]
  BY DEF MergingInv, ContainsInv
<1>5. \A u \in Trees, b \in Agents : contains[u][b] <= contains'[u][b]
  BY <1>2, <1>3
<1>6. \A u \in Trees, b \in Agents : contains'[u][b] <= committed[b]
  BY <1>2, <1>4
<1> QED
  BY <1>2, <1>5, <1>6

LEMMA ReportsStep ==
  ASSUME MergingInv, NEW r \in Reports, applied' = applied \cup {r},
         contains' \in [Trees -> [Agents -> Nat]], r.upto <= contains'[r.tree][r.agent],
         \A u \in Trees, b \in Agents : contains[u][b] <= contains'[u][b]
  PROVE  applied' \subseteq Reports /\ AppliedIsMerged'
<1>1. applied \subseteq Reports /\ contains \in [Trees -> [Agents -> Nat]]
  BY DEF MergingInv, MergingTypeOK
<1>2. ASSUME NEW q \in applied'
      PROVE  q.upto <= contains'[q.tree][q.agent]
  <2>1. CASE q = r
    BY <2>1
  <2>2. CASE q \in applied
    <3>1. q \in Reports /\ q.upto <= contains[q.tree][q.agent]
      BY <1>1, <2>2 DEF MergingInv, AppliedIsMerged
    <3>2. q.tree \in Trees /\ q.agent \in Agents /\ q.upto \in Nat
      BY <3>1 DEF Reports
    <3>3. contains[q.tree][q.agent] \in Nat /\ contains'[q.tree][q.agent] \in Nat
      BY <1>1, <3>2
    <3>4. contains[q.tree][q.agent] <= contains'[q.tree][q.agent]
      BY <3>2
    <3> QED
      BY <3>1, <3>2, <3>3, <3>4
  <2> QED
    BY <1>2, <2>1, <2>2
<1> QED
  BY <1>1, <1>2 DEF AppliedIsMerged

LEMMA MergeAppliesStep ==
  ASSUME MergingInv, MergeApplies
  PROVE  MergingInv'
<1> DEFINE a == Target
<1>1. /\ a \in Agents /\ orders # <<>> /\ orders' = Tail(orders) /\ Here = NoMerge
      /\ projectRoot \in Trees
  BY TargetOf DEF MergeApplies, MergingInv, MergingTypeOK
<1>2. Notice(a) \in NewsItems /\ Notice(a).kind = "notice" /\ Telling(Notice(a))
  BY <1>1, NewsMade DEF MergeApplies, Telling, Tells
<1>3. UNCHANGED <<projectRoot, trees, made, committed, merging, popup>>
  BY DEF MergeApplies
<1>4. merging' = [merging EXCEPT ![projectRoot] = NoMerge]
  BY <1>1, <1>3 DEF Here, MergingInv, MergingTypeOK
<1>5. /\ orders' \in Seq(Orders) /\ news' \in Seq(NewsItems) /\ QueueInv' /\ PopupInv'
      /\ MergeInv' /\ (\A t \in Trees : merging'[t] = NoMerge) /\ merging' \in [Trees -> Merges]
  BY <1>1, <1>2, <1>3, <1>4, ClearingStep DEF ResolverNews
<1> DEFINE r == [agent |-> a, tree |-> projectRoot, made |-> made[a], upto |-> committed[a]]
<1>6. /\ contains' = [contains EXCEPT ![projectRoot][a] = committed[a]]
      /\ applied' = applied \cup {r}
  BY <1>1 DEF MergeApplies, Report
<1>7. /\ contains' \in [Trees -> [Agents -> Nat]]
      /\ contains'[projectRoot][a] = committed[a]
      /\ \A t \in Trees, b \in Agents : contains[t][b] <= contains'[t][b]
      /\ \A t \in Trees, b \in Agents : contains'[t][b] <= committed[b]
  <2>1. contains[projectRoot][a] <= committed[a] /\ committed[a] \in Nat
    BY <1>1 DEF MergingInv, MergingTypeOK, ContainsInv
  <2> QED
    <3>1. Merged(projectRoot, a, committed[a])
      BY <1>6 DEF Merged
    <3> QED
      BY <1>1, <2>1, <3>1, EntersStep
<1>8. r \in Reports /\ r.agent = a /\ r.tree = projectRoot /\ r.upto = committed[a]
  BY <1>1 DEF Reports, MergingInv, MergingTypeOK
<1> HIDE DEF r, a
<1>9. MergingTypeOK'
  BY <1>3, <1>5, <1>6, <1>7, <1>8 DEF MergingInv, MergingTypeOK
<1>10. ContainsInv'
  BY <1>3, <1>5, <1>7 DEF ContainsInv
<1>11. AppliedIsMerged'
  <2>1. r.upto <= contains'[r.tree][r.agent]
    BY <1>1, <1>7, <1>8 DEF a, MergingInv, MergingTypeOK
  <2> QED
    BY <1>6, <1>7, <1>8, <2>1, ReportsStep
<1> QED
  BY <1>5, <1>9, <1>10, <1>11 DEF MergingInv

LEMMA MergeConflictsStep ==
  ASSUME MergingInv, MergeConflicts
  PROVE  MergingInv'
<1> DEFINE a == Target
<1>1. /\ a \in Agents /\ orders # <<>> /\ orders' = Tail(orders) /\ Head(orders).kind = "apply"
      /\ Here = NoMerge /\ projectRoot \in Trees /\ committed[a] > contains[projectRoot][a]
      /\ UNCHANGED <<projectRoot, trees, made, committed, contains, popup, applied>>
  BY TargetOf DEF MergeConflicts, MergingInv, MergingTypeOK
<1>2. PICK open \in (SUBSET Files) \ {{}}, hidden \in {FALSE, Hidden} :
        LET left == [f \in Files |-> IF f \in open THEN "open" ELSE "clean"]
        IN  /\ merging' = [merging EXCEPT ![projectRoot] =
                 [agent |-> a, upto |-> committed[a], files |-> left, hidden |-> hidden]]
            /\ Tells([News("conflict", a) EXCEPT !.files = left])
  BY DEF MergeConflicts
<1> DEFINE left == [f \in Files |-> IF f \in open THEN "open" ELSE "clean"]
<1> DEFINE m == [agent |-> a, upto |-> committed[a], files |-> left, hidden |-> hidden]
<1> DEFINE n == ConflictTold(a, left)
<1>3. left \in [Files -> Sides] /\ Open(left) # {}
  BY DEF Sides, Open
<1>4. merging' = [merging EXCEPT ![projectRoot] = m] /\ news' = Append(news, n)
  BY <1>2 DEF Tells, ConflictTold
<1> HIDE DEF left
<1>5. n \in NewsItems /\ n.kind = "conflict" /\ n.agent = a /\ n.kind \notin ResolverNews
  <2>1. n \in NewsItems /\ n.kind = "conflict" /\ n.agent = a
    BY <1>1, <1>3, ConflictMade
  <2> QED
    BY <2>1 DEF ResolverNews
<1>6. m \in Merges /\ m.agent = a /\ m.upto = committed[a] /\ m # NoMerge
  <2>1. committed[a] \in Nat /\ hidden \in BOOLEAN
    BY <1>1 DEF MergingInv, MergingTypeOK
  <2>2. m \in Merges /\ m.agent = a /\ m.upto = committed[a]
    BY <1>1, <1>3, <2>1 DEF Merges
  <2>3. a # 0
    BY <1>1, MergingNames
  <2> HIDE DEF m
  <2> QED
    BY <2>2, <2>3, MergingNames
<1> HIDE DEF m, n, a
<1>7. /\ orders' \in Seq(Orders) /\ news' \in Seq(NewsItems) /\ QueueInv' /\ PopupInv'
      /\ Before(orders', MoveOrders, {"apply"}) /\ Before(orders', {"finish"}, {"apply"})
  BY <1>1, <1>4, <1>5, TakesStep DEF Telling
<1>8. /\ merging' \in [Trees -> Merges] /\ merging'[projectRoot] = m
      /\ \A t \in Trees : t # projectRoot => merging'[t] = NoMerge
  BY <1>1, <1>4, <1>6 DEF MergingInv, MergingTypeOK, MergeInv
<1>9. ~Has(orders', MoveOrders) /\ ~Has(orders', {"finish"})
  BY <1>1, Leaves DEF MergingInv, MergingTypeOK, MergeInv
<1>10. LastTold(news', a) /\ Has(news', {"conflict"}) /\ Finishes(orders', a)
  <2>1. LastTold(news', a) /\ Has(news', {"conflict"})
    BY <1>4, <1>5, Joins, TellsLast DEF MergingInv, MergingTypeOK
  <2>2. Finishes(orders', a)
    BY <1>9 DEF Finishes, Has
  <2> QED
    BY <2>1, <2>2
<1>11. MergeInv'
  BY <1>1, <1>6, <1>7, <1>8, <1>9, <1>10 DEF MergeInv, Here, a
<1>12. MergingTypeOK' /\ AppliedIsMerged'
  BY <1>1, <1>7, <1>8 DEF MergingInv, MergingTypeOK, AppliedIsMerged
<1>13. ContainsInv'
  <2>1. contains[projectRoot][a] \in Nat /\ committed[a] \in Nat
    BY <1>1 DEF MergingInv, MergingTypeOK, a
  <2> QED
    BY <1>1, <1>6, <1>8, <2>1 DEF MergingInv, ContainsInv
<1> QED
  BY <1>7, <1>11, <1>12, <1>13 DEF MergingInv

LEMMA ErrsStep ==
  ASSUME MergingInv, MergeErrs \/ AbortMerge
  PROVE  MergingInv'
<1>1. PICK kind \in {"apply", "abort"} : Takes(kind) /\ (kind = "apply" \/ AbortMerge)
  BY DEF MergeErrs, AbortMerge
<1>2. CASE MergeErrs
  <2>1. Takes("apply")
    BY <1>2 DEF MergeErrs
  <2>2. Target \in Agents /\ orders # <<>> /\ orders' = Tail(orders)
    BY <2>1, TargetOf
  <2>3. /\ Notice(Target) \in NewsItems /\ Notice(Target).kind = "notice"
        /\ Telling(Notice(Target))
    BY <1>2, <2>2, NewsMade DEF MergeErrs, Telling, Tells
  <2> QED
    BY <1>2, <2>2, <2>3, ClearingStep DEF MergeErrs, ResolverNews
<1>3. CASE AbortMerge
  <2>1. Takes("abort")
    BY <1>3 DEF AbortMerge
  <2>2. Target \in Agents /\ orders # <<>> /\ orders' = Tail(orders) /\ Head(orders).kind = "abort"
    BY <2>1, TargetOf
  <2>3. /\ News("finished", Target) \in NewsItems /\ News("finished", Target).kind = "finished"
        /\ Telling(News("finished", Target))
    BY <1>3, <2>2, NewsMade DEF AbortMerge, Telling, Tells
  <2> QED
    BY <1>3, <2>2, <2>3, ClearingStep DEF AbortMerge, ResolverOrders
<1> QED
  BY <1>2, <1>3

LEMMA ResolveStep ==
  ASSUME MergingInv, ResolveConflictFile \/ ResolveFails
  PROVE  MergingInv'
<1>1. Takes("resolve")
  BY DEF ResolveConflictFile, ResolveFails
<1>2. /\ Target \in Agents /\ orders # <<>> /\ orders' = Tail(orders)
      /\ Head(orders).kind = "resolve" /\ Head(orders).file \in Files /\ Head(orders).side \in SidesTaken
      /\ projectRoot \in Trees
  BY <1>1, TargetOf DEF MergingInv, MergingTypeOK
<1>3. CASE ResolveFails
  <2>1. /\ Notice(Target) \in NewsItems /\ Notice(Target).kind = "notice"
        /\ Telling(Notice(Target))
    BY <1>2, <1>3, NewsMade DEF ResolveFails, Telling, Tells
  <2> QED
    BY <1>2, <1>3, <2>1, LookingStep DEF ResolveFails, ResolverNews, git, MergingInv, MergingTypeOK
<1>4. CASE ResolveConflictFile
  <2> DEFINE n == SideTaken(Target, Head(orders).file, Head(orders).side)
  <2>1. n \in NewsItems /\ n.kind = "resolved" /\ Telling(n)
    <3>1. news' = Append(news, n)
      BY <1>4 DEF ResolveConflictFile, Tells, SideTaken
    <3>2. n \in NewsItems /\ n.kind = "resolved"
      BY <1>2, ResolvedMade
    <3> QED
      BY <3>1, <3>2 DEF Telling
  <2> HIDE DEF n
  <2>2. /\ merging' \in [Trees -> Merges]
        /\ \A t \in Trees : /\ merging'[t] # NoMerge => merging[t] # NoMerge
                            /\ merging'[t].agent = merging[t].agent
                            /\ merging'[t].upto = merging[t].upto
    <3> DEFINE f == Head(orders).file
    <3> DEFINE m == [Here EXCEPT !.files[f] = Head(orders).side]
    <3>1. Here \in Merges /\ (Here.files[f] = "open" => Here # NoMerge)
      BY <1>2 DEF Here, MergingInv, MergingTypeOK, NoMerge, Untouched
    <3>2. m \in Merges /\ m.agent = Here.agent /\ m.upto = Here.upto
      BY <1>2, <3>1 DEF Merges, Sides
    <3>3. merging' = IF Here.files[f] = "open" THEN [merging EXCEPT ![projectRoot] = m]
                     ELSE merging
      BY <1>2, <1>4 DEF ResolveConflictFile, Here, MergingInv, MergingTypeOK
    <3> HIDE DEF m, f
    <3>4. merging \in [Trees -> Merges] /\ Here = merging[projectRoot]
      BY DEF MergingInv, MergingTypeOK, Here
    <3> QED
      BY <1>2, <3>1, <3>2, <3>3, <3>4
  <2>3. /\ UNCHANGED <<projectRoot, trees, made, committed, contains, popup, applied>>
        /\ trees \subseteq Trees
    BY <1>4 DEF ResolveConflictFile, MergingInv, MergingTypeOK
  <2> QED
    <3>1. n.kind # "conflict" /\ Head(orders).kind \in ResolverOrders
      BY <1>2, <2>1 DEF ResolverOrders
    <3> QED
      BY <1>2, <2>1, <2>2, <2>3, <3>1, LookingStep
<1> QED
  BY <1>3, <1>4

LEMMA FinishMergeStep ==
  ASSUME MergingInv, FinishMerge
  PROVE  MergingInv'
<1> DEFINE a == Target
<1>1. /\ a \in Agents /\ orders # <<>> /\ orders' = Tail(orders) /\ Head(orders).kind = "finish"
      /\ Here # NoMerge /\ projectRoot \in Trees
  BY TargetOf DEF FinishMerge, Committable, MergingInv, MergingTypeOK
<1>2. /\ News("finished", a) \in NewsItems /\ News("finished", a).kind = "finished"
      /\ Telling(News("finished", a))
  BY <1>1, NewsMade DEF FinishMerge, Telling, Tells
<1>3. /\ UNCHANGED <<projectRoot, trees, made, committed, popup>>
      /\ merging' = [merging EXCEPT ![projectRoot] = NoMerge]
  BY DEF FinishMerge
<1>4. /\ orders' \in Seq(Orders) /\ news' \in Seq(NewsItems) /\ QueueInv' /\ PopupInv'
      /\ MergeInv' /\ (\A t \in Trees : merging'[t] = NoMerge) /\ merging' \in [Trees -> Merges]
  BY <1>1, <1>2, <1>3, ClearingStep DEF ResolverOrders
<1>5. Here.agent = a
  <2>1. Finishes(orders, Here.agent)
    BY <1>1 DEF MergingInv, MergeInv
  <2> QED
    BY <1>1, <2>1, LeavesLast DEF MergingInv, MergingTypeOK, Target
<1>6. /\ contains[projectRoot][a] <= Here.upto /\ Here.upto <= committed[a] /\ Here.upto \in Nat
  BY <1>1, <1>5 DEF MergingInv, ContainsInv, Here, MergingTypeOK, Merges
<1> DEFINE r == [agent |-> a, tree |-> projectRoot, made |-> made[a], upto |-> Here.upto]
<1>7. /\ contains' = [contains EXCEPT ![projectRoot][a] = Here.upto]
      /\ applied' = applied \cup {r}
  BY <1>1, <1>5 DEF FinishMerge, Report
<1>8. /\ contains' \in [Trees -> [Agents -> Nat]]
      /\ contains'[projectRoot][a] = Here.upto
      /\ \A t \in Trees, b \in Agents : contains[t][b] <= contains'[t][b]
      /\ \A t \in Trees, b \in Agents : contains'[t][b] <= committed[b]
  <2>1. Merged(projectRoot, a, Here.upto)
    BY <1>7 DEF Merged
  <2> QED
    BY <1>1, <1>6, <2>1, EntersStep
<1>9. r \in Reports /\ r.agent = a /\ r.tree = projectRoot /\ r.upto = Here.upto
  BY <1>1, <1>6 DEF Reports, MergingInv, MergingTypeOK
<1> HIDE DEF r, a
<1>10. MergingTypeOK'
  BY <1>3, <1>4, <1>7, <1>8, <1>9 DEF MergingInv, MergingTypeOK
<1>11. ContainsInv'
  BY <1>3, <1>4, <1>8 DEF ContainsInv
<1>12. AppliedIsMerged'
  <2>1. r.upto <= contains'[r.tree][r.agent]
    BY <1>6, <1>8, <1>9
  <2> QED
    BY <1>7, <1>8, <1>9, <2>1, ReportsStep
<1> QED
  BY <1>4, <1>10, <1>11, <1>12 DEF MergingInv

LEMMA FinishFailsStep ==
  ASSUME MergingInv, FinishFails
  PROVE  MergingInv'
<1>1. /\ Target \in Agents /\ orders # <<>> /\ orders' = Tail(orders)
      /\ Head(orders).kind = "finish"
  BY TargetOf DEF FinishFails
<1>2. /\ News("finished", Target) \in NewsItems /\ News("finished", Target).kind = "finished"
      /\ Telling(News("finished", Target))
  BY <1>1, NewsMade DEF FinishFails, Telling, Tells
<1>3. /\ UNCHANGED <<projectRoot, trees, made, committed, contains, merging, popup, applied>>
      /\ trees \subseteq Trees /\ merging \in [Trees -> Merges]
  BY DEF FinishFails, git, MergingInv, MergingTypeOK
<1> QED
  BY <1>1, <1>2, <1>3, LookingStep DEF ResolverOrders

LEMMA MovesStep ==
  ASSUME MergingInv, CreateWorktree \/ SwitchWorktree \/ RemoveWorktree
  PROVE  MergingInv'
<1>1. PICK kind \in MoveOrders : Takes(kind)
  BY DEF CreateWorktree, SwitchWorktree, RemoveWorktree, MoveOrders
<1>2. /\ Target \in Trees /\ orders # <<>> /\ orders' = Tail(orders)
      /\ Head(orders).kind \in MoveOrders
  BY <1>1, TargetOf
<1>3. projectRoot' \in Trees /\ trees' \subseteq Trees
  BY <1>2, MergingNames
  DEF CreateWorktree, SwitchWorktree, RemoveWorktree, MergingInv, MergingTypeOK, Main
<1>4. UNCHANGED <<git, news, popup, applied>>
  BY DEF CreateWorktree, SwitchWorktree, RemoveWorktree
<1> QED
  BY <1>2, <1>3, <1>4, MovingStep

\* A subagent works: its branch only grows.
LEMMA WorksStep ==
  ASSUME MergingInv, NEW a \in Agents, Edit(a) \/ CommitWork(a)
  PROVE  MergingInv'
<1>1. /\ UNCHANGED <<projectRoot, trees, contains, merging, orders, news, popup, applied>>
      /\ made' \in [Agents -> Nat] /\ committed' \in [Agents -> Nat]
      /\ \A b \in Agents : committed[b] <= committed'[b]
  <2>1. made \in [Agents -> Nat] /\ committed \in [Agents -> Nat]
    BY DEF MergingInv, MergingTypeOK
  <2>2. CASE Edit(a)
    BY <2>1, <2>2 DEF Edit
  <2>3. CASE CommitWork(a)
    BY <2>1, <2>3 DEF CommitWork
  <2> QED
    BY <2>2, <2>3
<1>2. MergingTypeOK' /\ QueueInv' /\ PopupInv' /\ AppliedIsMerged'
  BY <1>1 DEF MergingInv, MergingTypeOK, QueueInv, PopupInv, AppliedIsMerged
<1>3. MergeInv'
  BY <1>1 DEF MergingInv, MergeInv, Here
<1>4. ContainsInv'
  <2>1. \A t \in Trees, b \in Agents :
          contains[t][b] \in Nat /\ committed[b] \in Nat /\ committed'[b] \in Nat
    BY <1>1 DEF MergingInv, MergingTypeOK
  <2>2. \A t \in Trees : merging[t] # NoMerge => merging[t].agent \in Agents /\ merging[t].upto \in Nat
    BY DEF MergingInv, MergingTypeOK, MergeInv, Merges
  <2> QED
    BY <1>1, <2>1, <2>2 DEF MergingInv, ContainsInv
<1> QED
  BY <1>2, <1>3, <1>4 DEF MergingInv

LEMMA MergingStep ==
  ASSUME MergingInv, ~MovesMidMerge, [MergingNext]_mergingVars
  PROVE  MergingInv'
<1>1. CASE UNCHANGED mergingVars
  BY <1>1 DEF mergingVars, MergingInv, MergingTypeOK, QueueInv, PopupInv, MergeInv, ContainsInv,
              AppliedIsMerged, Here
<1> QED
  BY <1>1, WorksStep, TypeStep, ReceiveStep, DiffStep, MergeAppliesStep, MergeConflictsStep,
     ErrsStep, ResolveStep, FinishMergeStep, FinishFailsStep, MovesStep DEF MergingNext

LEMMA MergingInitial == MergingInit => MergingInv
<1> SUFFICES ASSUME MergingInit PROVE MergingInv
  OBVIOUS
<1>1. /\ orders = <<>> /\ news = <<>> /\ popup = NoPopup /\ applied = {}
      /\ merging = [t \in Trees |-> NoMerge] /\ projectRoot = StartTree
      /\ committed = [a \in Agents |-> 0] /\ made = committed
      /\ contains = [t \in Trees |-> committed] /\ trees = {Main, StartTree} \cup Agents
  BY DEF MergingInit
<1>2. MergingTypeOK
  BY <1>1, MergingNames DEF MergingTypeOK, Main
<1>3. \A K : ~Has(<<>>, K)
  BY DEF Has
<1>4. QueueInv /\ PopupInv
  BY <1>1, <1>3, NoneBefore DEF QueueInv, PopupInv
<1>5. MergeInv
  BY <1>1, <1>3, NoneBefore, MergingNames DEF MergeInv, Here
<1>6. ContainsInv /\ AppliedIsMerged
  BY <1>1 DEF ContainsInv, AppliedIsMerged
<1> QED
  BY <1>2, <1>4, <1>5, <1>6 DEF MergingInv

-----------------------------------------------------------------------------
(* Theorems *)

\* PreparedIsSafe: after every crash and after any one rename that fails there is an
\* executable to start, and what is installed was verified (updater lib.rs), while no
\* second Gocode prepares in the same directory.
THEOREM PreparedIsSafe ==
  ASSUME MaxRenameFaults <= 1, ~OtherProcess
  PROVE  UpdaterSpec => [](Recoverable /\ Verified)
<1>1. UpdaterInit => UpdaterInv
  BY UpdaterInitial
<1>2. UpdaterInv /\ [UpdaterNext]_updaterVars => UpdaterInv'
  BY UpdaterStep
<1>3. UpdaterInv => Recoverable /\ Verified
  BY DEF UpdaterInv, PreparedInv, ReplaceInv, Verified
<1> QED
  BY <1>1, <1>2, <1>3, PTL DEF UpdaterSpec

\* SavedIsKept: a save leaves the old file or the new one whenever the process is
\* killed, and the model on disk is the one chosen last (core lib.rs), for one process
\* whose project names no model and whose provider lists the one it remembers.
THEOREM SavedIsKept ==
  ASSUME \A p, q \in Programs : p = q, ~Layered, ~Unlisted
  PROVE  SettingsSpec => []SettingsSafe
<1>1. SettingsInit => SettingsInv
  BY SettingsInitial
<1>2. SettingsInv /\ [SettingsNext]_settingsVars => SettingsInv'
  BY SettingsStep
<1>3. SettingsInv => SettingsSafe
  BY DEF SettingsInv, SettingsTypeOK, SavingSteps, ChosenInv, ConfigSave, SettingsSafe, ModelKept
<1> QED
  BY <1>1, <1>2, <1>3, PTL DEF SettingsSpec

\* OneServerInOrder: one process serves a language whoever asks first (lsp manager.rs),
\* and no two changes of a document carry one version, while no two notifications
\* find the document untracked at once (lsp client.rs).
THEOREM OneServerInOrder ==
  ASSUME ~OpensTwice
  PROVE  LspSpec => []LspSafe
<1>1. LspInit => LspInv
  BY LspInitial
<1>2. LspInv /\ [LspNext]_lspVars => LspInv'
  BY LspStep
<1> QED
  BY <1>1, <1>2, OneServer, PTL DEF LspSpec

\* AppliedHolds: whatever was reported as applied was merged into the worktree it was
\* said of (main.rs), while no worktree command comes between an apply and the end of
\* its merge.
THEOREM AppliedHolds ==
  ASSUME ~MovesMidMerge
  PROVE  MergingSpec => []AppliedIsMerged
<1>1. MergingInit => MergingInv
  BY MergingInitial
<1>2. MergingInv /\ [MergingNext]_mergingVars => MergingInv'
  BY MergingStep
<1>3. MergingInv => AppliedIsMerged
  BY DEF MergingInv
<1> QED
  BY <1>1, <1>2, <1>3, PTL DEF MergingSpec

\* A behaviour of the parts is a behaviour of each of them.
LEMMA PartsAreTheirs ==
  PartsSpec => /\ UpdaterSpec /\ SettingsSpec
               /\ InterfaceSpec /\ ComposerSpec /\ ChannelsSpec /\ DebugSpec
               /\ StreamSpec /\ OutputBufferSpec /\ PatchSpec
<1> DEFINE vars == <<part, interfaceVars, composerVars, updaterVars, promptsVars, mergingVars,
                     lspVars, streamVars, outputBufferVars, settingsVars, patchVars,
                     channelsVars, debugVars>>
<1>1. PartsInit => /\ UpdaterInit /\ SettingsInit
                   /\ InterfaceInit /\ ComposerInit /\ ChannelsInit /\ DebugInit
                   /\ StreamInit /\ OutputBufferInit /\ PatchInit
  BY DEF PartsInit
<1>2. [PartsNext]_vars => /\ [UpdaterNext]_updaterVars /\ [SettingsNext]_settingsVars
                          /\ [InterfaceNext]_interfaceVars /\ [ComposerNext]_composerVars
                          /\ [ChannelsNext]_channelsVars /\ [DebugNext]_debugVars
                          /\ [StreamNext]_streamVars /\ [OutputBufferNext]_outputBufferVars
                          /\ [PatchNext]_patchVars
  BY DEF PartsNext
<1>3. PartsSpec <=> PartsInit /\ [][PartsNext]_vars
  BY DEF PartsSpec
<1> HIDE DEF vars
<1> QED
  BY <1>1, <1>2, <1>3, PTL
     DEF UpdaterSpec, SettingsSpec, InterfaceSpec, ComposerSpec, ChannelsSpec, DebugSpec,
         StreamSpec, OutputBufferSpec, PatchSpec

\* FilesAreSafe: both at once, as the parts are checked together: what is replaced on
\* disk stays whole (updater lib.rs, core lib.rs).
THEOREM FilesAreSafe ==
  ASSUME MaxRenameFaults <= 1, ~OtherProcess,
         \A p, q \in Programs : p = q, ~Layered, ~Unlisted
  PROVE  PartsSpec => []FilesSafe
<1>1. UpdaterSpec => [](Recoverable /\ Verified)
  BY PreparedIsSafe
<1>2. SettingsSpec => []SettingsSafe
  BY SavedIsKept
<1>3. Recoverable /\ Verified /\ SettingsSafe => FilesSafe
  BY DEF FilesSafe
<1> QED
  BY <1>1, <1>2, <1>3, PartsAreTheirs, PTL

\* TerminalAlwaysSafe: the parts of the terminal at once, as they are checked together:
\* while no investigation asks its questions, no events come but the answers to
\* commands and /clear is not used,
\* Esc leads out of whatever is open, an answer names a choice there is, the prompt
\* shows the entry browsed to, neither side waits for the other's channel, and the
\* question on the screen is the session's (tui lib.rs 4280-4640, 5400-5862, 6680-6900;
\* main.rs 1515-1641, 1969-2116).
THEOREM TerminalAlwaysSafe ==
  ASSUME ~Questions, ~Background, ~Clears
  PROVE  PartsSpec => []TerminalSafe
<1>1. InterfaceSpec => [](EscapeFrees /\ ChoiceInRange)
  BY EscapeAlwaysFrees
<1>2. ComposerSpec => []BrowsedShown
  BY PromptBrowses
<1>3. ChannelsSpec => []Unstuck
  BY NeverStuck
<1>4. DebugSpec => []InvestigationShown
  BY InvestigationFollowed
<1>5. EscapeFrees /\ ChoiceInRange /\ BrowsedShown /\ Unstuck /\ InvestigationShown
        => TerminalSafe
  BY DEF TerminalSafe
<1> QED
  BY <1>1, <1>2, <1>3, <1>4, <1>5, PartsAreTheirs, PTL

\* TextAlwaysFaithful: what is passed on, as the parts are checked together: a stream of
\* one-byte characters that is not cut off gives the agent its fragments whole and
\* in order, a command's output of one-byte characters keeps its two ends, and a patch
\* leaves every hunk where it belongs (provider lib.rs 124-160, toolcalls.rs,
\* process.rs 356-420, patch.rs).
THEOREM TextAlwaysFaithful ==
  ASSUME ~Wide, ~Cut, MaxWidth = 1
  PROVE  PartsSpec => []TextFaithful
<1>1. StreamSpec => []StreamFaithful
  BY StreamIsFaithful
<1>2. OutputBufferSpec => [](EndsKept /\ EndsFull)
  BY OutputEndsKept
<1>3. PatchSpec => []PatchPlaced
  BY HunksArePlaced
<1>4. StreamFaithful /\ EndsKept /\ EndsFull /\ PatchPlaced => TextFaithful
  BY DEF TextFaithful
<1> QED
  BY <1>1, <1>2, <1>3, <1>4, PartsAreTheirs, PTL
=============================================================================
