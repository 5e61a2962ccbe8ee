------------------------------ MODULE MCParts ------------------------------
(***************************************************************************)
(* The components that run beside the conversation, each checked on its    *)
(* own in one run: part names the one that takes every step of a behaviour *)
(* and the others stay as they are.                                        *)
(***************************************************************************)
EXTENDS Interface, Composer, Updater, Prompts, Merging, Lsp, Stream,
        OutputBuffer, Settings, Patch, Channels, Debug

VARIABLE part

Parts == {"interface", "composer", "updater", "prompts", "merging", "lsp", "stream",
          "outputBuffer", "settings", "patch", "channels", "debug"}

PartsInit ==
  /\ part \in Parts
  /\ InterfaceInit
  /\ ComposerInit
  /\ UpdaterInit
  /\ PromptsInit
  /\ MergingInit
  /\ LspInit
  /\ StreamInit
  /\ OutputBufferInit
  /\ SettingsInit
  /\ PatchInit
  /\ ChannelsInit
  /\ DebugInit
  \* A part that never steps needs one initial state only.
  /\ part # "patch" => root = [p \in PatchPaths |-> Nonexistent]
  /\ part # "lsp" => servers.installed
  /\ part # "channels" => owed = 0

PartsNext ==
  /\ \/ part = "interface" /\ InterfaceNext
     \/ part # "interface" /\ UNCHANGED interfaceVars
  /\ \/ part = "composer" /\ ComposerNext
     \/ part # "composer" /\ UNCHANGED composerVars
  /\ \/ part = "updater" /\ UpdaterNext
     \/ part # "updater" /\ UNCHANGED updaterVars
  /\ \/ part = "prompts" /\ PromptsNext
     \/ part # "prompts" /\ UNCHANGED promptsVars
  /\ \/ part = "merging" /\ MergingNext
     \/ part # "merging" /\ UNCHANGED mergingVars
  /\ \/ part = "lsp" /\ LspNext
     \/ part # "lsp" /\ UNCHANGED lspVars
  /\ \/ part = "stream" /\ StreamNext
     \/ part # "stream" /\ UNCHANGED streamVars
  /\ \/ part = "outputBuffer" /\ OutputBufferNext
     \/ part # "outputBuffer" /\ UNCHANGED outputBufferVars
  /\ \/ part = "settings" /\ SettingsNext
     \/ part # "settings" /\ UNCHANGED settingsVars
  /\ \/ part = "patch" /\ PatchNext
     \/ part # "patch" /\ UNCHANGED patchVars
  /\ \/ part = "channels" /\ ChannelsNext
     \/ part # "channels" /\ UNCHANGED channelsVars
  /\ \/ part = "debug" /\ DebugNext
     \/ part # "debug" /\ UNCHANGED debugVars
  /\ UNCHANGED part

PartsSpec == PartsInit /\ [][PartsNext]_<<part, interfaceVars, composerVars, updaterVars,
  promptsVars, mergingVars, lspVars, streamVars, outputBufferVars, settingsVars,
  patchVars, channelsVars, debugVars>>

-----------------------------------------------------------------------------
(* Properties *)

\* TerminalSafe: the terminal can be used: Esc leads out of whatever is open, an
\* answer names a choice on the screen, the prompt shows the entry browsed to, the
\* terminal and the command loop never wait for each other's channel, and an
\* investigation is asked about as its session has it
\* (tui lib.rs 4280-4640, 5400-5560, 6680-6900; main.rs 1515-1641, 1969-2116).
TerminalSafe ==
  EscapeFrees /\ ChoiceInRange /\ BrowsedShown /\ Unstuck /\ InvestigationShown

\* TextFaithful: what is passed on arrives as it was: the provider's fragments whole
\* and in order however the bytes are cut, the two ends of an output that is too long,
\* and a patch's hunks where they belong (provider lib.rs 124-160, toolcalls.rs,
\* process.rs 356-420, patch.rs).
TextFaithful == StreamFaithful /\ EndsKept /\ EndsFull /\ PatchPlaced

\* FilesSafe: what is replaced on disk stays whole: an executable to start after
\* every crash and failed rename, none unverified, no torn or forgotten settings
\* (updater lib.rs, core lib.rs 1560-1680).
FilesSafe == Recoverable /\ Verified /\ SettingsSafe

=============================================================================
