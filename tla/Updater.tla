------------------------------ MODULE Updater ------------------------------
(***************************************************************************)
(* Self-update: the command loop prepares a release in the cache           *)
(* directory, the interface leaves the terminal, and the installed         *)
(* executable is replaced, in place on Linux and by a helper process that  *)
(* retries on Windows.  Every rename is a step of its own: it may fail,    *)
(* and the process may die before or after it.                             *)
(***************************************************************************)
EXTENDS Naturals

CONSTANTS
  Windows,          \* cfg!(windows)
  MaxTries,         \* attempts of the helper: 100 in the code
  MaxRenameFaults,  \* renames that fail for no reason of the program's
  MaxLaunches,      \* times Gocode is started
  OtherProcess      \* TRUE: a second Gocode may prepare the same directory

ASSUME UpdaterAssumption ==
  /\ Windows \in BOOLEAN /\ OtherProcess \in BOOLEAN
  /\ MaxTries \in Nat \ {0} /\ MaxRenameFaults \in Nat /\ MaxLaunches \in Nat \ {0}

VARIABLES
  app,        \* the Gocode process
  prepared,   \* how far AcceptUpdate got; "staged" is staged_update = Some
  files,      \* what each path of the update holds
  swap,       \* the step of replace_with_rollback that comes next
  tries, renameFaults, launches

updaterVars == <<app, prepared, files, swap, tries, renameFaults, launches>>

Content == {"none", "old", "new", "bad"}
Staging == {"partial", "archive", "unpacked"}
Paths == Staging \cup {"installed", "backup"}

Wiped == [p \in Paths |-> IF p \in Staging THEN "none" ELSE files[p]]

-----------------------------------------------------------------------------
(* Which release *)

\* The newest release above the current version, if it carries both assets: an
\* older one that does is not offered in its place.
AvailableUpdate(current, releases) ==
  LET newer == {r \in releases : r.version > current}
      newest == {r \in newer : \A other \in newer : other.version <= r.version}
  IN  {r \in newest : r.archive /\ r.checksums}

-----------------------------------------------------------------------------
(* Preparing *)

Preparing(from) == app = "running" /\ prepared = from

PrepareFails ==
  /\ app = "running" /\ prepared \in {"wiped", "downloaded", "verified"}
  /\ prepared' = "failed"
  /\ files' = [files EXCEPT !.partial = "none"]
  /\ UNCHANGED <<app, swap, tries, renameFaults, launches>>

Releases == [version : {1, 2}, archive : BOOLEAN, checksums : BOOLEAN]

\* The releases are asked for again; the one prepared need not be the one shown.
AcceptUpdate ==
  /\ Preparing("idle")
  /\ \E releases \in SUBSET Releases :
       AvailableUpdate(IF files.installed = "old" THEN 1 ELSE 2, releases) # {}
  /\ prepared' = "wiped"
  /\ files' = Wiped
  /\ UNCHANGED <<app, swap, tries, renameFaults, launches>>

DownloadChunk ==
  /\ Preparing("wiped") /\ files.partial = "none"
  /\ \E c \in {"new", "bad"} : files' = [files EXCEPT !.partial = c]
  /\ UNCHANGED <<app, prepared, swap, tries, renameFaults, launches>>

DownloadEnds ==
  /\ Preparing("wiped") /\ files.partial # "none"
  /\ files' = [files EXCEPT !.archive = files.partial, !.partial = "none"]
  /\ prepared' = "downloaded"
  /\ UNCHANGED <<app, swap, tries, renameFaults, launches>>

\* Mutant: the checksum is read and not compared.
VerifyNothing ==
  /\ Preparing("downloaded")
  /\ prepared' = "verified"
  /\ UNCHANGED <<app, files, swap, tries, renameFaults, launches>>

VerifySha256 ==
  /\ Preparing("downloaded") /\ files.archive = "new"
  /\ prepared' = "verified"
  /\ UNCHANGED <<app, files, swap, tries, renameFaults, launches>>

Extract ==
  /\ Preparing("verified") /\ files.archive # "none"
  /\ files' = [files EXCEPT !.unpacked = files.archive]
  /\ prepared' = "staged"
  /\ UNCHANGED <<app, swap, tries, renameFaults, launches>>

\* An extraction that stops half-way leaves what it wrote.
ExtractFails ==
  /\ Preparing("verified")
  /\ files' = [files EXCEPT !.unpacked = "bad"]
  /\ prepared' = "failed"
  /\ UNCHANGED <<app, swap, tries, renameFaults, launches>>

\* Another Gocode wipes the directory and completes a download of its own.
ForeignPrepare ==
  /\ OtherProcess /\ prepared # "idle"
  /\ \E c \in {"none", "new", "bad"} : files' = [Wiped EXCEPT !.archive = c]
  /\ UNCHANGED <<app, prepared, swap, tries, renameFaults, launches>>

-----------------------------------------------------------------------------
(* Leaving, and replacing the executable *)

RestartForUpdate ==
  /\ Preparing("staged")
  /\ prepared' = "taken"
  /\ app' = "leaving"
  /\ UNCHANGED <<files, swap, tries, renameFaults, launches>>

\* The terminal is restored and both tasks have returned. A missing helper is
\* an error on the way out.
InstallAndRestart ==
  /\ app = "leaving" /\ swap = "none"
  /\ \/ swap' = "check" /\ UNCHANGED app
     \/ Windows /\ app' = "gone" /\ UNCHANGED swap
  /\ UNCHANGED <<prepared, files, tries, renameFaults, launches>>

UserExits ==
  /\ app = "running" \/ (app = "leaving" /\ Windows /\ swap # "none")
  /\ app' = "gone"
  /\ UNCHANGED <<prepared, files, swap, tries, renameFaults, launches>>

Locked == Windows /\ app # "gone"

RenameFails ==
  /\ renameFaults < MaxRenameFaults
  /\ renameFaults' = renameFaults + 1

\* The helper starts over; on Linux the error is the last thing printed.
Attempt(failed) ==
  IF failed /\ Windows /\ tries + 1 < MaxTries
  THEN swap' = "check" /\ tries' = tries + 1 /\ UNCHANGED app
  ELSE /\ swap' = "over" /\ UNCHANGED tries
       /\ app' = "gone"

RemoveBackup ==
  /\ swap = "check"
  /\ IF files.unpacked = "none" THEN Attempt(TRUE) /\ UNCHANGED files
     ELSE /\ files' = [files EXCEPT !.backup = "none"]
          /\ swap' = "aside" /\ UNCHANGED <<tries, app>>
  /\ UNCHANGED <<prepared, renameFaults, launches>>

SetAside ==
  /\ swap = "aside"
  /\ \/ /\ ~Locked /\ files.installed # "none"
        /\ files' = [files EXCEPT !.backup = files.installed, !.installed = "none"]
        /\ swap' = "put"
        /\ UNCHANGED <<tries, app, renameFaults>>
     \/ /\ \/ (Locked \/ files.installed = "none") /\ UNCHANGED renameFaults
           \/ RenameFails
        /\ Attempt(TRUE) /\ UNCHANGED files
  /\ UNCHANGED <<prepared, launches>>

PutNew ==
  /\ swap = "put"
  /\ \/ /\ files.unpacked # "none"
        /\ files' = [files EXCEPT !.installed = files.unpacked, !.unpacked = "none"]
        /\ swap' = "clean"
        /\ UNCHANGED renameFaults
     \/ /\ (files.unpacked = "none" /\ UNCHANGED renameFaults) \/ RenameFails
        /\ swap' = "back"
        /\ UNCHANGED files
  /\ UNCHANGED <<app, prepared, tries, launches>>

\* Mutant: a failed second rename leaves the backup where it is.
NoPutBack ==
  /\ swap = "back" /\ Attempt(TRUE)
  /\ UNCHANGED <<files, prepared, renameFaults, launches>>

PutBack ==
  /\ swap = "back"
  /\ Attempt(TRUE)
  /\ \/ files' = [files EXCEPT !.installed = files.backup, !.backup = "none"]
        /\ UNCHANGED renameFaults
     \/ RenameFails /\ UNCHANGED files
  /\ UNCHANGED <<prepared, launches>>

CleanBackup ==
  /\ swap = "clean"
  /\ files' = [files EXCEPT !.backup = "none"]
  /\ Attempt(FALSE)
  /\ UNCHANGED <<prepared, tries, renameFaults, launches>>

\* The machine or the process is stopped between any two steps.
UpdaterCrash ==
  /\ app # "gone" \/ swap \notin {"none", "over"}
  /\ app' = "gone" /\ swap' = "over"
  /\ UNCHANGED <<prepared, files, tries, renameFaults, launches>>

Launch ==
  /\ app = "gone" /\ swap \in {"none", "over"}
  /\ files.installed # "none" /\ launches < MaxLaunches
  /\ app' = "running" /\ prepared' = "idle" /\ swap' = "none" /\ tries' = 0
  /\ launches' = launches + 1
  /\ UNCHANGED <<files, renameFaults>>

-----------------------------------------------------------------------------
UpdaterInit ==
  /\ app = "running" /\ prepared = "idle" /\ swap = "none"
  /\ files = [p \in Paths |-> IF p = "installed" THEN "old" ELSE "none"]
  /\ tries = 0 /\ renameFaults = 0 /\ launches = 1

UpdaterNext ==
  \/ AcceptUpdate \/ DownloadChunk \/ DownloadEnds \/ VerifySha256 \/ Extract
  \/ PrepareFails \/ ExtractFails \/ ForeignPrepare
  \/ RestartForUpdate \/ InstallAndRestart \/ UserExits
  \/ RemoveBackup \/ SetAside \/ PutNew \/ PutBack \/ CleanBackup
  \/ UpdaterCrash \/ Launch

UpdaterSpec == UpdaterInit /\ [][UpdaterNext]_updaterVars

-----------------------------------------------------------------------------
\* Recoverable: whatever dies and whichever one rename fails, a working
\* executable is left, under its own name or as its backup.
Recoverable ==
  \E p \in {"installed", "backup"} : files[p] \in {"old", "new"}

\* Verified: what runs next is the release before or one whose archive matched
\* its checksum, also after failed and abandoned preparations.
Verified == files.installed # "bad"

=============================================================================
