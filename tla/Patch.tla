------------------------------- MODULE Patch -------------------------------
(***************************************************************************)
(* apply_patch: the sections of a patch are applied in order, each to its  *)
(* file on disk; the hunks of an update are found one after the other in   *)
(* the file's lines, exactly or else up to trailing blanks, and a place    *)
(* that is not unique is refused.                                          *)
(*                                                                         *)
(* A line is a text; the texts the parser produces are drawn from Texts,   *)
(* Trimmed drops a trailing blank.  Line endings, the byte order mark and  *)
(* the tokens of the patch format are left out.                            *)
(***************************************************************************)
EXTENDS Naturals, Sequences, FiniteSets, SequencesExt

CONSTANTS
  MaxFileLines,       \* lines of the first file
  MaxHunks,       \* hunks of the whole patch
  MaxSections     \* sections of the patch

ASSUME PatchAssumption == MaxFileLines \in Nat /\ MaxHunks \in Nat /\ MaxSections \in Nat

VARIABLES
  root,           \* [PatchPaths -> lines of the file, or Nonexistent]
  sections,       \* sections applied so far
  hunksLeft,      \* hunks the patch may still hold
  section,        \* the section applied last: [path, before, hunks, after]
  outcome,        \* "running", "ok" or "error"
  wrote,          \* files this patch has written
  reported        \* files its result names

patchVars == <<root, sections, hunksLeft, section, outcome, wrote, reported>>

PatchPaths == {1, 2}
Texts == {"a", "a ", "b"}
Trimmed(t) == IF t = "a " THEN "a" ELSE t
Nonexistent == <<"missing">>
NoSection == [path |-> 0, before |-> <<>>, hunks |-> <<>>, after |-> <<>>]

Lines(S, n) == UNION {[1 .. m -> S] : m \in 0 .. n}
Hunks == [old : (Lines({"a", "b"}, 2) \ {<<>>}) \cup {<<"a ">>}, new : Lines({"a", "b"}, 1)]

-----------------------------------------------------------------------------
(* Finding a hunk *)

Fits(lines, old, at) ==
  /\ at + Len(old) <= Len(lines)
  /\ \A i \in DOMAIN old : lines[at + i] = old[i]

FitsTrimmed(lines, old, at) ==
  /\ at + Len(old) <= Len(lines)
  /\ \A i \in DOMAIN old : Trimmed(lines[at + i]) = Trimmed(old[i])

Exact(lines, old, from) == {at \in from .. Len(lines) : Fits(lines, old, at)}
Fuzzy(lines, old, from) == {at \in from .. Len(lines) : FitsTrimmed(lines, old, at)}

\* The one place it may go to, if there is just one.
Located(lines, old, from) ==
  LET exact == Exact(lines, old, from)
      fuzzy == Fuzzy(lines, old, from)
  IN  IF exact # {} THEN exact ELSE fuzzy

\* Mutant: the first of several places is taken.
FoundAny(lines, old, from) == Located(lines, old, from) # {}

Found(lines, old, from) == Cardinality(Located(lines, old, from)) = 1

Place(lines, old, from) ==
  CHOOSE at \in Located(lines, old, from) :
    \A other \in Located(lines, old, from) : at <= other

Splice(lines, at, hunk) ==
  SubSeq(lines, 1, at) \o hunk.new \o SubSeq(lines, at + Len(hunk.old) + 1, Len(lines))

Begin(lines) == [ok |-> TRUE, lines |-> lines, cursor |-> 0]

\* Mutant: the next hunk may land in the lines this one put in.
ApplyHunkAgain(done, hunk) ==
  IF done.ok /\ Found(done.lines, hunk.old, done.cursor)
  THEN LET at == Place(done.lines, hunk.old, done.cursor)
       IN  [ok |-> TRUE, lines |-> Splice(done.lines, at, hunk), cursor |-> at]
  ELSE [done EXCEPT !.ok = FALSE]

ApplyHunk(done, hunk) ==
  IF done.ok /\ Found(done.lines, hunk.old, done.cursor)
  THEN LET at == Place(done.lines, hunk.old, done.cursor)
       IN  [ok |-> TRUE, lines |-> Splice(done.lines, at, hunk),
            cursor |-> at + Len(hunk.new)]
  ELSE [done EXCEPT !.ok = FALSE]

ApplyHunks(lines, hunks) == FoldLeft(ApplyHunk, Begin(lines), hunks)

-----------------------------------------------------------------------------
(* The sections of a patch *)

Running == outcome = "running" /\ sections < MaxSections

Wrote(path, lines) ==
  /\ root' = [root EXCEPT ![path] = lines]
  /\ sections' = sections + 1
  /\ wrote' = wrote \cup {path}
  /\ UNCHANGED <<outcome, reported>>

\* An error names no file, whatever was written before it.
Fails ==
  /\ outcome' = "error"
  /\ section' = NoSection
  /\ UNCHANGED <<root, sections, hunksLeft, wrote, reported>>

UpdateFile(path, hunks) ==
  /\ Running
  /\ LET result == ApplyHunks(root[path], hunks)
     IN  \/ /\ root[path] # Nonexistent /\ result.ok
            /\ Wrote(path, result.lines)
            /\ hunksLeft' = hunksLeft - Len(hunks)
            /\ section' = [path |-> path, before |-> root[path], hunks |-> hunks,
                           after |-> result.lines]
         \/ (root[path] = Nonexistent \/ ~result.ok) /\ Fails

AddFile(path, content) ==
  /\ Running
  /\ \/ /\ root[path] = Nonexistent
        /\ Wrote(path, content)
        /\ section' = NoSection
        /\ UNCHANGED hunksLeft
     \/ root[path] # Nonexistent /\ Fails

DeleteFile(path) ==
  /\ Running
  /\ \/ /\ root[path] # Nonexistent
        /\ Wrote(path, Nonexistent)
        /\ section' = NoSection
        /\ UNCHANGED hunksLeft
     \/ root[path] = Nonexistent /\ Fails

\* A path outside the workspace, or a file that cannot be read or written.
SectionFails == Running /\ Fails

PatchEnds ==
  /\ outcome = "running" /\ sections > 0
  /\ outcome' = "ok"
  /\ reported' = wrote
  /\ section' = NoSection
  /\ UNCHANGED <<root, sections, hunksLeft, wrote>>

PatchInit ==
  /\ root \in {r \in [PatchPaths -> Lines(Texts, MaxFileLines) \cup {Nonexistent}] :
                 r[2] \in {<<>>, <<"b">>, Nonexistent}}
  /\ sections = 0 /\ hunksLeft = MaxHunks
  /\ section = NoSection /\ outcome = "running" /\ wrote = {} /\ reported = {}

PatchNext ==
  \/ \E path \in PatchPaths, hunks \in Lines(Hunks, hunksLeft) \ {<<>>} : UpdateFile(path, hunks)
  \/ \E path \in PatchPaths, content \in {<<>>, <<"a">>} : AddFile(path, content)
  \/ \E path \in PatchPaths : DeleteFile(path)
  \/ SectionFails
  \/ PatchEnds

PatchSpec == PatchInit /\ [][PatchNext]_patchVars

-----------------------------------------------------------------------------
(* Properties *)

\* Every way to lay the hunks over the lines, in order and without overlap.
Layouts(lines, hunks, fits(_, _, _)) ==
  {at \in [DOMAIN hunks -> 0 .. Len(lines)] :
     \A i \in DOMAIN hunks :
       /\ fits(lines, hunks[i].old, at[i])
       /\ i > 1 => at[i] >= at[i - 1] + Len(hunks[i - 1].old)}

Laid(lines, hunks, at) ==
  LET end(i) == IF i = 0 THEN 0 ELSE at[i] + Len(hunks[i].old)
      piece(i) == SubSeq(lines, end(i - 1) + 1, at[i]) \o hunks[i].new
  IN  FlattenSeq([i \in DOMAIN hunks |-> piece(i)])
        \o SubSeq(lines, end(Len(hunks)) + 1, Len(lines))

\* PatchPlaced: "applying to the wrong one of several identical blocks is exactly the
\* kind of quiet corruption" (patch.rs 299-301): an update replaces the hunks' lines
\* in order at places of the file as it was, never in lines it put in itself; where
\* the hunks fit exactly, they fit in one way only and that is the way taken.
PatchPlaced ==
  LET exact == Layouts(section.before, section.hunks, Fits)
      layouts == Layouts(section.before, section.hunks, FitsTrimmed)
      result(S) == {Laid(section.before, section.hunks, at) : at \in S}
  IN  section.hunks # <<>> =>
        /\ section.after \in result(layouts)
        /\ exact # {} => Cardinality(exact) = 1 /\ section.after \in result(exact)

\* PartialListed: "the result must identify which changes, if any, were applied"
\* (docs/SECURITY.md 311).
PartialListed == outcome # "running" => reported = wrote

=============================================================================
