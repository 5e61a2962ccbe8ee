---------------------------- MODULE TextProofs ----------------------------
(***************************************************************************)
(* What is passed on arrives as it was, for every number of lines, chunks, *)
(* hunks and characters: the lists these theorems are about are followed   *)
(* place by place, and a fact is shown for every place by the least one    *)
(* that would not have it.                                                 *)
(***************************************************************************)
EXTENDS Stream, OutputBuffer, Patch,
        FiniteSetTheorems, SequenceTheorems, WellFoundedInduction, TLAPS

-----------------------------------------------------------------------------
(* Sequences by their length and their elements                            *)

\* The set of sequences, unfolded in these lemmas alone.
ListOf(S) == Seq(S)

LEMMA ListTyped ==
  ASSUME NEW S, NEW s \in ListOf(S)
  PROVE  /\ Len(s) \in Nat /\ DOMAIN s = 1 .. Len(s)
         /\ \A i \in 1 .. Len(s) : s[i] \in S
BY LenProperties, ElementOfSeq DEF ListOf

LEMMA ListEmpty ==
  ASSUME NEW S
  PROVE  <<>> \in ListOf(S) /\ Len(<<>>) = 0 /\ \A s \in ListOf(S) : Len(s) = 0 => s = <<>>
BY EmptySeq, SeqEqual DEF ListOf

LEMMA ListSame ==
  ASSUME NEW S, NEW s \in ListOf(S), NEW t \in ListOf(S), Len(s) = Len(t),
         \A i \in 1 .. Len(s) : s[i] = t[i]
  PROVE  s = t
BY SeqEqual DEF ListOf

LEMMA ListMade ==
  ASSUME NEW S, NEW n \in Nat, NEW f, f \in [1 .. n -> S]
  PROVE  f \in ListOf(S) /\ Len(f) = n
<1>1. f \in Seq(S)
  OBVIOUS
<1>2. 1 .. Len(f) = 1 .. n /\ Len(f) \in Nat
  BY <1>1, LenProperties
<1> QED
  BY <1>1, <1>2 DEF ListOf

LEMMA ListJoined ==
  ASSUME NEW S, NEW s \in ListOf(S), NEW t \in ListOf(S)
  PROVE  /\ s \o t \in ListOf(S) /\ Len(s \o t) = Len(s) + Len(t)
         /\ \A i \in 1 .. Len(s) : (s \o t)[i] = s[i]
         /\ \A i \in 1 .. Len(t) : (s \o t)[Len(s) + i] = t[i]
<1>1. /\ s \o t \in Seq(S) /\ Len(s \o t) = Len(s) + Len(t)
      /\ \A i \in 1 .. Len(s) + Len(t) :
           (s \o t)[i] = IF i <= Len(s) THEN s[i] ELSE t[i - Len(s)]
  BY ConcatProperties DEF ListOf
<1>2. Len(s) \in Nat /\ Len(t) \in Nat
  BY ListTyped
<1>3. \A i \in 1 .. Len(s) : (s \o t)[i] = s[i]
  BY <1>1, <1>2
<1>4. \A i \in 1 .. Len(t) : (s \o t)[Len(s) + i] = t[i]
  BY <1>1, <1>2
<1> QED
  BY <1>1, <1>3, <1>4 DEF ListOf

LEMMA ListOrder ==
  ASSUME NEW S, NEW s \in ListOf(S), NEW t \in ListOf(S), NEW u \in ListOf(S)
  PROVE  s \o (t \o u) = (s \o t) \o u
<1>1. s \in Seq(S) /\ t \in Seq(S) /\ u \in Seq(S)
  BY DEF ListOf
<1> QED
  BY <1>1, ConcatAssociative

LEMMA ListCut ==
  ASSUME NEW S, NEW s \in ListOf(S), NEW k \in Nat, NEW n \in Nat,
         0 < k, k <= n + 1, n <= Len(s)
  PROVE  /\ SubSeq(s, k, n) \in ListOf(S) /\ Len(SubSeq(s, k, n)) = n + 1 - k
         /\ \A i \in 1 .. n + 1 - k : SubSeq(s, k, n)[i] = s[(k - 1) + i]
<1>1. Len(s) \in Nat /\ \A i \in 1 .. Len(s) : s[i] \in S
  BY ListTyped
<1>2. /\ k \in Int /\ n \in Int /\ n - k + 1 = n + 1 - k
      /\ (IF k <= n THEN n - k + 1 ELSE 0) = n + 1 - k
      /\ \A i \in k .. n : i \in 1 .. Len(s)
      /\ \A i \in 1 .. n + 1 - k : k + i - 1 = (k - 1) + i
  BY <1>1
<1>3. /\ SubSeq(s, k, n) \in Seq(S)
      /\ Len(SubSeq(s, k, n)) = IF k <= n THEN n - k + 1 ELSE 0
      /\ \A i \in 1 .. n - k + 1 : SubSeq(s, k, n)[i] = s[k + i - 1]
  BY <1>1, <1>2, SubSeqProperties
<1> QED
  BY <1>2, <1>3 DEF ListOf

LEMMA ListBegin ==
  ASSUME NEW S, NEW s \in ListOf(S), NEW n \in Nat, n <= Len(s)
  PROVE  /\ SubSeq(s, 1, n) \in ListOf(S) /\ Len(SubSeq(s, 1, n)) = n
         /\ \A i \in 1 .. n : SubSeq(s, 1, n)[i] = s[i]
<1>1. /\ SubSeq(s, 1, n) \in ListOf(S) /\ Len(SubSeq(s, 1, n)) = n + 1 - 1
      /\ \A i \in 1 .. n + 1 - 1 : SubSeq(s, 1, n)[i] = s[(1 - 1) + i]
  <2>1. 1 \in Nat /\ 0 < 1 /\ 1 <= n + 1
    OBVIOUS
  <2> QED
    BY <2>1, ListCut
<1>2. n + 1 - 1 = n /\ \A i \in 1 .. n : (1 - 1) + i = i
  OBVIOUS
<1> QED
  BY <1>1, <1>2

LEMMA ListAppended ==
  ASSUME NEW S, NEW s \in ListOf(S), NEW e \in S
  PROVE  /\ Append(s, e) \in ListOf(S) /\ Len(Append(s, e)) = Len(s) + 1
         /\ \A i \in 1 .. Len(s) : Append(s, e)[i] = s[i]
         /\ Append(s, e)[Len(s) + 1] = e
BY AppendProperties DEF ListOf

LEMMA ListTail ==
  ASSUME NEW S, NEW s \in ListOf(S), s # <<>>
  PROVE  /\ Len(s) > 0 /\ Head(s) = s[1] /\ Tail(s) \in ListOf(S) /\ Len(Tail(s)) = Len(s) - 1
         /\ \A i \in 1 .. Len(s) - 1 : Tail(s)[i] = s[i + 1]
<1>1. s \in Seq(S) /\ Len(s) > 0
  BY EmptySeq DEF ListOf
<1>2. Tail(s) \in Seq(S) /\ Len(Tail(s)) = Len(s) - 1
      /\ \A i \in 1 .. Len(Tail(s)) : Tail(s)[i] = s[i + 1]
  BY <1>1, HeadTailProperties
<1> QED
  BY <1>1, <1>2 DEF ListOf

\* The least counterexample: how a fact is shown for every place of a sequence.
LEMMA LeastOf ==
  ASSUME NEW T \in SUBSET Nat, T # {}
  PROVE  \E k \in T : \A m \in T : k <= m
<1>1. PICK k \in T : \A m \in T : ~(<<m, k>> \in OpToRel(<, Nat))
  BY WFMin, NatLessThanWellFounded
<1>2. \A m \in T : ~(m < k)
  BY <1>1 DEF OpToRel
<1> QED
  BY <1>2

-----------------------------------------------------------------------------
(* Patch: the hunks applied to one file, in turn                           *)

\* g is the function FoldLeft goes by, on the sets of the first n places.
IsHunkFold(g, n, lines, hunks) ==
  g = [t \in SUBSET (1 .. n) |->
         IF t = {} THEN Begin(lines)
         ELSE LET x == CHOOSE x \in t : \A y \in t : x >= y
              IN  ApplyHunk(g[t \ {x}], hunks[x])]

LEMMA HunkFoldStep ==
  ASSUME NEW n \in Nat, NEW lines, NEW hunks, NEW g, IsHunkFold(g, n, lines, hunks)
  PROVE  \E h : IsHunkFold(h, n + 1, lines, hunks)
<1> DEFINE top(t) == CHOOSE x \in t : \A y \in t : x >= y
           h == [t \in SUBSET (1 .. n + 1) |->
                   IF n + 1 \in t THEN ApplyHunk(g[t \ {n + 1}], hunks[n + 1]) ELSE g[t]]
           value(f, t) == IF t = {} THEN Begin(lines)
                          ELSE ApplyHunk(f[t \ {top(t)}], hunks[top(t)])
<1>1. g = [t \in SUBSET (1 .. n) |-> value(g, t)]
  BY DEF IsHunkFold
<1>2. ASSUME NEW t \in SUBSET (1 .. n + 1)
      PROVE  h[t] = value(h, t)
  <2>1. CASE n + 1 \in t
    <3>1. top(t) = n + 1
      <4>1. \A y \in t : n + 1 >= y
        OBVIOUS
      <4>2. \A x \in t : (\A y \in t : x >= y) => x = n + 1
        BY <2>1
      <4> QED
        BY <2>1, <4>1, <4>2
    <3> HIDE DEF top
    <3>2. t \ {n + 1} \in SUBSET (1 .. n + 1) /\ n + 1 \notin t \ {n + 1}
      OBVIOUS
    <3>3. h[t \ {n + 1}] = g[t \ {n + 1}]
      BY <3>2
    <3>4. h[t] = ApplyHunk(g[t \ {n + 1}], hunks[n + 1])
      BY <2>1
    <3> QED
      BY <2>1, <3>1, <3>3, <3>4
  <2>2. CASE n + 1 \notin t
    <3> DEFINE r == t \ {top(t)}
    <3> HIDE DEF top
    <3>0. t \in SUBSET (1 .. n)
      BY <2>2
    <3>1. r \in SUBSET (1 .. n + 1) /\ n + 1 \notin r
      BY <2>2
    <3>2. h[t] = g[t] /\ h[r] = g[r]
      BY <2>2, <3>1
    <3>3. g[t] = value(g, t)
      BY <1>1, <3>0
    <3> QED
      BY <3>2, <3>3
  <2> QED
    BY <2>1, <2>2
<1>3. h = [t \in SUBSET (1 .. n + 1) |-> h[t]]
  OBVIOUS
<1>4. h = [t \in SUBSET (1 .. n + 1) |-> value(h, t)]
  <2> HIDE DEF h, value
  <2> QED
    BY <1>2, <1>3
<1>5. IsHunkFold(h, n + 1, lines, hunks)
  BY <1>4 DEF IsHunkFold
<1> QED
  BY <1>5

LEMMA HunkFoldIs ==
  ASSUME NEW n \in Nat, NEW lines, NEW hunks
  PROVE  \E g : IsHunkFold(g, n, lines, hunks)
<1> DEFINE T == {k \in Nat : ~(\E g : IsHunkFold(g, k, lines, hunks))}
<1> SUFFICES ASSUME T # {} PROVE FALSE
  OBVIOUS
<1>1. PICK k \in T : \A m \in T : k <= m
  BY LeastOf
<1>2. k # 0
  <2> DEFINE g == [t \in SUBSET (1 .. 0) |-> Begin(lines)]
  <2>1. \A t \in SUBSET (1 .. 0) : t = {}
    OBVIOUS
  <2>2. IsHunkFold(g, 0, lines, hunks)
    BY <2>1 DEF IsHunkFold
  <2> QED
    BY <2>2
<1>3. k - 1 \in Nat /\ k - 1 \notin T
  BY <1>1, <1>2
<1> QED
  BY <1>1, <1>3, HunkFoldStep

\* The hunks are applied one after the other: d[k] is what the first k come to.
LEMMA HunksApplied ==
  ASSUME NEW n \in Nat, NEW lines, NEW hunks, DOMAIN hunks = 1 .. n
  PROVE  \E d : /\ ApplyHunks(lines, hunks) = d[n]
                /\ d[0] = Begin(lines)
                /\ \A k \in 1 .. n : d[k] = ApplyHunk(d[k - 1], hunks[k])
<1> DEFINE g == CHOOSE g : IsHunkFold(g, n, lines, hunks)
           d == [k \in 0 .. n |-> g[1 .. k]]
<1>1. IsHunkFold(g, n, lines, hunks)
  BY HunkFoldIs
<1>2. ApplyHunks(lines, hunks) = g[1 .. n]
  BY DEF ApplyHunks, FoldLeft, MapThenFoldSet, Max, IsHunkFold
<1> HIDE DEF g
<1>3. g[{}] = Begin(lines)
  BY <1>1 DEF IsHunkFold
<1>4. ASSUME NEW k \in 1 .. n
      PROVE  g[1 .. k] = ApplyHunk(g[1 .. k - 1], hunks[k])
  <2>1. (CHOOSE x \in 1 .. k : \A y \in 1 .. k : x >= y) = k
    OBVIOUS
  <2>2. (1 .. k) \ {k} = 1 .. k - 1 /\ 1 .. k # {} /\ 1 .. k \in SUBSET (1 .. n)
    OBVIOUS
  <2> QED
    BY <1>1, <2>1, <2>2 DEF IsHunkFold
<1>5. d[0] = Begin(lines) /\ d[n] = g[1 .. n] /\ 1 .. 0 = {}
  BY <1>3
<1>6. \A k \in 1 .. n : d[k] = ApplyHunk(d[k - 1], hunks[k])
  BY <1>4
<1> QED
  BY <1>2, <1>5, <1>6


-----------------------------------------------------------------------------
(* One hunk                                                                *)

TextLines == ListOf(Texts)

Applications == [ok : BOOLEAN, lines : TextLines, cursor : Nat]

\* The lines of the file behind which nothing was touched yet.
Reached(file, done) == Len(file) - (Len(done.lines) - done.cursor)

\* What follows the cursor is what the file ends with.
Aligned(file, done) ==
  /\ done \in Applications
  /\ done.cursor <= Len(done.lines) /\ Reached(file, done) \in 0 .. Len(file)
  /\ \A i \in 1 .. Len(file) - Reached(file, done) :
       done.lines[done.cursor + i] = file[Reached(file, done) + i]

LEMMA HunkTyped ==
  ASSUME NEW hunk \in Hunks
  PROVE  /\ hunk.old \in TextLines /\ Len(hunk.old) \in Nat /\ DOMAIN hunk.old = 1 .. Len(hunk.old)
         /\ hunk.new \in TextLines /\ Len(hunk.new) \in Nat
<1>1. ASSUME NEW S \in SUBSET Texts, NEW n \in Nat, NEW s \in Lines(S, n)
      PROVE  s \in TextLines
  <2>1. PICK m \in 0 .. n : s \in [1 .. m -> S]
    BY DEF Lines
  <2>2. s \in [1 .. m -> Texts] /\ m \in Nat
    BY <2>1
  <2> QED
    BY <2>2, ListMade DEF TextLines
<1>2. {"a", "b"} \in SUBSET Texts /\ "a " \in Texts
  BY DEF Texts
<1>3. <<"a ">> \in TextLines
  <2>1. \A t \in Texts : <<t>> \in Seq(Texts)
    OBVIOUS
  <2> QED
    BY <1>2, <2>1 DEF TextLines, ListOf
<1>4. hunk.old \in TextLines /\ hunk.new \in TextLines
  BY <1>1, <1>2, <1>3 DEF Hunks
<1> QED
  BY <1>4, ListTyped DEF TextLines

\* A place behind the cursor is one of the file, and what fits here fits there.
LEMMA SameFit ==
  ASSUME NEW file \in TextLines, NEW done, Aligned(file, done), NEW hunk \in Hunks,
         NEW at \in done.cursor .. Len(done.lines), NEW place,
         place = at - done.cursor + Reached(file, done)
  PROVE  /\ place \in Reached(file, done) .. Len(file)
         /\ Fits(done.lines, hunk.old, at) <=> Fits(file, hunk.old, place)
         /\ FitsTrimmed(done.lines, hunk.old, at) <=> FitsTrimmed(file, hunk.old, place)
<1>0. PICK all, now, c, r, old \in Nat :
        /\ all = Len(file) /\ now = Len(done.lines) /\ c = done.cursor /\ old = Len(hunk.old)
        /\ r = Reached(file, done)
  <2>1. file \in ListOf(Texts) /\ done.lines \in ListOf(Texts) /\ done.cursor \in Nat
    BY DEF Aligned, Applications, TextLines
  <2>2. Len(file) \in Nat /\ Len(done.lines) \in Nat
    BY <2>1, ListTyped
  <2>3. Reached(file, done) \in Nat
    BY <2>2 DEF Aligned
  <2>4. Len(hunk.old) \in Nat
    BY HunkTyped
  <2> QED
    BY <2>1, <2>2, <2>3, <2>4
<1>1. r = all - (now - c) /\ r <= all /\ at \in c .. now /\ place = at - c + r
  BY <1>0 DEF Aligned, Reached
<1>2. /\ at \in Nat /\ place \in r .. all
      /\ at + old <= now <=> place + old <= all
  BY <1>1
<1>3. DOMAIN hunk.old = 1 .. old
  BY <1>0, HunkTyped
<1>4. ASSUME NEW i \in 1 .. old, at + old <= now
      PROVE  done.lines[at + i] = file[place + i]
  <2>1. \A j \in 1 .. all - r : done.lines[c + j] = file[r + j]
    BY <1>0 DEF Aligned
  <2>2. /\ at - c + i \in 1 .. all - r
        /\ c + (at - c + i) = at + i /\ r + (at - c + i) = place + i
    BY <1>1, <1>4
  <2>3. done.lines[c + (at - c + i)] = file[r + (at - c + i)]
    BY <2>1, <2>2
  <2> QED
    BY <2>2, <2>3
<1>5. /\ place \in Reached(file, done) .. Len(file)
      /\ at + Len(hunk.old) <= Len(done.lines) <=> place + Len(hunk.old) <= Len(file)
      /\ at + Len(hunk.old) <= Len(done.lines) =>
           \A i \in DOMAIN hunk.old : done.lines[at + i] = file[place + i]
  BY <1>0, <1>2, <1>3, <1>4
<1> QED
  BY <1>5 DEF Fits, FitsTrimmed

\* Fitting exactly is fitting.
LEMMA ExactFits ==
  ASSUME NEW lines, NEW old, NEW at, Fits(lines, old, at)
  PROVE  FitsTrimmed(lines, old, at)
BY DEF Fits, FitsTrimmed

\* A hunk that is found is found at one place, and if it fits exactly, there.
LEMMA FoundOnce ==
  ASSUME NEW lines, Len(lines) \in Nat, NEW old, NEW from \in Nat, Found(lines, old, from)
  PROVE  /\ Place(lines, old, from) \in from .. Len(lines)
         /\ FitsTrimmed(lines, old, Place(lines, old, from))
         /\ \A at \in from .. Len(lines) : Fits(lines, old, at) => at = Place(lines, old, from)
<1> DEFINE located == Located(lines, old, from)
<1>1. located \in SUBSET (from .. Len(lines))
  BY DEF Located, Exact, Fuzzy
<1>2. IsFiniteSet(located)
  <2>1. IsFiniteSet(from .. Len(lines))
    BY FS_Interval
  <2> HIDE DEF located
  <2> QED
    BY <1>1, <2>1, FS_Subset
<1>3. PICK at : located = {at}
  BY <1>2, FS_Singleton DEF Found
<1>4. at \in from .. Len(lines)
  BY <1>1, <1>3
<1>5. Place(lines, old, from) = at
  BY <1>3, <1>4 DEF Place
<1>6. FitsTrimmed(lines, old, at)
  BY <1>3, ExactFits DEF Located, Exact, Fuzzy
<1>7. \A b \in from .. Len(lines) : Fits(lines, old, b) => b \in located
  BY DEF Located, Exact
<1> QED
  BY <1>3, <1>4, <1>5, <1>6, <1>7

\* s is what lines come to when the hunk is put at this place, seen from a place before it.
Spliced(lines, hunk, at, from, s) ==
  /\ s \in TextLines
  /\ Len(s) = Len(lines) - Len(hunk.old) + Len(hunk.new)
  /\ SubSeq(s, 1, at + Len(hunk.new))
       = SubSeq(lines, 1, from) \o (SubSeq(lines, from + 1, at) \o hunk.new)
  /\ \A i \in 1 .. Len(lines) - (at + Len(hunk.old)) :
       s[at + Len(hunk.new) + i] = lines[at + Len(hunk.old) + i]

LEMMA SplicedLines ==
  ASSUME NEW lines \in TextLines, NEW hunk \in Hunks, NEW at \in Nat,
         at + Len(hunk.old) <= Len(lines), NEW s, s = Splice(lines, at, hunk),
         NEW from \in Nat, from <= at
  PROVE  Spliced(lines, hunk, at, from, s)
<1>0. PICK all, old, new \in Nat : all = Len(lines) /\ old = Len(hunk.old) /\ new = Len(hunk.new)
  BY HunkTyped, ListTyped DEF TextLines
<1> DEFINE before == SubSeq(lines, 1, at)
           after == SubSeq(lines, at + old + 1, all)
           a == SubSeq(lines, 1, from)
           b == SubSeq(lines, from + 1, at)
<1>new. PICK put \in ListOf(Texts) : put = hunk.new /\ new = Len(put)
  BY <1>0, HunkTyped DEF TextLines
<1>1. at <= all /\ at + old <= all /\ from <= all
  BY <1>0, HunkTyped DEF TextLines
<1>2. /\ before \in ListOf(Texts) /\ Len(before) = at
      /\ \A i \in 1 .. at : before[i] = lines[i]
  BY <1>0, <1>1, ListBegin DEF TextLines
<1>3. /\ after \in ListOf(Texts) /\ Len(after) = all - (at + old)
      /\ \A i \in 1 .. all - (at + old) : after[i] = lines[at + old + i]
  <2>1. PICK end \in Nat : end = at + old
    OBVIOUS
  <2>2. end <= all
    BY <1>1, <2>1
  <2>3. lines \in ListOf(Texts) /\ all \in Nat /\ all <= Len(lines)
    BY <1>0 DEF TextLines
  <2>4. /\ SubSeq(lines, end + 1, all) \in ListOf(Texts)
        /\ Len(SubSeq(lines, end + 1, all)) = all - end
        /\ \A i \in 1 .. all - end : SubSeq(lines, end + 1, all)[i] = lines[end + i]
    BY <2>1, <2>2, <2>3, ListCut
  <2> QED
    BY <2>1, <2>4
<1>4. a \in ListOf(Texts) /\ Len(a) = from /\ \A i \in 1 .. from : a[i] = lines[i]
  BY <1>0, <1>1, ListBegin DEF TextLines
<1>5. b \in ListOf(Texts) /\ Len(b) = at - from /\ \A i \in 1 .. at - from : b[i] = lines[from + i]
  BY <1>0, <1>1, ListCut DEF TextLines
<1>types. /\ before \in ListOf(Texts) /\ after \in ListOf(Texts)
          /\ a \in ListOf(Texts) /\ b \in ListOf(Texts)
  BY <1>2, <1>3, <1>4, <1>5
<1>6. s = (before \o put) \o after
  BY <1>0, <1>new DEF Splice
<1> HIDE DEF before, after, a, b
<1> DEFINE front == before \o put
           r == b \o put
<1>7. /\ front \in ListOf(Texts) /\ Len(front) = at + new
      /\ \A i \in 1 .. at : front[i] = before[i]
      /\ \A i \in 1 .. new : front[at + i] = put[i]
  <2>1. /\ front \in ListOf(Texts) /\ Len(front) = Len(before) + Len(put)
        /\ \A i \in 1 .. Len(before) : front[i] = before[i]
        /\ \A i \in 1 .. Len(put) : front[Len(before) + i] = put[i]
    BY <1>types, ListJoined
  <2> HIDE DEF front
  <2> QED
    BY <1>new, <1>2, <2>1
<1>8. /\ r \in ListOf(Texts) /\ Len(r) = at - from + new
      /\ \A i \in 1 .. at - from : r[i] = b[i]
      /\ \A i \in 1 .. new : r[at - from + i] = put[i]
  <2>1. /\ r \in ListOf(Texts) /\ Len(r) = Len(b) + Len(put)
        /\ \A i \in 1 .. Len(b) : r[i] = b[i]
        /\ \A i \in 1 .. Len(put) : r[Len(b) + i] = put[i]
    BY <1>types, ListJoined
  <2> HIDE DEF r
  <2> QED
    BY <1>new, <1>5, <2>1
<1>9. s = front \o after
  BY <1>6
<1> HIDE DEF front, r
<1>10. /\ s \in ListOf(Texts) /\ Len(s) = at + new + (all - (at + old))
       /\ \A i \in 1 .. at + new : s[i] = front[i]
       /\ \A i \in 1 .. all - (at + old) : s[at + new + i] = after[i]
  <2>1. /\ s \in ListOf(Texts) /\ Len(s) = Len(front) + Len(after)
        /\ \A i \in 1 .. Len(front) : s[i] = front[i]
        /\ \A i \in 1 .. Len(after) : s[Len(front) + i] = after[i]
    <3>1. front \in ListOf(Texts) /\ after \in ListOf(Texts)
      BY <1>types, <1>7
    <3> QED
      BY <1>9, <3>1, ListJoined
  <2> QED
    BY <1>3, <1>7, <2>1
<1>11. Len(s) = all - old + new /\ at + new \in Nat /\ at + new <= Len(s)
  BY <1>1, <1>10
<1> DEFINE l == SubSeq(s, 1, at + new)
<1>12. l \in ListOf(Texts) /\ Len(l) = at + new /\ \A i \in 1 .. at + new : l[i] = s[i]
  BY <1>10, <1>11, ListBegin
<1> DEFINE t == a \o r
<1>13. /\ t \in ListOf(Texts) /\ Len(t) = Len(a) + Len(r)
       /\ \A i \in 1 .. Len(a) : t[i] = a[i]
       /\ \A i \in 1 .. Len(r) : t[Len(a) + i] = r[i]
  <2>1. r \in ListOf(Texts)
    BY <1>8
  <2> QED
    BY <1>types, <2>1, ListJoined
<1> HIDE DEF l, t
<1>14. /\ t \in ListOf(Texts) /\ Len(t) = at + new
       /\ \A i \in 1 .. from : t[i] = a[i]
       /\ \A i \in 1 .. at - from + new : t[from + i] = r[i]
  <2>1. from + (at - from + new) = at + new
    BY <1>1
  <2> QED
    BY <1>4, <1>8, <1>13, <2>1
<1>15. ASSUME NEW i \in 1 .. at + new
       PROVE  l[i] = t[i]
  <2>1. l[i] = front[i]
    BY <1>10, <1>12
  <2>2. CASE i <= from
    <3>1. i \in 1 .. from /\ i \in 1 .. at
      BY <2>2
    <3> QED
      BY <1>2, <1>4, <1>7, <1>14, <2>1, <3>1
  <2>3. CASE i > from /\ i <= at
    <3>1. i - from \in 1 .. at - from /\ i - from \in 1 .. at - from + new /\ i \in 1 .. at
          /\ from + (i - from) = i
      BY <2>3
    <3>2. t[i] = r[i - from]
      BY <1>14, <3>1
    <3>3. r[i - from] = lines[i]
      BY <1>5, <1>8, <3>1
    <3> QED
      BY <1>2, <1>7, <2>1, <3>1, <3>2, <3>3
  <2>4. CASE i > at
    <3>1. /\ i - from \in 1 .. at - from + new /\ from + (i - from) = i
          /\ i - at \in 1 .. new /\ at + (i - at) = i /\ at - from + (i - at) = i - from
      BY <2>4
    <3>2. t[i] = r[i - from]
      BY <1>14, <3>1
    <3>3. r[i - from] = put[i - at]
      BY <1>8, <3>1
    <3>4. front[i] = put[i - at]
      BY <1>7, <3>1
    <3> QED
      BY <2>1, <3>2, <3>3, <3>4
  <2> QED
    BY <2>2, <2>3, <2>4
<1>16. l = t
  BY <1>12, <1>14, <1>15, ListSame
<1> QED
  BY <1>0, <1>new, <1>3, <1>10, <1>11, <1>16 DEF l, t, a, r, b, TextLines, Spliced

\* Where a hunk lands in the file as it was, next being what it leaves of done.
Lands(file, done, hunk, next, place) ==
  /\ place \in Reached(file, done) .. Len(file)
  /\ place + Len(hunk.old) = Reached(file, next)
  /\ FitsTrimmed(file, hunk.old, place)
  /\ \A b \in Reached(file, done) .. Len(file) : Fits(file, hunk.old, b) => b = place
  /\ SubSeq(next.lines, 1, next.cursor)
       = SubSeq(done.lines, 1, done.cursor)
           \o (SubSeq(file, Reached(file, done) + 1, place) \o hunk.new)

LEMMA HunkApplied ==
  ASSUME NEW file \in TextLines, NEW done, Aligned(file, done), NEW hunk \in Hunks,
         NEW next, next = ApplyHunk(done, hunk), next.ok
  PROVE  done.ok /\ Aligned(file, next) /\ \E place : Lands(file, done, hunk, next, place)
<1> DEFINE at == Place(done.lines, hunk.old, done.cursor)
<1>1. done.ok /\ Found(done.lines, hunk.old, done.cursor)
  <2>1. [done EXCEPT !.ok = FALSE].ok = FALSE
    BY DEF Aligned, Applications
  <2> QED
    BY <2>1 DEF ApplyHunk
<1>2. next = [ok |-> TRUE, lines |-> Splice(done.lines, at, hunk), cursor |-> at + Len(hunk.new)]
  BY <1>1 DEF ApplyHunk
<1>3. done.lines \in TextLines
  BY DEF Aligned, Applications
<1>4. PICK all, now, c, r, old, new \in Nat :
        /\ all = Len(file) /\ now = Len(done.lines) /\ c = done.cursor
        /\ r = Reached(file, done) /\ old = Len(hunk.old) /\ new = Len(hunk.new)
  <2>1. Len(file) \in Nat /\ Len(done.lines) \in Nat
    BY <1>3, ListTyped DEF TextLines
  <2>2. Len(hunk.old) \in Nat /\ Len(hunk.new) \in Nat
    BY HunkTyped
  <2>3. done.cursor \in Nat /\ Reached(file, done) \in Nat
    BY DEF Aligned, Applications
  <2> QED
    BY <2>1, <2>2, <2>3
<1>5. r = all - (now - c) /\ r <= all /\ c <= now
  BY <1>4 DEF Aligned, Reached
<1>6. /\ at \in c .. now /\ FitsTrimmed(done.lines, hunk.old, at)
      /\ \A b \in c .. now : Fits(done.lines, hunk.old, b) => b = at
  BY <1>1, <1>4, FoundOnce
<1> HIDE DEF at
<1>7. PICK place \in Nat : place = at - c + r
  BY <1>5, <1>6
<1>8. /\ place \in r .. all
      /\ FitsTrimmed(file, hunk.old, place)
  BY <1>4, <1>6, <1>7, SameFit
<1>9. at + old <= now /\ at \in Nat
  BY <1>4, <1>6 DEF FitsTrimmed
<1>10. ASSUME NEW b \in r .. all, Fits(file, hunk.old, b)
       PROVE  b = place
  <2>1. PICK d \in c .. now : b = d - c + r
    <3>1. b - r + c \in c .. now /\ b = (b - r + c) - c + r
      BY <1>5
    <3> QED
      BY <3>1
  <2>2. Fits(done.lines, hunk.old, d)
    BY <1>4, <1>10, <2>1, SameFit
  <2> QED
    BY <1>6, <1>7, <2>1, <2>2
<1>11. PICK s : s = Splice(done.lines, at, hunk)
  OBVIOUS
<1>12. /\ s \in TextLines
       /\ Len(s) = now - old + new
       /\ SubSeq(s, 1, at + new)
            = SubSeq(done.lines, 1, c) \o (SubSeq(done.lines, c + 1, at) \o hunk.new)
       /\ \A i \in 1 .. now - (at + old) : s[at + new + i] = done.lines[at + old + i]
  <2>1. c <= at /\ at + Len(hunk.old) <= Len(done.lines)
    BY <1>4, <1>6, <1>9
  <2> QED
    <3>1. at \in Nat /\ done.lines \in TextLines
      BY <1>3, <1>9
    <3>2. Spliced(done.lines, hunk, at, c, s)
      BY <1>11, <2>1, <3>1, SplicedLines
    <3> QED
      BY <1>4, <3>2 DEF Spliced
<1>13. next.ok = TRUE /\ next.lines = s /\ next.cursor = at + new
  BY <1>2, <1>4, <1>11
<1>14. next \in Applications
  <2>1. at + new \in Nat
    BY <1>9
  <2> QED
    BY <1>2, <1>4, <1>11, <1>12, <2>1 DEF Applications
<1>15. Reached(file, next) = place + old
  <2>1. Reached(file, next) = all - ((now - old + new) - (at + new))
    BY <1>4, <1>12, <1>13 DEF Reached
  <2> QED
    BY <1>5, <1>7, <1>9, <2>1
<1>16. ASSUME NEW i \in 1 .. all - (place + old)
       PROVE  s[at + new + i] = file[place + old + i]
  <2>1. i \in 1 .. now - (at + old)
    BY <1>5, <1>7, <1>9
  <2>2. \A j \in 1 .. all - r : done.lines[c + j] = file[r + j]
    BY <1>4 DEF Aligned
  <2>3. PICK j \in 1 .. all - r : c + j = at + old + i /\ r + j = place + old + i
    <3>1. /\ at + old + i - c \in 1 .. all - r
          /\ c + (at + old + i - c) = at + old + i
          /\ r + (at + old + i - c) = place + old + i
      BY <1>5, <1>6, <1>7, <1>9
    <3> QED
      BY <3>1
  <2>4. s[at + new + i] = done.lines[at + old + i]
    BY <1>12, <2>1
  <2>5. done.lines[at + old + i] = file[place + old + i]
    BY <2>2, <2>3
  <2> QED
    BY <2>4, <2>5
<1>17. Aligned(file, next)
  <2>1. at + new <= now - old + new /\ place + old \in 0 .. all
    BY <1>5, <1>7, <1>9
  <2>2. Len(file) = all /\ Len(next.lines) = now - old + new
    BY <1>4, <1>12, <1>13
  <2>3. /\ next.cursor <= Len(next.lines)
        /\ Reached(file, next) \in 0 .. Len(file)
    BY <1>13, <1>15, <2>1, <2>2
  <2>4. \A i \in 1 .. Len(file) - Reached(file, next) :
          next.lines[next.cursor + i] = file[Reached(file, next) + i]
    BY <1>13, <1>15, <1>16, <2>2
  <2> QED
    BY <1>14, <2>3, <2>4 DEF Aligned
<1>18. SubSeq(done.lines, c + 1, at) = SubSeq(file, r + 1, place)
  <2> DEFINE x == SubSeq(done.lines, c + 1, at)
             y == SubSeq(file, r + 1, place)
  <2>1. at - c = place - r /\ c <= at /\ r <= place /\ place <= all /\ at <= now
    BY <1>5, <1>6, <1>7
  <2>2. /\ x \in ListOf(Texts) /\ Len(x) = at - c /\ \A i \in 1 .. at - c : x[i] = done.lines[c + i]
    <3>1. done.lines \in ListOf(Texts) /\ at <= Len(done.lines) /\ at \in Nat /\ c <= at
      BY <1>3, <1>4, <1>9, <2>1 DEF TextLines
    <3> QED
      BY <3>1, ListCut
  <2>3. /\ y \in ListOf(Texts) /\ Len(y) = place - r /\ \A i \in 1 .. place - r : y[i] = file[r + i]
    <3>1. file \in ListOf(Texts) /\ place <= Len(file) /\ r <= place
      BY <1>4, <2>1 DEF TextLines
    <3> QED
      BY <3>1, ListCut
  <2> HIDE DEF x, y
  <2>4. \A i \in 1 .. all - r : done.lines[c + i] = file[r + i]
    BY <1>4 DEF Aligned
  <2>5. \A i \in 1 .. at - c : i \in 1 .. all - r
    BY <1>5, <1>6
  <2>6. \A i \in 1 .. at - c : x[i] = y[i]
    BY <2>1, <2>2, <2>3, <2>4, <2>5
  <2>7. x \in ListOf(Texts) /\ y \in ListOf(Texts) /\ Len(x) = Len(y)
    BY <2>1, <2>2, <2>3
  <2>8. \A i \in 1 .. Len(x) : x[i] = y[i]
    BY <2>2, <2>6
  <2>9. x = y
    BY <2>7, <2>8, ListSame
  <2> QED
    BY <2>9 DEF x, y
<1>19. Lands(file, done, hunk, next, place)
  BY <1>4, <1>8, <1>10, <1>12, <1>13, <1>15, <1>18 DEF Lands
<1> QED
  BY <1>1, <1>17, <1>19

-----------------------------------------------------------------------------
(* All the hunks                                                           *)

LEMMA BeginAligned ==
  ASSUME NEW file \in TextLines
  PROVE  Aligned(file, Begin(file)) /\ Reached(file, Begin(file)) = 0 /\ Begin(file).ok
<1>1. PICK all \in Nat : all = Len(file)
  BY ListTyped DEF TextLines
<1>2. Begin(file) = [ok |-> TRUE, lines |-> file, cursor |-> 0]
  BY DEF Begin
<1>3. Begin(file) \in Applications
  BY <1>2 DEF Applications
<1>4. Begin(file).lines = file /\ Begin(file).cursor = 0 /\ Begin(file).ok
  BY <1>2
<1>5. Reached(file, Begin(file)) = 0
  <2>1. all - (all - 0) = 0
    OBVIOUS
  <2> QED
    BY <1>1, <1>4, <2>1 DEF Reached
<1>6. 0 <= all /\ 0 \in 0 .. all /\ \A i \in 1 .. all - 0 : 0 + i = i
  OBVIOUS
<1> QED
  BY <1>1, <1>3, <1>4, <1>5, <1>6 DEF Aligned

\* A hunk that is refused stops the rest.
LEMMA RefusedStays ==
  ASSUME NEW done, "ok" \in DOMAIN done, NEW hunk
  PROVE  "ok" \in DOMAIN ApplyHunk(done, hunk) /\ (ApplyHunk(done, hunk).ok => done.ok)
<1> DEFINE refused == [done EXCEPT !.ok = FALSE]
<1>1. DOMAIN refused = DOMAIN done /\ refused.ok = FALSE
  OBVIOUS
<1>2. CASE done.ok /\ Found(done.lines, hunk.old, done.cursor)
  <2> DEFINE at == Place(done.lines, hunk.old, done.cursor)
             taken == [ok |-> TRUE, lines |-> Splice(done.lines, at, hunk),
                       cursor |-> at + Len(hunk.new)]
  <2>1. ApplyHunk(done, hunk) = taken
    BY <1>2 DEF ApplyHunk
  <2>2. "ok" \in DOMAIN taken
    OBVIOUS
  <2> QED
    BY <1>2, <2>1, <2>2
<1>3. CASE ~(done.ok /\ Found(done.lines, hunk.old, done.cursor))
  <2>1. ApplyHunk(done, hunk) = refused
    BY <1>3 DEF ApplyHunk
  <2> QED
    BY <1>1, <2>1
<1> QED
  BY <1>2, <1>3

\* d is the way the hunks were applied to the file, from what it begins with to the end.
Applied(file, hunks, n, d) ==
  /\ n \in Nat /\ DOMAIN hunks = 1 .. n
  /\ \A k \in 1 .. n : hunks[k] \in Hunks
  /\ d[0] = Begin(file)
  /\ \A k \in 1 .. n : d[k] = ApplyHunk(d[k - 1], hunks[k])
  /\ d[n].ok

LEMMA AllAligned ==
  ASSUME NEW file \in TextLines, NEW hunks, NEW n, NEW d, Applied(file, hunks, n, d)
  PROVE  \A k \in 0 .. n : d[k].ok /\ Aligned(file, d[k])
<1> DEFINE P(k) == /\ "ok" \in DOMAIN d[k]
                   /\ d[k].ok => \A j \in 0 .. k : d[j].ok /\ Aligned(file, d[j])
           T == {k \in 0 .. n : ~P(k)}
<1>0. n \in Nat /\ d[n].ok
  BY DEF Applied
<1>1. P(0)
  <2>1. d[0] = Begin(file) /\ 0 .. 0 = {0}
    BY DEF Applied
  <2>2. "ok" \in DOMAIN Begin(file)
    BY DEF Begin
  <2> QED
    BY <2>1, <2>2, BeginAligned
<1>2. ASSUME NEW k \in 1 .. n, P(k - 1)
      PROVE  P(k)
  <2>1. d[k] = ApplyHunk(d[k - 1], hunks[k]) /\ hunks[k] \in Hunks
    BY DEF Applied
  <2>2. "ok" \in DOMAIN d[k] /\ (d[k].ok => d[k - 1].ok)
    BY <1>2, <2>1, RefusedStays
  <2>3. k - 1 \in 0 .. k - 1 /\ 0 .. k = (0 .. k - 1) \cup {k}
    BY <1>0
  <2>4. ASSUME d[k].ok
        PROVE  \A j \in 0 .. k - 1 : d[j].ok /\ Aligned(file, d[j])
    BY <1>2, <2>2, <2>4
  <2>5. ASSUME d[k].ok
        PROVE  Aligned(file, d[k])
    BY <2>1, <2>3, <2>4, <2>5, HunkApplied
  <2> HIDE DEF P
  <2>6. ASSUME d[k].ok
        PROVE  \A j \in 0 .. k : d[j].ok /\ Aligned(file, d[j])
    BY <2>3, <2>4, <2>5, <2>6
  <2> QED
    BY <2>2, <2>6 DEF P
<1> HIDE DEF P
<1>3. T = {}
  <2> SUFFICES ASSUME T # {} PROVE FALSE
    OBVIOUS
  <2>1. T \in SUBSET Nat
    BY <1>0
  <2>2. PICK k \in T : \A m \in T : k <= m
    BY <2>1, LeastOf
  <2>3. k \in 1 .. n /\ k - 1 \in 0 .. n /\ k - 1 \notin T
    BY <1>0, <1>1, <2>2
  <2> QED
    BY <1>2, <2>2, <2>3
<1>4. P(n) /\ n \in 0 .. n
  BY <1>0, <1>3
<1> QED
  BY <1>0, <1>4 DEF P

\* The places the hunks land on.
Places(file, hunks, n, d, at) ==
  /\ at \in [1 .. n -> 0 .. Len(file)]
  /\ \A k \in 1 .. n : Lands(file, d[k - 1], hunks[k], d[k], at[k])

LEMMA PlacesAre ==
  ASSUME NEW file \in TextLines, NEW hunks, NEW n, NEW d, Applied(file, hunks, n, d)
  PROVE  \E at : Places(file, hunks, n, d, at)
<1> DEFINE at == [k \in 1 .. n |-> CHOOSE p : Lands(file, d[k - 1], hunks[k], d[k], p)]
<1>0. n \in Nat
  BY DEF Applied
<1>1. ASSUME NEW k \in 1 .. n
      PROVE  /\ Lands(file, d[k - 1], hunks[k], d[k], at[k])
             /\ at[k] \in 0 .. Len(file)
  <2>1. d[k] = ApplyHunk(d[k - 1], hunks[k]) /\ hunks[k] \in Hunks
    BY DEF Applied
  <2>2. k \in 0 .. n /\ k - 1 \in 0 .. n
    BY <1>0
  <2>3. d[k].ok /\ Aligned(file, d[k - 1])
    BY <2>2, AllAligned
  <2>4. \E p : Lands(file, d[k - 1], hunks[k], d[k], p)
    BY <2>1, <2>3, HunkApplied
  <2>5. Lands(file, d[k - 1], hunks[k], d[k], at[k])
    BY <2>4
  <2> HIDE DEF at
  <2>6. PICK r, all \in Nat : r = Reached(file, d[k - 1]) /\ all = Len(file)
    <3>1. Reached(file, d[k - 1]) \in 0 .. Len(file) /\ Len(file) \in Nat
      BY <2>3, ListTyped DEF Aligned, TextLines
    <3> QED
      BY <3>1
  <2>7. at[k] \in r .. all
    BY <2>5, <2>6 DEF Lands
  <2> QED
    BY <2>5, <2>6, <2>7
<1>2. at \in [1 .. n -> 0 .. Len(file)]
  BY <1>1
<1> HIDE DEF at
<1> QED
  BY <1>1, <1>2 DEF Places

\* The numbers of a way: how far in the file it had got, before and after each hunk.
LEMMA PlacesIn ==
  ASSUME NEW file \in TextLines, NEW hunks, NEW n, NEW d, Applied(file, hunks, n, d),
         NEW at, Places(file, hunks, n, d, at)
  PROVE  /\ Reached(file, d[0]) = 0
         /\ \A k \in 0 .. n : Reached(file, d[k]) \in 0 .. Len(file)
         /\ \A k \in 1 .. n : /\ at[k] \in Reached(file, d[k - 1]) .. Len(file)
                              /\ Reached(file, d[k]) = at[k] + Len(hunks[k].old)
<1>1. Reached(file, d[0]) = 0
  BY BeginAligned DEF Applied
<1>2. \A k \in 0 .. n : Reached(file, d[k]) \in 0 .. Len(file)
  BY AllAligned DEF Aligned
<1>3. \A k \in 1 .. n : /\ at[k] \in Reached(file, d[k - 1]) .. Len(file)
                        /\ Reached(file, d[k]) = at[k] + Len(hunks[k].old)
  BY DEF Places, Lands
<1> QED
  BY <1>1, <1>2, <1>3

LEMMA PlacesLayOut ==
  ASSUME NEW file \in TextLines, NEW hunks, NEW n, NEW d, Applied(file, hunks, n, d),
         NEW at, Places(file, hunks, n, d, at)
  PROVE  /\ at \in Layouts(file, hunks, FitsTrimmed)
         /\ \A other \in Layouts(file, hunks, Fits) : other = at
<1>0. n \in Nat /\ DOMAIN hunks = 1 .. n
  BY DEF Applied
<1>all. PICK all \in Nat : all = Len(file)
  BY ListTyped DEF TextLines
<1> DEFINE r == [k \in 0 .. n |-> Reached(file, d[k])]
           old == [k \in 1 .. n |-> Len(hunks[k].old)]
<1>1. /\ r[0] = 0 /\ \A k \in 0 .. n : r[k] \in 0 .. all
      /\ \A k \in 1 .. n : at[k] \in r[k - 1] .. all /\ r[k] = at[k] + old[k]
  BY <1>0, <1>all, PlacesIn
<1>2. \A k \in 1 .. n : old[k] = Len(hunks[k].old)
  OBVIOUS
<1>4. \A k \in 1 .. n : \A b \in r[k - 1] .. all : Fits(file, hunks[k].old, b) => b = at[k]
  <2>1. ASSUME NEW k \in 1 .. n
        PROVE  r[k - 1] = Reached(file, d[k - 1])
    BY <1>0
  <2> HIDE DEF r
  <2> QED
    BY <1>all, <2>1 DEF Places, Lands
<1>5. at \in Layouts(file, hunks, FitsTrimmed)
  <2>1. /\ at \in [1 .. n -> 0 .. Len(file)]
        /\ \A k \in 1 .. n : FitsTrimmed(file, hunks[k].old, at[k])
    BY DEF Places, Lands
  <2> HIDE DEF r, old
  <2>2. \A k \in 1 .. n : k > 1 => at[k] >= at[k - 1] + old[k - 1]
    <3> SUFFICES ASSUME NEW k \in 1 .. n, k > 1
                 PROVE  at[k] >= at[k - 1] + old[k - 1]
      OBVIOUS
    <3>1. k - 1 \in 1 .. n
      BY <1>0
    <3> QED
      BY <1>1, <3>1
  <2>3. \A k \in 1 .. n : k > 1 => at[k] >= at[k - 1] + Len(hunks[k - 1].old)
    <3> SUFFICES ASSUME NEW k \in 1 .. n, k > 1
                 PROVE  at[k] >= at[k - 1] + Len(hunks[k - 1].old)
      OBVIOUS
    <3>1. k - 1 \in 1 .. n
      BY <1>0
    <3> QED
      BY <1>2, <2>2, <3>1
  <2> QED
    BY <1>0, <2>1, <2>3 DEF Layouts
<1> HIDE DEF r, old
<1>6. ASSUME NEW other \in Layouts(file, hunks, Fits)
      PROVE  other = at
  <2>1. /\ other \in [1 .. n -> 0 .. all]
        /\ \A k \in 1 .. n : Fits(file, hunks[k].old, other[k])
        /\ \A k \in 1 .. n : k > 1 => other[k] >= other[k - 1] + Len(hunks[k - 1].old)
    BY <1>0, <1>all DEF Layouts
  <2> DEFINE T == {k \in 1 .. n : other[k] # at[k]}
  <2>2. T = {}
    <3> SUFFICES ASSUME T # {} PROVE FALSE
      OBVIOUS
    <3>1. T \in SUBSET Nat
      BY <1>0
    <3>2. PICK k \in T : \A m \in T : k <= m
      BY <3>1, LeastOf
    <3>3. k \in 1 .. n
      BY <3>2
    <3>4. CASE k = 1
      <4>1. other[1] \in r[0] .. all /\ k - 1 = 0
        BY <1>1, <2>1, <3>3, <3>4
      <4> QED
        BY <1>4, <2>1, <3>2, <3>3, <3>4, <4>1
    <3>5. CASE k # 1
      <4>1. k - 1 \in 1 .. n /\ k > 1 /\ ~(k <= k - 1)
        BY <1>0, <3>3, <3>5
      <4>2. other[k - 1] = at[k - 1]
        BY <3>2, <4>1
      <4>3. other[k] >= at[k - 1] + old[k - 1]
        BY <1>2, <2>1, <3>3, <4>1, <4>2
      <4>4. r[k - 1] = at[k - 1] + old[k - 1] /\ r[k - 1] \in 0 .. all /\ other[k] \in 0 .. all
        <5>1. k - 1 \in 0 .. n
          BY <4>1
        <5> QED
          BY <1>1, <2>1, <3>3, <4>1, <5>1
      <4>5. other[k] \in r[k - 1] .. all
        BY <4>3, <4>4
      <4> QED
        BY <1>4, <2>1, <3>2, <3>3, <4>5
    <3> QED
      BY <3>4, <3>5
  <2>3. at \in [1 .. n -> 0 .. all]
    BY <1>all DEF Places
  <2>4. \A k \in 1 .. n : other[k] = at[k]
    BY <2>2
  <2> HIDE DEF T
  <2>5. other \in [1 .. n -> 0 .. all]
    BY <2>1
  <2>6. other = [k \in 1 .. n |-> other[k]] /\ at = [k \in 1 .. n |-> at[k]]
    BY <2>3, <2>5
  <2>7. [k \in 1 .. n |-> other[k]] = [k \in 1 .. n |-> at[k]]
    BY <2>4
  <2> QED
    BY <2>6, <2>7
<1> QED
  BY <1>5, <1>6

\* What the first hunks leave in front, one after the other.
InFront(s, n, f) ==
  /\ n \in Nat /\ n > 0 /\ Len(s) = n /\ DOMAIN s = 1 .. n
  /\ f[1] = s[1] /\ \A i \in 2 .. n : f[i] = f[i - 1] \o s[i]

LEMMA FlattenIs ==
  ASSUME NEW s, NEW n, NEW f, InFront(s, n, f)
  PROVE  FlattenSeq(s) = f[n]
<1>0. /\ n \in Nat /\ n > 0 /\ Len(s) = n /\ DOMAIN s = 1 .. n
      /\ f[1] = s[1] /\ \A i \in 2 .. n : f[i] = f[i - 1] \o s[i]
  BY DEF InFront
<1> DEFINE IsFlat(g) == g = [i \in 1 .. n |-> IF i = 1 THEN s[i] ELSE g[i - 1] \o s[i]]
           h == [i \in 1 .. n |-> f[i]]
<1>1. IsFlat(h)
  <2>1. \A i \in 1 .. n : f[i] = IF i = 1 THEN s[i] ELSE h[i - 1] \o s[i]
    <3> SUFFICES ASSUME NEW i \in 1 .. n
                 PROVE  f[i] = IF i = 1 THEN s[i] ELSE h[i - 1] \o s[i]
      OBVIOUS
    <3>1. CASE i = 1
      BY <1>0, <3>1
    <3>2. CASE i # 1
      <4>1. i \in 2 .. n /\ i - 1 \in 1 .. n
        BY <1>0, <3>2
      <4> QED
        BY <1>0, <3>2, <4>1
    <3> QED
      BY <3>1, <3>2
  <2> QED
    BY <2>1
<1>2. ASSUME NEW g, IsFlat(g)
      PROVE  g[n] = f[n]
  <2> DEFINE T == {i \in 1 .. n : g[i] # f[i]}
  <2>1. \A i \in 1 .. n : g[i] = IF i = 1 THEN s[i] ELSE g[i - 1] \o s[i]
    BY <1>2
  <2>2. T = {}
    <3> SUFFICES ASSUME T # {} PROVE FALSE
      OBVIOUS
    <3>1. T \in SUBSET Nat
      BY <1>0
    <3>2. PICK k \in T : \A m \in T : k <= m
      BY <3>1, LeastOf
    <3>3. CASE k = 1
      BY <1>0, <2>1, <3>2, <3>3
    <3>4. CASE k # 1
      <4>1. k - 1 \in 1 .. n /\ k \in 2 .. n /\ ~(k <= k - 1)
        BY <1>0, <3>2, <3>4
      <4>2. g[k - 1] = f[k - 1]
        BY <3>2, <4>1
      <4>3. g[k] = g[k - 1] \o s[k]
        BY <2>1, <3>2, <3>4
      <4>4. f[k] = f[k - 1] \o s[k]
        BY <1>0, <4>1
      <4> QED
        BY <3>2, <4>2, <4>3, <4>4
    <3> QED
      BY <3>3, <3>4
  <2>3. n \in 1 .. n
    BY <1>0
  <2> QED
    BY <2>2, <2>3
<1>3. FlattenSeq(s) = (CHOOSE g : IsFlat(g))[n]
  BY <1>0 DEF FlattenSeq
<1> HIDE DEF IsFlat, h
<1> QED
  BY <1>1, <1>2, <1>3

\* What a way laid by its places comes to is what the hunks came to.
LEMMA LaidIs ==
  ASSUME NEW file \in TextLines, NEW hunks, NEW n \in Nat, n > 0, NEW d, Applied(file, hunks, n, d),
         NEW at, Places(file, hunks, n, d, at), Len(hunks) = n
  PROVE  Laid(file, hunks, at) = d[n].lines
<1> DEFINE end(i) == IF i = 0 THEN 0 ELSE at[i] + Len(hunks[i].old)
           piece(i) == SubSeq(file, end(i - 1) + 1, at[i]) \o hunks[i].new
           pieces == [i \in DOMAIN hunks |-> piece(i)]
           front(i) == SubSeq(d[i].lines, 1, d[i].cursor)
           f == [i \in 0 .. n |-> front(i)]
<1>0. n \in Nat /\ DOMAIN hunks = 1 .. n
  BY DEF Applied
<1>1. \A i \in 0 .. n : end(i) = Reached(file, d[i])
  <2> SUFFICES ASSUME NEW i \in 0 .. n
               PROVE  end(i) = Reached(file, d[i])
    OBVIOUS
  <2>1. CASE i = 0
    BY <2>1, PlacesIn
  <2>2. CASE i # 0
    <3>1. i \in 1 .. n
      BY <1>0, <2>2
    <3> QED
      BY <2>2, <3>1, PlacesIn
  <2> QED
    BY <2>1, <2>2
<1>2. ASSUME NEW i \in 1 .. n
      PROVE  front(i) = front(i - 1) \o piece(i)
  <2>1. i - 1 \in 0 .. n
    BY <1>0
  <2>2. end(i - 1) = Reached(file, d[i - 1])
    BY <1>1, <2>1
  <2>3. Lands(file, d[i - 1], hunks[i], d[i], at[i])
    BY DEF Places
  <2> HIDE DEF end
  <2> QED
    BY <2>2, <2>3 DEF Lands
<1>3. /\ front(0) = <<>>
      /\ \A i \in 1 .. n : piece(i) \in ListOf(Texts)
  <2>1. front(0) = <<>>
    <3>1. d[0].lines = file /\ d[0].cursor = 0
      BY DEF Applied, Begin
    <3>2. SubSeq(file, 1, 0) = <<>>
      <4>1. file \in ListOf(Texts) /\ 0 <= Len(file) /\ 0 \in Nat
        BY ListTyped DEF TextLines
      <4>2. SubSeq(file, 1, 0) \in ListOf(Texts) /\ Len(SubSeq(file, 1, 0)) = 0
        BY <4>1, ListBegin
      <4> QED
        BY <4>2, ListEmpty
    <3> QED
      BY <3>1, <3>2
  <2>2. ASSUME NEW i \in 1 .. n
        PROVE  piece(i) \in ListOf(Texts)
    <3>1. PICK r, p, all \in Nat : r = end(i - 1) /\ p = at[i] /\ all = Len(file)
                                    /\ r <= p /\ p <= all
      <4>1. i - 1 \in 0 .. n
        BY <1>0
      <4>2. Len(file) \in Nat
        BY ListTyped DEF TextLines
      <4>3. end(i - 1) \in 0 .. Len(file) /\ at[i] \in end(i - 1) .. Len(file)
        BY <1>1, <4>1, PlacesIn
      <4> HIDE DEF end
      <4> QED
        BY <4>2, <4>3
    <3> HIDE DEF end
    <3>2. file \in ListOf(Texts) /\ p <= Len(file)
      BY <3>1 DEF TextLines
    <3>3. SubSeq(file, r + 1, p) \in ListOf(Texts)
      <4>1. PICK k \in Nat : k = r + 1 /\ 0 < k /\ k <= p + 1
        BY <3>1
      <4>2. SubSeq(file, k, p) \in ListOf(Texts)
        BY <3>2, <4>1, ListCut
      <4> QED
        BY <4>1, <4>2
    <3>4. hunks[i].new \in ListOf(Texts)
      BY HunkTyped DEF Applied, TextLines
    <3>5. SubSeq(file, r + 1, p) \o hunks[i].new \in ListOf(Texts)
      BY <3>3, <3>4, ListJoined
    <3> QED
      BY <3>1, <3>5
  <2> QED
    BY <2>1, <2>2
<1> HIDE DEF end, piece, front
<1>4. f[0] = <<>> /\ \A i \in 1 .. n : f[i] = f[i - 1] \o pieces[i]
  <2>0. 0 \in 0 .. n /\ f[0] = <<>>
    BY <1>0, <1>3
  <2> SUFFICES ASSUME NEW i \in 1 .. n
               PROVE  f[i] = f[i - 1] \o pieces[i]
    BY <2>0
  <2>1. i \in 0 .. n /\ i - 1 \in 0 .. n
    BY <1>0
  <2> QED
    BY <1>0, <1>2, <2>1
<1>5. pieces \in ListOf(ListOf(Texts)) /\ Len(pieces) = n /\ DOMAIN pieces = 1 .. n
  <2>1. pieces \in [1 .. n -> ListOf(Texts)]
    BY <1>0, <1>3
  <2> HIDE DEF pieces
  <2>2. pieces \in ListOf(ListOf(Texts)) /\ Len(pieces) = n
    BY <1>0, <2>1, ListMade
  <2> QED
    BY <2>1, <2>2
<1>6. f[1] = pieces[1]
  <2>1. 1 \in 1 .. n /\ 1 - 1 = 0
    BY <1>0
  <2>2. pieces[1] \in ListOf(Texts)
    BY <1>0, <1>3, <2>1
  <2>3. \A s \in ListOf(Texts) : <<>> \o s = s
    <3> SUFFICES ASSUME NEW s \in Seq(Texts) PROVE <<>> \o s = s
      BY DEF ListOf
    <3> QED
      BY ConcatEmptySeq
  <2> HIDE DEF f, pieces
  <2>4. f[1] = f[0] \o pieces[1] /\ f[0] = <<>>
    BY <1>4, <2>1
  <2> QED
    BY <2>2, <2>3, <2>4
<1> HIDE DEF f, pieces
<1>7. FlattenSeq(pieces) = f[n]
  <2>1. \A i \in 2 .. n : f[i] = f[i - 1] \o pieces[i]
    <3>1. \A i \in 2 .. n : i \in 1 .. n
      OBVIOUS
    <3> QED
      BY <1>4, <3>1
  <2>2. n \in Nat /\ Len(pieces) = n /\ DOMAIN pieces = 1 .. n
    BY <1>0, <1>5
  <2>3. InFront(pieces, n, f)
    BY <1>6, <2>1, <2>2 DEF InFront
  <2> QED
    BY <2>3, FlattenIs
<1>8. f[n] = SubSeq(d[n].lines, 1, d[n].cursor) /\ end(n) = Reached(file, d[n])
  <2>1. n \in 0 .. n
    BY <1>0
  <2>2. f[n] = front(n)
    BY <2>1 DEF f
  <2> QED
    BY <1>1, <2>1, <2>2 DEF front
<1>9. SubSeq(d[n].lines, 1, d[n].cursor) \o SubSeq(file, Reached(file, d[n]) + 1, Len(file))
        = d[n].lines
  <2>0. n \in 0 .. n
    BY <1>0
  <2>1. Aligned(file, d[n])
    BY <2>0, AllAligned
  <2>2. PICK ls \in ListOf(Texts) : ls = d[n].lines
    BY <2>1 DEF Aligned, Applications, TextLines
  <2>3. PICK all, now, c, r \in Nat :
          /\ all = Len(file) /\ now = Len(ls) /\ c = d[n].cursor /\ r = Reached(file, d[n])
    <3>1. Len(file) \in Nat /\ Len(ls) \in Nat
      BY ListTyped DEF TextLines
    <3>2. d[n].cursor \in Nat /\ Reached(file, d[n]) \in Nat
      BY <2>1 DEF Aligned, Applications
    <3> QED
      BY <3>1, <3>2
  <2>4. r = all - (now - c) /\ r <= all /\ c <= now
    BY <2>1, <2>2, <2>3 DEF Aligned, Reached
  <2>5. \A i \in 1 .. all - r : ls[c + i] = file[r + i]
    BY <2>1, <2>2, <2>3 DEF Aligned
  <2> DEFINE x == SubSeq(ls, 1, c)
             y == SubSeq(file, r + 1, all)
             t == x \o y
  <2>6. x \in ListOf(Texts) /\ Len(x) = c /\ \A i \in 1 .. c : x[i] = ls[i]
    BY <2>3, <2>4, ListBegin
  <2>7. y \in ListOf(Texts) /\ Len(y) = all - r /\ \A i \in 1 .. all - r : y[i] = file[r + i]
    <3>1. file \in ListOf(Texts) /\ all <= Len(file)
      BY <2>3 DEF TextLines
    <3> QED
      BY <2>4, <3>1, ListCut
  <2> HIDE DEF x, y
  <2>8. x \in ListOf(Texts) /\ y \in ListOf(Texts)
    BY <2>6, <2>7
  <2>9. /\ t \in ListOf(Texts) /\ Len(t) = Len(x) + Len(y)
        /\ \A i \in 1 .. Len(x) : t[i] = x[i]
        /\ \A i \in 1 .. Len(y) : t[Len(x) + i] = y[i]
    BY <2>8, ListJoined
  <2> HIDE DEF t
  <2>10. /\ Len(t) = now
         /\ \A i \in 1 .. c : t[i] = x[i]
         /\ \A i \in 1 .. all - r : t[c + i] = y[i]
    BY <2>4, <2>6, <2>7, <2>9
  <2>11. ASSUME NEW i \in 1 .. now
         PROVE  t[i] = ls[i]
    <3>1. CASE i <= c
      <4>1. i \in 1 .. c
        BY <3>1
      <4> QED
        BY <2>6, <2>10, <4>1
    <3>2. CASE i > c
      <4>1. PICK j \in 1 .. all - r : i = c + j
        <5>1. i - c \in 1 .. all - r /\ i = c + (i - c)
          BY <2>4, <3>2
        <5> QED
          BY <5>1
      <4> QED
        BY <2>5, <2>7, <2>10, <4>1
    <3> QED
      BY <3>1, <3>2
  <2>12. t \in ListOf(Texts) /\ Len(t) = Len(ls)
    BY <2>3, <2>9, <2>10
  <2>13. \A i \in 1 .. Len(t) : t[i] = ls[i]
    BY <2>10, <2>11
  <2>14. t = ls
    BY <2>12, <2>13, ListSame
  <2> QED
    BY <2>2, <2>3, <2>14 DEF t, x, y
<1>10. Laid(file, hunks, at) = FlattenSeq(pieces) \o SubSeq(file, end(n) + 1, Len(file))
  BY DEF Laid, end, piece, pieces
<1> QED
  BY <1>7, <1>8, <1>9, <1>10

-----------------------------------------------------------------------------
(* An update of a file                                                     *)

\* PatchPlaced of the section applied last, said of its parts.
PlacedIn(before, hunks, after) ==
  LET exact == Layouts(before, hunks, Fits)
      layouts == Layouts(before, hunks, FitsTrimmed)
      result(S) == {Laid(before, hunks, at) : at \in S}
  IN  /\ after \in result(layouts)
      /\ exact # {} => Cardinality(exact) = 1 /\ after \in result(exact)

LEMMA UpdatePlaced ==
  ASSUME NEW file \in TextLines, NEW m \in Nat, NEW hunks \in Lines(Hunks, m), hunks # <<>>,
         ApplyHunks(file, hunks).ok
  PROVE  /\ PlacedIn(file, hunks, ApplyHunks(file, hunks).lines)
         /\ ApplyHunks(file, hunks).lines \in TextLines
<1>1. PICK n \in 0 .. m : hunks \in [1 .. n -> Hunks]
  BY DEF Lines
<1>2. n \in Nat /\ DOMAIN hunks = 1 .. n /\ \A k \in 1 .. n : hunks[k] \in Hunks
  BY <1>1
<1>3. Len(hunks) = n /\ n > 0
  <2>1. hunks \in ListOf(Hunks) /\ Len(hunks) = n
    BY <1>1, <1>2, ListMade
  <2>2. n # 0
    BY <2>1, ListEmpty
  <2> QED
    BY <1>2, <2>1, <2>2
<1>4. PICK d : /\ ApplyHunks(file, hunks) = d[n]
               /\ d[0] = Begin(file)
               /\ \A k \in 1 .. n : d[k] = ApplyHunk(d[k - 1], hunks[k])
  BY <1>2, HunksApplied
<1>5. Applied(file, hunks, n, d)
  BY <1>2, <1>4 DEF Applied
<1>6. PICK at : Places(file, hunks, n, d, at)
  BY <1>5, PlacesAre
<1>7. /\ at \in Layouts(file, hunks, FitsTrimmed)
      /\ \A other \in Layouts(file, hunks, Fits) : other = at
  BY <1>5, <1>6, PlacesLayOut
<1>8. Laid(file, hunks, at) = ApplyHunks(file, hunks).lines
  <2>1. n \in Nat
    BY <1>2
  <2>2. Laid(file, hunks, at) = d[n].lines
    BY <1>3, <1>5, <1>6, <2>1, LaidIs
  <2> QED
    BY <1>4, <2>2
<1>9. ASSUME Layouts(file, hunks, Fits) # {}
      PROVE  Layouts(file, hunks, Fits) = {at} /\ Cardinality({at}) = 1
  <2>1. Cardinality({at}) = 1
    BY FS_Singleton
  <2>2. Layouts(file, hunks, Fits) = {at}
    BY <1>7, <1>9
  <2> QED
    BY <2>1, <2>2
<1>10. PlacedIn(file, hunks, ApplyHunks(file, hunks).lines)
  BY <1>7, <1>8, <1>9 DEF PlacedIn
<1>11. d[n].lines \in TextLines
  <2>1. n \in 0 .. n
    BY <1>2
  <2> QED
    BY <1>5, <2>1, AllAligned DEF Aligned, Applications
<1> QED
  BY <1>4, <1>10, <1>11

\* What the files hold, and how the last update was placed.
PatchInv ==
  /\ root \in [PatchPaths -> TextLines \cup {Nonexistent}]
  /\ hunksLeft \in Nat
  /\ PatchPlaced

LEMMA PatchInitInv == PatchInit => PatchInv
<1> SUFFICES ASSUME PatchInit PROVE PatchInv
  OBVIOUS
<1>1. ASSUME NEW s \in Lines(Texts, MaxFileLines)
      PROVE  s \in TextLines
  <2>1. PICK m \in 0 .. MaxFileLines : s \in [1 .. m -> Texts]
    BY DEF Lines
  <2>2. m \in Nat
    BY <2>1, PatchAssumption
  <2> QED
    BY <2>1, <2>2, ListMade DEF TextLines
<1>2. root \in [PatchPaths -> TextLines \cup {Nonexistent}]
  BY <1>1 DEF PatchInit
<1>3. hunksLeft \in Nat
  BY PatchAssumption DEF PatchInit
<1>4. PatchPlaced
  BY DEF PatchInit, PatchPlaced, NoSection
<1> QED
  BY <1>2, <1>3, <1>4 DEF PatchInv

LEMMA NoSectionPlaced == section' = NoSection => PatchPlaced'
BY DEF PatchPlaced, NoSection

LEMMA PatchStepInv == PatchInv /\ [PatchNext]_patchVars => PatchInv'
<1> SUFFICES ASSUME PatchInv, [PatchNext]_patchVars PROVE PatchInv'
  OBVIOUS
<1>0. root \in [PatchPaths -> TextLines \cup {Nonexistent}] /\ hunksLeft \in Nat /\ PatchPlaced
  BY DEF PatchInv
<1>fails. ASSUME Fails
          PROVE  PatchInv'
  BY <1>0, <1>fails, NoSectionPlaced DEF Fails, PatchInv
<1>1. ASSUME NEW path \in PatchPaths, NEW hunks \in Lines(Hunks, hunksLeft) \ {<<>>},
             UpdateFile(path, hunks)
      PROVE  PatchInv'
  <2> DEFINE result == ApplyHunks(root[path], hunks)
  <2>1. CASE Fails
    BY <1>fails, <2>1
  <2>2. CASE /\ root[path] # Nonexistent /\ result.ok
             /\ Wrote(path, result.lines)
             /\ hunksLeft' = hunksLeft - Len(hunks)
             /\ section' = [path |-> path, before |-> root[path], hunks |-> hunks,
                            after |-> result.lines]
    <3>1. root[path] \in TextLines
      BY <1>0, <2>2
    <3>2. PlacedIn(root[path], hunks, result.lines) /\ result.lines \in TextLines
      BY <1>0, <2>2, <3>1, UpdatePlaced
    <3>3. hunksLeft' \in Nat
      <4>1. PICK n \in 0 .. hunksLeft : hunks \in [1 .. n -> Hunks]
        BY DEF Lines
      <4>2. n \in Nat /\ n <= hunksLeft
        BY <1>0, <4>1
      <4>3. Len(hunks) = n
        BY <4>1, <4>2, ListMade
      <4> QED
        BY <1>0, <2>2, <4>2, <4>3
    <3> HIDE DEF result
    <3>4. root' \in [PatchPaths -> TextLines \cup {Nonexistent}]
      BY <1>0, <2>2, <3>2 DEF Wrote
    <3>5. PatchPlaced'
      <4>1. /\ section'.before = root[path] /\ section'.hunks = hunks
            /\ section'.after = result.lines
        BY <2>2
      <4> QED
        BY <3>2, <4>1 DEF PatchPlaced, PlacedIn
    <3> QED
      BY <3>3, <3>4, <3>5 DEF PatchInv
  <2> QED
    BY <1>1, <2>1, <2>2 DEF UpdateFile
<1>2. ASSUME NEW path \in PatchPaths, NEW content \in {<<>>, <<"a">>}, AddFile(path, content)
      PROVE  PatchInv'
  <2>1. CASE Fails
    BY <1>fails, <2>1
  <2>2. CASE Wrote(path, content) /\ section' = NoSection /\ UNCHANGED hunksLeft
    <3>1. content \in TextLines
      <4>1. <<>> \in Seq(Texts) /\ <<"a">> \in Seq(Texts)
        BY DEF Texts
      <4> QED
        BY <4>1 DEF TextLines, ListOf
    <3> QED
      BY <1>0, <2>2, <3>1, NoSectionPlaced DEF Wrote, PatchInv
  <2> QED
    BY <1>2, <2>1, <2>2 DEF AddFile
<1>3. ASSUME NEW path \in PatchPaths, DeleteFile(path)
      PROVE  PatchInv'
  <2>1. CASE Fails
    BY <1>fails, <2>1
  <2>2. CASE Wrote(path, Nonexistent) /\ section' = NoSection /\ UNCHANGED hunksLeft
    BY <1>0, <2>2, NoSectionPlaced DEF Wrote, PatchInv
  <2> QED
    BY <1>3, <2>1, <2>2 DEF DeleteFile
<1>4. ASSUME SectionFails
      PROVE  PatchInv'
  BY <1>fails, <1>4 DEF SectionFails
<1>5. ASSUME PatchEnds
      PROVE  PatchInv'
  BY <1>0, <1>5, NoSectionPlaced DEF PatchEnds, PatchInv
<1>6. ASSUME UNCHANGED patchVars
      PROVE  PatchInv'
  BY <1>0, <1>6 DEF patchVars, PatchInv, PatchPlaced
<1> QED
  BY <1>1, <1>2, <1>3, <1>4, <1>5, <1>6 DEF PatchNext

\* Whatever the file and the hunks, an update lands where the hunks fit in the file as it
\* was, and where they fit exactly in that one way (apply_hunks, patch.rs).
THEOREM HunksArePlaced == PatchSpec => []PatchPlaced
<1>1. PatchInv => PatchPlaced
  BY DEF PatchInv
<1> QED
  BY <1>1, PatchInitInv, PatchStepInv, PTL DEF PatchSpec

-----------------------------------------------------------------------------
(* Characters of one byte                                                  *)

\* The characters of an output of one-byte characters.
Chars == [at : Nat, width : {1}]

IsByteFold(g, n, s) ==
  g = [t \in SUBSET (1 .. n) |->
         IF t = {} THEN 0
         ELSE LET x == CHOOSE x \in t : \A y \in t : x >= y
              IN  g[t \ {x}] + s[x].width]

\* A text of one-byte characters has as many bytes as it has characters.
LEMMA ByteFoldIs ==
  ASSUME NEW n \in Nat, NEW s
  PROVE  \E g : IsByteFold(g, n, s)
<1> DEFINE top(t) == CHOOSE x \in t : \A y \in t : x >= y
           value(f, t) == IF t = {} THEN 0 ELSE f[t \ {top(t)}] + s[top(t)].width
           T == {k \in Nat : ~(\E g : IsByteFold(g, k, s))}
<1> SUFFICES ASSUME T # {} PROVE FALSE
  OBVIOUS
<1>1. PICK k \in T : \A m \in T : k <= m
  BY LeastOf
<1>2. k # 0
  <2> DEFINE g == [t \in SUBSET (1 .. 0) |-> 0]
  <2>1. \A t \in SUBSET (1 .. 0) : t = {}
    OBVIOUS
  <2>2. IsByteFold(g, 0, s)
    BY <2>1 DEF IsByteFold
  <2> QED
    BY <2>2
<1>3. PICK n0 \in Nat : n0 + 1 = k /\ n0 \notin T
  <2>1. k - 1 \in Nat /\ k - 1 \notin T /\ (k - 1) + 1 = k
    BY <1>1, <1>2
  <2> QED
    BY <2>1
<1>4. PICK g : IsByteFold(g, n0, s)
  BY <1>3
<1> DEFINE h == [t \in SUBSET (1 .. n0 + 1) |->
                   IF n0 + 1 \in t THEN g[t \ {n0 + 1}] + s[n0 + 1].width ELSE g[t]]
<1>5. g = [t \in SUBSET (1 .. n0) |-> value(g, t)]
  BY <1>4 DEF IsByteFold
<1>6. ASSUME NEW t \in SUBSET (1 .. n0 + 1)
      PROVE  h[t] = value(h, t)
  <2>1. CASE n0 + 1 \in t
    <3>1. top(t) = n0 + 1
      <4>1. \A y \in t : n0 + 1 >= y
        OBVIOUS
      <4>2. \A x \in t : (\A y \in t : x >= y) => x = n0 + 1
        BY <2>1
      <4> QED
        BY <2>1, <4>1, <4>2
    <3> HIDE DEF top
    <3>2. t \ {n0 + 1} \in SUBSET (1 .. n0 + 1) /\ n0 + 1 \notin t \ {n0 + 1}
      OBVIOUS
    <3>3. h[t \ {n0 + 1}] = g[t \ {n0 + 1}]
      BY <3>2
    <3>4. h[t] = g[t \ {n0 + 1}] + s[n0 + 1].width
      BY <2>1
    <3> QED
      BY <2>1, <3>1, <3>3, <3>4
  <2>2. CASE n0 + 1 \notin t
    <3> DEFINE r == t \ {top(t)}
    <3> HIDE DEF top
    <3>0. t \in SUBSET (1 .. n0)
      BY <2>2
    <3>1. r \in SUBSET (1 .. n0 + 1) /\ n0 + 1 \notin r
      BY <2>2
    <3>2. h[t] = g[t] /\ h[r] = g[r]
      BY <2>2, <3>1
    <3>3. g[t] = value(g, t)
      BY <1>5, <3>0
    <3> QED
      BY <3>2, <3>3
  <2> QED
    BY <2>1, <2>2
<1>7. h = [t \in SUBSET (1 .. n0 + 1) |-> h[t]]
  OBVIOUS
<1>8. h = [t \in SUBSET (1 .. n0 + 1) |-> value(h, t)]
  <2> HIDE DEF h, value
  <2> QED
    BY <1>6, <1>7
<1>9. IsByteFold(h, n0 + 1, s)
  BY <1>8 DEF IsByteFold
<1> QED
  BY <1>3, <1>9

LEMMA BytesAreChars ==
  ASSUME NEW s \in ListOf(Chars)
  PROVE  Bytes(s) = Len(s)
<1> DEFINE n == Len(s)
           g == CHOOSE g : IsByteFold(g, n, s)
           T == {k \in 0 .. n : g[1 .. k] # k}
<1>0. n \in Nat /\ DOMAIN s = 1 .. n /\ \A i \in 1 .. n : s[i] \in Chars
  BY ListTyped
<1>1. IsByteFold(g, n, s)
  BY <1>0, ByteFoldIs
<1>2. Bytes(s) = g[1 .. n]
  BY <1>0 DEF Bytes, FoldLeft, MapThenFoldSet, Max, IsByteFold
<1> HIDE DEF g, n
<1>3. g[{}] = 0
  BY <1>1 DEF IsByteFold
<1>4. ASSUME NEW k \in 1 .. n
      PROVE  g[1 .. k] = g[1 .. k - 1] + 1
  <2>1. (CHOOSE x \in 1 .. k : \A y \in 1 .. k : x >= y) = k
    BY <1>0
  <2>2. (1 .. k) \ {k} = 1 .. k - 1 /\ 1 .. k # {} /\ 1 .. k \in SUBSET (1 .. n)
    BY <1>0
  <2>3. s[k].width = 1
    BY <1>0 DEF Chars
  <2>4. \A t \in SUBSET (1 .. n) : t # {} =>
          g[t] = LET x == CHOOSE x \in t : \A y \in t : x >= y
                 IN  g[t \ {x}] + s[x].width
    BY <1>1 DEF IsByteFold
  <2>5. g[1 .. k] = g[(1 .. k) \ {k}] + s[k].width
    BY <2>1, <2>2, <2>4
  <2> QED
    BY <2>2, <2>3, <2>5
<1>5. T = {}
  <2> SUFFICES ASSUME T # {} PROVE FALSE
    OBVIOUS
  <2>1. T \in SUBSET Nat
    BY <1>0
  <2>2. PICK k \in T : \A m \in T : k <= m
    BY <2>1, LeastOf
  <2>3. k # 0
    <3>1. 1 .. 0 = {}
      OBVIOUS
    <3> QED
      BY <1>3, <2>2, <3>1
  <2>4. k \in 1 .. n /\ k - 1 \in 0 .. n /\ k - 1 \notin T
    BY <1>0, <2>2, <2>3
  <2>5. g[1 .. k - 1] = k - 1 /\ g[1 .. k] = g[1 .. k - 1] + 1
    BY <1>4, <2>4
  <2> QED
    BY <2>2, <2>4, <2>5
<1>6. n \in 0 .. n
  BY <1>0
<1>7. g[1 .. n] = n
  BY <1>5, <1>6
<1> QED
  BY <1>2, <1>7 DEF n

\* A chunk is split where it fills the room there is.
LEMMA SplitIs ==
  ASSUME NEW s \in ListOf(Chars), NEW n \in Nat
  PROVE  /\ Split(s, n) \in 0 .. Len(s) /\ Split(s, n) <= n
         /\ Split(s, n) = Len(s) \/ Split(s, n) = n
<1> DEFINE P(m) == /\ Bytes(SubSeq(s, 1, m)) <= n
                   /\ m = Len(s) \/ Bytes(SubSeq(s, 1, m + 1)) > n
<1>1. PICK all \in Nat : all = Len(s)
  BY ListTyped
<1>2. ASSUME NEW m \in 0 .. all
      PROVE  P(m) <=> m <= n /\ (m = all \/ m + 1 > n)
  <2>1. ASSUME NEW i \in Nat, i <= all
        PROVE  Bytes(SubSeq(s, 1, i)) = i
    <3>1. SubSeq(s, 1, i) \in ListOf(Chars) /\ Len(SubSeq(s, 1, i)) = i
      BY <1>1, <2>1, ListBegin
    <3> QED
      BY <3>1, BytesAreChars
  <2>2. Bytes(SubSeq(s, 1, m)) = m
    BY <2>1
  <2>3. m # all => Bytes(SubSeq(s, 1, m + 1)) = m + 1
    <3>1. ASSUME m # all
          PROVE  m + 1 \in Nat /\ m + 1 <= all
      BY <3>1
    <3> QED
      BY <2>1, <3>1
  <2> QED
    BY <1>1, <2>2, <2>3
<1>3. PICK m \in 0 .. all : m <= n /\ (m = all \/ m + 1 > n)
  <2>1. CASE n <= all
    BY <2>1
  <2>2. CASE n > all
    BY <2>2
  <2> QED
    BY <2>1, <2>2
<1>4. Split(s, n) = CHOOSE i \in 0 .. all : P(i)
  BY <1>1 DEF Split
<1> HIDE DEF P
<1>5. Split(s, n) \in 0 .. all /\ P(Split(s, n))
  BY <1>2, <1>3, <1>4
<1>6. Split(s, n) <= n /\ (Split(s, n) = all \/ Split(s, n) + 1 > n)
  BY <1>2, <1>5
<1> HIDE DEF Split
<1> QED
  BY <1>1, <1>5, <1>6

\* The end of a text that fits.
LEMMA EndOfIs ==
  ASSUME NEW s \in ListOf(Chars), NEW n \in Nat
  PROVE  \E k \in 0 .. Len(s) :
           /\ k <= n /\ (k = Len(s) \/ k = n)
           /\ EndOf(s, n) \in ListOf(Chars) /\ Len(EndOf(s, n)) = k
           /\ \A i \in 1 .. k : EndOf(s, n)[i] = s[Len(s) - k + i]
<1> DEFINE whole(m) == Bytes(SubSeq(s, m, Len(s))) <= n
           P(m) == whole(m) /\ (m = 1 \/ ~whole(m - 1))
           from == CHOOSE m \in 1 .. Len(s) + 1 : P(m)
<1>1. PICK all \in Nat : all = Len(s)
  BY ListTyped
<1>2. ASSUME NEW m \in Nat, m <= all
      PROVE  /\ SubSeq(s, m + 1, all) \in ListOf(Chars)
             /\ Len(SubSeq(s, m + 1, all)) = all - m
             /\ Bytes(SubSeq(s, m + 1, all)) = all - m
             /\ \A i \in 1 .. all - m : SubSeq(s, m + 1, all)[i] = s[m + i]
  <2>1. /\ SubSeq(s, m + 1, all) \in ListOf(Chars)
        /\ Len(SubSeq(s, m + 1, all)) = all - m
        /\ \A i \in 1 .. all - m : SubSeq(s, m + 1, all)[i] = s[m + i]
    <3>1. all <= Len(s)
      BY <1>1
    <3> QED
      BY <1>2, <3>1, ListCut
  <2> QED
    BY <2>1, BytesAreChars
<1>3. ASSUME NEW m \in 1 .. all + 1
      PROVE  whole(m) <=> all - (m - 1) <= n
  <2>1. PICK j \in Nat : m = j + 1 /\ j <= all /\ j = m - 1
    <3>1. m - 1 \in Nat /\ m = (m - 1) + 1 /\ m - 1 <= all
      OBVIOUS
    <3> QED
      BY <3>1
  <2>2. Bytes(SubSeq(s, j + 1, all)) = all - j
    BY <1>2, <2>1
  <2> QED
    BY <1>1, <2>1, <2>2
<1> HIDE DEF whole
<1>4. PICK m \in 1 .. all + 1 : all - (m - 1) <= n /\ (m = 1 \/ ~(all - (m - 2) <= n))
  <2>1. CASE all <= n
    BY <2>1
  <2>2. CASE all > n
    <3>1. /\ all - n + 1 \in 1 .. all + 1
          /\ all - ((all - n + 1) - 1) <= n /\ ~(all - ((all - n + 1) - 2) <= n)
      BY <2>2
    <3> QED
      BY <3>1
  <2> QED
    BY <2>1, <2>2
<1>5. P(m)
  <2>1. m # 1 => m - 1 \in 1 .. all + 1 /\ (m - 1) - 1 = m - 2
    OBVIOUS
  <2> QED
    BY <1>3, <1>4, <2>1
<1>6. from \in 1 .. all + 1 /\ P(from)
  <2> HIDE DEF P
  <2> QED
    BY <1>1, <1>4, <1>5
<1>7. EndOf(s, n) = SubSeq(s, from, all)
  BY <1>1 DEF EndOf, whole
<1> HIDE DEF from
<1>8. all - (from - 1) <= n /\ (from = 1 \/ ~(all - (from - 2) <= n))
  <2>1. from # 1 => from - 1 \in 1 .. all + 1 /\ (from - 1) - 1 = from - 2
    BY <1>6
  <2> QED
    BY <1>3, <1>6, <2>1
<1>9. PICK j \in Nat : from = j + 1 /\ j <= all
  <2>1. from - 1 \in Nat /\ from = (from - 1) + 1 /\ from - 1 <= all
    BY <1>6
  <2> QED
    BY <2>1
<1>10. PICK k \in 0 .. all : k = all - j /\ j = all - k /\ k <= n /\ (k = all \/ k = n)
  <2>1. /\ all - j \in 0 .. all /\ j = all - (all - j) /\ all - j <= n
        /\ all - j = all \/ all - j = n
    BY <1>8, <1>9
  <2> QED
    BY <2>1
<1>11. /\ EndOf(s, n) \in ListOf(Chars)
       /\ Len(EndOf(s, n)) = k
       /\ \A i \in 1 .. k : EndOf(s, n)[i] = s[all - k + i]
  BY <1>2, <1>7, <1>9, <1>10
<1> QED
  BY <1>1, <1>10, <1>11

-----------------------------------------------------------------------------
(* A beginning and an end of the output                                    *)

StartsWith(out, s) ==
  /\ s \in ListOf(Chars) /\ Len(s) <= Len(out)
  /\ \A i \in 1 .. Len(s) : s[i] = out[i]

EndsWith(out, s) ==
  /\ s \in ListOf(Chars) /\ Len(s) <= Len(out)
  /\ \A i \in 1 .. Len(s) : s[i] = out[Len(out) - Len(s) + i]

LEMMA StartsStill ==
  ASSUME NEW out \in ListOf(Chars), NEW s, StartsWith(out, s), NEW more \in ListOf(Chars)
  PROVE  StartsWith(out \o more, s)
<1>1. PICK all, n, m \in Nat : all = Len(out) /\ n = Len(s) /\ m = Len(more)
  BY ListTyped DEF StartsWith
<1>2. Len(out \o more) = Len(out) + Len(more) /\ \A i \in 1 .. Len(out) : (out \o more)[i] = out[i]
  BY ListJoined
<1>3. n <= all /\ n <= all + m /\ \A i \in 1 .. n : i \in 1 .. all
  BY <1>1 DEF StartsWith
<1> DEFINE t == out \o more
<1> HIDE DEF t
<1>4. Len(t) = all + m /\ \A i \in 1 .. n : t[i] = out[i]
  BY <1>1, <1>2, <1>3 DEF t
<1>5. StartsWith(t, s)
  BY <1>1, <1>3, <1>4 DEF StartsWith
<1> QED
  BY <1>5 DEF t

LEMMA EndsStill ==
  ASSUME NEW out \in ListOf(Chars), NEW s, EndsWith(out, s), NEW more \in ListOf(Chars)
  PROVE  EndsWith(out \o more, s \o more)
<1>1. PICK all, n, m \in Nat : all = Len(out) /\ n = Len(s) /\ m = Len(more)
  BY ListTyped DEF EndsWith
<1> DEFINE t == out \o more
           u == s \o more
<1>2. /\ t \in ListOf(Chars) /\ Len(t) = Len(out) + Len(more)
      /\ \A i \in 1 .. Len(out) : t[i] = out[i]
      /\ \A i \in 1 .. Len(more) : t[Len(out) + i] = more[i]
  BY ListJoined
<1>3. /\ u \in ListOf(Chars) /\ Len(u) = Len(s) + Len(more)
      /\ \A i \in 1 .. Len(s) : u[i] = s[i]
      /\ \A i \in 1 .. Len(more) : u[Len(s) + i] = more[i]
  <2>1. s \in ListOf(Chars)
    BY DEF EndsWith
  <2> QED
    BY <2>1, ListJoined
<1> HIDE DEF t, u
<1>4. n <= all /\ \A i \in 1 .. n : s[i] = out[all - n + i]
  BY <1>1 DEF EndsWith
<1>5. ASSUME NEW i \in 1 .. n + m
      PROVE  u[i] = t[(all + m) - (n + m) + i]
  <2>1. CASE i <= n
    <3>1. /\ i \in 1 .. n /\ all - n + i \in 1 .. all
          /\ (all + m) - (n + m) + i = all - n + i
      BY <1>4, <2>1
    <3>2. u[i] = s[i] /\ s[i] = out[all - n + i]
      BY <1>1, <1>3, <1>4, <3>1
    <3>3. t[all - n + i] = out[all - n + i]
      BY <1>1, <1>2, <3>1
    <3> QED
      BY <3>1, <3>2, <3>3
  <2>2. CASE i > n
    <3>1. PICK j \in 1 .. m : i = n + j /\ (all + m) - (n + m) + i = all + j
      <4>1. /\ i - n \in 1 .. m /\ i = n + (i - n)
            /\ (all + m) - (n + m) + i = all + (i - n)
        BY <1>4, <2>2
      <4> QED
        BY <4>1
    <3> QED
      BY <1>1, <1>2, <1>3, <3>1
  <2> QED
    BY <2>1, <2>2
<1>6. Len(u) = n + m /\ Len(t) = all + m /\ n + m <= all + m
  BY <1>1, <1>2, <1>3, <1>4
<1>7. EndsWith(t, u)
  BY <1>3, <1>5, <1>6 DEF EndsWith
<1> QED
  BY <1>7 DEF t, u

\* The end of an end is one.
LEMMA EndsShorter ==
  ASSUME NEW out \in ListOf(Chars), NEW s, EndsWith(out, s), NEW n \in Nat
  PROVE  /\ EndsWith(out, EndOf(s, n)) /\ Len(EndOf(s, n)) <= n
         /\ Len(EndOf(s, n)) = Len(s) \/ Len(EndOf(s, n)) = n
<1>1. PICK all, m \in Nat : all = Len(out) /\ m = Len(s)
  BY ListTyped DEF EndsWith
<1>2. PICK k \in 0 .. m :
        /\ k <= n /\ (k = m \/ k = n)
        /\ EndOf(s, n) \in ListOf(Chars) /\ Len(EndOf(s, n)) = k
        /\ \A i \in 1 .. k : EndOf(s, n)[i] = s[m - k + i]
  <2>1. s \in ListOf(Chars)
    BY DEF EndsWith
  <2> QED
    BY <1>1, <2>1, EndOfIs
<1>3. PICK e : e = EndOf(s, n)
  OBVIOUS
<1>4. m <= all /\ \A i \in 1 .. m : s[i] = out[all - m + i]
  BY <1>1 DEF EndsWith
<1>5. ASSUME NEW i \in 1 .. k
      PROVE  e[i] = out[all - k + i]
  <2>1. m - k + i \in 1 .. m /\ all - m + (m - k + i) = all - k + i
    BY <1>4
  <2>2. e[i] = s[m - k + i]
    BY <1>2, <1>3
  <2>3. s[m - k + i] = out[all - m + (m - k + i)]
    BY <1>4, <2>1
  <2> QED
    BY <2>1, <2>2, <2>3
<1>6. Len(e) = k /\ k <= all /\ e \in ListOf(Chars)
  BY <1>2, <1>3, <1>4
<1>7. EndsWith(out, e)
  BY <1>1, <1>5, <1>6 DEF EndsWith
<1> QED
  BY <1>1, <1>2, <1>3, <1>7

-----------------------------------------------------------------------------
(* The buffer                                                              *)

\* Each end is as long as it may be: nothing that fits is dropped.
RoomUsed ==
  truncated => /\ Len(head) = Limit /\ Len(tail) <= Limit
               /\ Len(tail) = Limit \/ Len(head) + Len(tail) = Len(output)

BufferInv ==
  /\ output \in ListOf(Chars)
  /\ StartsWith(output, head) /\ EndsWith(output, tail)
  /\ Len(head) <= Limit /\ Len(head) + Len(tail) <= Len(output)
  /\ truncated \in BOOLEAN
  /\ ~truncated => Len(head) = Len(output) /\ Len(tail) = 0
  /\ RoomUsed

LEMMA BufferInitial == OutputBufferInit => BufferInv
<1> SUFFICES ASSUME OutputBufferInit PROVE BufferInv
  OBVIOUS
<1>1. <<>> \in ListOf(Chars) /\ Len(<<>>) = 0
  BY ListEmpty
<1>2. output = <<>> /\ head = <<>> /\ tail = <<>> /\ truncated = FALSE
  BY DEF OutputBufferInit
<1>3. StartsWith(<<>>, <<>>) /\ EndsWith(<<>>, <<>>)
  <2>1. 0 <= 0 /\ 1 .. 0 = {}
    OBVIOUS
  <2> QED
    BY <1>1, <2>1 DEF StartsWith, EndsWith
<1>4. Limit \in Nat /\ 0 <= Limit /\ 0 + 0 <= 0
  BY OutputBufferAssumption
<1> QED
  BY <1>1, <1>2, <1>3, <1>4 DEF BufferInv, RoomUsed

\* What a command writes is a chunk of at least one character.
LEMMA ChunkTyped ==
  ASSUME BufferInv, MaxWidth = 1, NEW chunk \in Chunks
  PROVE  chunk \in ListOf(Chars) /\ Len(chunk) > 0
<1>1. PICK all \in Nat : all = Len(output)
  BY ListTyped DEF BufferInv
<1>2. PICK size \in 1 .. MaxOutput - all, w \in [1 .. MaxOutput -> 1 .. 1] :
        chunk = [n \in 1 .. size |-> [at |-> all + n, width |-> w[n]]]
  BY <1>1 DEF Chunks
<1>3. size \in Nat /\ size > 0 /\ \A n \in 1 .. size : all + n \in Nat /\ n \in 1 .. MaxOutput
  BY <1>1, <1>2, OutputBufferAssumption
<1>4. \A n \in 1 .. size : w[n] = 1
  <2>1. 1 .. 1 = {1}
    OBVIOUS
  <2>2. \A n \in 1 .. MaxOutput : w[n] \in 1 .. 1
    BY <1>2
  <2> QED
    BY <1>3, <2>1, <2>2
<1>5. \A n \in 1 .. size : [at |-> all + n, width |-> w[n]] \in Chars
  BY <1>3, <1>4 DEF Chars
<1>6. chunk \in [1 .. size -> Chars]
  BY <1>2, <1>5
<1> QED
  BY <1>3, <1>6, ListMade

LEMMA BufferStep ==
  ASSUME BufferInv, MaxWidth = 1, [OutputBufferNext]_outputBufferVars
  PROVE  BufferInv'
<1>0. CASE UNCHANGED outputBufferVars
  BY <1>0 DEF outputBufferVars, BufferInv, RoomUsed
<1>1. ASSUME NEW chunk \in Chunks, output' = output \o chunk, Push(chunk)
      PROVE  BufferInv'
  <2>1. PICK more \in ListOf(Chars) : more = chunk /\ Len(more) > 0
    BY <1>1, ChunkTyped
  <2>2. PICK all, h, t, c, limit \in Nat :
          /\ all = Len(output) /\ h = Len(head) /\ t = Len(tail) /\ c = Len(more)
          /\ limit = Limit
    <3>1. output \in ListOf(Chars) /\ head \in ListOf(Chars) /\ tail \in ListOf(Chars)
      BY DEF BufferInv, StartsWith, EndsWith
    <3>2. Limit \in Nat
      BY OutputBufferAssumption
    <3> QED
      BY <3>1, <3>2, ListTyped
  <2>3. /\ h <= limit /\ h + t <= all /\ c > 0
        /\ ~truncated => h = all /\ t = 0
        /\ truncated => h = limit /\ t <= limit /\ (t = limit \/ h + t = all)
    BY <2>1, <2>2 DEF BufferInv, RoomUsed
  <2>4. /\ output \in ListOf(Chars) /\ StartsWith(output, head) /\ EndsWith(output, tail)
        /\ head \in ListOf(Chars) /\ tail \in ListOf(Chars)
    BY DEF BufferInv, StartsWith, EndsWith
  <2>5. Bytes(head) = h /\ Bytes(chunk) = c
    BY <2>1, <2>2, <2>4, BytesAreChars
  <2>6. output' \in ListOf(Chars) /\ Len(output') = all + c
    BY <1>1, <2>1, <2>2, <2>4, ListJoined
  <2>7. StartsWith(output', head)
    BY <1>1, <2>1, <2>4, StartsStill
  <2>8. CASE h < limit /\ c <= limit - h
    <3>1. head' = head \o more /\ tail' = tail /\ truncated' = truncated
      BY <1>1, <2>1, <2>2, <2>5, <2>8 DEF Push
    <3>2. ~truncated
      BY <2>3, <2>8
    <3>3. head = output
      <4>1. Len(head) = Len(output) /\ \A i \in 1 .. Len(head) : head[i] = output[i]
        BY <2>2, <2>3, <3>2, <2>4 DEF StartsWith
      <4> QED
        BY <2>4, <4>1, ListSame
    <3>4. head' = output'
      BY <1>1, <2>1, <3>1, <3>3
    <3>5. StartsWith(output', head') /\ Len(head') = all + c
      <4>1. all + c <= all + c
        OBVIOUS
      <4> QED
        BY <2>6, <3>4, <4>1 DEF StartsWith
    <3>6. EndsWith(output', tail')
      <4>1. Len(tail) = 0 /\ 0 <= all + c /\ 1 .. 0 = {}
        BY <2>2, <2>3, <3>2
      <4> QED
        BY <2>4, <2>6, <3>1, <4>1 DEF EndsWith
    <3>7. /\ Len(tail') = 0 /\ all + c <= limit /\ all + c + 0 <= all + c
      BY <2>2, <2>3, <2>8, <3>1, <3>2
    <3>8. ~truncated' /\ truncated' \in BOOLEAN
      BY <3>1, <3>2 DEF BufferInv
    <3> QED
      BY <2>2, <2>6, <3>5, <3>6, <3>7, <3>8 DEF BufferInv, RoomUsed
  <2>9. CASE h < limit /\ ~(c <= limit - h)
    <3> DEFINE split == Split(chunk, Limit - Bytes(head))
    <3>1. /\ truncated' = TRUE
          /\ head' = head \o SubSeq(chunk, 1, split)
          /\ tail' = PushTail(SubSeq(chunk, split + 1, Len(chunk)))
      BY <1>1, <2>2, <2>5, <2>9 DEF Push
    <3>2. PICK room \in Nat : room = limit - h /\ room <= c /\ h + room = limit
      <4>1. limit - h \in Nat /\ limit - h <= c /\ h + (limit - h) = limit
        BY <2>9
      <4> QED
        BY <4>1
    <3>3. split = room
      <4>1. split = Split(more, room)
        BY <2>1, <2>2, <2>5, <3>2
      <4>2. split \in 0 .. c /\ split <= room /\ (split = c \/ split = room)
        <5> HIDE DEF split
        <5> QED
          BY <2>2, <4>1, SplitIs
      <4> HIDE DEF split
      <4> QED
        BY <3>2, <4>2
    <3> HIDE DEF split
    <3> DEFINE first == SubSeq(more, 1, room)
               rest == SubSeq(more, room + 1, c)
    <3>4. /\ first \in ListOf(Chars) /\ Len(first) = room
          /\ rest \in ListOf(Chars) /\ Len(rest) = c - room
          /\ more = first \o rest
      <4>1. first \in ListOf(Chars) /\ Len(first) = room /\ \A i \in 1 .. room : first[i] = more[i]
        BY <2>2, <3>2, ListBegin
      <4>2. /\ rest \in ListOf(Chars) /\ Len(rest) = c - room
            /\ \A i \in 1 .. c - room : rest[i] = more[room + i]
        <5>1. c <= Len(more)
          BY <2>2
        <5> QED
          BY <3>2, <5>1, ListCut
      <4> HIDE DEF first, rest
      <4> DEFINE u == first \o rest
      <4>3. first \in ListOf(Chars) /\ rest \in ListOf(Chars)
        BY <4>1, <4>2
      <4>4. /\ u \in ListOf(Chars) /\ Len(u) = Len(first) + Len(rest)
            /\ \A i \in 1 .. Len(first) : u[i] = first[i]
            /\ \A i \in 1 .. Len(rest) : u[Len(first) + i] = rest[i]
        BY <4>3, ListJoined
      <4> HIDE DEF u
      <4>5. /\ Len(u) = c /\ \A i \in 1 .. room : u[i] = more[i]
            /\ \A i \in 1 .. c - room : u[room + i] = more[room + i]
        <5>1. room + (c - room) = c
          BY <3>2
        <5> QED
          BY <4>1, <4>2, <4>4, <5>1
      <4>6. ASSUME NEW i \in 1 .. c
            PROVE  u[i] = more[i]
        <5>1. CASE i <= room
          <6>1. i \in 1 .. room
            BY <5>1
          <6> QED
            BY <4>5, <6>1
        <5>2. CASE i > room
          <6>1. i - room \in 1 .. c - room /\ room + (i - room) = i
            BY <3>2, <5>2
          <6> QED
            BY <4>5, <6>1
        <5> QED
          BY <5>1, <5>2
      <4>7. u = more
        BY <2>2, <4>4, <4>5, <4>6, ListSame
      <4> QED
        BY <4>1, <4>2, <4>7 DEF u
    <3>5. head' = head \o first /\ tail' = EndOf(tail \o rest, limit)
      BY <2>1, <2>2, <3>1, <3>3 DEF PushTail
    <3> HIDE DEF first, rest
    <3>6. ~truncated
      BY <2>3, <2>9
    <3>7. head = output
      <4>1. Len(head) = Len(output) /\ \A i \in 1 .. Len(head) : head[i] = output[i]
        BY <2>2, <2>3, <3>6, <2>4 DEF StartsWith
      <4> QED
        BY <2>4, <4>1, ListSame
    <3>8. PICK begun \in ListOf(Chars) : begun = output \o first /\ Len(begun) = all + room
      BY <2>2, <2>4, <3>4, ListJoined
    <3>9. output' = begun \o rest
      <4>0. output \in ListOf(Chars) /\ first \in ListOf(Chars) /\ rest \in ListOf(Chars)
        BY <2>4, <3>4
      <4>1. output \o (first \o rest) = (output \o first) \o rest
        BY <4>0, ListOrder
      <4> QED
        BY <1>1, <2>1, <3>4, <3>8, <4>1
    <3>10. head' = begun /\ Len(head') = limit
      <4>1. all + room = limit
        BY <2>3, <3>2, <3>6
      <4> QED
        BY <3>5, <3>7, <3>8, <4>1
    <3>11. StartsWith(output', head')
      <4>1. StartsWith(begun, begun)
        <5>1. Len(begun) \in Nat
          BY ListTyped
        <5>2. Len(begun) <= Len(begun)
          BY <5>1
        <5> QED
          BY <5>2 DEF StartsWith
      <4> QED
        BY <3>4, <3>8, <3>9, <3>10, <4>1, StartsStill
    <3>12. EndsWith(begun, tail)
      <4>1. Len(tail) = 0 /\ 0 <= all + room /\ 1 .. 0 = {}
        BY <2>2, <2>3, <3>6
      <4> QED
        BY <2>4, <3>8, <4>1 DEF EndsWith
    <3>13. EndsWith(output', tail \o rest)
      BY <3>4, <3>8, <3>9, <3>12, EndsStill
    <3>14. Len(tail \o rest) = c - room
      <4>1. Len(tail \o rest) = Len(tail) + Len(rest)
        BY <2>4, <3>4, ListJoined
      <4>2. 0 + (c - room) = c - room
        BY <3>2
      <4> QED
        BY <2>2, <2>3, <3>4, <3>6, <4>1, <4>2
    <3>15. PICK k \in Nat : k = Len(tail')
      <4>1. EndsWith(output', tail')
        BY <2>6, <3>5, <3>13, EndsShorter
      <4> QED
        BY <4>1, ListTyped DEF EndsWith
    <3>16. EndsWith(output', tail') /\ k <= limit /\ (k = c - room \/ k = limit)
      BY <2>6, <3>5, <3>13, <3>14, <3>15, EndsShorter
    <3>17. k <= c - room
      <4>1. EndsWith(tail \o rest, tail \o rest)
        <5>1. tail \o rest \in ListOf(Chars)
          BY <2>4, <3>4, ListJoined
        <5> DEFINE x == tail \o rest
        <5> HIDE DEF x
        <5>2. PICK n \in Nat : n = Len(x)
          BY <5>1, ListTyped DEF x
        <5>3. n <= n /\ \A i \in 1 .. n : n - n + i = i
          OBVIOUS
        <5>4. EndsWith(x, x)
          BY <5>1, <5>2, <5>3 DEF EndsWith, x
        <5> QED
          BY <5>4 DEF x
      <4>2. EndsWith(tail \o rest, tail')
        <5>1. tail \o rest \in ListOf(Chars)
          BY <4>1 DEF EndsWith
        <5> QED
          BY <3>5, <4>1, <5>1, EndsShorter
      <4> QED
        BY <3>14, <3>15, <4>2 DEF EndsWith
    <3>18. limit + k <= all + c /\ (k = limit \/ limit + k = all + c) /\ limit <= limit
      BY <2>3, <3>2, <3>6, <3>16, <3>17
    <3> QED
      BY <2>2, <2>6, <3>1, <3>10, <3>11, <3>15, <3>16, <3>18 DEF BufferInv, RoomUsed
  <2>10. CASE ~(h < limit)
    <3>1. truncated' = TRUE /\ head' = head /\ tail' = EndOf(tail \o more, limit)
      BY <1>1, <2>1, <2>2, <2>5, <2>10 DEF Push, PushTail
    <3>2. h = limit
      BY <2>3, <2>10
    <3>3. EndsWith(output', tail \o more)
      BY <1>1, <2>1, <2>4, EndsStill
    <3>4. Len(tail \o more) = t + c
      BY <2>2, <2>4, ListJoined
    <3>5. EndsWith(output', tail')
      BY <2>6, <3>1, <3>3, EndsShorter
    <3>6. PICK k \in Nat : k = Len(tail')
      BY <3>5, ListTyped DEF EndsWith
    <3>7. k <= limit /\ (k = t + c \/ k = limit)
      BY <2>6, <3>1, <3>3, <3>4, <3>6, EndsShorter
    <3>8. k <= t + c
      <4>1. PICK x \in ListOf(Chars) : x = tail \o more
        BY <2>4, ListJoined
      <4>2. PICK n \in Nat : n = Len(x)
        BY <4>1, ListTyped
      <4>3. n <= n /\ \A i \in 1 .. n : n - n + i = i
        OBVIOUS
      <4>4. EndsWith(x, x)
        BY <4>2, <4>3 DEF EndsWith
      <4>5. EndsWith(x, tail')
        BY <3>1, <4>1, <4>4, EndsShorter
      <4> QED
        BY <3>4, <3>6, <4>1, <4>5 DEF EndsWith
    <3>9. limit + k <= all + c /\ (k = limit \/ limit + k = all + c)
      BY <2>3, <2>10, <3>2, <3>7, <3>8
    <3> QED
      BY <2>2, <2>6, <2>7, <3>1, <3>2, <3>5, <3>6, <3>7, <3>9 DEF BufferInv, RoomUsed
  <2> QED
    BY <2>8, <2>9, <2>10
<1> QED
  BY <1>0, <1>1 DEF OutputBufferNext

\* A beginning and an end, as the module states them.
LEMMA EndsAreKept == BufferInv => EndsKept
<1> SUFFICES ASSUME BufferInv PROVE EndsKept
  OBVIOUS
<1>1. /\ output \in ListOf(Chars) /\ head \in ListOf(Chars) /\ tail \in ListOf(Chars)
      /\ Len(head) + Len(tail) <= Len(output)
  BY DEF BufferInv, StartsWith, EndsWith
<1>2. PICK all, h, t \in Nat : all = Len(output) /\ h = Len(head) /\ t = Len(tail)
  BY <1>1, ListTyped
<1>3. h <= all /\ t <= all /\ h <= h
  BY <1>2 DEF BufferInv, StartsWith, EndsWith
<1>4. /\ \A i \in 1 .. h : head[i] = output[i]
      /\ \A i \in 1 .. t : tail[i] = output[all - t + i]
  BY <1>2 DEF BufferInv, StartsWith, EndsWith
<1>5. SubSeq(head, 1, h) = SubSeq(output, 1, h)
  <2>1. /\ SubSeq(head, 1, h) \in ListOf(Chars) /\ Len(SubSeq(head, 1, h)) = h
        /\ \A i \in 1 .. h : SubSeq(head, 1, h)[i] = head[i]
    BY <1>1, <1>2, <1>3, ListBegin
  <2>2. /\ SubSeq(output, 1, h) \in ListOf(Chars) /\ Len(SubSeq(output, 1, h)) = h
        /\ \A i \in 1 .. h : SubSeq(output, 1, h)[i] = output[i]
    BY <1>1, <1>2, <1>3, ListBegin
  <2> QED
    BY <1>4, <2>1, <2>2, ListSame
<1>6. IsPrefix(head, output)
  BY <1>2, <1>3, <1>5 DEF IsPrefix
<1> DEFINE a == Reverse(tail)
           b == Reverse(output)
<1>7. /\ a \in ListOf(Chars) /\ Len(a) = t
      /\ \A i \in 1 .. t : a[i] = tail[(t - i) + 1]
  <2>1. \A i \in 1 .. t : (t - i) + 1 \in 1 .. t
    OBVIOUS
  <2>2. a = [i \in 1 .. t |-> tail[(t - i) + 1]]
    BY <1>2 DEF Reverse
  <2>3. \A i \in 1 .. t : tail[i] \in Chars
    BY <1>1, <1>2, ListTyped
  <2>4. a \in [1 .. t -> Chars]
    BY <2>1, <2>2, <2>3
  <2> QED
    BY <2>2, <2>4, ListMade
<1>8. /\ b \in ListOf(Chars) /\ Len(b) = all
      /\ \A i \in 1 .. all : b[i] = output[(all - i) + 1]
  <2>1. \A i \in 1 .. all : (all - i) + 1 \in 1 .. all
    OBVIOUS
  <2>2. b = [i \in 1 .. all |-> output[(all - i) + 1]]
    BY <1>2 DEF Reverse
  <2>3. \A i \in 1 .. all : output[i] \in Chars
    BY <1>1, <1>2, ListTyped
  <2>4. b \in [1 .. all -> Chars]
    BY <2>1, <2>2, <2>3
  <2> QED
    BY <2>2, <2>4, ListMade
<1> HIDE DEF a, b
<1>9. ASSUME NEW i \in 1 .. t
      PROVE  a[i] = b[i]
  <2>1. /\ (t - i) + 1 \in 1 .. t /\ i \in 1 .. all
        /\ all - t + ((t - i) + 1) = (all - i) + 1
    BY <1>3
  <2>2. tail[(t - i) + 1] = output[all - t + ((t - i) + 1)]
    BY <1>4, <2>1
  <2> QED
    BY <1>7, <1>8, <2>1, <2>2
<1>10. SubSeq(a, 1, t) = SubSeq(b, 1, t)
  <2>0. t <= t
    OBVIOUS
  <2>1. /\ SubSeq(a, 1, t) \in ListOf(Chars) /\ Len(SubSeq(a, 1, t)) = t
        /\ \A i \in 1 .. t : SubSeq(a, 1, t)[i] = a[i]
    BY <1>7, <2>0, ListBegin
  <2>2. /\ SubSeq(b, 1, t) \in ListOf(Chars) /\ Len(SubSeq(b, 1, t)) = t
        /\ \A i \in 1 .. t : SubSeq(b, 1, t)[i] = b[i]
    BY <1>3, <1>8, ListBegin
  <2> QED
    BY <1>9, <2>1, <2>2, ListSame
<1>11. IsSuffix(tail, output)
  BY <1>3, <1>7, <1>8, <1>10 DEF IsSuffix, IsPrefix, a, b
<1>12. ~truncated => head = output
  <2> SUFFICES ASSUME ~truncated PROVE head = output
    OBVIOUS
  <2>1. Len(head) = Len(output) /\ \A i \in 1 .. Len(head) : head[i] = output[i]
    BY <1>2, <1>4 DEF BufferInv
  <2> QED
    BY <1>1, <2>1, ListSame
<1> QED
  BY <1>1, <1>6, <1>11, <1>12 DEF EndsKept

LEMMA EndsAreFull == BufferInv => EndsFull
<1> SUFFICES ASSUME BufferInv PROVE EndsFull
  OBVIOUS
<1>1. /\ head \in ListOf(Chars) /\ tail \in ListOf(Chars) /\ Limit \in Nat
      /\ Bytes(head) = Len(head) /\ Bytes(tail) = Len(tail)
  BY BytesAreChars, OutputBufferAssumption DEF BufferInv, StartsWith, EndsWith
<1>2. PICK h, t \in Nat : h = Len(head) /\ t = Len(tail)
  BY <1>1, ListTyped
<1> QED
  BY <1>1, <1>2 DEF BufferInv, RoomUsed, EndsFull

\* Whatever the chunks a command writes, what is kept of its output is the beginning and
\* the end of it, as much of both as fits (BoundedBuffer, process.rs), where every
\* character is one byte.
THEOREM OutputEndsKept ==
  ASSUME MaxWidth = 1
  PROVE  OutputBufferSpec => [](EndsKept /\ EndsFull)
<1>1. BufferInv /\ [OutputBufferNext]_outputBufferVars => BufferInv'
  BY BufferStep
<1>2. BufferInv => EndsKept /\ EndsFull
  BY EndsAreKept, EndsAreFull
<1> QED
  BY <1>1, <1>2, BufferInitial, PTL DEF OutputBufferSpec

-----------------------------------------------------------------------------
(* The bytes of the lines                                                  *)

\* The j-th byte the server sends.
ByteAt(j) ==
  CHOOSE b : \E k \in Nat, p \in 1 .. 3 :
    j = 3 * k + p /\ b = <<k + 1, IF p = 3 THEN 0 ELSE p>>

LEMMA BytesOfLine ==
  ASSUME NEW k \in Nat
  PROVE  /\ ByteAt(3 * k + 1) = <<k + 1, 1>>
         /\ ByteAt(3 * k + 2) = <<k + 1, 2>>
         /\ ByteAt(3 * k + 3) = <<k + 1, 0>>
<1> SUFFICES ASSUME NEW q \in 1 .. 3
             PROVE  ByteAt(3 * k + q) = <<k + 1, IF q = 3 THEN 0 ELSE q>>
  <2>1. 1 \in 1 .. 3 /\ 2 \in 1 .. 3 /\ 3 \in 1 .. 3
    OBVIOUS
  <2>2. /\ ByteAt(3 * k + 1) = <<k + 1, IF 1 = 3 THEN 0 ELSE 1>>
        /\ ByteAt(3 * k + 2) = <<k + 1, IF 2 = 3 THEN 0 ELSE 2>>
        /\ ByteAt(3 * k + 3) = <<k + 1, IF 3 = 3 THEN 0 ELSE 3>>
    BY <2>1
  <2> QED
    BY <2>2
<1> DEFINE mark(j, p) == <<j + 1, IF p = 3 THEN 0 ELSE p>>
           P(b) == \E j \in Nat, p \in 1 .. 3 : 3 * k + q = 3 * j + p /\ b = mark(j, p)
<1>1. ByteAt(3 * k + q) = CHOOSE b : P(b)
  BY DEF ByteAt
<1>2. ASSUME NEW j \in Nat, NEW p \in 1 .. 3, 3 * k + q = 3 * j + p
      PROVE  j = k /\ p = q
  BY <1>2
<1> HIDE DEF mark
<1>3. P(mark(k, q))
  OBVIOUS
<1>4. \A b : P(b) => b = mark(k, q)
  BY <1>2
<1> HIDE DEF P
<1>5. ByteAt(3 * k + q) = mark(k, q)
  BY <1>1, <1>3, <1>4
<1> QED
  BY <1>5 DEF mark

Marks == Nat \X Nat

\* s is what the server sends after its first off bytes.
Follows(s, off) == s \in ListOf(Marks) /\ \A i \in 1 .. Len(s) : s[i] = ByteAt(off + i)

LEMMA FollowsJoined ==
  ASSUME NEW off \in Nat, NEW s, Follows(s, off), NEW t, Follows(t, off + Len(s))
  PROVE  Follows(s \o t, off) /\ Len(s \o t) = Len(s) + Len(t)
<1>1. PICK m, n \in Nat : m = Len(s) /\ n = Len(t)
  BY ListTyped DEF Follows
<1> DEFINE u == s \o t
<1>2. /\ u \in ListOf(Marks) /\ Len(u) = Len(s) + Len(t)
      /\ \A i \in 1 .. Len(s) : u[i] = s[i]
      /\ \A i \in 1 .. Len(t) : u[Len(s) + i] = t[i]
  <2>1. s \in ListOf(Marks) /\ t \in ListOf(Marks)
    BY DEF Follows
  <2> QED
    BY <2>1, ListJoined
<1> HIDE DEF u
<1>3. /\ \A i \in 1 .. m : s[i] = ByteAt(off + i)
      /\ \A i \in 1 .. n : t[i] = ByteAt(off + m + i)
  BY <1>1 DEF Follows
<1>4. ASSUME NEW i \in 1 .. m + n
      PROVE  u[i] = ByteAt(off + i)
  <2>1. CASE i <= m
    <3>1. i \in 1 .. m
      BY <2>1
    <3> QED
      BY <1>1, <1>2, <1>3, <3>1
  <2>2. CASE i > m
    <3>1. PICK j \in 1 .. n : i = m + j /\ off + i = off + m + j
      <4>1. i - m \in 1 .. n /\ i = m + (i - m) /\ off + i = off + m + (i - m)
        BY <2>2
      <4> QED
        BY <4>1
    <3>2. u[m + j] = t[j] /\ t[j] = ByteAt(off + m + j)
      BY <1>1, <1>2, <1>3
    <3> QED
      BY <3>1, <3>2
  <2> QED
    BY <2>1, <2>2
<1>5. Follows(u, off)
  BY <1>1, <1>2, <1>4 DEF Follows
<1> QED
  BY <1>2, <1>5 DEF u

LEMMA FollowsBegin ==
  ASSUME NEW off \in Nat, NEW s, Follows(s, off), NEW n \in Nat, n <= Len(s)
  PROVE  Follows(SubSeq(s, 1, n), off) /\ Len(SubSeq(s, 1, n)) = n
<1> DEFINE a == SubSeq(s, 1, n)
<1>1. s \in ListOf(Marks)
  BY DEF Follows
<1>2. a \in ListOf(Marks) /\ Len(a) = n /\ \A i \in 1 .. n : a[i] = s[i]
  BY <1>1, ListBegin
<1> HIDE DEF a
<1>3. \A i \in 1 .. n : i \in 1 .. Len(s)
  BY <1>1, ListTyped
<1>4. Follows(a, off)
  BY <1>2, <1>3 DEF Follows
<1> QED
  BY <1>2, <1>4 DEF a

LEMMA FollowsRest ==
  ASSUME NEW off \in Nat, NEW s, Follows(s, off), NEW k \in Nat, 0 < k, k <= Len(s) + 1
  PROVE  /\ Follows(SubSeq(s, k, Len(s)), off + (k - 1))
         /\ Len(SubSeq(s, k, Len(s))) = Len(s) + 1 - k
<1>1. PICK all \in Nat : all = Len(s)
  BY ListTyped DEF Follows
<1> DEFINE b == SubSeq(s, k, all)
<1>2. s \in ListOf(Marks) /\ all <= Len(s) /\ k <= all + 1
  BY <1>1 DEF Follows
<1>3. /\ b \in ListOf(Marks) /\ Len(b) = all + 1 - k
      /\ \A i \in 1 .. all + 1 - k : b[i] = s[(k - 1) + i]
  BY <1>2, ListCut
<1> HIDE DEF b
<1>4. \A i \in 1 .. all : s[i] = ByteAt(off + i)
  BY <1>1 DEF Follows
<1>5. ASSUME NEW i \in 1 .. all + 1 - k
      PROVE  b[i] = ByteAt(off + (k - 1) + i)
  <2>1. (k - 1) + i \in 1 .. all /\ off + ((k - 1) + i) = off + (k - 1) + i
    BY <1>2
  <2>2. s[(k - 1) + i] = ByteAt(off + ((k - 1) + i))
    BY <1>4, <2>1
  <2> QED
    BY <1>3, <2>1, <2>2
<1>6. Follows(b, off + (k - 1))
  BY <1>3, <1>5 DEF Follows
<1> QED
  BY <1>1, <1>3, <1>6 DEF b

\* A line's three bytes.
LineBytes(k) == <<<<k, 1>>, <<k, 2>>, Newline(k)>>

LEMMA LineFollows ==
  ASSUME NEW k \in Nat
  PROVE  Follows(LineBytes(k + 1), 3 * k) /\ Len(LineBytes(k + 1)) = 3
<1> DEFINE s == LineBytes(k + 1)
<1>1. /\ s[1] = <<k + 1, 1>> /\ s[2] = <<k + 1, 2>> /\ s[3] = <<k + 1, 0>>
      /\ DOMAIN s = 1 .. 3
  BY DEF LineBytes, Newline
<1>2. s \in [1 .. 3 -> Marks]
  <2>1. /\ <<k + 1, 1>> \in Marks /\ <<k + 1, 2>> \in Marks /\ <<k + 1, 0>> \in Marks
    BY DEF Marks
  <2>2. s = [i \in 1 .. 3 |-> s[i]]
    BY DEF LineBytes, Newline
  <2> HIDE DEF s
  <2>3. \A i \in 1 .. 3 : s[i] \in Marks
    BY <1>1, <2>1
  <2> QED
    BY <2>2, <2>3
<1> HIDE DEF s
<1>3. s \in ListOf(Marks) /\ Len(s) = 3
  BY <1>2, ListMade
<1>4. \A i \in 1 .. 3 : s[i] = ByteAt(3 * k + i)
  BY <1>1, BytesOfLine
<1>5. Follows(s, 3 * k)
  BY <1>3, <1>4 DEF Follows
<1> QED
  BY <1>3, <1>5 DEF s

\* The first line there is, where a line begins.
LEMMA FirstLine ==
  ASSUME NEW t \in Nat, Follows(partial, 3 * t)
  PROVE  /\ HasLine <=> Len(partial) >= 3
         /\ Len(partial) >= 3 => NewlineAt = 3 /\ SubSeq(partial, 1, 3) = LineBytes(t + 1)
<1>1. PICK all \in Nat : all = Len(partial) /\ DOMAIN partial = 1 .. all
  BY ListTyped DEF Follows
<1>2. /\ 1 <= all => partial[1] = <<t + 1, 1>>
      /\ 2 <= all => partial[2] = <<t + 1, 2>>
      /\ 3 <= all => partial[3] = <<t + 1, 0>>
  <2>1. \A i \in 1 .. all : partial[i] = ByteAt(3 * t + i)
    BY <1>1 DEF Follows
  <2>2. 1 <= all => 1 \in 1 .. all
    OBVIOUS
  <2>3. 2 <= all => 2 \in 1 .. all
    OBVIOUS
  <2>4. 3 <= all => 3 \in 1 .. all
    OBVIOUS
  <2> QED
    BY <2>1, <2>2, <2>3, <2>4, BytesOfLine
<1>3. (\E n \in 1 .. all : partial[n][2] = 0 /\ partial[n][1] # 0) <=> all >= 3
  <2>1. ASSUME all >= 3
        PROVE  3 \in 1 .. all /\ partial[3][2] = 0 /\ partial[3][1] # 0
    <3>1. 3 \in 1 .. all /\ t + 1 # 0
      BY <2>1
    <3> QED
      BY <1>2, <2>1, <3>1
  <2>2. ASSUME ~(all >= 3), NEW n \in 1 .. all
        PROVE  partial[n][2] # 0
    <3>1. (n = 1 /\ 1 <= all) \/ (n = 2 /\ 2 <= all)
      <4>1. all < 3 /\ n <= all /\ n \in Nat /\ n > 0
        BY <2>2
      <4>2. n = 1 \/ n = 2
        BY <4>1
      <4> QED
        BY <4>1, <4>2
    <3> QED
      BY <1>2, <3>1
  <2> QED
    BY <2>1, <2>2
<1>4. ASSUME all >= 3
      PROVE  (CHOOSE n \in 1 .. all :
                partial[n][2] = 0 /\ \A m \in 1 .. n - 1 : partial[m][2] # 0) = 3
  <2> DEFINE P(n) == partial[n][2] = 0 /\ \A m \in 1 .. n - 1 : partial[m][2] # 0
  <2>1. partial[1][2] # 0 /\ partial[2][2] # 0 /\ partial[3][2] = 0
    <3>1. 1 <= all /\ 2 <= all /\ 3 <= all
      BY <1>4
    <3> QED
      BY <1>2, <3>1
  <2>2. 3 \in 1 .. all /\ P(3)
    <3>1. \A m \in 1 .. 3 - 1 : m = 1 \/ m = 2
      OBVIOUS
    <3> QED
      BY <1>4, <2>1, <3>1
  <2>3. ASSUME NEW n \in 1 .. all, P(n)
        PROVE  n = 3
    <3>1. n # 1 /\ n # 2
      BY <2>1, <2>3
    <3>2. n > 3 => 3 \in 1 .. n - 1
      OBVIOUS
    <3>3. ~(n > 3)
      BY <2>1, <2>3, <3>2
    <3> QED
      BY <3>1, <3>3
  <2> HIDE DEF P
  <2>4. (CHOOSE n \in 1 .. all : P(n)) = 3
    BY <2>2, <2>3
  <2> QED
    BY <2>4 DEF P
<1>5. ASSUME all >= 3
      PROVE  SubSeq(partial, 1, 3) = LineBytes(t + 1)
  <2>1. Follows(SubSeq(partial, 1, 3), 3 * t) /\ Len(SubSeq(partial, 1, 3)) = 3
    <3>1. 3 \in Nat /\ 3 * t \in Nat /\ 3 <= Len(partial)
      BY <1>1, <1>5
    <3> QED
      BY <3>1, FollowsBegin
  <2>2. PICK a, b : a = SubSeq(partial, 1, 3) /\ b = LineBytes(t + 1)
    OBVIOUS
  <2>3. /\ a \in ListOf(Marks) /\ Len(a) = 3 /\ \A i \in 1 .. 3 : a[i] = ByteAt(3 * t + i)
    BY <2>1, <2>2 DEF Follows
  <2>4. /\ b \in ListOf(Marks) /\ Len(b) = 3 /\ \A i \in 1 .. 3 : b[i] = ByteAt(3 * t + i)
    BY <2>2, LineFollows DEF Follows
  <2>5. \A i \in 1 .. 3 : a[i] = b[i]
    BY <2>3, <2>4
  <2>6. a = b
    BY <2>3, <2>4, <2>5, ListSame
  <2> QED
    BY <2>2, <2>6
<1> QED
  BY <1>1, <1>3, <1>4, <1>5 DEF HasLine, NewlineAt

-----------------------------------------------------------------------------
(* The stream                                                              *)

Phases == {"collecting", "failed", "refused", "complete", "cancelled"}
SentEvents == [kind : {"text", "finish", "call", "error"}, index : Nat, of : Nat]
Turns == [phase : Phases, text : ListOf(Nat), got : ListOf(Nat),
          calls : [Indices -> ListOf(Nat)]]

StreamTypes ==
  /\ sseLines \in ListOf(Kinds) /\ channel \in ListOf(SentEvents) /\ turn \in Turns
  /\ reader \in {"select", "lines", "gone"} /\ stopping \in BOOLEAN

\* t lines are taken off the bytes, and the bytes after them are all there.
WireInv(t) ==
  /\ Follows(partial, 3 * t) /\ Follows(wire, 3 * t + Len(partial))
  /\ Len(partial) + Len(wire) = 3 * (Len(sseLines) - t)
  /\ reader = "select" => Len(partial) < 3

\* The event of one of the first t lines.
Carries(e, t) == e.of \in Useful(t) /\ e = Event(sseLines[e.of], e.of)

\* The channel holds the events after the n-th line up to the t-th, and then, if the
\* reader failed, the error.
ChannelInv(t, n) ==
  \E c \in Nat :
    /\ \/ Len(channel) = c
       \/ Len(channel) = c + 1 /\ channel[c + 1] = Failure /\ reader = "gone"
    /\ \A i \in 1 .. c : Carries(channel[i], t)
    /\ \A i, j \in 1 .. c : i < j => channel[i].of < channel[j].of
    /\ \A k \in Useful(t) : k > n <=> \E i \in 1 .. c : channel[i].of = k

CallsTo(i, n) == {k \in 1 .. n : sseLines[k] = Line("call", i)}

\* The turn has what the first n lines carry.
GotInv(n) ==
  /\ InOrder(turn.got, Useful(n))
  /\ \A i \in Indices : InOrder(turn.calls[i], CallsTo(i, n))

Over == \E k \in DOMAIN sseLines : sseLines[k].kind = "finish"

\* A reader that is gone has said why, or had nothing left to read.
EndInv(t) ==
  ~Cut /\ turn.phase = "collecting" /\ reader = "gone" /\ ~stopping =>
    \/ channel # <<>> /\ channel[Len(channel)] = Failure
    \/ t = Len(sseLines) /\ Over

DoneInv(n) ==
  ~Cut /\ turn.phase = "complete" /\ ~stopping => n = Len(sseLines) /\ Over

StreamAt(t, n) ==
  /\ StreamTypes
  /\ t \in 0 .. Len(sseLines) /\ n \in 0 .. t
  /\ WireInv(t) /\ GotInv(n) /\ EndInv(t) /\ DoneInv(n)
  /\ turn.phase = "collecting" => ChannelInv(t, n)

StreamInv == \E t, n \in Nat : StreamAt(t, n)

LEMMA KindsAre ==
  ASSUME NEW line \in Kinds
  PROVE  /\ line.kind \in {"text", "finish", "noise", "junk", "call"}
         /\ line = Line(line.kind, line.index) /\ line.index \in Nat
         /\ line.kind = "call" => line.index \in Indices
<1>1. Indices \in SUBSET Nat
  BY StreamAssumption DEF Indices
<1> QED
  BY <1>1 DEF Kinds, Line

LEMMA StreamInitial == StreamInit => StreamInv
<1> SUFFICES ASSUME StreamInit PROVE StreamInv
  OBVIOUS
<1>1. /\ sseLines = <<>> /\ wire = <<>> /\ partial = <<>> /\ channel = <<>>
      /\ reader = "select" /\ turn = NoTurn /\ stopping = FALSE
  BY DEF StreamInit
<1>2. \A S : <<>> \in ListOf(S)
  BY ListEmpty
<1>3. Len(<<>>) = 0
  OBVIOUS
<1>4. NoTurn \in Turns
  BY <1>2 DEF NoTurn, Turns, Phases
<1>5. StreamTypes
  BY <1>1, <1>2, <1>4 DEF StreamTypes
<1>6. WireInv(0)
  <2>1. 1 .. 0 = {} /\ 0 + 0 = 3 * (0 - 0) /\ 0 < 3
    OBVIOUS
  <2>2. \A off : Follows(<<>>, off)
    BY <1>2, <1>3, <2>1 DEF Follows
  <2> QED
    BY <1>1, <1>3, <2>1, <2>2 DEF WireInv
<1>7. GotInv(0)
  <2>1. Useful(0) = {} /\ \A i : CallsTo(i, 0) = {}
    BY DEF Useful, CallsTo
  <2>2. InOrder(<<>>, {})
    BY DEF InOrder
  <2>3. turn.got = <<>> /\ \A i \in Indices : turn.calls[i] = <<>>
    BY <1>1 DEF NoTurn
  <2> QED
    BY <2>1, <2>2, <2>3 DEF GotInv
<1>8. ChannelInv(0, 0)
  <2>1. Useful(0) = {} /\ 1 .. 0 = {} /\ 0 \in Nat
    BY DEF Useful
  <2> QED
    BY <1>1, <1>3, <2>1 DEF ChannelInv
<1>9. EndInv(0) /\ DoneInv(0)
  BY <1>1 DEF EndInv, DoneInv, NoTurn
<1>10. 0 \in 0 .. Len(sseLines) /\ 0 \in 0 .. 0 /\ 0 \in Nat
  BY <1>1, <1>3
<1>11. StreamAt(0, 0)
  BY <1>5, <1>6, <1>7, <1>8, <1>9, <1>10 DEF StreamAt
<1> QED
  BY <1>10, <1>11 DEF StreamInv

\* What the turn has stays what the first lines carry, whatever lines follow.
LEMMA GotKept ==
  ASSUME NEW n \in Nat, GotInv(n), turn'.got = turn.got, turn'.calls = turn.calls,
         \A k \in 1 .. n : sseLines'[k] = sseLines[k]
  PROVE  GotInv(n)'
<1>1. Useful(n)' = Useful(n) /\ \A i : CallsTo(i, n)' = CallsTo(i, n)
  BY DEF Useful, CallsTo
<1> QED
  BY <1>1 DEF GotInv

LEMMA UsefulKept ==
  ASSUME NEW t \in Nat, NEW n \in Nat, ChannelInv(t, n), channel' = channel,
         reader' = reader \/ reader' = "gone",
         \A k \in 1 .. t : sseLines'[k] = sseLines[k]
  PROVE  ChannelInv(t, n)'
<1>1. Useful(t)' = Useful(t)
  BY DEF Useful
<1>2. \A e : Carries(e, t)' <=> Carries(e, t)
  <2>1. \A k \in Useful(t) : sseLines'[k] = sseLines[k]
    BY DEF Useful
  <2> QED
    BY <1>1, <2>1 DEF Carries
<1>3. PICK c \in Nat :
        /\ \/ Len(channel) = c
           \/ Len(channel) = c + 1 /\ channel[c + 1] = Failure /\ reader = "gone"
        /\ \A i \in 1 .. c : Carries(channel[i], t)
        /\ \A i, j \in 1 .. c : i < j => channel[i].of < channel[j].of
        /\ \A k \in Useful(t) : k > n <=> \E i \in 1 .. c : channel[i].of = k
  BY DEF ChannelInv
<1>4. \A i \in 1 .. c : Carries(channel[i], t)'
  BY <1>2, <1>3
<1>5. /\ \/ Len(channel') = c
         \/ Len(channel') = c + 1 /\ channel'[c + 1] = Failure /\ reader' = "gone"
      /\ \A i, j \in 1 .. c : i < j => channel'[i].of < channel'[j].of
  BY <1>3
<1>6. \A k \in Useful(t)' : k > n <=> \E i \in 1 .. c : channel'[i].of = k
  BY <1>1, <1>3
<1> QED
  BY <1>4, <1>5, <1>6 DEF ChannelInv

LEMMA ServerSendsStep ==
  ASSUME NEW t \in Nat, NEW n \in Nat, StreamAt(t, n), ServerSends
  PROVE  StreamAt(t, n)'
<1>1. PICK kind \in Kinds :
        /\ sseLines' = Append(sseLines, kind)
        /\ wire' = wire \o LineBytes(Len(sseLines) + 1)
  BY DEF ServerSends, LineBytes
<1>2. /\ UNCHANGED <<partial, reader, channel, turn, stopping>> /\ ~Over
      /\ StreamTypes /\ WireInv(t) /\ GotInv(n) /\ EndInv(t) /\ DoneInv(n)
      /\ turn.phase = "collecting" => ChannelInv(t, n)
  BY DEF ServerSends, Over, StreamAt
<1>3. PICK all \in Nat : all = Len(sseLines)
  BY <1>2, ListTyped DEF StreamTypes
<1>4. t <= all /\ n <= t
  BY <1>3 DEF StreamAt
<1>5. /\ sseLines' \in ListOf(Kinds) /\ Len(sseLines') = all + 1
      /\ \A k \in 1 .. all : sseLines'[k] = sseLines[k]
  BY <1>1, <1>2, <1>3, ListAppended DEF StreamTypes
<1>6. StreamTypes'
  BY <1>2, <1>5 DEF StreamTypes
<1>7. WireInv(t)'
  <2>1. PICK p, w \in Nat : p = Len(partial) /\ w = Len(wire)
    BY <1>2, ListTyped DEF WireInv, Follows
  <2>2. p + w = 3 * (all - t)
    BY <1>2, <1>3, <2>1 DEF WireInv
  <2>3. 3 * t + p \in Nat /\ 3 * t + p + w = 3 * all /\ p + (w + 3) = 3 * (all + 1 - t)
    BY <2>2
  <2>4. Follows(wire, 3 * t + p) /\ Follows(LineBytes(all + 1), 3 * t + p + Len(wire))
    BY <1>2, <2>1, <2>3, LineFollows DEF WireInv
  <2>5. Follows(wire', 3 * t + p) /\ Len(wire') = w + 3
    <3>0. PICK more : more = LineBytes(all + 1)
      OBVIOUS
    <3>1. PICK off \in Nat : off = 3 * t + p /\ more = LineBytes(all + 1)
      BY <2>3, <3>0
    <3>2. Len(more) = 3
      BY <3>1, LineFollows
    <3>3. Follows(wire, off) /\ Follows(more, off + Len(wire))
      BY <2>4, <3>1
    <3>4. Follows(wire \o more, off) /\ Len(wire \o more) = Len(wire) + Len(more)
      BY <3>3, FollowsJoined
    <3> QED
      BY <1>1, <1>3, <2>1, <3>1, <3>2, <3>4
  <2> QED
    BY <1>2, <1>5, <2>1, <2>3, <2>5 DEF WireInv
<1>8. GotInv(n)'
  <2>1. \A k \in 1 .. n : sseLines'[k] = sseLines[k]
    BY <1>4, <1>5
  <2> QED
    BY <1>2, <2>1, GotKept
<1>9. turn'.phase = "collecting" => ChannelInv(t, n)'
  <2>1. \A k \in 1 .. t : sseLines'[k] = sseLines[k]
    BY <1>4, <1>5
  <2> QED
    BY <1>2, <2>1, UsefulKept
<1>10. EndInv(t)' /\ DoneInv(n)'
  BY <1>2 DEF EndInv, DoneInv
<1>11. t \in 0 .. Len(sseLines') /\ n \in 0 .. t
  BY <1>4, <1>5
<1> QED
  BY <1>6, <1>7, <1>8, <1>9, <1>10, <1>11 DEF StreamAt

LEMMA FailureIs ==
  Failure \in SentEvents /\ Failure.kind = "error"
BY DEF Failure, Event, Line, SentEvents

\* The reader fails: the error is the last thing in the channel.
LEMMA FailureAppended ==
  ASSUME NEW t \in Nat, NEW n \in Nat, StreamAt(t, n), reader # "gone", reader' = "gone",
         channel' = Append(channel, Failure), sseLines' = sseLines, NEW u \in Nat,
         turn.phase = "collecting" => Useful(u) = Useful(t), t <= u
  PROVE  /\ channel' \in ListOf(SentEvents)
         /\ channel' # <<>> /\ channel'[Len(channel')] = Failure
         /\ turn.phase = "collecting" => ChannelInv(u, n)'
<1>1. channel \in ListOf(SentEvents)
  BY DEF StreamAt, StreamTypes
<1>2. PICK m \in Nat : m = Len(channel)
  BY <1>1, ListTyped
<1>3. /\ channel' \in ListOf(SentEvents) /\ Len(channel') = m + 1 /\ channel'[m + 1] = Failure
      /\ \A i \in 1 .. m : channel'[i] = channel[i]
  BY <1>1, <1>2, FailureIs, ListAppended
<1>4. channel' # <<>>
  BY <1>3
<1>5. ASSUME turn.phase = "collecting"
      PROVE  ChannelInv(u, n)'
  <2>1. /\ \A i \in 1 .. m : Carries(channel[i], t)
        /\ \A i, j \in 1 .. m : i < j => channel[i].of < channel[j].of
        /\ \A k \in Useful(t) : k > n <=> \E i \in 1 .. m : channel[i].of = k
    BY <1>2, <1>5 DEF StreamAt, ChannelInv
  <2>2. Useful(u)' = Useful(t) /\ \A e : Carries(e, u)' <=> Carries(e, t)
    <3>1. Useful(u)' = Useful(u)
      BY DEF Useful
    <3> QED
      BY <1>5, <3>1 DEF Carries
  <2>3. /\ \A i \in 1 .. m : Carries(channel[i], u)'
        /\ \A i, j \in 1 .. m : i < j => channel'[i].of < channel'[j].of
    BY <1>3, <2>1, <2>2
  <2>4. \A k \in Useful(u)' : k > n <=> \E i \in 1 .. m : channel'[i].of = k
    <3> SUFFICES ASSUME NEW k \in Useful(t)
                 PROVE  k > n <=> \E i \in 1 .. m : channel'[i].of = k
      BY <2>2
    <3>1. (\E i \in 1 .. m : channel'[i].of = k) <=> \E i \in 1 .. m : channel[i].of = k
      BY <1>3
    <3> QED
      BY <2>1, <3>1
  <2>5. Len(channel') = m + 1 /\ channel'[m + 1] = Failure /\ reader' = "gone"
    BY <1>3
  <2>6. \E c \in Nat :
          /\ \/ Len(channel') = c
             \/ Len(channel') = c + 1 /\ channel'[c + 1] = Failure /\ reader' = "gone"
          /\ \A i \in 1 .. c : Carries(channel[i], u)'
          /\ \A i, j \in 1 .. c : i < j => channel'[i].of < channel'[j].of
          /\ \A k \in Useful(u)' : k > n <=> \E i \in 1 .. c : channel'[i].of = k
    <3> HIDE DEF Failure
    <3> WITNESS m \in Nat
    <3> QED
      BY <2>3, <2>4, <2>5
  <2> QED
    BY <2>6 DEF ChannelInv
<1> QED
  BY <1>3, <1>4, <1>5

LEMMA ReceiveChunkStep ==
  ASSUME ~Wide, NEW t \in Nat, NEW n \in Nat, StreamAt(t, n), ReceiveChunk
  PROVE  StreamAt(t, n)'
<1>1. /\ UNCHANGED <<sseLines, turn, stopping>> /\ reader = "select"
      /\ StreamTypes /\ WireInv(t) /\ GotInv(n) /\ EndInv(t) /\ DoneInv(n)
      /\ t \in 0 .. Len(sseLines) /\ n \in 0 .. t
      /\ turn.phase = "collecting" => ChannelInv(t, n)
  BY DEF ReceiveChunk, StreamAt
<1>2. PICK w, p \in Nat : w = Len(wire) /\ p = Len(partial)
  BY <1>1, ListTyped DEF WireInv, Follows
<1>3. PICK m \in 1 .. w :
        /\ wire' = SubSeq(wire, m + 1, w)
        /\ partial' = Joined(SubSeq(wire, 1, m))
        /\ IF Len(partial') > MaxPending
           THEN channel' = Append(channel, Failure) /\ reader' = "gone"
           ELSE reader' = "lines" /\ UNCHANGED channel
  BY <1>2 DEF ReceiveChunk
<1>4. PICK off \in Nat : off = 3 * t + p
  OBVIOUS
<1>5. m \in Nat /\ m <= w /\ p + m + (w - m) = p + w /\ off + m = 3 * t + (p + m)
  BY <1>4
<1>6. /\ Follows(SubSeq(wire, 1, m), off) /\ Len(SubSeq(wire, 1, m)) = m
      /\ Follows(wire', off + m) /\ Len(wire') = w - m
  <2>1. Follows(wire, off)
    BY <1>1, <1>2, <1>4 DEF WireInv
  <2> QED
    <3>1. Follows(SubSeq(wire, 1, m), off) /\ Len(SubSeq(wire, 1, m)) = m
      BY <1>2, <1>5, <2>1, FollowsBegin
    <3>2. PICK k \in Nat : k = m + 1 /\ 0 < k /\ k <= w + 1 /\ k - 1 = m /\ w + 1 - k = w - m
      BY <1>5
    <3>3. Follows(SubSeq(wire, k, w), off + (k - 1)) /\ Len(SubSeq(wire, k, w)) = w + 1 - k
      BY <1>2, <2>1, <3>2, FollowsRest
    <3> QED
      BY <1>3, <3>1, <3>2, <3>3
<1>7. Decoded(SubSeq(wire, 1, m)) = SubSeq(wire, 1, m)
  <2> DEFINE s == SubSeq(wire, 1, m)
  <2>1. DOMAIN s = 1 .. m
    BY <1>6, ListTyped DEF Follows
  <2>2. s = [i \in 1 .. m |-> s[i]]
    <3>1. s \in Seq(Marks) /\ Len(s) = m
      BY <1>6 DEF Follows, ListOf
    <3> HIDE DEF s
    <3> QED
      BY <3>1
  <2> HIDE DEF s
  <2>3. Decoded(s) = s
    BY <2>1, <2>2 DEF Decoded, Halved
  <2> QED
    BY <2>3 DEF s
<1>8. Follows(partial', 3 * t) /\ Len(partial') = p + m
  <2>1. partial' = partial \o SubSeq(wire, 1, m)
    BY <1>3, <1>7 DEF Joined
  <2>2. Follows(partial, 3 * t) /\ 3 * t \in Nat
    BY <1>1 DEF WireInv
  <2> QED
    BY <1>2, <1>4, <1>6, <2>1, <2>2, FollowsJoined
<1>9. WireInv(t)'
  <2>1. reader' # "select"
    BY <1>3
  <2>2. p + w = 3 * (Len(sseLines) - t)
    BY <1>1, <1>2 DEF WireInv
  <2>3. Follows(wire', 3 * t + Len(partial'))
    BY <1>5, <1>6, <1>8
  <2>4. Len(partial') + Len(wire') = p + w
    BY <1>5, <1>6, <1>8
  <2> QED
    BY <1>1, <1>8, <2>1, <2>2, <2>3, <2>4 DEF WireInv
<1>10. GotInv(n)'
  BY <1>1, GotKept
<1>11. DoneInv(n)'
  BY <1>1 DEF DoneInv, Over
<1>12. CASE channel' = Append(channel, Failure) /\ reader' = "gone"
  <2>1. /\ channel' \in ListOf(SentEvents)
        /\ channel' # <<>> /\ channel'[Len(channel')] = Failure
        /\ turn.phase = "collecting" => ChannelInv(t, n)'
    <3>1. t <= t /\ reader # "gone"
      BY <1>1
    <3> QED
      BY <1>1, <1>12, <3>1, FailureAppended
  <2>2. StreamTypes' /\ EndInv(t)'
    BY <1>1, <1>12, <2>1 DEF StreamTypes, EndInv
  <2> QED
    BY <1>1, <1>9, <1>10, <1>11, <2>1, <2>2 DEF StreamAt
<1>13. CASE reader' = "lines" /\ UNCHANGED channel
  <2>1. StreamTypes' /\ EndInv(t)'
    BY <1>1, <1>13 DEF StreamTypes, EndInv
  <2>2. turn.phase = "collecting" => ChannelInv(t, n)'
    <3>1. Useful(t)' = Useful(t) /\ \A e : Carries(e, t)' <=> Carries(e, t)
      BY <1>1 DEF Useful, Carries
    <3> QED
      BY <1>1, <1>13, <3>1 DEF ChannelInv
  <2> QED
    BY <1>1, <1>9, <1>10, <1>11, <2>1, <2>2 DEF StreamAt
<1> QED
  BY <1>3, <1>12, <1>13

LEMMA BodyEndsStep ==
  ASSUME NEW t \in Nat, NEW n \in Nat, StreamAt(t, n), BodyEnds
  PROVE  StreamAt(t, n)'
<1>1. /\ UNCHANGED <<sseLines, wire, partial, turn, stopping>>
      /\ reader = "select" /\ reader' = "gone"
      /\ StreamTypes /\ WireInv(t) /\ GotInv(n) /\ EndInv(t) /\ DoneInv(n)
      /\ t \in 0 .. Len(sseLines) /\ n \in 0 .. t
      /\ turn.phase = "collecting" => ChannelInv(t, n)
  BY DEF BodyEnds, StreamAt
<1>2. WireInv(t)' /\ DoneInv(n)'
  BY <1>1 DEF WireInv, DoneInv, Over
<1>3. GotInv(n)'
  BY <1>1, GotKept
<1>4. CASE channel' = Append(channel, Failure)
  <2>1. /\ channel' \in ListOf(SentEvents)
        /\ channel' # <<>> /\ channel'[Len(channel')] = Failure
        /\ turn.phase = "collecting" => ChannelInv(t, n)'
    <3>1. t <= t /\ reader # "gone"
      BY <1>1
    <3> QED
      BY <1>1, <1>4, <3>1, FailureAppended
  <2>2. StreamTypes' /\ EndInv(t)'
    BY <1>1, <2>1 DEF StreamTypes, EndInv
  <2> QED
    BY <1>1, <1>2, <1>3, <2>1, <2>2 DEF StreamAt
<1>5. CASE UNCHANGED channel /\ (Cut \/ (wire = <<>> /\ Over))
  <2>1. StreamTypes'
    BY <1>1, <1>5 DEF StreamTypes
  <2>2. turn.phase = "collecting" => ChannelInv(t, n)'
    BY <1>1, <1>5, UsefulKept
  <2>3. ~Cut => t = Len(sseLines) /\ Over
    <3> SUFFICES ASSUME ~Cut PROVE t = Len(sseLines)
      BY <1>5
    <3>1. PICK all, p, w \in Nat : all = Len(sseLines) /\ p = Len(partial) /\ w = Len(wire)
      BY <1>1, ListTyped DEF WireInv, Follows, StreamTypes
    <3>2. w = 0
      BY <1>5, <3>1, ListEmpty
    <3>3. p < 3 /\ p + w = 3 * (all - t) /\ t <= all
      BY <1>1, <3>1 DEF WireInv
    <3>4. t = all
      BY <3>2, <3>3
    <3> QED
      BY <3>1, <3>4
  <2>4. EndInv(t)'
    BY <1>1, <2>3 DEF EndInv, Over
  <2> QED
    BY <1>1, <1>2, <1>3, <2>1, <2>2, <2>4 DEF StreamAt
<1> QED
  BY <1>4, <1>5 DEF BodyEnds, Over

\* The reader goes because the run is over or cancelled.
LEMMA ReaderGoneStep ==
  ASSUME NEW t \in Nat, NEW n \in Nat, StreamAt(t, n), ReaderCancelled \/ ReceiverGone
  PROVE  StreamAt(t, n)'
<1>1. /\ UNCHANGED <<sseLines, wire, partial, channel, turn, stopping>> /\ reader' = "gone"
      /\ stopping \/ turn.phase # "collecting"
      /\ StreamTypes /\ WireInv(t) /\ GotInv(n) /\ EndInv(t) /\ DoneInv(n)
      /\ t \in 0 .. Len(sseLines) /\ n \in 0 .. t
      /\ turn.phase = "collecting" => ChannelInv(t, n)
  BY DEF ReaderCancelled, ReceiverGone, StreamAt
<1>2. StreamTypes' /\ WireInv(t)' /\ EndInv(t)' /\ DoneInv(n)'
  BY <1>1 DEF StreamTypes, WireInv, EndInv, DoneInv, Over
<1>3. GotInv(n)'
  BY <1>1, GotKept
<1>4. turn.phase = "collecting" => ChannelInv(t, n)'
  BY <1>1, UsefulKept
<1> QED
  BY <1>1, <1>2, <1>3, <1>4 DEF StreamAt

LEMMA LinesOverStep ==
  ASSUME NEW t \in Nat, NEW n \in Nat, StreamAt(t, n), LinesOver
  PROVE  StreamAt(t, n)'
<1>1. /\ UNCHANGED <<sseLines, wire, partial, channel, turn, stopping>>
      /\ reader = "lines" /\ reader' = "select" /\ ~HasLine
      /\ StreamTypes /\ WireInv(t) /\ GotInv(n) /\ EndInv(t) /\ DoneInv(n)
      /\ t \in 0 .. Len(sseLines) /\ n \in 0 .. t
      /\ turn.phase = "collecting" => ChannelInv(t, n)
  BY DEF LinesOver, StreamAt
<1>2. Len(partial) < 3
  <2>1. Follows(partial, 3 * t)
    BY <1>1 DEF WireInv
  <2>2. ~(Len(partial) >= 3)
    BY <1>1, <2>1, FirstLine
  <2>3. Len(partial) \in Nat
    BY <2>1, ListTyped DEF Follows
  <2> QED
    BY <2>2, <2>3
<1>3. StreamTypes' /\ WireInv(t)' /\ EndInv(t)' /\ DoneInv(n)'
  BY <1>1, <1>2 DEF StreamTypes, WireInv, EndInv, DoneInv, Over
<1>4. GotInv(n)'
  BY <1>1, GotKept
<1>5. turn.phase = "collecting" => ChannelInv(t, n)'
  <2>1. ASSUME turn.phase = "collecting"
        PROVE  ChannelInv(t, n)'
    <3>1. Useful(t)' = Useful(t) /\ \A e : Carries(e, t)' <=> Carries(e, t)
      BY <1>1 DEF Useful, Carries
    <3>2. PICK c \in Nat :
            /\ Len(channel) = c
            /\ \A i \in 1 .. c : Carries(channel[i], t)
            /\ \A i, j \in 1 .. c : i < j => channel[i].of < channel[j].of
            /\ \A k \in Useful(t) : k > n <=> \E i \in 1 .. c : channel[i].of = k
      BY <1>1, <2>1 DEF ChannelInv
    <3> QED
      BY <1>1, <3>1, <3>2 DEF ChannelInv
  <2> QED
    BY <2>1
<1> QED
  BY <1>1, <1>3, <1>4, <1>5 DEF StreamAt

\* The reader takes a line: it is the next one, whole.
LEMMA TakeLineStep ==
  ASSUME NEW t \in Nat, NEW n \in Nat, StreamAt(t, n), TakeLine
  PROVE  StreamAt(t + 1, n)'
<1>1. /\ UNCHANGED <<sseLines, wire, turn, stopping>>
      /\ reader = "lines" /\ HasLine
      /\ StreamTypes /\ WireInv(t) /\ GotInv(n) /\ EndInv(t) /\ DoneInv(n)
      /\ t \in 0 .. Len(sseLines) /\ n \in 0 .. t
      /\ turn.phase = "collecting" => ChannelInv(t, n)
  BY DEF TakeLine, StreamAt
<1>2. PICK all, p, w \in Nat : all = Len(sseLines) /\ p = Len(partial) /\ w = Len(wire)
  BY <1>1, ListTyped DEF WireInv, Follows, StreamTypes
<1>3. p >= 3 /\ NewlineAt = 3 /\ SubSeq(partial, 1, 3) = LineBytes(t + 1)
  <2>1. Follows(partial, 3 * t)
    BY <1>1 DEF WireInv
  <2> QED
    BY <1>1, <1>2, <2>1, FirstLine
<1>4. p + w = 3 * (all - t) /\ t <= all /\ n <= t
  BY <1>1, <1>2 DEF WireInv
<1>5. t + 1 <= all /\ t + 1 \in Nat /\ t + 1 \in 1 .. all /\ n \in 0 .. t + 1
  BY <1>3, <1>4
<1>6. PICK at \in 1 .. all : at = t + 1
  BY <1>5
<1>7. PICK line : line = sseLines[at] /\ line \in Kinds
  <2>1. sseLines[at] \in Kinds
    BY <1>1, <1>2, ListTyped DEF StreamTypes
  <2> QED
    BY <2>1
<1>8. LineAt(LineBytes(at)) = Event(line, at)
  <2>1. Len(LineBytes(at)) = 3
    BY <1>6, LineFollows
  <2>2. LineBytes(at) = <<<<at, 1>>, <<at, 2>>, Newline(at)>> /\ LineBytes(at)[3][1] = at
    BY DEF LineBytes, Newline
  <2> HIDE DEF LineBytes, Newline
  <2> QED
    BY <1>7, <2>1, <2>2 DEF LineAt
<1>9. Event(line, at).kind = line.kind
  BY DEF Event
<1>10. /\ partial' = SubSeq(partial, 3 + 1, p)
       /\ channel' = CASE line.kind = "noise" -> channel
                       [] line.kind = "junk" -> Append(channel, Failure)
                       [] OTHER -> Append(channel, Event(line, at))
       /\ reader' = IF line.kind = "junk" THEN "gone" ELSE "lines"
  BY <1>2, <1>3, <1>6, <1>8, <1>9 DEF TakeLine
<1>11. WireInv(t + 1)'
  <2>1. PICK off \in Nat : off = 3 * t
    OBVIOUS
  <2>2. Follows(partial, off) /\ 3 \in Nat /\ 3 <= Len(partial)
    BY <1>1, <1>2, <1>3, <2>1 DEF WireInv
  <2>3. Follows(SubSeq(partial, 3 + 1, Len(partial)), off + 3)
        /\ Len(SubSeq(partial, 3 + 1, Len(partial))) = Len(partial) - 3
    <3>1. PICK k, len \in Nat :
            len = Len(partial) /\ k = 3 + 1 /\ 0 < k /\ k <= len + 1 /\ k - 1 = 3
      <4>1. 4 \in Nat /\ 4 = 3 + 1 /\ 0 < 4 /\ 4 - 1 = 3
        OBVIOUS
      <4>2. Len(partial) \in Nat /\ 4 <= Len(partial) + 1
        BY <1>2, <2>2
      <4> QED
        BY <4>1, <4>2
    <3>2. Follows(SubSeq(partial, k, Len(partial)), off + (k - 1))
          /\ Len(SubSeq(partial, k, Len(partial))) = Len(partial) + 1 - k
      BY <2>1, <2>2, <3>1, FollowsRest
    <3>3. Len(partial) + 1 - k = Len(partial) - 3
      BY <3>1
    <3> QED
      BY <3>1, <3>2, <3>3
  <2>4. Follows(partial', off + 3) /\ Len(partial') = p - 3
    BY <1>2, <1>10, <2>3
  <2>5. Follows(wire, off + p)
    BY <1>1, <1>2, <2>1 DEF WireInv
  <2>6. /\ off + 3 = 3 * (t + 1) /\ off + p = 3 * (t + 1) + (p - 3)
        /\ (p - 3) + w = 3 * (all - (t + 1))
    BY <1>3, <1>4, <2>1
  <2>7. reader' # "select"
    BY <1>10
  <2> QED
    BY <1>1, <1>2, <2>4, <2>5, <2>6, <2>7 DEF WireInv
<1>12. GotInv(n)'
  BY <1>1, GotKept
<1>13. DoneInv(n)'
  BY <1>1 DEF DoneInv, Over
<1>14. \A k \in 1 .. at : k # at => k \in 1 .. t
  BY <1>6
<1>15. \A k \in 1 .. t : k \in 1 .. at /\ k # at
  BY <1>6
<1>16. at > n /\ at \in Nat /\ t <= at
  BY <1>4, <1>6
<1>17. line.kind \in {"noise", "junk"} => Useful(at) = Useful(t)
  BY <1>7, <1>14, <1>15 DEF Useful
<1>18. line.kind \notin {"noise", "junk"} => Useful(at) = Useful(t) \cup {at}
  <2>1. at \in 1 .. at
    BY <1>6
  <2> QED
    BY <1>7, <1>14, <1>15, <2>1 DEF Useful
<1>rest. /\ t + 1 \in 0 .. Len(sseLines') /\ n \in 0 .. t + 1
         /\ WireInv(at)' /\ GotInv(n)' /\ DoneInv(n)'
  BY <1>1, <1>2, <1>5, <1>6, <1>11, <1>12, <1>13
<1>19. CASE line.kind = "noise"
  <2>1. channel' = channel /\ reader' = "lines"
    BY <1>10, <1>19
  <2>2. StreamTypes' /\ EndInv(at)'
    BY <1>1, <2>1 DEF StreamTypes, EndInv
  <2>3. ASSUME turn.phase = "collecting"
        PROVE  ChannelInv(at, n)'
    <3>1. Useful(at)' = Useful(t) /\ \A e : Carries(e, at)' <=> Carries(e, t)
      <4>1. Useful(at)' = Useful(at)
        BY <1>1 DEF Useful
      <4> QED
        BY <1>1, <1>17, <1>19, <4>1 DEF Carries
    <3> QED
      BY <1>1, <2>1, <2>3, <3>1 DEF ChannelInv
  <2> QED
    BY <1>1, <1>6, <1>rest, <2>2, <2>3 DEF StreamAt
<1>20. CASE line.kind = "junk"
  <2>1. channel' = Append(channel, Failure) /\ reader' = "gone"
    BY <1>10, <1>20
  <2>2. /\ channel' \in ListOf(SentEvents)
        /\ channel' # <<>> /\ channel'[Len(channel')] = Failure
        /\ turn.phase = "collecting" => ChannelInv(at, n)'
    <3>1. Useful(at) = Useful(t) /\ reader # "gone" /\ sseLines' = sseLines
      BY <1>1, <1>17, <1>20
    <3> QED
      BY <1>16, <2>1, <3>1, FailureAppended
  <2>3. StreamTypes' /\ EndInv(at)'
    BY <1>1, <2>1, <2>2 DEF StreamTypes, EndInv
  <2> QED
    BY <1>1, <1>6, <1>rest, <2>2, <2>3 DEF StreamAt
<1>21. CASE line.kind \notin {"noise", "junk"}
  <2> DEFINE e == Event(line, at)
  <2>1. channel' = Append(channel, e) /\ reader' = "lines"
    BY <1>10, <1>21
  <2>2. e \in SentEvents /\ e.of = at
    BY <1>7, <1>16, <1>21, KindsAre DEF SentEvents, Event
  <2>3. channel \in ListOf(SentEvents)
    BY <1>1 DEF StreamTypes
  <2>4. PICK c \in Nat : c = Len(channel)
    BY <2>3, ListTyped
  <2> HIDE DEF e
  <2>5. /\ channel' \in ListOf(SentEvents) /\ Len(channel') = c + 1 /\ channel'[c + 1] = e
        /\ \A i \in 1 .. c : channel'[i] = channel[i]
    BY <2>1, <2>2, <2>3, <2>4, ListAppended
  <2>6. StreamTypes' /\ EndInv(at)'
    BY <1>1, <2>1, <2>5 DEF StreamTypes, EndInv
  <2>7. ASSUME turn.phase = "collecting"
        PROVE  ChannelInv(at, n)'
    <3>1. /\ \A i \in 1 .. c : Carries(channel[i], t)
          /\ \A i, j \in 1 .. c : i < j => channel[i].of < channel[j].of
          /\ \A k \in Useful(t) : k > n <=> \E i \in 1 .. c : channel[i].of = k
      BY <1>1, <2>4, <2>7 DEF ChannelInv
    <3>2. Useful(at)' = Useful(t) \cup {at}
      <4>1. Useful(at)' = Useful(at)
        BY <1>1 DEF Useful
      <4> QED
        BY <1>18, <1>21, <4>1
    <3>3. \A i \in 1 .. c : channel'[i].of \in Useful(t)
      BY <2>5, <3>1 DEF Carries
    <3>4. \A k \in Useful(t) : k \in Nat /\ k < at
      BY <1>6 DEF Useful
    <3>5. ASSUME NEW i \in 1 .. c + 1
          PROVE  /\ channel'[i].of \in Useful(at)'
                 /\ channel'[i] = Event(sseLines'[channel'[i].of], channel'[i].of)
      <4>1. CASE i = c + 1
        BY <1>1, <1>7, <2>2, <2>5, <3>2, <4>1 DEF e
      <4>2. CASE i # c + 1
        <5>1. i \in 1 .. c
          BY <4>2
        <5> QED
          BY <1>1, <2>5, <3>1, <3>2, <5>1 DEF Carries
      <4> QED
        BY <4>1, <4>2
    <3>6. ASSUME NEW i \in 1 .. c + 1, NEW j \in 1 .. c + 1, i < j
          PROVE  channel'[i].of < channel'[j].of
      <4>1. i \in 1 .. c
        BY <3>6
      <4>2. CASE j = c + 1
        BY <2>2, <2>5, <3>3, <3>4, <4>1, <4>2
      <4>3. CASE j # c + 1
        <5>1. j \in 1 .. c
          BY <4>3
        <5> QED
          BY <2>5, <3>1, <3>6, <4>1, <5>1
      <4> QED
        BY <4>2, <4>3
    <3>7. ASSUME NEW k \in Useful(at)'
          PROVE  k > n <=> \E i \in 1 .. c + 1 : channel'[i].of = k
      <4>1. CASE k = at
        <5>1. c + 1 \in 1 .. c + 1 /\ channel'[c + 1].of = k
          BY <2>2, <2>5, <4>1
        <5> QED
          BY <1>16, <4>1, <5>1
      <4>2. CASE k # at
        <5>1. k \in Useful(t)
          BY <3>2, <4>2
        <5>2. (\E i \in 1 .. c + 1 : channel'[i].of = k) <=> \E i \in 1 .. c : channel[i].of = k
          <6>1. \A i \in 1 .. c + 1 : i = c + 1 \/ i \in 1 .. c
            OBVIOUS
          <6>2. \A i \in 1 .. c : i \in 1 .. c + 1
            OBVIOUS
          <6>3. channel'[c + 1].of # k
            BY <2>2, <2>5, <4>2
          <6> QED
            BY <2>5, <6>1, <6>2, <6>3
        <5> QED
          BY <3>1, <5>1, <5>2
      <4> QED
        BY <4>1, <4>2
    <3>8. \A i \in 1 .. c + 1 : /\ channel'[i].of \in Useful(at)'
                                /\ channel'[i] = Event(sseLines'[channel'[i].of], channel'[i].of)
      BY <3>5
    <3>9. \A i, j \in 1 .. c + 1 : i < j => channel'[i].of < channel'[j].of
      BY <3>6
    <3>10. \A k \in Useful(at)' : k > n <=> \E i \in 1 .. c + 1 : channel'[i].of = k
      BY <3>7
    <3>11. Len(channel') = c + 1 /\ c + 1 \in Nat
      BY <2>5
    <3> QED
      BY <3>8, <3>9, <3>10, <3>11 DEF ChannelInv, Carries
  <2> QED
    BY <1>1, <1>6, <1>rest, <2>6, <2>7 DEF StreamAt
<1> QED
  BY <1>19, <1>20, <1>21

-----------------------------------------------------------------------------
(* The turn                                                                *)

\* A number above all of them comes after them.
LEMMA InOrderAppended ==
  ASSUME NEW numbers \in ListOf(Nat), NEW S, InOrder(numbers, S), NEW e \in Nat,
         \A k \in S : k < e
  PROVE  InOrder(Append(numbers, e), S \cup {e})
<1>1. PICK n \in Nat : n = Len(numbers) /\ DOMAIN numbers = 1 .. n
  BY ListTyped
<1>2. PICK new : new = Append(numbers, e)
  OBVIOUS
<1>3. /\ new \in ListOf(Nat) /\ Len(new) = n + 1 /\ new[n + 1] = e
      /\ \A i \in 1 .. n : new[i] = numbers[i]
  BY <1>1, <1>2, ListAppended
<1>4. DOMAIN new = 1 .. n + 1
  BY <1>3, ListTyped
<1>5. /\ \A i, j \in 1 .. n : i < j => numbers[i] < numbers[j]
      /\ {numbers[i] : i \in 1 .. n} = S
  BY <1>1 DEF InOrder
<1>6. ASSUME NEW i \in 1 .. n + 1, NEW j \in 1 .. n + 1, i < j
      PROVE  new[i] < new[j]
  <2>1. i \in 1 .. n
    BY <1>6
  <2>2. CASE j = n + 1
    BY <1>3, <1>5, <2>1, <2>2
  <2>3. CASE j # n + 1
    <3>1. j \in 1 .. n
      BY <2>3
    <3> QED
      BY <1>3, <1>5, <1>6, <2>1, <3>1
  <2> QED
    BY <2>2, <2>3
<1>7. {new[i] : i \in 1 .. n + 1} = S \cup {e}
  <2>1. \A i \in 1 .. n + 1 : i = n + 1 \/ i \in 1 .. n
    OBVIOUS
  <2>2. n + 1 \in 1 .. n + 1 /\ \A i \in 1 .. n : i \in 1 .. n + 1
    OBVIOUS
  <2> QED
    BY <1>3, <1>5, <2>1, <2>2
<1>8. \A i, j \in 1 .. n + 1 : i < j => new[i] < new[j]
  BY <1>6
<1>9. InOrder(new, S \cup {e})
  BY <1>4, <1>7, <1>8 DEF InOrder
<1> QED
  BY <1>2, <1>9

\* The turn ends without taking anything more.
LEMMA TurnEndsStep ==
  ASSUME NEW t \in Nat, NEW n \in Nat, StreamAt(t, n),
         UNCHANGED <<sseLines, wire, partial, reader, stopping>>,
         channel' \in ListOf(SentEvents), NEW phase \in {"failed", "refused", "cancelled"},
         turn' = [turn EXCEPT !.phase = phase]
  PROVE  StreamAt(t, n)'
<1>1. /\ StreamTypes /\ WireInv(t) /\ GotInv(n) /\ t \in 0 .. Len(sseLines) /\ n \in 0 .. t
      /\ turn \in Turns
  BY DEF StreamAt, StreamTypes
<1>2. /\ turn'.phase = phase /\ turn'.got = turn.got /\ turn'.calls = turn.calls
      /\ turn' \in Turns
  BY <1>1 DEF Turns, Phases
<1>3. StreamTypes' /\ WireInv(t)' /\ EndInv(t)' /\ DoneInv(n)'
  BY <1>1, <1>2 DEF StreamTypes, WireInv, EndInv, DoneInv
<1>4. GotInv(n)'
  BY <1>1, <1>2, GotKept
<1> QED
  BY <1>1, <1>2, <1>3, <1>4 DEF StreamAt

LEMMA TurnCancelledStep ==
  ASSUME NEW t \in Nat, NEW n \in Nat, StreamAt(t, n), TurnCancelled
  PROVE  StreamAt(t, n)'
<1>1. channel' \in ListOf(SentEvents)
  BY DEF TurnCancelled, StreamAt, StreamTypes
<1> QED
  BY <1>1, TurnEndsStep DEF TurnCancelled

LEMMA StopTurnStep ==
  ASSUME NEW t \in Nat, NEW n \in Nat, StreamAt(t, n), StopTurn
  PROVE  StreamAt(t, n)'
<1>1. /\ UNCHANGED <<sseLines, wire, partial, reader, channel, turn>> /\ stopping' = TRUE
      /\ StreamTypes /\ WireInv(t) /\ GotInv(n) /\ t \in 0 .. Len(sseLines) /\ n \in 0 .. t
      /\ turn.phase = "collecting" => ChannelInv(t, n)
  BY DEF StopTurn, StreamAt
<1>2. StreamTypes' /\ WireInv(t)' /\ EndInv(t)' /\ DoneInv(n)'
  BY <1>1 DEF StreamTypes, WireInv, EndInv, DoneInv
<1>3. GotInv(n)'
  BY <1>1, GotKept
<1>4. turn'.phase = "collecting" => ChannelInv(t, n)'
  BY <1>1, UsefulKept
<1> QED
  BY <1>1, <1>2, <1>3, <1>4 DEF StreamAt

\* The turn completes: it has what every line carries.
LEMMA TurnCompletesStep ==
  ASSUME NEW t \in Nat, NEW n \in Nat, StreamAt(t, n), TurnCompletes
  PROVE  StreamAt(t, t)'
<1>1. /\ UNCHANGED <<sseLines, wire, partial, reader, channel, stopping>>
      /\ turn.phase = "collecting" /\ channel = <<>> /\ reader = "gone"
      /\ turn' = [turn EXCEPT !.phase = "complete"]
      /\ StreamTypes /\ WireInv(t) /\ GotInv(n) /\ EndInv(t)
      /\ t \in 0 .. Len(sseLines) /\ n \in 0 .. t
      /\ ChannelInv(t, n) /\ turn \in Turns
  BY DEF TurnCompletes, StreamAt, StreamTypes
<1>2. /\ turn'.phase = "complete" /\ turn'.got = turn.got /\ turn'.calls = turn.calls
      /\ turn' \in Turns
  BY <1>1 DEF Turns, Phases
<1>3. StreamTypes' /\ WireInv(t)' /\ EndInv(t)'
  BY <1>1, <1>2 DEF StreamTypes, WireInv, EndInv
<1>4. \A k \in Useful(t) : ~(k > n)
  <2>1. PICK c \in Nat : /\ Len(channel) = c \/ Len(channel) = c + 1
                         /\ \A k \in Useful(t) : k > n <=> \E i \in 1 .. c : channel[i].of = k
    BY <1>1 DEF ChannelInv
  <2>2. Len(channel) = 0
    BY <1>1
  <2>3. 1 .. c = {}
    BY <2>1, <2>2
  <2> QED
    BY <2>1, <2>3
<1>5. \A k \in 1 .. t : k \in 1 .. n \/ k > n
  BY <1>1
<1>6. \A k \in 1 .. n : k \in 1 .. t
  BY <1>1
<1>7. Useful(t) = Useful(n)
  BY <1>4, <1>5, <1>6 DEF Useful
<1>8. \A i : CallsTo(i, t) = CallsTo(i, n)
  <2>1. \A i : \A k \in CallsTo(i, t) : k \in Useful(t)
    BY DEF CallsTo, Useful, Line
  <2> QED
    BY <1>4, <1>5, <1>6, <2>1 DEF CallsTo
<1>9. GotInv(t)
  BY <1>1, <1>7, <1>8 DEF GotInv
<1>10. GotInv(t)'
  BY <1>1, <1>2, <1>9, GotKept
<1>11. DoneInv(t)'
  BY <1>1 DEF DoneInv, EndInv, Over
<1>12. t \in 0 .. Len(sseLines') /\ t \in 0 .. t
  BY <1>1
<1> QED
  BY <1>2, <1>3, <1>10, <1>11, <1>12 DEF StreamAt

\* The turn takes the next event.
LEMMA CollectStep ==
  ASSUME NEW t \in Nat, NEW n \in Nat, StreamAt(t, n), Collect
  PROVE  \E m \in Nat : StreamAt(t, m)'
<1>1. /\ UNCHANGED <<sseLines, wire, partial, reader, stopping>>
      /\ turn.phase = "collecting" /\ channel # <<>> /\ channel' = Tail(channel)
      /\ StreamTypes /\ WireInv(t) /\ GotInv(n) /\ EndInv(t)
      /\ t \in 0 .. Len(sseLines) /\ n \in 0 .. t
      /\ ChannelInv(t, n) /\ turn \in Turns /\ channel \in ListOf(SentEvents)
  BY DEF Collect, StreamAt, StreamTypes
<1>2. PICK c \in Nat :
        /\ \/ Len(channel) = c
           \/ Len(channel) = c + 1 /\ channel[c + 1] = Failure /\ reader = "gone"
        /\ \A i \in 1 .. c : Carries(channel[i], t)
        /\ \A i, j \in 1 .. c : i < j => channel[i].of < channel[j].of
        /\ \A k \in Useful(t) : k > n <=> \E i \in 1 .. c : channel[i].of = k
  BY <1>1 DEF ChannelInv
<1>3. PICK all, len \in Nat : all = Len(sseLines) /\ len = Len(channel)
  BY <1>1, ListTyped DEF StreamTypes
<1>4. /\ len > 0 /\ Head(channel) = channel[1] /\ channel' \in ListOf(SentEvents)
      /\ Len(channel') = len - 1 /\ \A i \in 1 .. len - 1 : channel'[i] = channel[i + 1]
  BY <1>1, <1>3, ListTail
<1>5. PICK e : e = Head(channel)
  OBVIOUS
<1>6. turn' =
        IF e.kind = "error" THEN [turn EXCEPT !.phase = "failed"]
        ELSE IF e.kind = "text"
        THEN [turn EXCEPT !.text = Append(@, e.of), !.got = Append(@, e.of)]
        ELSE IF e.kind = "finish" THEN [turn EXCEPT !.got = Append(@, e.of)]
        ELSE IF Refused(turn.calls, e.index) THEN [turn EXCEPT !.phase = "refused"]
        ELSE [turn EXCEPT !.calls = ApplyFragment(@, e.index, e.of), !.got = Append(@, e.of)]
  BY <1>5 DEF Collect
<1>7. CASE turn' = [turn EXCEPT !.phase = "failed"] \/ turn' = [turn EXCEPT !.phase = "refused"]
  BY <1>1, <1>4, <1>7, TurnEndsStep
<1>8. CASE c = 0
  <2>1. len = 1 /\ channel[1] = Failure
    BY <1>2, <1>3, <1>4, <1>8
  <2>2. e.kind = "error"
    BY <1>4, <1>5, <2>1, FailureIs
  <2> QED
    BY <1>6, <1>7, <2>2
<1>9. CASE /\ c # 0
           /\ turn' # [turn EXCEPT !.phase = "failed"] /\ turn' # [turn EXCEPT !.phase = "refused"]
  <2>1. 1 \in 1 .. c /\ c - 1 \in Nat /\ 1 .. len # {}
    BY <1>4, <1>9
  <2>2. PICK k \in Nat : k = e.of /\ k \in Useful(t) /\ k > n /\ k \in 1 .. t
    <3>1. Carries(e, t)
      BY <1>2, <1>4, <1>5, <2>1
    <3>2. e.of \in Useful(t) /\ e.of \in 1 .. t /\ e.of \in Nat
      BY <3>1 DEF Carries, Useful
    <3>3. e.of > n
      BY <1>2, <1>4, <1>5, <2>1, <3>2
    <3> QED
      BY <3>2, <3>3
  <2>3. PICK line : line = sseLines[k] /\ line \in Kinds
    <3>1. k \in 1 .. all
      BY <1>1, <1>3, <2>2
    <3>2. sseLines[k] \in Kinds
      BY <1>1, <1>3, <3>1, ListTyped DEF StreamTypes
    <3> QED
      BY <3>2
  <2>4. /\ e.kind = line.kind /\ e.index = line.index
        /\ line.kind \in {"text", "finish", "call"}
    <3>1. e = Event(line, k)
      BY <1>2, <1>4, <1>5, <2>1, <2>2, <2>3 DEF Carries
    <3>2. line.kind \notin {"noise", "junk"}
      BY <2>2, <2>3 DEF Useful
    <3> QED
      BY <2>3, <3>1, <3>2, KindsAre DEF Event
  <2>5. /\ turn'.phase = "collecting" /\ turn' \in Turns
        /\ turn'.got = Append(turn.got, k)
        /\ turn'.calls = IF line.kind = "call"
                         THEN [turn.calls EXCEPT ![line.index] = Append(@, k)]
                         ELSE turn.calls
    <3>1. /\ turn.got \in ListOf(Nat) /\ turn.text \in ListOf(Nat)
          /\ turn.calls \in [Indices -> ListOf(Nat)]
      BY <1>1 DEF Turns
    <3>2. Append(turn.got, k) \in ListOf(Nat) /\ Append(turn.text, k) \in ListOf(Nat)
      BY <2>2, <3>1, ListAppended
    <3>3. CASE line.kind = "text"
      <4>1. turn' = [turn EXCEPT !.text = Append(@, k), !.got = Append(@, k)]
        BY <1>6, <2>2, <2>4, <3>3
      <4> QED
        BY <1>1, <3>2, <3>3, <4>1 DEF Turns
    <3>4. CASE line.kind = "finish"
      <4>1. turn' = [turn EXCEPT !.got = Append(@, k)]
        BY <1>6, <2>2, <2>4, <3>4
      <4> QED
        BY <1>1, <3>2, <3>4, <4>1 DEF Turns
    <3>5. CASE line.kind = "call"
      <4>1. turn' = [turn EXCEPT !.calls = ApplyFragment(@, line.index, k), !.got = Append(@, k)]
        BY <1>6, <1>9, <2>2, <2>4, <3>5
      <4>2. line.index \in Indices
        BY <2>3, <3>5, KindsAre
      <4>3. Append(turn.calls[line.index], k) \in ListOf(Nat)
        BY <2>2, <3>1, <4>2, ListAppended
      <4>4. [turn.calls EXCEPT ![line.index] = Append(@, k)] \in [Indices -> ListOf(Nat)]
        BY <3>1, <4>2, <4>3
      <4>5. turn'.calls = [turn.calls EXCEPT ![line.index] = Append(@, k)]
        BY <1>1, <4>1 DEF Turns, ApplyFragment
      <4>6. turn' = [turn EXCEPT !.calls = turn'.calls, !.got = Append(@, k)]
        BY <1>1, <4>1, <4>5 DEF Turns, ApplyFragment
      <4> QED
        BY <1>1, <3>2, <3>5, <4>4, <4>5, <4>6 DEF Turns
    <3> QED
      BY <2>4, <3>3, <3>4, <3>5
  <2>6. \A j \in Useful(t) : j > n => j >= k
    <3> SUFFICES ASSUME NEW j \in Useful(t), j > n PROVE j >= k
      OBVIOUS
    <3>1. PICK i \in 1 .. c : channel[i].of = j
      BY <1>2
    <3>2. channel[1].of = k
      BY <1>4, <1>5, <2>2
    <3>3. CASE i = 1
      BY <2>2, <3>1, <3>2, <3>3
    <3>4. CASE i # 1
      <4>1. 1 < i
        BY <3>4
      <4>2. channel[1].of < channel[i].of
        BY <1>2, <2>1, <3>1, <4>1
      <4>3. j \in Nat
        BY DEF Useful
      <4> QED
        BY <2>2, <3>1, <3>2, <4>2, <4>3
    <3> QED
      BY <3>3, <3>4
  <2>7. /\ \A j \in 1 .. k : j = k \/ j \in 1 .. n \/ (j > n /\ ~(j >= k))
        /\ \A j \in 1 .. k : j \in 1 .. t
        /\ \A j \in 1 .. n : j \in 1 .. k /\ j < k
        /\ k \in 1 .. k
    BY <1>1, <2>2
  <2>8. Useful(k) = Useful(n) \cup {k} /\ \A j \in Useful(n) : j < k
    <3>1. ASSUME NEW j \in Useful(k)
          PROVE  j \in Useful(n) \cup {k}
      <4>1. j \in Useful(t) /\ j \in 1 .. k
        BY <2>7 DEF Useful
      <4> QED
        BY <2>6, <2>7, <4>1 DEF Useful
    <3>2. ASSUME NEW j \in Useful(n) \cup {k}
          PROVE  j \in Useful(k)
      BY <2>2, <2>7 DEF Useful
    <3> QED
      BY <2>7, <3>1, <3>2 DEF Useful
  <2>9. \A i : \A j \in CallsTo(i, k) : j \in Useful(k)
    BY DEF CallsTo, Useful, Line
  <2>10. ASSUME NEW i
         PROVE  CallsTo(i, k) = IF line = Line("call", i) THEN CallsTo(i, n) \cup {k}
                                                          ELSE CallsTo(i, n)
    <3>1. \A j \in CallsTo(i, k) : j = k \/ j \in CallsTo(i, n)
      <4> SUFFICES ASSUME NEW j \in CallsTo(i, k), j # k
                   PROVE  j \in CallsTo(i, n)
        OBVIOUS
      <4>1. j \in Useful(n)
        BY <2>8, <2>9
      <4> QED
        BY <4>1 DEF CallsTo, Useful
    <3>2. \A j \in CallsTo(i, n) : j \in CallsTo(i, k) /\ j # k
      <4>1. k \notin 1 .. n
        BY <2>2
      <4> QED
        BY <2>7, <4>1 DEF CallsTo
    <3>3. k \in CallsTo(i, k) <=> line = Line("call", i)
      BY <2>3, <2>7 DEF CallsTo
    <3> QED
      BY <3>1, <3>2, <3>3
  <2>11. GotInv(k)'
    <3>1. Useful(k)' = Useful(k) /\ \A i : CallsTo(i, k)' = CallsTo(i, k)
      BY <1>1 DEF Useful, CallsTo
    <3>2. InOrder(turn'.got, Useful(k))
      <4>1. turn.got \in ListOf(Nat) /\ InOrder(turn.got, Useful(n))
        BY <1>1 DEF Turns, GotInv
      <4>2. InOrder(Append(turn.got, k), Useful(n) \cup {k})
        BY <2>2, <2>8, <4>1, InOrderAppended
      <4> QED
        BY <2>5, <2>8, <4>2
    <3>3. ASSUME NEW i \in Indices
          PROVE  InOrder(turn'.calls[i], CallsTo(i, k))
      <4>1. /\ turn.calls \in [Indices -> ListOf(Nat)] /\ turn.calls[i] \in ListOf(Nat)
            /\ InOrder(turn.calls[i], CallsTo(i, n))
        BY <1>1 DEF Turns, GotInv
      <4>2. CASE line = Line("call", i)
        <5>1. line.kind = "call" /\ line.index = i
          BY <4>2 DEF Line
        <5>2. turn'.calls[i] = Append(turn.calls[i], k)
          BY <2>5, <4>1, <5>1
        <5>3. \A j \in CallsTo(i, n) : j < k
          BY <2>7 DEF CallsTo
        <5>4. InOrder(Append(turn.calls[i], k), CallsTo(i, n) \cup {k})
          BY <2>2, <4>1, <5>3, InOrderAppended
        <5> QED
          BY <2>10, <4>2, <5>2, <5>4
      <4>3. CASE line # Line("call", i)
        <5>1. ~(line.kind = "call" /\ line.index = i)
          BY <2>3, <4>3, KindsAre
        <5>2. turn'.calls[i] = turn.calls[i]
          BY <2>5, <4>1, <5>1
        <5> QED
          BY <2>10, <4>1, <4>3, <5>2
      <4> QED
        BY <4>2, <4>3
    <3> QED
      BY <3>1, <3>2, <3>3 DEF GotInv
  <2>12. ChannelInv(t, k)'
    <3>1. PICK d \in Nat : d = c - 1 /\ d + 1 = c
      <4>1. c - 1 \in Nat /\ (c - 1) + 1 = c
        BY <2>1
      <4> QED
        BY <4>1
    <3>2. \A i \in 1 .. d : i \in 1 .. len - 1 /\ i + 1 \in 1 .. c
      BY <1>2, <1>3, <3>1
    <3>3. \/ Len(channel') = d
          \/ Len(channel') = d + 1 /\ channel'[d + 1] = Failure /\ reader' = "gone"
      <4>1. CASE len = c
        BY <1>4, <3>1, <4>1
      <4>2. CASE len = c + 1 /\ channel[c + 1] = Failure /\ reader = "gone"
        <5>1. len - 1 = d + 1 /\ d + 1 \in 1 .. len - 1 /\ (d + 1) + 1 = c + 1
          BY <3>1, <4>2
        <5> QED
          BY <1>1, <1>4, <4>2, <5>1
      <4> QED
        BY <1>2, <1>3, <4>1, <4>2
    <3>4. Useful(t)' = Useful(t)
      BY <1>1 DEF Useful
    <3>5. \A i \in 1 .. d : channel'[i] = channel[i + 1]
      BY <1>4, <3>2
    <3>6. \A i \in 1 .. d : /\ channel'[i].of \in Useful(t)'
                            /\ channel'[i] = Event(sseLines'[channel'[i].of], channel'[i].of)
      BY <1>1, <1>2, <3>2, <3>4, <3>5 DEF Carries
    <3>7. \A i, j \in 1 .. d : i < j => channel'[i].of < channel'[j].of
      <4> SUFFICES ASSUME NEW i \in 1 .. d, NEW j \in 1 .. d, i < j
                   PROVE  channel'[i].of < channel'[j].of
        OBVIOUS
      <4>1. i + 1 \in 1 .. c /\ j + 1 \in 1 .. c /\ i + 1 < j + 1
        BY <3>2
      <4>2. channel[i + 1].of < channel[j + 1].of
        BY <1>2, <4>1
      <4> QED
        BY <3>5, <4>2
    <3>8. ASSUME NEW j \in Useful(t)'
          PROVE  j > k <=> \E i \in 1 .. d : channel'[i].of = j
      <4>0. j \in Useful(t) /\ j \in Nat /\ channel[1].of = k
        <5>1. j \in Useful(t)
          BY <3>4
        <5>2. j \in Nat
          BY <5>1 DEF Useful
        <5> QED
          BY <1>4, <1>5, <2>2, <5>1, <5>2
      <4>1. ASSUME j > k
            PROVE  \E i \in 1 .. d : channel'[i].of = j
        <5>1. j > n
          BY <2>2, <4>0, <4>1
        <5>2. PICK i \in 1 .. c : channel[i].of = j
          BY <1>2, <4>0, <5>1
        <5>3. i # 1
          BY <2>2, <4>0, <4>1, <5>2
        <5>4. i - 1 \in 1 .. d /\ (i - 1) + 1 = i
          BY <3>1, <5>3
        <5>5. channel'[i - 1].of = j
          BY <3>5, <5>2, <5>4
        <5> QED
          BY <5>4, <5>5
      <4>2. ASSUME NEW i \in 1 .. d, channel'[i].of = j
            PROVE  j > k
        <5>1. i + 1 \in 1 .. c /\ 1 < i + 1
          BY <3>2
        <5>2. channel[1].of < channel[i + 1].of
          BY <1>2, <2>1, <5>1
        <5>3. channel[i + 1].of = j
          BY <3>5, <4>2
        <5>4. k < j
          BY <4>0, <5>2, <5>3
        <5> QED
          BY <2>2, <4>0, <5>4
      <4> QED
        BY <4>1, <4>2
    <3> QED
      BY <3>3, <3>6, <3>7, <3>8 DEF ChannelInv, Carries
  <2>13. EndInv(t)'
    <3> SUFFICES ASSUME ~Cut, reader = "gone", ~stopping
                 PROVE  \/ channel' # <<>> /\ channel'[Len(channel')] = Failure
                        \/ t = Len(sseLines) /\ Over
      BY <1>1 DEF EndInv, Over
    <3>1. CASE t = Len(sseLines) /\ Over
      BY <3>1
    <3>2. CASE channel[len] = Failure
      <4>1. len # 1
        <5>1. channel[1] # Failure
          BY <1>4, <1>5, <2>4, FailureIs
        <5> QED
          BY <3>2, <5>1
      <4>2. len - 1 \in 1 .. len - 1 /\ (len - 1) + 1 = len /\ len - 1 # 0
        BY <1>4, <4>1
      <4>3. channel' # <<>>
        BY <1>4, <4>2
      <4> QED
        BY <1>4, <3>2, <4>2, <4>3
    <3> QED
      BY <1>1, <1>3, <3>1, <3>2 DEF EndInv
  <2>14. StreamTypes' /\ WireInv(t)' /\ DoneInv(k)'
    BY <1>1, <1>4, <2>5 DEF StreamTypes, WireInv, DoneInv
  <2>15. t \in 0 .. Len(sseLines') /\ k \in 0 .. t
    BY <1>1, <2>2
  <2>16. StreamAt(t, k)'
    BY <2>11, <2>12, <2>13, <2>14, <2>15 DEF StreamAt
  <2> QED
    BY <2>16
<1> QED
  BY <1>7, <1>8, <1>9

LEMMA StreamStep ==
  ASSUME StreamInv, ~Wide, [StreamNext]_streamVars
  PROVE  StreamInv'
<1>1. PICK t, n \in Nat : StreamAt(t, n)
  BY DEF StreamInv
<1>2. CASE UNCHANGED streamVars
  <2>1. StreamTypes' /\ WireInv(t)' /\ EndInv(t)' /\ DoneInv(n)'
    BY <1>1, <1>2 DEF streamVars, StreamAt, StreamTypes, WireInv, EndInv, DoneInv, Over
  <2>2. GotInv(n)'
    BY <1>1, <1>2 DEF streamVars, StreamAt, GotInv, Useful, CallsTo
  <2>3. turn'.phase = "collecting" => ChannelInv(t, n)'
    BY <1>1, <1>2, UsefulKept DEF streamVars, StreamAt
  <2>4. t \in 0 .. Len(sseLines') /\ n \in 0 .. t
    BY <1>1, <1>2 DEF streamVars, StreamAt
  <2>5. StreamAt(t, n)'
    BY <2>1, <2>2, <2>3, <2>4 DEF StreamAt
  <2> QED
    BY <2>5 DEF StreamInv
<1>3. CASE TakeLine
  <2>1. StreamAt(t + 1, n)' /\ t + 1 \in Nat
    BY <1>1, <1>3, TakeLineStep
  <2> QED
    BY <2>1 DEF StreamInv
<1>4. CASE Collect
  BY <1>1, <1>4, CollectStep DEF StreamInv
<1>5. CASE TurnCompletes
  BY <1>1, <1>5, TurnCompletesStep DEF StreamInv
<1>6. CASE \/ ServerSends \/ ReceiveChunk \/ BodyEnds \/ ReaderCancelled \/ LinesOver
           \/ ReceiverGone \/ StopTurn \/ TurnCancelled
  <2>1. StreamAt(t, n)'
    BY <1>1, <1>6, ServerSendsStep, ReceiveChunkStep, BodyEndsStep, ReaderGoneStep,
       LinesOverStep, StopTurnStep, TurnCancelledStep
  <2> QED
    BY <2>1 DEF StreamInv
<1> QED
  BY <1>2, <1>3, <1>4, <1>5, <1>6 DEF StreamNext

LEMMA StreamInvFaithful ==
  ASSUME StreamInv
  PROVE  EventsInOrder /\ (~Cut => CallsWhole)
<1>1. PICK t, n \in Nat : StreamAt(t, n)
  BY DEF StreamInv
<1>2. PICK all \in Nat : all = Len(sseLines) /\ DOMAIN sseLines = 1 .. all
  BY <1>1, ListTyped DEF StreamAt, StreamTypes
<1>3. n \in 0 .. Len(sseLines)
  BY <1>1, <1>2 DEF StreamAt
<1>4. EventsInOrder
  BY <1>1, <1>3 DEF StreamAt, GotInv, EventsInOrder
<1>5. ASSUME ~Cut, turn.phase = "complete", ~stopping, NEW i \in Indices
      PROVE  InOrder(turn.calls[i], SentTo(i))
  <2>1. n = all
    BY <1>1, <1>2, <1>5 DEF StreamAt, DoneInv
  <2>2. SentTo(i) = CallsTo(i, n)
    BY <1>2, <2>1 DEF SentTo, CallsTo
  <2> QED
    BY <1>1, <2>2 DEF StreamAt, GotInv
<1> QED
  BY <1>4, <1>5 DEF CallsWhole

\* However the network cuts the bytes into chunks, whatever the lines and whenever the
\* run is stopped, the turn gets the server's events whole, in order, none twice and none
\* left out (provider lib.rs, agent.rs), where no character is cut in two.
THEOREM EventsArriveInOrder ==
  ASSUME ~Wide
  PROVE  StreamSpec => []EventsInOrder
<1>1. StreamInv /\ [StreamNext]_streamVars => StreamInv'
  BY StreamStep
<1>2. StreamInv => EventsInOrder
  BY StreamInvFaithful
<1> QED
  BY <1>1, <1>2, StreamInitial, PTL DEF StreamSpec

\* And where the body does not end before the server's last line does, a turn that
\* completes has every fragment of every tool call (toolcalls.rs).
THEOREM StreamIsFaithful ==
  ASSUME ~Wide, ~Cut
  PROVE  StreamSpec => []StreamFaithful
<1>1. StreamInv /\ [StreamNext]_streamVars => StreamInv'
  BY StreamStep
<1>2. StreamInv => StreamFaithful
  BY StreamInvFaithful DEF StreamFaithful
<1> QED
  BY <1>1, <1>2, StreamInitial, PTL DEF StreamSpec

=============================================================================
