------------------------------- MODULE Patches -------------------------------
(* Patches over several files: their text is parsed into hunks, the tool     *)
(* works every hunk out before it writes the first one (tool/patch.ts), the  *)
(* library applies them one after the other, or only tells what they would   *)
(* change (patch/index.ts).  A file is the sequence of its lines, split at   *)
(* newlines: the last one is "" when the file ends in a newline.  A line of  *)
(* a patch is its marker and its text.                                       *)
EXTENDS Integers, SequencesExt

CONSTANTS
  Paths,          \* names of files
  Contents0,      \* contents a file may have at first
  PatchTexts      \* patches, between their begin and end markers

Gone == <<>>
Blank == ""

\* A line of a patch is a header with a file's name, or a marker and a text.
PatchLines ==
  ({"add", "delete", "update", "move"} \X Paths) \cup ({"chunk", "keep", "drop", "plus", "eof"} \X STRING)

ASSUME PatchAssumption ==
  /\ Paths \subseteq STRING /\ Blank \in STRING \ Paths
  /\ \A content \in Contents0 : content \in Seq(STRING)
  /\ \A text \in PatchTexts : text \in Seq(PatchLines)

VARIABLES
  disk,        \* the contents of each file, Gone if there is none
  before,      \* the same when the tool was called
  patch,       \* the patch, parsed
  changes,     \* the tool's fileChanges
  applied,     \* how many of them are written
  step

patchVars == <<disk, before, patch, changes, applied, step>>

-----------------------------------------------------------------------------
(* Parsing *)

Hunk(type, path) == [type |-> type, path |-> path, move |-> Blank, contents |-> <<>>, chunks |-> <<>>]
Chunk(context) == [new |-> <<>>, old |-> <<>>, context |-> context]

\* The hunk that is read comes to be h.
WithHunk(acc, h) == [acc EXCEPT !.hunks = ReplaceAt(@, Len(@), h)]

\* A header begins a hunk; a move counts on the next line only.
parsePatchHeader(acc, line) ==
  IF line[1] = "move"
  THEN IF acc.mode = "update"
       THEN [WithHunk(acc, [Last(acc.hunks) EXCEPT !.move = line[2]]) EXCEPT !.mode = "chunks"]
       ELSE [acc EXCEPT !.mode = "none"]
  ELSE [hunks |-> Append(acc.hunks, Hunk(line[1], line[2])), mode |-> line[1]]

\* The lines of a chunk; the marker of the end of the file ends the hunk,
\* like every other line of stars, and what follows up to a header is lost.
parseUpdateFileChunks(acc, line) ==
  LET h == Last(acc.hunks)
      c == Last(h.chunks)
      Both(old, new) ==
        WithHunk(acc, [h EXCEPT !.chunks = ReplaceAt(@, Len(@), [c EXCEPT !.old = @ \o old, !.new = @ \o new])])
  IN CASE line[1] = "chunk" ->
            [WithHunk(acc, [h EXCEPT !.chunks = Append(@, Chunk(line[2]))]) EXCEPT !.mode = "chunk"]
       [] line[1] = "keep" /\ acc.mode = "chunk" -> Both(<<line[2]>>, <<line[2]>>)
       [] line[1] = "drop" /\ acc.mode = "chunk" -> Both(<<line[2]>>, <<>>)
       [] line[1] = "plus" /\ acc.mode = "chunk" -> Both(<<>>, <<line[2]>>)
       [] OTHER -> [acc EXCEPT !.mode = IF @ = "update" THEN "chunks" ELSE @]

parseAddFileContent(acc, line) ==
  IF line[1] # "plus" THEN acc
  ELSE WithHunk(acc, [Last(acc.hunks) EXCEPT !.contents = Append(@, line[2])])

parseLine(acc, line) ==
  IF line[1] \in {"add", "delete", "update", "move"} THEN parsePatchHeader(acc, line)
  ELSE IF line[1] = "eof" THEN [acc EXCEPT !.mode = "none"]
  ELSE IF acc.mode = "add" THEN parseAddFileContent(acc, line)
  ELSE IF acc.mode \in {"update", "chunks", "chunk"} THEN parseUpdateFileChunks(acc, line)
  ELSE acc

\* What is parsed after n lines.
Parsed(text) ==
  LET upTo[n \in 0..Len(text)] ==
        IF n = 0 THEN [hunks |-> <<>>, mode |-> "none"] ELSE parseLine(upTo[n - 1], text[n])
  IN upTo
parsePatch(text) == Parsed(text)[Len(text)].hunks

-----------------------------------------------------------------------------
(* The new contents of a file *)

\* The first place at or after start; 0 if there is none.
seekSequence(lines, pattern, start) ==
  LET found == {i \in start..(Len(lines) - Len(pattern) + 1) :
                  SubSeq(lines, i, i + Len(pattern) - 1) = pattern}
  IN IF pattern = <<>> \/ found = {} THEN 0 ELSE CHOOSE i \in found : \A j \in found : i <= j

EndsBlank(s) == s # <<>> /\ Last(s) = Blank
WithoutBlank(s) == IF EndsBlank(s) THEN Front(s) ELSE s

\* A chunk without old lines goes to the end, whatever its context; without
\* its last blank line a chunk is looked for a second time.
computeReplacement(lines, acc, c) ==
  LET context == seekSequence(lines, <<c.context>>, acc.index)
      from == IF c.context = Blank THEN acc.index ELSE context + 1
      whole == seekSequence(lines, c.old, from)
      again == whole = 0 /\ EndsBlank(c.old)
      old == IF again THEN Front(c.old) ELSE c.old
      new == IF again THEN WithoutBlank(c.new) ELSE c.new
      at == seekSequence(lines, old, from)
      end == IF EndsBlank(lines) THEN Len(lines) ELSE Len(lines) + 1
  IN IF ~acc.ok \/ (c.context # Blank /\ context = 0) THEN [acc EXCEPT !.ok = FALSE]
     ELSE IF c.old = <<>>
     THEN [acc EXCEPT !.index = from, !.list = Append(@, [at |-> end, len |-> 0, new |-> c.new])]
     ELSE IF at = 0 THEN [acc EXCEPT !.ok = FALSE]
     ELSE [acc EXCEPT !.index = at + Len(old), !.list = Append(@, [at |-> at, len |-> Len(old), new |-> new])]

\* What is found after n chunks.
Sought(lines, chunks) ==
  LET upTo[n \in 0..Len(chunks)] ==
        IF n = 0 THEN [list |-> <<>>, index |-> 1, ok |-> TRUE] ELSE computeReplacement(lines, upTo[n - 1], chunks[n])
  IN upTo
computeReplacements(lines, chunks) == Sought(lines, chunks)[Len(chunks)]

Spliced(lines, r) == SubSeq(lines, 1, r.at - 1) \o r.new \o SubSeq(lines, r.at + r.len, Len(lines))

\* The last replacement of those left comes first, so that no place moves.
LastOf(list, left) ==
  CHOOSE i \in left : \A j \in left : list[j].at < list[i].at \/ (list[j].at = list[i].at /\ j <= i)
PutLast(list, s) ==
  LET i == LastOf(list, s.left) IN [lines |-> Spliced(s.lines, list[i]), left |-> s.left \ {i}]
PutIn(lines, list) ==
  LET after[n \in 0..Len(list)] ==
        IF n = 0 THEN [lines |-> lines, left |-> DOMAIN list] ELSE PutLast(list, after[n - 1])
  IN after
applyReplacements(lines, list) == PutIn(lines, list)[Len(list)].lines

\* A file ends in a newline; lines that end in a blank one get none.
WithNewline(lines) == IF EndsBlank(lines) THEN lines ELSE Append(lines, Blank)

\* Gone stands for a chunk that is not found.
deriveNewContentsFromChunks(content, chunks) ==
  LET lines == WithoutBlank(content)
      found == computeReplacements(lines, chunks)
  IN IF content = Gone \/ ~found.ok THEN Gone ELSE WithNewline(applyReplacements(lines, found.list))

AddedContents(h) == IF h.contents = <<>> THEN <<Blank>> ELSE h.contents

-----------------------------------------------------------------------------
(* The library *)

\* One hunk after the other, each over what the ones before left.
applyHunk(acc, h) ==
  LET new == deriveNewContentsFromChunks(acc.files[h.path], h.chunks)
      target == IF h.move = Blank THEN h.path ELSE h.move
  IN IF ~acc.ok \/ (h.type = "delete" /\ acc.files[h.path] = Gone) \/ (h.type = "update" /\ new = Gone)
     THEN [acc EXCEPT !.ok = FALSE]
     ELSE [acc EXCEPT !.files =
            CASE h.type = "add" -> [@ EXCEPT ![h.path] = AddedContents(h)]
              [] h.type = "delete" -> [@ EXCEPT ![h.path] = Gone]
              [] h.type = "update" /\ h.move = Blank -> [@ EXCEPT ![h.path] = new]
              [] OTHER -> [[@ EXCEPT ![target] = new] EXCEPT ![h.path] = Gone]]
applyHunksToFiles(files, hunks) ==
  LET upTo[n \in 0..Len(hunks)] ==
        IF n = 0 THEN [files |-> files, ok |-> hunks # <<>>] ELSE applyHunk(upTo[n - 1], hunks[n])
  IN upTo

\* What the hunks would change, by the name of the file that is written; a
\* later change of the same name replaces an earlier one.
Announced(files, map, h) ==
  CASE h.type = "add" -> [map EXCEPT ![h.path] = <<"add", AddedContents(h)>>]
    [] h.type = "delete" -> [map EXCEPT ![h.path] = <<"delete", files[h.path]>>]
    [] OTHER -> [map EXCEPT ![IF h.move = Blank THEN h.path ELSE h.move] =
                   <<"update", deriveNewContentsFromChunks(files[h.path], h.chunks)>>]
Announcing(files, hunks) ==
  LET upTo[n \in 0..Len(hunks)] ==
        IF n = 0 THEN [p \in Paths |-> <<"none", Gone>>] ELSE Announced(files, upTo[n - 1], hunks[n])
  IN upTo
maybeParseApplyPatchVerified(files, hunks) == Announcing(files, hunks)[Len(hunks)]

-----------------------------------------------------------------------------
(* The tool *)

PatchInit ==
  /\ disk \in [Paths -> Contents0 \cup {Gone}] /\ before = disk
  /\ \E text \in PatchTexts : patch = parsePatch(text)
  /\ changes = <<>> /\ applied = 0 /\ step = "staging"

PatchFails == step' = "failed" /\ UNCHANGED <<disk, before, patch, changes, applied>>

\* A patch without hunks is refused.
NothingFound == step = "staging" /\ patch = <<>> /\ PatchFails

\* The new contents of the next hunk, over the file as it is.
Change(h) == [type |-> h.type,
              new |-> IF h.type = "add" THEN AddedContents(h)
                      ELSE IF h.type = "delete" THEN Gone
                      ELSE deriveNewContentsFromChunks(disk[h.path], h.chunks),
              path |-> h.path, move |-> h.move]
StageHunk ==
  LET h == patch[Len(changes) + 1]
      refused == h.type # "add" /\ (disk[h.path] = Gone \/ (h.type = "update" /\ Change(h).new = Gone))
  IN /\ step = "staging" /\ Len(changes) < Len(patch)
     /\ IF refused THEN PatchFails
        ELSE changes' = Append(changes, Change(h)) /\ UNCHANGED <<disk, before, patch, applied, step>>

\* The user is shown all changes, and may refuse; a file that was not read
\* in this session, or changed since, is refused while staging.
AskToEdit ==
  /\ step = "staging" /\ patch # <<>> /\ Len(changes) = Len(patch)
  /\ step' = "applying"
  /\ UNCHANGED <<disk, before, patch, changes, applied>>
Refused == step = "staging" /\ PatchFails

\* Mutant: the file is written under its old name.
WrittenInPlace(c) == [disk EXCEPT ![c.path] = c.new]

\* A move writes the new file, then removes the old one.
Written(c) == [disk EXCEPT ![IF c.move = Blank THEN c.path ELSE c.move] = c.new]
ApplyChange ==
  LET c == changes[applied + 1] IN
  /\ step = "applying" /\ applied < Len(changes)
  /\ c.type = "delete" => disk[c.path] # Gone
  /\ disk' = IF c.move = Blank THEN Written(c) ELSE [Written(c) EXCEPT ![c.path] = Gone]
  /\ applied' = applied + 1
  /\ UNCHANGED <<before, patch, changes, step>>

\* The file cannot be written or removed; what was written stays.
WriteFails ==
  LET c == changes[applied + 1] IN
  /\ step = "applying" /\ applied < Len(changes)
  /\ disk' \in {disk} \cup {Written(d) : d \in {e \in {c} : e.move # Blank}}
  /\ step' = "failed"
  /\ UNCHANGED <<before, patch, changes, applied>>

PatchDone ==
  /\ step = "applying" /\ applied = Len(changes)
  /\ step' = "done"
  /\ UNCHANGED <<disk, before, patch, changes, applied>>

PatchNext ==
  NothingFound \/ StageHunk \/ AskToEdit \/ Refused \/ ApplyChange \/ WriteFails \/ PatchDone

-----------------------------------------------------------------------------
NamesOf(h) == {h.path} \cup ({h.move} \ {Blank})
Separate(hunks) ==
  /\ \A i, j \in DOMAIN hunks : i # j => NamesOf(hunks[i]) \cap NamesOf(hunks[j]) = {}
  /\ \A i \in DOMAIN hunks : hunks[i].move # hunks[i].path

\* The file put together from its beginning to its end: p tells where the old
\* lines of each chunk begin; chunks without old lines are for the end.
Merge(lines, m, c, at) ==
  IF c.old = <<>> THEN [m EXCEPT !.tail = @ \o c.new]
  ELSE [m EXCEPT !.out = @ \o SubSeq(lines, m.from, at - 1) \o c.new, !.from = at + Len(c.old)]
Merged(lines, chunks, p) ==
  LET upTo[n \in 0..Len(chunks)] ==
        IF n = 0 THEN [out |-> <<>>, from |-> 1, tail |-> <<>>] ELSE Merge(lines, upTo[n - 1], chunks[n], p[n])
  IN upTo

\* The old lines of the chunks occur in the file in this order, and all the
\* lines between them are kept.
IsPatched(content, chunks, new) ==
  LET lines == WithoutBlank(content) IN
  \E p \in [DOMAIN chunks -> 1..(Len(lines) + 1)] :
    LET merged == Merged(lines, chunks, p) IN
    /\ \A n \in DOMAIN chunks : chunks[n].old # <<>> =>
         SubSeq(lines, p[n], p[n] + Len(chunks[n].old) - 1) = chunks[n].old /\ merged[n - 1].from <= p[n]
    /\ LET m == merged[Len(chunks)]
       IN new = WithNewline(m.out \o SubSeq(lines, m.from, Len(lines)) \o m.tail)

\* The tool writes all of a patch or, when a hunk does not fit, nothing: its
\* result is that of the library, which applies hunk after hunk, and what was
\* announced.  Each updated file is its old lines with the chunks put in
\* their places.  After an error of the file system whole hunks are written,
\* in their order.  This is for patches that name no file twice, and files
\* and old lines of chunks that do not end in a blank line.
Exact(h) ==
  h.type = "update" /\ ~EndsBlank(WithoutBlank(before[h.path]))
    /\ (\A i \in DOMAIN h.chunks : ~EndsBlank(h.chunks[i].old))
PatchIsWhole ==
  Separate(patch) =>
    LET upTo == applyHunksToFiles(before, patch)[applied]
        touched == IF applied < Len(patch) THEN NamesOf(patch[applied + 1]) ELSE {}
        map == maybeParseApplyPatchVerified(before, patch)
    IN /\ step = "done" => upTo.ok /\ disk = upTo.files
       /\ \A p \in Paths \ touched : disk[p] = upTo.files[p]
       /\ step = "failed" /\ Len(changes) < Len(patch) => disk = before
       /\ step = "done" => \A p \in Paths :
            map[p][1] # "none" => disk[p] = IF map[p][1] = "delete" THEN Gone ELSE map[p][2]
       /\ step = "done" => \A i \in DOMAIN patch : Exact(patch[i]) =>
            IsPatched(before[patch[i].path], patch[i].chunks,
                      disk[IF patch[i].move = Blank THEN patch[i].path ELSE patch[i].move])
=============================================================================
