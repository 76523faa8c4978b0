------------------------------- MODULE FixEngine -------------------------------
(***************************************************************************)
(* How the rewrites that a person accepts change a file                    *)
(* (internal/features/review/fix.go).  A patch is stored on its finding;   *)
(* the file may have changed when it is accepted, so edit finds its range  *)
(* again, and applyEdits replaces the ranges of all accepted patches in    *)
(* one pass.                                                               *)
(*                                                                         *)
(* A file is a sequence of pieces, a range the pieces after the first      *)
(* start and up to the first end of them, as the byte ranges of the code.  *)
(* A heading line is one piece, and no two of them that are the same are   *)
(* neighbours; blank text is one piece.                                    *)
(***************************************************************************)
EXTENDS Integers, Sequences, Folds

Blank == "blank"

\* insert is "replace" for a patch that replaces old; before is the heading of insertBefore.
Patch(Piece, n) ==
    LET Text == UNION {[1 .. m -> Piece] : m \in 0 .. n}
    IN  [old : Text, new : Text \ {<<>>}, start : 0 .. n, end : 0 .. n,
         insert : {"replace", "start", "end", "before"}, before : Piece]

Slice(src, start, end) == SubSeq(src, start + 1, end)

Edit(start, end, text) == [start |-> start, end |-> end, text |-> text]

\* Where text is in src.
Places(src, text) == {i \in 0 .. Len(src) - Len(text) : Slice(src, i, i + Len(text)) = text}

\* Where text is, when it is in src once: a second place would have to overlap the first.
Once(src, text) == {i \in Places(src, text) : \A j \in Places(src, text) : i <= j /\ j < i + Len(text)}

\* The length of src without its blank end.
Trimmed(src) ==
    CHOOSE n \in 0 .. Len(src) : /\ \A i \in n + 1 .. Len(src) : src[i] = Blank
                                 /\ n > 0 => src[n] # Blank

\* A range holds while its text is where it was, or is in the file once.
RangeEdit(pt, src) ==
    CASE pt.old = <<>> -> {}
      [] pt.start \in Places(src, pt.old) /\ pt.end = pt.start + Len(pt.old) ->
           {Edit(pt.start, pt.end, pt.new)}
      [] OTHER -> {Edit(i, i + Len(pt.old), pt.new) : i \in Once(src, pt.old)}

\* edit: the edit that a patch is in src, as a set; it is empty when the text changed.
PatchEdit(pt, src) ==
    CASE pt.insert = "start" -> {Edit(0, 0, Append(pt.new, Blank))}
      [] pt.insert = "end" ->
           {Edit(Trimmed(src), Len(src), IF Trimmed(src) = 0 THEN pt.new ELSE <<Blank>> \o pt.new)}
      [] pt.insert = "before" ->
           {Edit(i, i, Append(pt.new, Blank)) : i \in Once(src, <<pt.before>>)}
      [] pt.insert = "replace" -> RangeEdit(pt, src)

\* applyEdits: the file, where the text of each edit is in it, and whether the edits fit.
ApplyEdits(src, edits) ==
    LET before(i, j) ==
            edits[i].start < edits[j].start \/ (edits[i].start = edits[j].start /\ i < j)
        latest(S) == CHOOSE i \in S : \A j \in S \ {i} : before(j, i)
        step(i, done) ==
            LET e == edits[i]
                out == done.out \o Slice(src, done.at, e.start)
            IN  IF done.ok /\ done.at <= e.start /\ e.start <= e.end /\ e.end <= Len(src)
                THEN [ok |-> TRUE, at |-> e.end, out |-> out \o e.text,
                      placed |-> [done.placed EXCEPT ![i] = Edit(Len(out), Len(out) + Len(e.text), e.text)]]
                ELSE [done EXCEPT !.ok = FALSE]
        last == MapThenFoldSet(step, [ok |-> TRUE, at |-> 0, out |-> <<>>, placed |-> edits],
                               LAMBDA i : i, latest, DOMAIN edits)
    IN  [ok |-> last.ok, file |-> last.out \o Slice(src, last.at, Len(src)), placed |-> last.placed]
================================================================================
