--------------------------- MODULE MCVideoLibrary ---------------------------
(* Constants of the VideoLibrary run.  The two callers are interchangeable, *)
(* and the view leaves out what no later step and no property reads.        *)
EXTENDS VideoLibrary, TLC

Symmetry == Permutations(Callers)

(* The options that every download sets anew.                               *)
Handle ==
  IF \E t \in Callers : Downloading(t) THEN handle
  ELSE [handle EXCEPT !.out = Nobody, !.url = 1]

(* The raw file of a video that is no longer being made, and the length of  *)
(* a body that no transfer fetches.                                         *)
InUse(v) == fate[v] = "none" \/ \E t \in Callers : Downloading(t) /\ load[t].fetches = v
Contents == [v \in Videos |-> IF InUse(v) THEN <<size[v], content[v]>> ELSE <<0, <<>>>>]

(* Whose row a delete was given, once it has unlinked the file; what a      *)
(* directory imported before a file failed, and which file was the last.    *)
Call(t) ==
  CASE At(t, "erase") -> [call[t] EXCEPT !.found = 1]
    [] At(t, "next") \/ At(t, "report") ->
         [call[t] EXCEPT !.video = 1, !.imported = Told(t)]
    [] OTHER -> [call[t] EXCEPT !.imported = Told(t)]

(* The overlapping of a download whose video is not there.                  *)
Overlapped == {v \in mixed : fate[v] = "none" \/ video[v] = "cut"}

View == <<Handle, load, raws, Contents, hasId, issued, [t \in Callers |-> Call(t)], video,
          database, crashes, fate, Overlapped, promised, removed, unsure>>
=============================================================================
