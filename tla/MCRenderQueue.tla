---------------------------- MODULE MCRenderQueue ----------------------------
\* Instances of the export queue for TLC: two submissions of one output, one
\* of another; the first create-only, the others replacing.
EXTENDS RenderQueueProperties

CONSTANTS a, b, c

Both == {a, b}
Three == {a, b, c}
OneOutput == {"movie"}
TwoOutputs == {"movie", "still"}

OutputOfBoth == [j \in Both |-> "movie"]
OutputOfApart == [j \in Both |-> IF j = a THEN "movie" ELSE "still"]
OutputOfThree == [j \in Three |-> IF j = c THEN "still" ELSE "movie"]
PolicyOfBoth == [j \in Both |-> IF j = a THEN "CreateNew" ELSE "OverwriteExisting"]
PolicyOfThree == [j \in Three |-> IF j = a THEN "CreateNew" ELSE "OverwriteExisting"]
=============================================================================
