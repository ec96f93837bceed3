--------------------------- MODULE ImageAssembly ---------------------------
(***************************************************************************)
(* What "jigdo-file make-image" promises to the person or the script that  *)
(* feeds it files in several invocations: a file that was accepted once is *)
(* not needed again, and the image appears only when all are there.        *)
(***************************************************************************)
CONSTANT Parts      \* the places of the image that are filled from files

VARIABLES
  saved,            \* the parts the program has in safe keeping
  done              \* has the image been handed over?

vars == <<saved, done>>

Init == saved = {} /\ done = FALSE

\* Parts are added; none of those already there is lost.
Save == \E s \in SUBSET Parts :
          /\ saved \subseteq s /\ saved # s
          /\ saved' = s
          /\ UNCHANGED done

\* The finished image leaves safe keeping.
Finish == /\ saved = Parts
          /\ saved' = {} /\ done' = TRUE

\* Only a finished image whose renaming did not happen may be thrown away
\* (by a later run with --force).
Discard == /\ saved = Parts
           /\ saved' = {} /\ UNCHANGED done

Next == Save \/ Finish \/ Discard

Spec == Init /\ [][Next]_vars
=============================================================================
