--------------------------- MODULE AddressSpaces ---------------------------
(***************************************************************************)
(* What processes get from the loader and the page tables: a process finds *)
(* its whole image from its first instruction on, the image is nobody      *)
(* else's to change, it is there until the process is gone, and the        *)
(* kernel's own mapping no longer changes once the shell runs.             *)
(***************************************************************************)
CONSTANT Images     \* the memory of a process, as its file says it should be

VARIABLES up,       \* the shell runs
          kernel,   \* the kernel's mapping
          space     \* the live address spaces: pairs of a name and its memory

Init == up = FALSE /\ space = {}

Boot == ~up /\ space' = space

Load ==
  \E new \in space' :
    /\ space' = space \cup {new}
    /\ new[2] \in Images
    /\ \A s \in space : s[1] # new[1]

Exit == \E old \in space : space' = space \ {old}

Next == Boot \/ (up /\ UNCHANGED <<up, kernel>> /\ (Load \/ Exit))

Spec == Init /\ [][Next]_<<up, kernel, space>>
=============================================================================
