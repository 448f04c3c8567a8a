------------------------------ MODULE FileStore ------------------------------
(***************************************************************************)
(* What the file system promises to its callers: a file appears with its   *)
(* whole content, an append adds its whole content or nothing, no other    *)
(* file changes, and what is there stays there through power failures.     *)
(* From the first loss on nothing is promised.  SovereignFS implements it, *)
(* with a disk that was spoiled for a loss.                                *)
(***************************************************************************)
EXTENDS Sequences

CONSTANTS
  Name,         \* file names
  Contents,     \* what callers write
  Absent        \* the content of a file that does not exist

VARIABLES files, lost

Init == files = [n \in Name |-> Absent] /\ lost = FALSE

Create(n, c) ==
  /\ files[n] = Absent
  /\ files' = [files EXCEPT ![n] = c]
  /\ UNCHANGED lost

Extend(n, c) ==
  /\ files[n] # Absent
  /\ files' = [files EXCEPT ![n] = @ \o c]
  /\ UNCHANGED lost

Lose == lost' = TRUE

Next ==
  \/ \E n \in Name, c \in Contents : Create(n, c) \/ Extend(n, c)
  \/ Lose

Spec == Init /\ [][Next]_<<files, lost>>

=============================================================================
