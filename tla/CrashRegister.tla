---------------------------- MODULE CrashRegister ----------------------------
(***************************************************************************)
(* What a recoverable document promises its owner: a register whose writes *)
(* may fail or be cut short by the end of the process.                     *)
(***************************************************************************)
CONSTANTS Docs,       \* documents
          Absent,     \* there is no document
          Damaged     \* loading is refused with an error

VARIABLES committed,  \* the document of the last write that was reported as done
          attempts,   \* documents of the later writes, failed or unfinished
          visible,    \* what loading the document answers now
          promise     \* which of the two weaknesses below the register has

vars == <<committed, attempts, visible, promise>>

\* "expose": a write that failed or was cut short may show all the same.
\* "refuse": loading may be refused although something was committed.
Promises == SUBSET {"expose", "refuse"}

Allowed(com, att) ==
  {com} \cup (IF "expose" \in promise THEN att ELSE {})
        \cup (IF "refuse" \in promise \/ com = Absent THEN {Damaged} ELSE {})

Init ==
  /\ committed \in Docs \cup {Absent}
  /\ attempts = {}
  /\ visible = committed
  /\ promise \in Promises

Begin(doc) ==
  /\ attempts' = attempts \cup {doc}
  /\ visible' \in Allowed(committed, attempts')
  /\ UNCHANGED <<committed, promise>>

\* A step of a write, its failure, or a restart.
Work ==
  /\ visible' \in Allowed(committed, attempts)
  /\ UNCHANGED <<committed, attempts, promise>>

\* A write is reported as done: its document is the one that loads, and the
\* ones before it never return.
Commit(doc) ==
  /\ committed' = doc
  /\ attempts' = {}
  /\ visible' = doc
  /\ UNCHANGED promise

Next ==
  \/ \E doc \in Docs : Begin(doc)
  \/ Work
  \/ \E doc \in attempts : Commit(doc)

Spec == Init /\ [][Next]_vars
=============================================================================
