------------------------------ MODULE FileReads ------------------------------
(***************************************************************************)
(* What a reader may expect of a file that others change under its hands:  *)
(* the answer is something the file held between the moment the reader     *)
(* turned to it and the moment it has its answer.  No cache, no mtime and  *)
(* no lock occur here; the readers of this system that remember what they  *)
(* read (load_inverters() in ConfigStore, _load_decoded() in Telemetry)    *)
(* are shown to implement this specification.                              *)
(***************************************************************************)
CONSTANTS Files, Readers, Contents

VARIABLES
  content,   \* what each file holds
  reader     \* per reader: the file it has turned to, if any; what that
             \* file has held since; its latest answer, if any

Fresh == [open |-> {}, held |-> {}, got |-> {}]

Init ==
  /\ content \in [Files -> Contents]
  /\ reader = [r \in Readers |-> Fresh]

(* A file changes; those who have turned to it may get either content. *)
Change(f, c) ==
  /\ content' = [content EXCEPT ![f] = c]
  /\ reader' = [r \in Readers |->
                  IF f \in reader[r].open
                    THEN [reader[r] EXCEPT !.held = @ \cup {c}]
                    ELSE reader[r]]

Turn(r, f) ==
  /\ reader[r].open = {}
  /\ reader' = [reader EXCEPT ![r] = [@ EXCEPT !.open = {f}, !.held = {content[f]}]]
  /\ UNCHANGED content

Return(r, c) ==
  /\ reader[r].open # {} /\ c \in reader[r].held
  /\ reader' = [reader EXCEPT ![r] = [open |-> {}, held |-> {}, got |-> {c}]]
  /\ UNCHANGED content

(* A reader that has its answer the moment it asks. *)
ReadAtOnce(r, f) ==
  /\ reader[r].open = {}
  /\ reader' = [reader EXCEPT ![r] = [@ EXCEPT !.got = {content[f]}]]
  /\ UNCHANGED content

(* A reader that is done with its answer, fails, or is restarted. *)
Forget(r) ==
  /\ reader' = [reader EXCEPT ![r] = Fresh]
  /\ UNCHANGED content

Next ==
  \/ \E f \in Files, c \in Contents : Change(f, c)
  \/ \E r \in Readers :
       \/ \E f \in Files : Turn(r, f) \/ ReadAtOnce(r, f)
       \/ \E c \in Contents : Return(r, c)
       \/ Forget(r)

Spec == Init /\ [][Next]_<<content, reader>>
=============================================================================
