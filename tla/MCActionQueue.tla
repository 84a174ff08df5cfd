--------------------------- MODULE MCActionQueue ---------------------------
(* Instances of ActionQueue for TLC. *)
EXTENDS ActionQueue

(* Two commands meet every mishap (a kill, a refusal of the file system, a *)
(* toggle) with every other; three commands meet one of them.              *)
Alone == posted' = MaxPosts => kills' + failures' + toggles' <= 1

MCSpec == Init /\ [][Next /\ Alone]_vars /\ WF_vars(DaemonStep)
=============================================================================
