------------------------------- MODULE Recall -------------------------------
(***************************************************************************)
(* What the history of a session promises to who edits a line: the lines   *)
(* that can be recalled, oldest first.  A line is added at the end, never  *)
(* twice in a row; only the oldest is forgotten, and only at the limit.    *)
(***************************************************************************)
EXTENDS Sequences, Naturals

CONSTANTS Text, Limit

VARIABLES
  inSession,
  recall

Init == inSession = FALSE /\ recall = << >>

Begin ==
  /\ ~inSession /\ inSession' = TRUE
  /\ recall' \in Seq(Text) /\ Len(recall') <= Limit

End ==
  /\ inSession /\ inSession' = FALSE
  /\ recall' = << >>

(* The newest n lines. *)
Newest(s, n) == IF Len(s) <= n THEN s ELSE SubSeq(s, Len(s) - n + 1, Len(s))

(* The line that is now the last was not the last before. *)
Record ==
  /\ inSession
  /\ recall' # << >>
  /\ LET l == recall'[Len(recall')]
     IN  /\ l \in Text /\ l # << >>
         /\ recall # << >> => l # recall[Len(recall)]
         /\ recall' = Newest(Append(recall, l), Limit - 1)
  /\ UNCHANGED inSession

Forget ==
  /\ inSession
  /\ Len(recall) = Limit
  /\ recall' = Tail(recall)
  /\ UNCHANGED inSession

Next == Begin \/ End \/ Record \/ Forget

Spec == Init /\ [][Next]_<<inSession, recall>>
=============================================================================
