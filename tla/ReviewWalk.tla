------------------------------- MODULE ReviewWalk -------------------------------
(* What the screens of a signing command promise, whatever the transaction   *)
(* and the device: the choice comes only from a review, and only the choice, *)
(* or an error, gives the display back.  IovApp answers its commands with    *)
(* it; Review walks through the items and does no more than this.            *)

VARIABLE screen \* "review", "choice", "error", or another one

Init == screen = "idle"

\* view_sign_show, over whatever is displayed
Begin == screen' \in {"review", "error"}

Done == screen = "review" /\ screen' = "choice"

Again == screen = "choice" /\ screen' = "review"

\* An item that cannot be formatted, on the way forth or back
Fails == screen \in {"review", "choice"} /\ screen' = "error"

\* h_sign_accept and h_sign_reject, h_error_accept
Close == screen \in {"choice", "error"} /\ screen' = "idle"

Next == Begin \/ Done \/ Again \/ Fails \/ Close
===============================================================================
