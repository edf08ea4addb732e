--------------------------- MODULE ResponseStream ---------------------------
(***************************************************************************)
(* What a response channel promises: responses reach whoever reads in the  *)
(* order they were sent, each of them once; the channel is closed once,    *)
(* for good; and a reader learns that it is over only when there is        *)
(* nothing left to read.  ActivityResponder implements it, the awaitable   *)
(* mode as a channel closed by its only response, the detached mode as one *)
(* that is closed from the start.                                          *)
(***************************************************************************)
EXTENDS Naturals, Sequences

CONSTANT Responses

VARIABLES
  sent,     \* the responses accepted so far, in order
  taken,    \* how many of them have been handed to a reader
  closed,   \* no response is accepted any more
  told      \* some reader has been told that the stream is over

streamVars == <<sent, taken, closed, told>>

Init == sent = <<>> /\ taken = 0 /\ closed \in BOOLEAN /\ told = FALSE

\* A response is accepted, and may be handed at once to a reader who waits.
Send(r) == /\ ~closed
           /\ sent' = Append(sent, r)
           /\ taken' \in {taken} \cup {n \in {taken + 1} : taken = Len(sent)}
           /\ UNCHANGED <<closed, told>>

Take == /\ taken < Len(sent)
        /\ taken' = taken + 1
        /\ UNCHANGED <<sent, closed, told>>

\* The stream is closed, with or without a last response; a reader who waits
\* has taken everything there was, and is told.
Close == /\ ~closed /\ closed' = TRUE
         /\ \/ UNCHANGED <<sent, taken>>
            \/ \E r \in Responses : /\ sent' = Append(sent, r)
                                    /\ taken' \in {taken} \cup {n \in {taken + 1} : taken = Len(sent)}
         /\ told' \in {told} \cup {b \in {TRUE} : taken' = Len(sent')}

Tell == /\ closed /\ taken = Len(sent)
        /\ told' = TRUE
        /\ UNCHANGED <<sent, taken, closed>>

Next == (\E r \in Responses : Send(r)) \/ Take \/ Close \/ Tell

Spec == Init /\ [][Next]_streamVars
=============================================================================
