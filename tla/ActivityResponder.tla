------------------------- MODULE ActivityResponder -------------------------
(***************************************************************************)
(* The response channel of one activity (classes/ActivityResponder.ts): a  *)
(* handler responds, readers consume, and the activity disposes it.  In    *)
(* streaming mode every iterator shares one buffer and one queue of        *)
(* waiters, so readers compete for responses.                              *)
(*                                                                         *)
(* Every method runs to completion without an await, so it is one step.  A *)
(* call that throws (detached, already completed, data the output schema   *)
(* refuses) changes nothing and is not a step.  What a response carries is *)
(* a value of Responses.                                                   *)
(***************************************************************************)
EXTENDS Naturals, Sequences

CONSTANTS
  Responses,     \* the responses a handler may send
  Readers,       \* the iterators; each may call next() again before it is answered
  MaxResponses,  \* bound on the responses sent to a stream
  MaxReads       \* bound on the calls of next()

ASSUME BoundsAssumption == MaxResponses \in Nat /\ MaxReads \in Nat

VARIABLES
  mode,      \* ACTIVITY_RESPONDER_MODE
  complete,  \* ACTIVITY_RESPONDER_COMPLETE
  deferred,  \* the promise of an awaitable activity
  buffer,    \* ACTIVITY_RESPONDER_BUFFER
  waiters,   \* ACTIVITY_RESPONDER_WAITERS, by the reader that waits
  done,      \* ACTIVITY_RESPONDER_DONE
  sent,      \* history: the responses accepted, in order
  asked,     \* history: the readers of the calls of next() while not done
  answers    \* history: what those calls were resolved with, in order

responderVars == <<mode, complete, deferred, buffer, waiters, done, sent, asked, answers>>

Modes == {"awaitable", "streaming", "detached"}
Settlements == {"none", "pending", "resolved", "rejected"}

\* What a call of next() is resolved with: a response, or the end.
Value(reader, response) == [reader |-> reader, done |-> FALSE, value |-> <<response>>]
End(reader) == [reader |-> reader, done |-> TRUE, value |-> <<>>]

ResponderInit ==
  /\ mode \in Modes
  /\ complete = (mode = "detached")
  /\ deferred = IF mode = "awaitable" THEN "pending" ELSE "none"
  /\ buffer = <<>> /\ waiters = <<>> /\ done = FALSE
  /\ sent = <<>> /\ asked = <<>> /\ answers = <<>>
-----------------------------------------------------------------------------
(* What the methods of the stream do to it, as the values they leave.      *)

\* pushToStream: the first waiter gets the response, else it is buffered.
AfterPush(s, r) ==
  IF s.waiters # <<>>
  THEN [s EXCEPT !.waiters = Tail(@), !.answers = Append(@, Value(Head(s.waiters), r))]
  ELSE [s EXCEPT !.buffer = Append(@, r)]

\* terminateStream: every waiter is told that the stream is over.
AfterTerminate(s) ==
  [s EXCEPT !.done = TRUE, !.waiters = <<>>,
            !.answers = @ \o [i \in 1..Len(s.waiters) |-> End(s.waiters[i])]]

Stream == [buffer |-> buffer, waiters |-> waiters, done |-> done, answers |-> answers]

Becomes(s) == /\ buffer' = s.buffer /\ waiters' = s.waiters
              /\ done' = s.done /\ answers' = s.answers
-----------------------------------------------------------------------------
\* respond.success, error, cancelled and send, and complete in awaitable mode:
\* the promise is resolved, and that is the only response.
Settle(r) ==
  /\ mode = "awaitable" /\ ~complete
  /\ deferred' = "resolved" /\ complete' = TRUE
  /\ sent' = Append(sent, r)
  /\ UNCHANGED <<mode, buffer, waiters, done, asked, answers>>

\* The same methods in streaming mode; an error does not end the stream.
Push(r) ==
  /\ mode = "streaming" /\ ~complete
  /\ Len(sent) < MaxResponses
  /\ Becomes(AfterPush(Stream, r))
  /\ sent' = Append(sent, r)
  /\ UNCHANGED <<mode, complete, deferred, asked>>

\* Mutant: complete(data) ends the stream before it pushes the data.
CompleteTooEarly ==
  /\ mode = "streaming" /\ ~complete
  /\ complete' = TRUE
  /\ \E r \in Responses : /\ Len(sent) < MaxResponses
                          /\ Becomes(AfterPush(AfterTerminate(Stream), r))
                          /\ sent' = Append(sent, r)
  /\ UNCHANGED <<mode, deferred, asked>>

\* complete() in streaming mode, with or without a last response.
Complete ==
  /\ mode = "streaming" /\ ~complete
  /\ complete' = TRUE
  /\ \/ Becomes(AfterTerminate(Stream)) /\ UNCHANGED sent
     \/ \E r \in Responses : /\ Len(sent) < MaxResponses
                             /\ Becomes(AfterTerminate(AfterPush(Stream, r)))
                             /\ sent' = Append(sent, r)
  /\ UNCHANGED <<mode, deferred, asked>>

\* Mutant: disposal marks the responder complete and leaves the rest.
DisposeResponderHalfway ==
  /\ ~complete
  /\ complete' = TRUE
  /\ UNCHANGED <<mode, deferred, buffer, waiters, done, sent, asked, answers>>

\* dispose(): a promise still pending is rejected, an open stream is ended.
DisposeResponder ==
  /\ ~complete
  /\ complete' = TRUE
  /\ deferred' = IF mode = "awaitable" THEN "rejected" ELSE deferred
  /\ IF mode = "streaming" THEN Becomes(AfterTerminate(Stream))
                           ELSE UNCHANGED <<buffer, waiters, done, answers>>
  /\ UNCHANGED <<mode, sent, asked>>

\* Mutant: the end is looked for before the buffer.
ReadEndFirst(reader) ==
  /\ mode = "streaming" /\ Len(asked) < MaxReads
  /\ asked' = Append(asked, reader)
  /\ \/ /\ done
        /\ answers' = Append(answers, End(reader))
        /\ UNCHANGED <<buffer, waiters>>
     \/ /\ ~done /\ buffer # <<>>
        /\ buffer' = Tail(buffer)
        /\ answers' = Append(answers, Value(reader, Head(buffer)))
        /\ UNCHANGED waiters
     \/ /\ ~done /\ buffer = <<>>
        /\ waiters' = Append(waiters, reader)
        /\ UNCHANGED <<buffer, answers>>
  /\ UNCHANGED <<mode, complete, deferred, done, sent>>

\* next() of an iterator.
Read(reader) ==
  /\ mode = "streaming" /\ Len(asked) < MaxReads
  /\ asked' = Append(asked, reader)
  /\ \/ /\ buffer # <<>>
        /\ buffer' = Tail(buffer)
        /\ answers' = Append(answers, Value(reader, Head(buffer)))
        /\ UNCHANGED waiters
     \/ /\ buffer = <<>> /\ done
        /\ answers' = Append(answers, End(reader))
        /\ UNCHANGED <<buffer, waiters>>
     \/ /\ buffer = <<>> /\ ~done
        /\ waiters' = Append(waiters, reader)
        /\ UNCHANGED <<buffer, answers>>
  /\ UNCHANGED <<mode, complete, deferred, done, sent>>

ResponderNext == (\E r \in Responses : Settle(r) \/ Push(r)) \/ Complete \/ DisposeResponder
          \/ \E reader \in Readers : Read(reader)

ResponderSpec == ResponderInit /\ [][ResponderNext]_responderVars
-----------------------------------------------------------------------------
(* Invariants.                                                             *)

Answers == [reader : Readers, done : BOOLEAN, value : Seq(Responses)]

\* Every variable keeps to its kind.
ResponderTypeOK ==
  /\ mode \in Modes
  /\ complete \in BOOLEAN /\ done \in BOOLEAN
  /\ deferred \in Settlements
  /\ buffer \in Seq(Responses) /\ sent \in Seq(Responses)
  /\ waiters \in Seq(Readers) /\ asked \in Seq(Readers)
  /\ answers \in Seq(Answers)

\* How many responses have left the stream.
Taken == Len(sent) - Len(buffer)

\* However sends and reads interleave, the i-th response answers the i-th
\* call, and what is not answered yet is in the buffer in the order it was
\* sent: nothing is lost, repeated or reordered.
InOrderExactlyOnce ==
  mode = "streaming" =>
    /\ Taken \in 0..Len(answers)
    /\ \A i \in 1..Len(answers) : answers[i].done <=> i > Taken
    /\ \A i \in 1..Taken : answers[i].value = <<sent[i]>>
    /\ \A i \in 1..Len(buffer) : buffer[i] = sent[Taken + i]

\* Calls are answered in the order they were made, whoever made them; the
\* calls without an answer are the waiters, in the same order.
ServedInTurn ==
  /\ Len(asked) = Len(answers) + Len(waiters)
  /\ \A i \in 1..Len(answers) : answers[i].reader = asked[i]
  /\ \A i \in 1..Len(waiters) : waiters[i] = asked[Len(answers) + i]

\* Nobody waits for a channel that is closed: the promise has settled, and no
\* reader is left in the queue.
NobodyStranded ==
  complete => deferred # "pending" /\ waiters = <<>>
-----------------------------------------------------------------------------
(* Refinement.                                                             *)

\* The channel a consumer sees, whichever mode it is in.
Channel == INSTANCE ResponseStream WITH
  taken <- IF mode = "streaming" THEN Taken ELSE Len(sent),
  closed <- complete,
  told <- \E i \in 1..Len(answers) : answers[i].done
ImplementsStream == Channel!Spec
=============================================================================
