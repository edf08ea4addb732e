-------------------------- MODULE ActivitiesProofs --------------------------
(***************************************************************************)
(* Proofs about activities and their response channels, for any tree of    *)
(* activities, any users and any faults.  A disposal that ended left the   *)
(* activity in a terminal status, and no transition of an activation is    *)
(* left to take it out of it.  A call that goes through the children of an *)
(* activity has, in what it disposed, what it is at and what is left of    *)
(* its snapshot, all the children there were when it began.  The second    *)
(* part is about ActivityResponder, the channel each activity owns.        *)
(***************************************************************************)
EXTENDS Activities, ActivityResponder, FiniteSetTheorems, SequenceTheorems, TLAPS

\* The list of children has each of them once, and nothing else.
Family ==
  \A p \in Activities :
    /\ \A i \in 1..Len(children[p]) :
         parent[children[p][i]] = p /\ Born(children[p][i]) /\ Born(p)
    /\ \A i, j \in 1..Len(children[p]) : children[p][i] = children[p][j] => i = j

\* What a call disposes, or has still to dispose, was launched.
Known ==
  \A o \in Origins, a \in Activities :
    /\ call[o][a].at # "idle" => Born(a)
    /\ \A i \in 1..Len(call[o][a].todo) : Born(call[o][a].todo[i])

\* How status, activation and disposal of an activity fit together.
Lives ==
  \A a \in Activities :
    /\ ~Born(a) => ending[a] = "none" /\ launching[a] = "none"
    /\ launching[a] \in {"requested", "initializing", "activating"} =>
         ending[a] \in {"none", "waiting"}
    /\ status[a] = "disposed" => ending[a] = "over"
    /\ ending[a] = "over" => Over(a)

Rooted ==
  \A a \in Activities :
    /\ Born(a) /\ parent[a] = App /\ ending[a] # "over" => a \in roots
    /\ status[a] = "disposed" => a \notin roots

Gone(a) ==
  /\ a \notin listed \cup open
  /\ \A p \in Activities : \A i \in 1..Len(children[p]) : children[p][i] # a

Settled ==
  \A o \in Origins, a \in Activities :
    /\ call[o][a].at \in {"succeeded", "resolved"} => status[a] = "disposed"
    /\ call[o][a].at = "resolved" => Gone(a)

IInv == TypeOK /\ Family /\ Known /\ Lives /\ Rooted /\ Settled

-----------------------------------------------------------------------------
\* The invariant implies the properties.
LEMMA Implies == IInv => RootsAreListed /\ DisposalIsThorough
<1>. SUFFICES ASSUME IInv PROVE RootsAreListed /\ DisposalIsThorough OBVIOUS
<1>1. RootsAreListed BY DEF IInv, Rooted, Lives, RootsAreListed
<1>2. DisposalIsThorough
  <2>. SUFFICES ASSUME NEW o \in Origins, NEW a \in Activities, call[o][a].at = "resolved"
       PROVE /\ status[a] = "disposed" /\ a \notin roots \cup listed \cup open
             /\ \A p \in Activities : \A i \in 1..Len(children[p]) : children[p][i] # a
    BY DEF DisposalIsThorough, IInv
  <2>. QED BY DEF IInv, Settled, Rooted, Gone
<1>. QED BY <1>1, <1>2

\* It holds before anything is launched.
LEMMA InitHolds == Init => IInv
<1>. SUFFICES ASSUME Init PROVE IInv OBVIOUS
<1>1. Idle \in Calls /\ Idle.at = "idle" /\ Idle.todo = <<>>
  BY DEF Idle, Calls, Ats
<1>2. \A o \in Origins, a \in Activities : call[o][a] = Idle BY DEF Init
<1>3. TypeOK
  <2>1. call \in [Origins -> [Activities -> Calls]] BY <1>1 DEF Init
  <2>2. <<>> \in Seq(Activities) OBVIOUS
  <2>. QED BY <2>1, <2>2 DEF Init, TypeOK, Statuses, Launchings, Endings
<1>4. Family /\ Known BY <1>1, <1>2 DEF Init, Family, Known
<1>5. Lives /\ Rooted BY DEF Init, Lives, Rooted, Born
<1>6. Settled BY <1>1, <1>2 DEF Settled
<1>. QED BY <1>3, <1>4, <1>5, <1>6 DEF IInv

\* Taking one element out of a sequence that has it no more than once.
LEMMA Removed ==
  ASSUME NEW S, NEW s \in Seq(S), NEW e,
         \A i, j \in 1..Len(s) : s[i] = s[j] => i = j
  PROVE  LET t == RemoveFirst(s, e)
         IN  /\ t \in Seq(S)
             /\ \A i \in 1..Len(t) : t[i] # e /\ \E j \in 1..Len(s) : t[i] = s[j]
             /\ \A i, j \in 1..Len(t) : t[i] = t[j] => i = j
             /\ \A j \in 1..Len(s) : s[j] # e => \E i \in 1..Len(t) : t[i] = s[j]
<1>1. CASE ~\E i \in 1..Len(s) : s[i] = e
  <2>1. RemoveFirst(s, e) = s BY <1>1 DEF RemoveFirst
  <2>. QED BY <1>1, <2>1
<1>2. CASE \E i \in 1..Len(s) : s[i] = e
  <2>1. PICK k \in 1..Len(s) : s[k] = e BY <1>2
  <2>2. {i \in 1..Len(s) : s[i] = e} = {k} BY <2>1
  <2>3. Min({k}) = k BY <2>1 DEF Min
  <2>4. SelectInSeq(s, LAMBDA v : v = e) = k BY <2>2, <2>3 DEF SelectInSeq
  <2>. DEFINE t == RemoveAt(s, k)
  <2>5. RemoveFirst(s, e) = t BY <1>2, <2>4 DEF RemoveFirst
  <2>6. /\ t \in Seq(S) /\ Len(t) = Len(s) - 1
        /\ \A i \in 1..Len(t) : t[i] = IF i < k THEN s[i] ELSE s[i + 1]
    <3>. DEFINE front == SubSeq(s, 1, k - 1)
                back == SubSeq(s, k + 1, Len(s))
    <3>1. Len(s) \in Nat /\ k \in Int /\ 1 <= k /\ k <= Len(s) BY <2>1
    <3>2. /\ front \in Seq(S) /\ Len(front) = k - 1
          /\ \A i \in 1..(k - 1) : front[i] = s[i]
      BY <3>1
    <3>3. /\ back \in Seq(S) /\ Len(back) = Len(s) - k
          /\ \A i \in 1..(Len(s) - k) : back[i] = s[k + i]
      BY <3>1
    <3>4. t = front \o back BY DEF RemoveAt
    <3>. HIDE DEF front, back, t
    <3>5. t \in Seq(S) /\ Len(t) = Len(s) - 1 BY <3>1, <3>2, <3>3, <3>4
    <3>6. ASSUME NEW i \in 1..Len(t) PROVE t[i] = IF i < k THEN s[i] ELSE s[i + 1]
      <4>1. CASE i < k BY <3>1, <3>2, <3>3, <3>4, <3>5, <4>1
      <4>2. CASE ~(i < k)
        <5>1. t[i] = back[i - (k - 1)] BY <3>1, <3>2, <3>3, <3>4, <3>5, <4>2
        <5>2. i - (k - 1) \in 1..(Len(s) - k) /\ k + (i - (k - 1)) = i + 1
          BY <3>1, <3>5, <4>2
        <5>. QED BY <3>3, <4>2, <5>1, <5>2
      <4>. QED BY <4>1, <4>2
    <3>. QED BY <3>5, <3>6
  <2>. HIDE DEF t
  <2>7. \A i \in 1..Len(t) : t[i] # e /\ \E j \in 1..Len(s) : t[i] = s[j]
    BY <2>1, <2>6
  <2>8. \A i, j \in 1..Len(t) : t[i] = t[j] => i = j BY <2>1, <2>6
  <2>9. ASSUME NEW j \in 1..Len(s), s[j] # e PROVE \E i \in 1..Len(t) : t[i] = s[j]
    <3>1. CASE j < k BY <2>1, <2>6, <3>1
    <3>2. CASE j > k
      <4>1. j - 1 \in 1..Len(t) /\ ~(j - 1 < k) /\ (j - 1) + 1 = j BY <2>1, <2>6, <3>2
      <4>2. t[j - 1] = s[j] BY <2>6, <4>1
      <4>. QED BY <4>1, <4>2
    <3>. QED BY <2>1, <2>9, <3>1, <3>2
  <2>. QED BY <2>5, <2>6, <2>7, <2>8, <2>9
<1>. QED BY <1>1, <1>2

-----------------------------------------------------------------------------
(* The calls of dispose().                                                 *)

\* What entering a disposal does to the calls and to the transitions.
Entered ==
  /\ call' \in [Origins -> [Activities -> Calls]]
  /\ ending' \in [Activities -> Endings]
  /\ \A o \in Origins, a \in Activities :
       /\ call'[o][a].at \in {"succeeded", "resolved"} => call'[o][a].at = call[o][a].at
       /\ call'[o][a].at # "idle" => Born(a)
       /\ \A i \in 1..Len(call'[o][a].todo) : Born(call'[o][a].todo[i])
  /\ \A a \in Activities :
       \/ ending'[a] = ending[a]
       \/ /\ ending[a] = "none" /\ Born(a)
          /\ ending'[a] = IF Transitioning(a) THEN "waiting" ELSE "free"

\* Entering the disposal of an activity itself, whoever's call it is.
LEMMA OwnEntered ==
  ASSUME IInv, NEW o \in Origins, NEW a \in Activities, Born(a),
         NEW calls \in [Activities -> Calls],
         \A b \in Activities :
           /\ calls[b].at \in {"succeeded", "resolved"} => calls[b].at = call[o][b].at
           /\ calls[b].at # "idle" => Born(b)
           /\ \A i \in 1..Len(calls[b].todo) : Born(calls[b].todo[i]),
         DisposeOwn(o, calls, a)
  PROVE  Entered
<1>. DEFINE own == [at |-> IF status[a] \in Terminal THEN "failed" ELSE "own", todo |-> <<>>]
            mine == [calls EXCEPT ![a] = own]
<1>1. /\ own \in Calls /\ own.at \notin {"succeeded", "resolved"} /\ Len(own.todo) = 0
  BY DEF Calls, Ats
<1>. HIDE DEF own
<1>2. /\ mine \in [Activities -> Calls]
      /\ \A b \in Activities : mine[b] = IF b = a THEN own ELSE calls[b]
  BY <1>1
<1>3. call \in [Origins -> [Activities -> Calls]] /\ ending \in [Activities -> Endings]
  BY DEF IInv, TypeOK
<1>4. call' = [call EXCEPT ![o] = mine] BY DEF DisposeOwn, own
<1>. HIDE DEF mine
<1>5. /\ call' \in [Origins -> [Activities -> Calls]]
      /\ \A q \in Origins : call'[q] = IF q = o THEN mine ELSE call[q]
  BY <1>2, <1>3, <1>4
<1>6. ASSUME NEW q \in Origins, NEW b \in Activities
      PROVE  /\ call'[q][b].at \in {"succeeded", "resolved"} => call'[q][b].at = call[q][b].at
             /\ call'[q][b].at # "idle" => Born(b)
             /\ \A i \in 1..Len(call'[q][b].todo) : Born(call'[q][b].todo[i])
  <2>1. CASE q # o BY <1>5, <2>1 DEF IInv, Known
  <2>2. CASE q = o /\ b = a BY <1>1, <1>2, <1>5, <2>2
  <2>3. CASE q = o /\ b # a BY <1>2, <1>5, <2>3
  <2>. QED BY <2>1, <2>2, <2>3
<1>7. /\ ending' \in [Activities -> Endings]
      /\ \A b \in Activities :
           \/ ending'[b] = ending[b]
           \/ /\ ending[b] = "none" /\ Born(b)
              /\ ending'[b] = IF Transitioning(b) THEN "waiting" ELSE "free"
  BY <1>3 DEF DisposeOwn, Endings
<1>. QED BY <1>5, <1>6, <1>7 DEF Entered

\* Entering a disposal all the way down to a first child without children: every
\* activity on the way was launched.
LEMMA DisposeEntered ==
  ASSUME IInv, NEW o \in Origins, NEW a \in Activities, Born(a),
         NEW calls \in [Activities -> Calls],
         \A b \in Activities :
           /\ calls[b].at \in {"succeeded", "resolved"} => calls[b].at = call[o][b].at
           /\ calls[b].at # "idle" => Born(b)
           /\ \A i \in 1..Len(calls[b].todo) : Born(calls[b].todo[i]),
         Dispose(o, calls, a)
  PROVE  Entered
<1>1. PICK path \in Descents(a) :
        LET above == {path[i] : i \in 1..(Len(path) - 1)}
            entered == [b \in Activities |->
              IF b \in above THEN [at |-> "children", todo |-> children[b]] ELSE calls[b]]
        IN  DisposeOwn(o, entered, path[Len(path)])
  BY DEF Dispose
<1>. DEFINE above == {path[i] : i \in 1..(Len(path) - 1)}
            entered == [b \in Activities |->
              IF b \in above THEN [at |-> "children", todo |-> children[b]] ELSE calls[b]]
            last == path[Len(path)]
<1>2. Cardinality(Activities) \in Nat BY ActivitiesAssumption, FS_CardinalityType
<1>3. PICK n \in 1..Cardinality(Activities) : path \in [1..n -> Activities]
  BY <1>1 DEF Descents
<1>4. path \in Seq(Activities) /\ Len(path) = n /\ n \in Nat /\ n >= 1 BY <1>2, <1>3
<1>5. /\ path[1] = a
      /\ \A i \in 1..(Len(path) - 1) :
           children[path[i]] # <<>> /\ path[i + 1] = Head(children[path[i]])
  BY <1>1 DEF Descents
<1>6. children \in [Activities -> Seq(Activities)] BY DEF IInv, TypeOK
<1>7. last \in Activities /\ Born(last)
  <2>1. CASE n = 1 BY <1>4, <1>5, <2>1
  <2>2. CASE n # 1
    <3>1. n - 1 \in 1..(Len(path) - 1) /\ (n - 1) + 1 = n BY <1>4, <2>2
    <3>2. path[n - 1] \in Activities /\ path[n] \in Activities BY <1>3, <1>4, <2>2
    <3>3. children[path[n - 1]] # <<>> /\ path[n] = Head(children[path[n - 1]])
      BY <1>5, <3>1
    <3>4. children[path[n - 1]] \in Seq(Activities) BY <1>6, <3>2
    <3>5. 1 \in 1..Len(children[path[n - 1]]) /\ path[n] = children[path[n - 1]][1]
      BY <3>3, <3>4
    <3>. QED BY <1>4, <3>2, <3>5 DEF IInv, Family
  <2>. QED BY <2>1, <2>2
<1>8. \A b \in Activities :
        LET e == [at |-> "children", todo |-> children[b]]
        IN  e \in Calls /\ e.at = "children" /\ e.todo = children[b]
  BY <1>6 DEF Calls, Ats
<1>9. /\ entered \in [Activities -> Calls]
      /\ \A b \in Activities :
           entered[b] = IF b \in above THEN [at |-> "children", todo |-> children[b]] ELSE calls[b]
  BY <1>8
<1>10. DisposeOwn(o, entered, last) BY <1>1
<1>. HIDE DEF entered, above, last
<1>11. ASSUME NEW b \in Activities
       PROVE  /\ entered[b].at \in {"succeeded", "resolved"} => entered[b].at = call[o][b].at
              /\ entered[b].at # "idle" => Born(b)
              /\ \A i \in 1..Len(entered[b].todo) : Born(entered[b].todo[i])
  <2>1. CASE b \in above
    <3>1. entered[b].at = "children" /\ entered[b].todo = children[b] BY <1>8, <1>9, <2>1
    <3>2. Len(children[b]) >= 1
      <4>1. PICK i \in 1..(Len(path) - 1) : b = path[i] BY <2>1 DEF above
      <4>2. children[b] # <<>> /\ children[b] \in Seq(Activities) BY <1>5, <1>6, <4>1
      <4>. QED BY <4>2
    <3>3. 1 \in 1..Len(children[b]) BY <1>6, <3>2
    <3>4. Born(b) BY <3>3 DEF IInv, Family
    <3>. QED BY <3>1, <3>4 DEF IInv, Family
  <2>2. CASE b \notin above
    <3>1. entered[b] = calls[b] BY <1>9, <2>2
    <3>. QED BY <3>1
  <2>. QED BY <2>1, <2>2
<1>. QED BY <1>7, <1>9, <1>10, <1>11, OwnEntered

\* A disposal entered, with nothing else changed than channels that complete
\* and handlers that threw, keeps the invariant.
LEMMA EnteredKeeps ==
  ASSUME IInv, Entered, UNCHANGED <<parent, status, tracking, late>>,
         open' \subseteq open, launching' \in [Activities -> Launchings],
         \A a \in Activities :
           launching'[a] = launching[a] \/ (Born(a) /\ launching'[a] = "threw")
  PROVE  IInv'
<1>. USE DEF tracking
<1>1. TypeOK' BY DEF IInv, TypeOK, Entered
<1>2. Family' BY DEF IInv, Family, Born
<1>3. Known' BY DEF Known, Entered, Born
<1>4. \A a \in Activities : ending'[a] = "over" <=> ending[a] = "over" BY DEF Entered
<1>5. Lives'
  <2>. SUFFICES ASSUME NEW a \in Activities
       PROVE  /\ ~Born(a) => ending'[a] = "none" /\ launching'[a] = "none"
              /\ launching'[a] \in {"requested", "initializing", "activating"} =>
                   ending'[a] \in {"none", "waiting"}
              /\ status[a] = "disposed" => ending'[a] = "over"
              /\ ending'[a] = "over" => Over(a)
    BY DEF Lives, Born, Over
  <2>1. ~Born(a) => ending'[a] = "none" /\ launching'[a] = "none"
    BY DEF IInv, Lives, Entered
  <2>2. launching'[a] \in {"requested", "initializing", "activating"} =>
          ending'[a] \in {"none", "waiting"}
    BY DEF IInv, Lives, Entered, Transitioning
  <2>3. status[a] = "disposed" => ending'[a] = "over" BY <1>4 DEF IInv, Lives
  <2>4. ending'[a] = "over" => Over(a) BY <1>4 DEF IInv, Lives
  <2>. QED BY <2>1, <2>2, <2>3, <2>4
<1>6. Rooted' BY <1>4 DEF IInv, Rooted, Born
<1>7. Settled' BY DEF IInv, Settled, Entered, Gone
<1>. QED BY <1>1, <1>2, <1>3, <1>5, <1>6, <1>7 DEF IInv

\* dispose() called by the code around.
LEMMA UserDisposesKeeps ==
  ASSUME IInv, NEW u \in Users, NEW a \in Activities, UserDisposes(u, a)
  PROVE  IInv'
<1>1. u \in Origins /\ Born(a) /\ Dispose(u, call[u], a) BY DEF UserDisposes, Origins
<1>2. call[u] \in [Activities -> Calls] BY <1>1 DEF IInv, TypeOK
<1>3. \A b \in Activities :
        /\ call[u][b].at \in {"succeeded", "resolved"} => call[u][b].at = call[u][b].at
        /\ call[u][b].at # "idle" => Born(b)
        /\ \A i \in 1..Len(call[u][b].todo) : Born(call[u][b].todo[i])
  BY <1>1 DEF IInv, Known
<1>4. Entered BY <1>1, <1>2, <1>3, DisposeEntered
<1>. QED BY <1>4, EnteredKeeps DEF UserDisposes, IInv, TypeOK

\* dispose() called by the launcher, for a handler that failed.
LEMMA HandlerThrowsKeeps ==
  ASSUME IInv, NEW a \in Activities, HandlerThrows(a)
  PROVE  IInv'
<1>1. a \in Origins /\ Dispose(a, call[a], a) BY DEF HandlerThrows, Origins
<1>2. Born(a) BY DEF HandlerThrows, IInv, Lives
<1>3. call[a] \in [Activities -> Calls] BY <1>1 DEF IInv, TypeOK
<1>4. \A b \in Activities :
        /\ call[a][b].at \in {"succeeded", "resolved"} => call[a][b].at = call[a][b].at
        /\ call[a][b].at # "idle" => Born(b)
        /\ \A i \in 1..Len(call[a][b].todo) : Born(call[a][b].todo[i])
  BY <1>1 DEF IInv, Known
<1>5. Entered BY <1>1, <1>2, <1>3, <1>4, DisposeEntered
<1>6. /\ launching' \in [Activities -> Launchings]
      /\ \A b \in Activities :
           launching'[b] = launching[b] \/ (Born(b) /\ launching'[b] = "threw")
  BY <1>2 DEF HandlerThrows, IInv, TypeOK, Launchings
<1>7. open' \subseteq open BY DEF HandlerThrows
<1>. QED BY <1>5, <1>6, <1>7, EnteredKeeps DEF HandlerThrows

\* The calls of an origin, when the call on one activity goes on to its next
\* child, or when it is rejected.
LEMMA AfterChildKeeps ==
  ASSUME IInv, NEW o \in Origins, NEW a \in Activities, AfterChild(o, a)
  PROVE  IInv'
<1>. DEFINE todo == call[o][a].todo
<1>1. /\ call[o][a].at = "children"
      /\ UNCHANGED <<parent, status, launching, tracking, open, late>>
  BY DEF AfterChild
<1>2. /\ call \in [Origins -> [Activities -> Calls]] /\ call[o] \in [Activities -> Calls]
      /\ call[o][a] \in Calls /\ todo \in Seq(Activities)
      /\ launching \in [Activities -> Launchings]
  BY DEF IInv, TypeOK, Calls
<1>3. \A b \in Activities :
        /\ call[o][b].at \in {"succeeded", "resolved"} => call[o][b].at = call[o][b].at
        /\ call[o][b].at # "idle" => Born(b)
        /\ \A i \in 1..Len(call[o][b].todo) : Born(call[o][b].todo[i])
  BY DEF IInv, Known
<1>4. CASE call' = [call EXCEPT ![o][a].at = "rejected"] /\ UNCHANGED ending
  <2>. DEFINE new == [call[o][a] EXCEPT !.at = "rejected"]
  <2>1. new \in Calls /\ new.at = "rejected" /\ new.todo = todo
    BY <1>2 DEF Calls, Ats
  <2>2. call' = [call EXCEPT ![o] = [call[o] EXCEPT ![a] = new]] BY <1>2, <1>4
  <2>. HIDE DEF new, todo
  <2>3. /\ call' \in [Origins -> [Activities -> Calls]]
        /\ \A q \in Origins, b \in Activities :
             call'[q][b] = IF q = o /\ b = a THEN new ELSE call[q][b]
    BY <1>2, <2>1, <2>2
  <2>4. ASSUME NEW q \in Origins, NEW b \in Activities
        PROVE  /\ call'[q][b].at \in {"succeeded", "resolved"} => call'[q][b].at = call[q][b].at
               /\ call'[q][b].at # "idle" => Born(b)
               /\ \A i \in 1..Len(call'[q][b].todo) : Born(call'[q][b].todo[i])
    <3>1. CASE q = o /\ b = a BY <1>1, <1>3, <2>1, <2>3, <3>1 DEF todo
    <3>2. CASE ~(q = o /\ b = a) BY <2>3, <3>2 DEF IInv, Known
    <3>. QED BY <3>1, <3>2
  <2>5. Entered BY <1>4, <2>3, <2>4 DEF Entered, IInv, TypeOK
  <2>. QED BY <1>1, <1>2, <2>5, EnteredKeeps
<1>5. CASE Len(todo) > 1 /\ Dispose(o, [call[o] EXCEPT ![a].todo = Tail(@)], todo[2])
  <2>. DEFINE new == [call[o][a] EXCEPT !.todo = Tail(todo)]
              calls == [call[o] EXCEPT ![a] = new]
  <2>1. Tail(todo) \in Seq(Activities) BY <1>2, <1>5
  <2>2. new \in Calls /\ new.at = "children" /\ new.todo = Tail(todo)
    BY <1>1, <1>2, <2>1 DEF Calls
  <2>3. [call[o] EXCEPT ![a].todo = Tail(@)] = calls BY <1>2
  <2>. HIDE DEF new
  <2>4. /\ calls \in [Activities -> Calls]
        /\ \A b \in Activities : calls[b] = IF b = a THEN new ELSE call[o][b]
    BY <1>2, <2>2
  <2>5. Dispose(o, calls, todo[2]) BY <1>5, <2>3
  <2>6. 2 \in 1..Len(todo) /\ todo[2] \in Activities BY <1>2, <1>5
  <2>7. Born(todo[2]) BY <1>3, <2>6
  <2>. HIDE DEF calls
  <2>8. ASSUME NEW b \in Activities
        PROVE  /\ calls[b].at \in {"succeeded", "resolved"} => calls[b].at = call[o][b].at
               /\ calls[b].at # "idle" => Born(b)
               /\ \A i \in 1..Len(calls[b].todo) : Born(calls[b].todo[i])
    <3>1. CASE b = a
      <4>1. calls[b].at = "children" /\ calls[b].todo = Tail(todo) BY <2>2, <2>4, <3>1
      <4>2. \A i \in 1..Len(Tail(todo)) :
              i + 1 \in 1..Len(todo) /\ Tail(todo)[i] = todo[i + 1]
        BY <1>2, <1>5
      <4>3. \A i \in 1..Len(todo) : Born(todo[i]) BY <1>3
      <4>4. Born(b) BY <1>1, <1>3, <3>1
      <4>. HIDE DEF todo
      <4>. QED BY <4>1, <4>2, <4>3, <4>4
    <3>2. CASE b # a BY <1>3, <2>4, <3>2
    <3>. QED BY <3>1, <3>2
  <2>9. Entered BY <2>4, <2>5, <2>6, <2>7, <2>8, DisposeEntered
  <2>. QED BY <1>1, <1>2, <2>9, EnteredKeeps
<1>6. CASE DisposeOwn(o, call[o], a)
  <2>1. Born(a) BY <1>1, <1>3
  <2>2. Entered BY <1>2, <1>3, <1>6, <2>1, OwnEntered
  <2>. QED BY <1>1, <1>2, <2>2, EnteredKeeps
<1>. QED BY <1>4, <1>5, <1>6 DEF AfterChild

\* The end of a call: the activity leaves every list, and its channel closes.
LEMMA CleanUpKeeps ==
  ASSUME IInv, NEW o \in Origins, NEW a \in Activities, CleanUp(o, a)
  PROVE  IInv'
<1>. USE DEF lifecycle
<1>. DEFINE new == [call[o][a] EXCEPT !.at = IF @ = "succeeded" THEN "resolved" ELSE "rejected"]
<1>1. /\ call[o][a].at \in {"succeeded", "failed"}
      /\ UNCHANGED <<parent, lifecycle, roots, late>>
      /\ listed' = listed \ {a} /\ open' = open \ {a}
  BY DEF CleanUp
<1>2. /\ call \in [Origins -> [Activities -> Calls]] /\ call[o] \in [Activities -> Calls]
      /\ call[o][a] \in Calls
      /\ parent \in [Activities -> Activities \cup {App}]
      /\ children \in [Activities -> Seq(Activities)]
  BY DEF IInv, TypeOK
<1>3. /\ new \in Calls /\ new.todo = call[o][a].todo
      /\ new.at = IF call[o][a].at = "succeeded" THEN "resolved" ELSE "rejected"
  BY <1>2 DEF Calls, Ats
<1>4. call' = [call EXCEPT ![o] = [call[o] EXCEPT ![a] = new]] BY <1>2 DEF CleanUp
<1>. HIDE DEF new
<1>5. /\ call' \in [Origins -> [Activities -> Calls]]
      /\ \A q \in Origins, b \in Activities :
           call'[q][b] = IF q = o /\ b = a THEN new ELSE call[q][b]
  BY <1>2, <1>3, <1>4
<1>6. /\ children' = [p \in Activities |->
           IF p = parent[a] THEN RemoveFirst(children[p], a) ELSE children[p]]
      /\ \A p \in Activities :
           children'[p] = IF p = parent[a] THEN RemoveFirst(children[p], a) ELSE children[p]
  BY DEF CleanUp
<1>7. ASSUME NEW p \in Activities
      PROVE  /\ children'[p] \in Seq(Activities)
             /\ \A i \in 1..Len(children'[p]) :
                  children'[p][i] # a /\ \E j \in 1..Len(children[p]) : children'[p][i] = children[p][j]
             /\ \A i, j \in 1..Len(children'[p]) : children'[p][i] = children'[p][j] => i = j
  <2>1. /\ children[p] \in Seq(Activities)
        /\ \A i, j \in 1..Len(children[p]) : children[p][i] = children[p][j] => i = j
    BY <1>2 DEF IInv, Family
  <2>2. CASE p = parent[a]
    <3>1. children'[p] = RemoveFirst(children[p], a) BY <1>6, <2>2
    <3>. QED BY <2>1, <3>1, Removed
  <2>3. CASE p # parent[a]
    <3>1. children'[p] = children[p] BY <1>6, <2>3
    <3>2. \A i \in 1..Len(children[p]) : children[p][i] # a
      BY <2>3 DEF IInv, Family
    <3>. QED BY <2>1, <3>1, <3>2
  <2>. QED BY <2>2, <2>3
<1>8. TypeOK'
  <2>1. children' \in [Activities -> Seq(Activities)] BY <1>6, <1>7
  <2>. QED BY <1>1, <1>5, <2>1 DEF IInv, TypeOK
<1>9. Family'
  <2>. SUFFICES ASSUME NEW p \in Activities, NEW i \in 1..Len(children'[p])
       PROVE  parent[children'[p][i]] = p /\ Born(children'[p][i]) /\ Born(p)
    BY <1>1, <1>7 DEF Family, Born
  <2>1. PICK j \in 1..Len(children[p]) : children'[p][i] = children[p][j] BY <1>7
  <2>. QED BY <2>1 DEF IInv, Family
<1>10. Known'
  <2>. SUFFICES ASSUME NEW q \in Origins, NEW b \in Activities
       PROVE  /\ call'[q][b].at # "idle" => Born(b)
              /\ \A i \in 1..Len(call'[q][b].todo) : Born(call'[q][b].todo[i])
    BY <1>1 DEF Known, Born
  <2>1. CASE q = o /\ b = a BY <1>1, <1>3, <1>5, <2>1 DEF IInv, Known
  <2>2. CASE ~(q = o /\ b = a) BY <1>5, <2>2 DEF IInv, Known
  <2>. QED BY <2>1, <2>2
<1>11. Lives' /\ Rooted' BY <1>1 DEF IInv, Lives, Rooted, Born, Over
<1>12. Settled'
  <2>1. Gone(a)'
    BY <1>1, <1>7 DEF Gone
  <2>2. ASSUME NEW b \in Activities, Gone(b) PROVE Gone(b)'
    <3>. SUFFICES ASSUME NEW p \in Activities, NEW i \in 1..Len(children'[p])
         PROVE  children'[p][i] # b
      BY <1>1, <2>2 DEF Gone
    <3>1. PICK j \in 1..Len(children[p]) : children'[p][i] = children[p][j] BY <1>7
    <3>. QED BY <2>2, <3>1 DEF Gone
  <2>. SUFFICES ASSUME NEW q \in Origins, NEW b \in Activities
       PROVE  /\ call'[q][b].at \in {"succeeded", "resolved"} => status[b] = "disposed"
              /\ call'[q][b].at = "resolved" => Gone(b)'
    BY <1>1 DEF Settled
  <2>3. CASE q = o /\ b = a BY <1>1, <1>3, <1>5, <2>1, <2>3 DEF IInv, Settled
  <2>4. CASE ~(q = o /\ b = a) BY <1>5, <2>2, <2>4 DEF IInv, Settled
  <2>. QED BY <2>3, <2>4
<1>. QED BY <1>8, <1>9, <1>10, <1>11, <1>12 DEF IInv

-----------------------------------------------------------------------------
(* The lifecycle.                                                          *)

\* A new activity is in the list of its parent, and nothing knew it before.
LEMMA LaunchKeeps ==
  ASSUME IInv, NEW p \in Activities \cup {App}, NEW a \in Activities, Launch(p, a)
  PROVE  IInv'
<1>1. ~Born(a) /\ (p = App \/ (p \in Activities /\ Born(p))) BY DEF Launch
<1>2. /\ parent \in [Activities -> Activities \cup {App}]
      /\ status \in [Activities -> Statuses] /\ launching \in [Activities -> Launchings]
      /\ children \in [Activities -> Seq(Activities)]
  BY DEF IInv, TypeOK
<1>3. /\ \A b \in Activities :
           /\ parent'[b] = IF b = a THEN p ELSE parent[b]
           /\ status'[b] = IF b = a THEN "created" ELSE status[b]
           /\ launching'[b] = IF b = a THEN "requested" ELSE launching[b]
      /\ UNCHANGED <<ending, call>>
      /\ listed' = listed \cup {a} /\ open' \in {open, open \cup {a}}
      /\ roots' = IF p = App THEN roots \cup {a} ELSE roots
  BY <1>2 DEF Launch
<1>4. /\ children' = [b \in Activities |->
           IF b = p THEN Append(children[b], a) ELSE children[b]]
      /\ \A b \in Activities :
           children'[b] = IF b = p THEN Append(children[b], a) ELSE children[b]
  BY DEF Launch
<1>5. \A b \in Activities : status'[b] # "unborn" <=> Born(b) \/ b = a BY <1>3 DEF Born
<1>6. ASSUME NEW b \in Activities
      PROVE  /\ children'[b] \in Seq(Activities)
             /\ \A i \in 1..Len(children'[b]) :
                  \/ b = p /\ i = Len(children[b]) + 1 /\ children'[b][i] = a
                  \/ i \in 1..Len(children[b]) /\ children'[b][i] = children[b][i]
  <2>1. children[b] \in Seq(Activities) BY <1>2
  <2>. QED BY <1>4, <2>1
<1>7. \A b \in Activities : \A i \in 1..Len(children[b]) : children[b][i] # a
  BY <1>1 DEF IInv, Family
<1>8. TypeOK'
  <2>1. children' \in [Activities -> Seq(Activities)] BY <1>4, <1>6
  <2>2. parent' \in [Activities -> Activities \cup {App}]
    BY <1>2 DEF Launch
  <2>3. status' \in [Activities -> Statuses] /\ launching' \in [Activities -> Launchings]
    BY <1>2 DEF Launch, Statuses, Launchings
  <2>4. late' \in [Activities -> BOOLEAN]
    <3>. DEFINE was == p # App /\ \E o \in Origins : Underway(o, p)
    <3>1. was \in BOOLEAN OBVIOUS
    <3>2. late \in [Activities -> BOOLEAN] /\ late' = [late EXCEPT ![a] = was]
      BY DEF Launch, IInv, TypeOK
    <3>. HIDE DEF was
    <3>. QED BY <3>1, <3>2
  <2>. QED BY <1>3, <2>1, <2>2, <2>3, <2>4 DEF IInv, TypeOK
<1>9. Family'
  <2>1. ASSUME NEW b \in Activities, NEW i \in 1..Len(children'[b])
        PROVE  /\ parent'[children'[b][i]] = b
               /\ status'[children'[b][i]] # "unborn" /\ status'[b] # "unborn"
    <3>1. CASE b = p /\ children'[b][i] = a BY <1>1, <1>3, <1>5, <3>1, AppAssumption
    <3>2. CASE i \in 1..Len(children[b]) /\ children'[b][i] = children[b][i]
      <4>1. /\ children[b][i] # a /\ parent[children[b][i]] = b
            /\ Born(children[b][i]) /\ Born(b)
        BY <1>7, <3>2 DEF IInv, Family
      <4>2. children[b][i] \in Activities BY <1>2, <3>2
      <4>. QED BY <1>3, <1>5, <3>2, <4>1, <4>2
    <3>. QED BY <1>6, <3>1, <3>2
  <2>2. ASSUME NEW b \in Activities, NEW i \in 1..Len(children'[b]),
               NEW j \in 1..Len(children'[b]), children'[b][i] = children'[b][j]
        PROVE  i = j
    <3>1. \/ i = Len(children[b]) + 1 /\ children'[b][i] = a
          \/ i \in 1..Len(children[b]) /\ children'[b][i] = children[b][i]
      BY <1>6
    <3>2. \/ j = Len(children[b]) + 1 /\ children'[b][j] = a
          \/ j \in 1..Len(children[b]) /\ children'[b][j] = children[b][j]
      BY <1>6
    <3>3. \A k, l \in 1..Len(children[b]) : children[b][k] = children[b][l] => k = l
      BY DEF IInv, Family
    <3>4. \A k \in 1..Len(children[b]) : children[b][k] # a BY <1>7
    <3>. QED BY <2>2, <3>1, <3>2, <3>3, <3>4
  <2>. QED BY <2>1, <2>2 DEF Family, Born
<1>10. Known'
  <2>. SUFFICES ASSUME NEW o \in Origins, NEW b \in Activities
       PROVE  /\ call[o][b].at # "idle" => status'[b] # "unborn"
              /\ \A i \in 1..Len(call[o][b].todo) : status'[call[o][b].todo[i]] # "unborn"
    BY <1>3 DEF Known, Born
  <2>1. call[o][b].todo \in Seq(Activities) BY DEF IInv, TypeOK, Calls
  <2>. QED BY <1>5, <2>1 DEF IInv, Known
<1>11. Lives'
  <2>. SUFFICES ASSUME NEW b \in Activities
       PROVE  /\ status'[b] = "unborn" => ending[b] = "none" /\ launching'[b] = "none"
              /\ launching'[b] \in {"requested", "initializing", "activating"} =>
                   ending[b] \in {"none", "waiting"}
              /\ status'[b] = "disposed" => ending[b] = "over"
              /\ ending[b] = "over" => status'[b] \in Terminal
    BY <1>3 DEF Lives, Over, Born
  <2>1. CASE b = a
    <3>1. ending[b] = "none" BY <1>1, <2>1 DEF IInv, Lives
    <3>. QED BY <1>3, <1>5, <2>1, <3>1
  <2>2. CASE b # a BY <1>3, <1>5, <2>2 DEF IInv, Lives, Over
  <2>. QED BY <2>1, <2>2
<1>12. Rooted'
  <2>. SUFFICES ASSUME NEW b \in Activities
       PROVE  /\ status'[b] # "unborn" /\ parent'[b] = App /\ ending[b] # "over" => b \in roots'
              /\ status'[b] = "disposed" => b \notin roots'
    BY <1>3 DEF Rooted, Born
  <2>1. CASE b = a BY <1>3, <2>1
  <2>2. CASE b # a BY <1>3, <1>5, <2>2 DEF IInv, Rooted
  <2>. QED BY <2>1, <2>2
<1>13. Settled'
  <2>. SUFFICES ASSUME NEW o \in Origins, NEW b \in Activities
       PROVE  /\ call[o][b].at \in {"succeeded", "resolved"} => status'[b] = "disposed"
              /\ call[o][b].at = "resolved" => Gone(b)'
    BY <1>3 DEF Settled
  <2>1. call[o][b].at # "idle" => b # a BY <1>1 DEF IInv, Known
  <2>2. ASSUME Gone(b), b # a PROVE Gone(b)'
    <3>. SUFFICES ASSUME NEW q \in Activities, NEW i \in 1..Len(children'[q])
         PROVE  children'[q][i] # b
      BY <1>3, <2>2 DEF Gone
    <3>. QED BY <1>6, <2>2 DEF Gone
  <2>. QED BY <1>3, <2>1, <2>2 DEF IInv, Settled
<1>. QED BY <1>8, <1>9, <1>10, <1>11, <1>12, <1>13 DEF IInv

\* A step of one activity that neither ends its life nor its disposal.
Move(a, s, l, e) ==
  /\ Born(a)
  /\ s \in Statuses /\ l \in Launchings /\ e \in Endings
  /\ status' = [status EXCEPT ![a] = s]
  /\ launching' = [launching EXCEPT ![a] = l]
  /\ ending' = [ending EXCEPT ![a] = e]
  /\ s # "unborn"
  /\ s = "disposed" <=> status[a] = "disposed"
  /\ e = "over" <=> ending[a] = "over"
  /\ e = "over" => s = status[a]
  /\ l \in {"requested", "initializing", "activating"} => e \in {"none", "waiting"}
  /\ UNCHANGED <<parent, tracking, open, call, late>>

\* Such a step keeps the invariant.
LEMMA MoveKeeps ==
  ASSUME IInv, NEW a \in Activities, NEW s, NEW l, NEW e, Move(a, s, l, e)
  PROVE  IInv'
<1>. USE DEF tracking, Move
<1>1. /\ status \in [Activities -> Statuses] /\ launching \in [Activities -> Launchings]
      /\ ending \in [Activities -> Endings]
  BY DEF IInv, TypeOK
<1>2. \A b \in Activities :
        /\ status'[b] = IF b = a THEN s ELSE status[b]
        /\ launching'[b] = IF b = a THEN l ELSE launching[b]
        /\ ending'[b] = IF b = a THEN e ELSE ending[b]
  BY <1>1
<1>3. TypeOK' BY <1>1 DEF IInv, TypeOK
<1>4. \A b \in Activities :
        /\ status'[b] # "unborn" <=> Born(b)
        /\ status'[b] = "disposed" <=> status[b] = "disposed"
        /\ ending'[b] = "over" <=> ending[b] = "over"
  BY <1>2 DEF Born
<1>5. children \in [Activities -> Seq(Activities)] BY DEF IInv, TypeOK
<1>6. Family'
  <2>. SUFFICES ASSUME NEW p \in Activities, NEW i \in 1..Len(children[p])
       PROVE  /\ parent[children[p][i]] = p
              /\ status'[children[p][i]] # "unborn" /\ status'[p] # "unborn"
    BY DEF IInv, Family, Born
  <2>1. children[p][i] \in Activities BY <1>5
  <2>. QED BY <1>4, <2>1 DEF IInv, Family
<1>7. Known'
  <2>. SUFFICES ASSUME NEW o \in Origins, NEW b \in Activities
       PROVE  /\ call[o][b].at # "idle" => status'[b] # "unborn"
              /\ \A i \in 1..Len(call[o][b].todo) : status'[call[o][b].todo[i]] # "unborn"
    BY DEF Known, Born
  <2>1. call[o][b].todo \in Seq(Activities) BY DEF IInv, TypeOK, Calls
  <2>. QED BY <1>4, <2>1 DEF IInv, Known
<1>8. Lives'
  <2>. SUFFICES ASSUME NEW b \in Activities
       PROVE  /\ status'[b] = "unborn" => ending'[b] = "none" /\ launching'[b] = "none"
              /\ launching'[b] \in {"requested", "initializing", "activating"} =>
                   ending'[b] \in {"none", "waiting"}
              /\ status'[b] = "disposed" => ending'[b] = "over"
              /\ ending'[b] = "over" => status'[b] \in Terminal
    BY DEF Lives, Over, Born
  <2>1. CASE b = a BY <1>2, <2>1 DEF IInv, Lives, Over
  <2>2. CASE b # a BY <1>2, <2>2 DEF IInv, Lives, Over, Born
  <2>. QED BY <2>1, <2>2
<1>9. Rooted'
  <2>. SUFFICES ASSUME NEW b \in Activities
       PROVE  /\ status'[b] # "unborn" /\ parent[b] = App /\ ending'[b] # "over" => b \in roots
              /\ status'[b] = "disposed" => b \notin roots
    BY DEF Rooted, Born
  <2>. QED BY <1>4 DEF IInv, Rooted
<1>10. Settled' BY <1>4 DEF IInv, Settled, Gone
<1>. QED BY <1>3, <1>6, <1>7, <1>8, <1>9, <1>10 DEF IInv

\* Every step of the activation of an activity, of its handler's call, and the
\* beginning of its disposal.
LEMMA StepOfOneKeeps ==
  ASSUME IInv, NEW a \in Activities,
         \/ BeginInitialization(a) \/ EndInitialization(a) \/ Resume(a)
         \/ BeginActivation(a) \/ EndActivation(a) \/ Fail(a)
         \/ BeginDisposal(a) \/ CallHandler(a)
  PROVE  IInv'
<1>. DEFINE freed == IF ending[a] = "waiting" THEN "free" ELSE ending[a]
<1>1. /\ status \in [Activities -> Statuses] /\ launching \in [Activities -> Launchings]
      /\ ending \in [Activities -> Endings]
      /\ status[a] \in Statuses /\ launching[a] \in Launchings /\ ending[a] \in Endings
  BY DEF IInv, TypeOK
<1>2. /\ status = [status EXCEPT ![a] = status[a]]
      /\ launching = [launching EXCEPT ![a] = launching[a]]
      /\ ending = [ending EXCEPT ![a] = ending[a]]
  BY <1>1
<1>3. /\ freed \in Endings
      /\ freed = "over" <=> ending[a] = "over"
      /\ Freed(a) => ending' = [ending EXCEPT ![a] = freed]
  BY <1>1 DEF Freed, Endings
<1>4. /\ ~Born(a) => ending[a] = "none" /\ launching[a] = "none"
      /\ launching[a] \in {"requested", "initializing", "activating"} =>
           ending[a] \in {"none", "waiting"}
      /\ status[a] = "disposed" => ending[a] = "over"
  BY DEF IInv, Lives
<1>. HIDE DEF freed
<1>6. CASE BeginInitialization(a)
  <2>1. CASE ending[a] = "none" /\ status' = [status EXCEPT ![a] = "initializing"]
             /\ launching' = [launching EXCEPT ![a] = "initializing"] /\ UNCHANGED ending
    <3>1. "initializing" \in Statuses /\ "initializing" \in Launchings
      BY DEF Statuses, Launchings
    <3>2. Born(a) /\ status[a] # "disposed" BY <1>4, <1>6, <2>1 DEF BeginInitialization
    <3>9. Move(a, "initializing", "initializing", ending[a])
      BY <1>1, <1>2, <1>6, <2>1, <3>1, <3>2 DEF Move, BeginInitialization, Born
    <3>. QED BY <3>9, MoveKeeps
  <2>2. CASE launching' = [launching EXCEPT ![a] = "resuming"] /\ Freed(a) /\ UNCHANGED status
    <3>1. "resuming" \in Launchings BY DEF Launchings
    <3>2. Born(a) BY <1>4, <1>6 DEF BeginInitialization
    <3>9. Move(a, status[a], "resuming", freed)
      BY <1>1, <1>2, <1>3, <1>6, <2>2, <3>1, <3>2 DEF Move, BeginInitialization, Born
    <3>. QED BY <3>9, MoveKeeps
  <2>. QED BY <1>6, <2>1, <2>2 DEF BeginInitialization
<1>7. CASE EndInitialization(a)
  <2>1. "initialized" \in Statuses /\ "resuming" \in Launchings BY DEF Statuses, Launchings
  <2>2. Born(a) /\ status[a] # "disposed" /\ ending[a] # "over"
    BY <1>4, <1>7 DEF EndInitialization
  <2>9. Move(a, "initialized", "resuming", freed)
    BY <1>1, <1>3, <1>7, <2>1, <2>2 DEF Move, EndInitialization, Born
  <2>. QED BY <2>9, MoveKeeps
<1>8. CASE Resume(a)
  <2>. DEFINE next == IF ending[a] = "over" THEN "rejected" ELSE "waiting"
  <2>1. next \in Launchings /\ next \notin {"requested", "initializing", "activating"}
    BY DEF Launchings
  <2>2. launching' = [launching EXCEPT ![a] = next] BY <1>8 DEF Resume
  <2>3. Born(a) BY <1>4, <1>8 DEF Resume
  <2>. HIDE DEF next
  <2>9. Move(a, status[a], next, ending[a])
    BY <1>1, <1>2, <1>8, <2>1, <2>2, <2>3 DEF Move, Resume, Born
  <2>. QED BY <2>9, MoveKeeps
<1>9. CASE BeginActivation(a)
  <2>1. CASE ending[a] = "none" /\ status' = [status EXCEPT ![a] = "activating"]
             /\ launching' = [launching EXCEPT ![a] = "activating"] /\ UNCHANGED ending
    <3>1. "activating" \in Statuses /\ "activating" \in Launchings
      BY DEF Statuses, Launchings
    <3>2. Born(a) /\ status[a] # "disposed" BY <1>4, <1>9, <2>1 DEF BeginActivation
    <3>9. Move(a, "activating", "activating", ending[a])
      BY <1>1, <1>2, <1>9, <2>1, <3>1, <3>2 DEF Move, BeginActivation, Born
    <3>. QED BY <3>9, MoveKeeps
  <2>2. CASE launching' = [launching EXCEPT ![a] = "resolved"] /\ Freed(a) /\ UNCHANGED status
    <3>1. "resolved" \in Launchings BY DEF Launchings
    <3>2. Born(a) BY <1>4, <1>9 DEF BeginActivation
    <3>9. Move(a, status[a], "resolved", freed)
      BY <1>1, <1>2, <1>3, <1>9, <2>2, <3>1, <3>2 DEF Move, BeginActivation, Born
    <3>. QED BY <3>9, MoveKeeps
  <2>. QED BY <1>9, <2>1, <2>2 DEF BeginActivation
<1>10. CASE EndActivation(a)
  <2>1. "active" \in Statuses /\ "resolved" \in Launchings BY DEF Statuses, Launchings
  <2>2. Born(a) /\ status[a] # "disposed" /\ ending[a] # "over"
    BY <1>4, <1>10 DEF EndActivation
  <2>9. Move(a, "active", "resolved", freed)
    BY <1>1, <1>3, <1>10, <2>1, <2>2 DEF Move, EndActivation, Born
  <2>. QED BY <2>9, MoveKeeps
<1>11. CASE Fail(a)
  <2>1. "error" \in Statuses /\ "rejected" \in Launchings BY DEF Statuses, Launchings
  <2>2. Born(a) /\ status[a] # "disposed" /\ ending[a] # "over" BY <1>4, <1>11 DEF Fail
  <2>9. Move(a, "error", "rejected", freed)
    BY <1>1, <1>3, <1>11, <2>1, <2>2 DEF Move, Fail, Born
  <2>. QED BY <2>9, MoveKeeps
<1>12. CASE BeginDisposal(a)
  <2>1. "disposing" \in Statuses /\ "running" \in Endings BY DEF Statuses, Endings
  <2>2. /\ Born(a) /\ status[a] # "disposed" /\ ending[a] # "over"
        /\ launching[a] \notin {"requested", "initializing", "activating"}
    BY <1>4, <1>12 DEF BeginDisposal
  <2>9. Move(a, "disposing", launching[a], "running")
    BY <1>1, <1>2, <1>12, <2>1, <2>2 DEF Move, BeginDisposal, Born
  <2>. QED BY <2>9, MoveKeeps
<1>13. CASE CallHandler(a)
  <2>1. "running" \in Launchings BY DEF Launchings
  <2>2. Born(a) BY <1>4, <1>13 DEF CallHandler
  <2>9. Move(a, status[a], "running", ending[a])
    BY <1>1, <1>2, <1>13, <2>1, <2>2 DEF Move, CallHandler, Born
  <2>. QED BY <2>9, MoveKeeps
<1>. QED BY <1>6, <1>7, <1>8, <1>9, <1>10, <1>11, <1>12, <1>13

\* The end of a disposal: the calls that joined it settle with its outcome.
Finished(a, s, outcome) ==
  /\ ending[a] = "running"
  /\ \/ s = "disposed" /\ outcome = "succeeded"
     \/ s = "error" /\ outcome = "failed"
  /\ status' = [status EXCEPT ![a] = s]
  /\ OwnDisposed(a, outcome)
  /\ roots' = roots \ {a} \/ (s = "error" /\ roots' = roots)
  /\ UNCHANGED <<parent, launching, children, listed, open, late>>

\* The calls that joined the disposal settle with its outcome.
LEMMA FinishedCalls ==
  ASSUME IInv, NEW a \in Activities, NEW s, NEW outcome, Finished(a, s, outcome)
  PROVE  \A o \in Origins, b \in Activities :
           /\ call'[o][b] \in Calls
           /\ call'[o][b].todo = call[o][b].todo
           /\ call'[o][b].at = IF b = a /\ call[o][b].at = "own" THEN outcome ELSE call[o][b].at
<1>. SUFFICES ASSUME NEW o \in Origins, NEW b \in Activities
     PROVE  /\ call'[o][b] \in Calls
            /\ call'[o][b].todo = call[o][b].todo
            /\ call'[o][b].at = IF b = a /\ call[o][b].at = "own" THEN outcome ELSE call[o][b].at
  OBVIOUS
<1>1. call[o] \in [Activities -> Calls] /\ call[o][a] \in Calls /\ call[o][b] \in Calls
  BY DEF IInv, TypeOK
<1>. DEFINE new == [call[o][a] EXCEPT !.at = IF @ = "own" THEN outcome ELSE @]
<1>2. /\ new \in Calls /\ new.todo = call[o][a].todo
      /\ new.at = IF call[o][a].at = "own" THEN outcome ELSE call[o][a].at
  <2>. DEFINE at == IF call[o][a].at = "own" THEN outcome ELSE call[o][a].at
  <2>1. at \in Ats BY <1>1 DEF Finished, Calls, Ats
  <2>2. new = [call[o][a] EXCEPT !.at = at] BY <1>1 DEF Calls
  <2>. HIDE DEF at, new
  <2>3. new \in Calls /\ new.todo = call[o][a].todo /\ new.at = at
    BY <1>1, <2>1, <2>2 DEF Calls
  <2>. QED BY <2>3 DEF at
<1>3. call'[o] = [call[o] EXCEPT ![a] = new] BY <1>1 DEF Finished, OwnDisposed
<1>. HIDE DEF new
<1>4. call'[o][b] = IF b = a THEN new ELSE call[o][b] BY <1>1, <1>3
<1>. QED BY <1>1, <1>2, <1>4

\* The end of a disposal keeps the invariant.
LEMMA FinishedKeeps ==
  ASSUME IInv, NEW a \in Activities, NEW s, NEW outcome, Finished(a, s, outcome)
  PROVE  IInv'
<1>1. /\ ending[a] = "running" /\ s \in {"disposed", "error"}
      /\ outcome \in {"succeeded", "failed"}
      /\ outcome = "succeeded" => s = "disposed"
      /\ roots' \subseteq roots /\ roots \ {a} \subseteq roots'
      /\ s = "disposed" => a \notin roots'
      /\ UNCHANGED <<parent, launching, children, listed, open, late>>
  BY DEF Finished
<1>2. /\ status \in [Activities -> Statuses] /\ ending \in [Activities -> Endings]
      /\ call \in [Origins -> [Activities -> Calls]]
      /\ children \in [Activities -> Seq(Activities)]
  BY DEF IInv, TypeOK
<1>3. /\ Born(a) /\ status[a] # "disposed"
      /\ launching[a] \notin {"requested", "initializing", "activating"}
  BY <1>1 DEF IInv, Lives
<1>4. \A b \in Activities :
        /\ status'[b] = IF b = a THEN s ELSE status[b]
        /\ ending'[b] = IF b = a THEN "over" ELSE ending[b]
  BY <1>2 DEF Finished, OwnDisposed
<1>5. \A o \in Origins, b \in Activities :
        /\ call'[o][b] \in Calls
        /\ call'[o][b].todo = call[o][b].todo
        /\ call'[o][b].at = IF b = a /\ call[o][b].at = "own" THEN outcome ELSE call[o][b].at
  BY FinishedCalls
<1>6. TypeOK'
  <2>1. status' \in [Activities -> Statuses] /\ ending' \in [Activities -> Endings]
    BY <1>1, <1>2 DEF Finished, OwnDisposed, Statuses, Endings
  <2>2. call' \in [Origins -> [Activities -> Calls]]
    <3>1. /\ call' = [o \in Origins |-> call'[o]]
          /\ \A o \in Origins : call'[o] = [b \in Activities |-> call'[o][b]]
      BY <1>2 DEF Finished, OwnDisposed
    <3>2. \A o \in Origins : call'[o] \in [Activities -> Calls] BY <1>5, <3>1
    <3>. QED BY <3>1, <3>2
  <2>. QED BY <1>1, <2>1, <2>2 DEF IInv, TypeOK
<1>7. \A b \in Activities :
        /\ status'[b] # "unborn" <=> Born(b)
        /\ status[b] = "disposed" => status'[b] = "disposed"
  BY <1>1, <1>3, <1>4 DEF Born
<1>8. Family'
  <2>. SUFFICES ASSUME NEW p \in Activities, NEW i \in 1..Len(children[p])
       PROVE  /\ parent[children[p][i]] = p
              /\ status'[children[p][i]] # "unborn" /\ status'[p] # "unborn"
    BY <1>1 DEF IInv, Family, Born
  <2>1. children[p][i] \in Activities BY <1>2
  <2>. QED BY <1>7, <2>1 DEF IInv, Family
<1>9. Known'
  <2>. SUFFICES ASSUME NEW o \in Origins, NEW b \in Activities
       PROVE  /\ call'[o][b].at # "idle" => status'[b] # "unborn"
              /\ \A i \in 1..Len(call'[o][b].todo) : status'[call'[o][b].todo[i]] # "unborn"
    BY DEF Known, Born
  <2>1. call[o][b].todo \in Seq(Activities) BY DEF IInv, TypeOK, Calls
  <2>. QED BY <1>5, <1>7, <2>1 DEF IInv, Known
<1>10. Lives'
  <2>. SUFFICES ASSUME NEW b \in Activities
       PROVE  /\ status'[b] = "unborn" => ending'[b] = "none" /\ launching[b] = "none"
              /\ launching[b] \in {"requested", "initializing", "activating"} =>
                   ending'[b] \in {"none", "waiting"}
              /\ status'[b] = "disposed" => ending'[b] = "over"
              /\ ending'[b] = "over" => status'[b] \in Terminal
    BY <1>1 DEF Lives, Over, Born
  <2>1. CASE b = a BY <1>1, <1>3, <1>4, <2>1 DEF Terminal
  <2>2. CASE b # a BY <1>4, <2>2 DEF IInv, Lives, Over, Born
  <2>. QED BY <2>1, <2>2
<1>11. Rooted'
  <2>. SUFFICES ASSUME NEW b \in Activities
       PROVE  /\ status'[b] # "unborn" /\ parent[b] = App /\ ending'[b] # "over" => b \in roots'
              /\ status'[b] = "disposed" => b \notin roots'
    BY <1>1 DEF Rooted, Born
  <2>1. CASE b = a BY <1>1, <1>4, <2>1
  <2>2. CASE b # a BY <1>1, <1>4, <2>2 DEF IInv, Rooted, Born
  <2>. QED BY <2>1, <2>2
<1>12. Settled'
  <2>. SUFFICES ASSUME NEW o \in Origins, NEW b \in Activities
       PROVE  /\ call'[o][b].at \in {"succeeded", "resolved"} => status'[b] = "disposed"
              /\ call'[o][b].at = "resolved" => Gone(b)
    BY <1>1 DEF Settled, Gone
  <2>1. CASE b = a /\ call[o][b].at = "own" BY <1>1, <1>4, <1>5, <2>1
  <2>2. CASE ~(b = a /\ call[o][b].at = "own") BY <1>5, <1>7, <2>2 DEF IInv, Settled
  <2>. QED BY <2>1, <2>2
<1>. QED BY <1>6, <1>8, <1>9, <1>10, <1>11, <1>12 DEF IInv

\* So does the completion of a response channel.
LEMMA RespondKeeps ==
  ASSUME IInv, NEW a \in Activities, Respond(a)
  PROVE  IInv'
<1>1. /\ UNCHANGED <<parent, status, launching, ending, children, roots, listed, call, late>>
      /\ open' \subseteq open
  BY DEF Respond, lifecycle, tracking
<1>2. TypeOK' BY <1>1 DEF IInv, TypeOK
<1>3. Family' /\ Known' /\ Lives' /\ Rooted'
  BY <1>1 DEF IInv, Family, Known, Lives, Rooted, Born, Over
<1>4. Settled' BY <1>1 DEF IInv, Settled, Gone
<1>. QED BY <1>2, <1>3, <1>4 DEF IInv

-----------------------------------------------------------------------------
(* The theorems.                                                           *)

\* Every step keeps the invariant.
LEMMA StepKeeps == IInv /\ [Next]_vars => IInv'
<1>. SUFFICES ASSUME IInv, [Next]_vars PROVE IInv' OBVIOUS
<1>1. ASSUME NEW a \in Activities, Run(a) PROVE IInv'
  <2>1. CASE EndDisposal(a)
    <3>1. Finished(a, "disposed", "succeeded") \/ Finished(a, "error", "failed")
      BY <2>1 DEF EndDisposal, Finished
    <3>. QED BY <3>1, FinishedKeeps
  <2>2. CASE FailDisposal(a)
    <3>1. Finished(a, "error", "failed") BY <2>2 DEF FailDisposal, Finished, tracking
    <3>. QED BY <3>1, FinishedKeeps
  <2>3. CASE ~EndDisposal(a) /\ ~FailDisposal(a)
    <3>1. \/ BeginInitialization(a) \/ EndInitialization(a) \/ Resume(a)
          \/ BeginActivation(a) \/ EndActivation(a) \/ Fail(a)
          \/ BeginDisposal(a) \/ CallHandler(a)
      BY <1>1, <2>3 DEF Run
    <3>. QED BY <3>1, StepOfOneKeeps
  <2>. QED BY <2>1, <2>2, <2>3
<1>2. ASSUME NEW a \in Activities, HandlerThrows(a) PROVE IInv'
  BY <1>2, HandlerThrowsKeeps
<1>3. ASSUME NEW a \in Activities, Respond(a) PROVE IInv' BY <1>3, RespondKeeps
<1>4. ASSUME NEW a \in Activities, NEW p \in Activities \cup {App}, Launch(p, a) PROVE IInv'
  BY <1>4, LaunchKeeps
<1>5. ASSUME NEW a \in Activities, NEW u \in Users, UserDisposes(u, a) PROVE IInv'
  BY <1>5, UserDisposesKeeps
<1>6. ASSUME NEW o \in Origins, NEW a \in Activities, Continue(o, a) PROVE IInv'
  BY <1>6, AfterChildKeeps, CleanUpKeeps DEF Continue
<1>7. CASE UNCHANGED vars
  <2>. USE <1>7 DEF vars, lifecycle, tracking
  <2>1. TypeOK' BY DEF IInv, TypeOK
  <2>2. Family' /\ Known' /\ Lives' /\ Rooted'
    BY DEF IInv, Family, Known, Lives, Rooted, Born, Over
  <2>3. Settled' BY DEF IInv, Settled, Gone
  <2>. QED BY <2>1, <2>2, <2>3 DEF IInv
<1>. QED BY <1>1, <1>2, <1>3, <1>4, <1>5, <1>6, <1>7 DEF Next

\* The strengthened invariant: the lists of children agree with the parents,
\* and a transition of an activation and the end of a disposal exclude each other.
THEOREM Inductive == Spec => []IInv
<1>1. Init => IInv BY InitHolds
<1>2. IInv /\ [Next]_vars => IInv' BY StepKeeps
<1>. QED BY <1>1, <1>2, PTL DEF Spec

\* In any tree the registry lists the roots that live, and none disposed.
THEOREM RootsListed == Spec => []RootsAreListed
<1>1. IInv => RootsAreListed BY Implies
<1>. QED BY <1>1, Inductive, PTL

\* Whoever calls dispose() on any activity of any tree, and whatever fails: a
\* call that resolves leaves no trace of the activity.
THEOREM ThoroughDisposal == Spec => []DisposalIsThorough
<1>1. IInv => DisposalIsThorough BY Implies
<1>. QED BY <1>1, Inductive, PTL

-----------------------------------------------------------------------------
(* No orphans.                                                             *)

\* The activity has ended, or its disposal is under way.
Passed(a) == Over(a) \/ ending[a] # "none"

\* createAndActivateActivity is still waiting for activate().
Entering == {"requested", "initializing", "resuming", "waiting", "activating"}

\* Parents are older than their children: there is no circle of them.
Founded ==
  /\ \A a \in Activities : Born(a) => parent[a] = App \/ Born(parent[a])
  /\ \A S \in SUBSET Activities :
       S # {} /\ (\A a \in S : Born(a)) => \E a \in S : parent[a] \notin S

Visited(f) == {b \in Activities : f[b].at # "idle"}

\* An origin comes to an activity from its parent, but for one.
Visits ==
  \A o \in Origins : \E s \in Activities \cup {App} :
    \A b \in Visited(call[o]) : b # s => parent[b] \in Visited(call[o])

\* The children still to be disposed by a call, the first of them being disposed.
Listing(f, a) ==
  /\ Len(f[a].todo) # 0
  /\ \A i, j \in 1..Len(f[a].todo) : f[a].todo[i] = f[a].todo[j] => i = j
  /\ \A i \in 1..Len(f[a].todo) : parent[f[a].todo[i]] = a
  /\ \A i \in 2..Len(f[a].todo) : f[f[a].todo[i]].at = "idle"

\* What is no longer in the snapshot has passed, or came after it.
Covered(f, a) ==
  \A c \in Activities :
    Born(c) /\ parent[c] = a /\ ~late[c] =>
      Passed(c) \/ \E i \in 1..Len(f[a].todo) : f[a].todo[i] = c

Snapshots ==
  \A o \in Origins, a \in Activities :
    call[o][a].at = "children" => Listing(call[o], a) /\ Covered(call[o], a)

Untouched == \A a \in Activities : launching[a] # "threw" => Visited(call[a]) = {}

Alive == \A a \in Activities : launching[a] \in Entering /\ ending[a] = "none" => ~Over(a)

\* A disposal has somebody who waits for it, and a call that settled one behind it.
Joined ==
  /\ \A o \in Origins, a \in Activities :
       /\ call[o][a].at = "own" => ending[a] # "none"
       /\ call[o][a].at \in {"succeeded", "failed", "resolved"} => Passed(a)
  /\ \A a \in Activities :
       ending[a] \notin {"none", "over"} => \E o \in Origins : call[o][a].at = "own"

\* Only what has passed leaves the list of its parent.
Remembered ==
  \A a, c \in Activities :
    Born(c) /\ parent[c] = a => Passed(c) \/ \E i \in 1..Len(children[a]) : children[a][i] = c

OInv ==
  /\ IInv /\ Founded /\ Visits /\ Snapshots /\ Untouched /\ Alive /\ Joined /\ Remembered
  /\ NoOrphans

\* It holds before anything is launched.
LEMMA InitHasNoOrphans == Init => OInv
<1>. SUFFICES ASSUME Init PROVE OInv OBVIOUS
<1>1. IInv BY InitHolds
<1>2. \A o \in Origins, b \in Activities : call[o][b].at = "idle" BY DEF Init, Idle
<1>3. \A o \in Origins : Visited(call[o]) = {} BY <1>2 DEF Visited
<1>4. \A a \in Activities : ~Born(a) /\ ending[a] = "none" /\ launching[a] = "none"
  BY DEF Init, Born
<1>5. Founded BY <1>4 DEF Founded
<1>6. Visits BY <1>3 DEF Visits
<1>7. Snapshots /\ Untouched BY <1>2, <1>3 DEF Snapshots, Untouched, Origins
<1>8. Alive /\ Joined BY <1>2, <1>4 DEF Alive, Joined, Entering
<1>9. Remembered /\ NoOrphans BY <1>4 DEF Remembered, NoOrphans
<1>. QED BY <1>1, <1>5, <1>6, <1>7, <1>8, <1>9 DEF OInv

\* A step in which calls go on without entering a disposal.
LEMMA SettledCallsKeep ==
  ASSUME OInv, IInv', UNCHANGED <<parent, late>>,
         \A o \in Origins, b \in Activities :
           /\ call'[o][b].at = "idle" <=> call[o][b].at = "idle"
           /\ call'[o][b].at = "children" => call[o][b].at = "children"
           /\ call'[o][b].todo = call[o][b].todo,
         \A b \in Activities :
           /\ status'[b] # "unborn" <=> Born(b)
           /\ Passed(b) => Passed(b)'
           /\ ending'[b] = "none" <=> ending[b] = "none"
           /\ launching'[b] = "threw" <=> launching[b] = "threw",
         Alive', Joined', Remembered'
  PROVE  OInv'
<1>1. \A o \in Origins : Visited(call'[o]) = Visited(call[o]) BY DEF Visited
<1>2. Founded'
  <2>1. \A a \in Activities : Born(a) => parent[a] = App \/ Born(parent[a])
    BY DEF OInv, Founded
  <2>2. \A a \in Activities : parent[a] = App \/ parent[a] \in Activities
    BY DEF OInv, IInv, TypeOK
  <2>3. \A a \in Activities :
          status'[a] # "unborn" => parent'[a] = App \/ status'[parent'[a]] # "unborn"
    BY <2>1, <2>2
  <2>4. ASSUME NEW S \in SUBSET Activities, S # {}, \A a \in S : status'[a] # "unborn"
        PROVE  \E a \in S : parent'[a] \notin S
    <3>1. \A a \in S : Born(a) BY <2>4
    <3>. QED BY <2>4, <3>1 DEF OInv, Founded
  <2>. QED BY <2>3, <2>4 DEF Founded, Born
<1>3. Visits' BY <1>1 DEF OInv, Visits
<1>4. Snapshots'
  <2>. SUFFICES ASSUME NEW o \in Origins, NEW a \in Activities, call'[o][a].at = "children"
       PROVE  Listing(call[o], a)' /\ Covered(call[o], a)'
    BY DEF Snapshots
  <2>1. Listing(call[o], a) /\ Covered(call[o], a) BY DEF OInv, Snapshots
  <2>2. \A i \in 1..Len(call[o][a].todo) : call[o][a].todo[i] \in Activities
    BY DEF OInv, IInv, TypeOK, Calls
  <2>3. call'[o][a].todo = call[o][a].todo OBVIOUS
  <2>4. Len(call[o][a].todo) \in Nat BY DEF OInv, IInv, TypeOK, Calls
  <2>5. Listing(call[o], a)'
    <3>1. \A i \in 2..Len(call[o][a].todo) :
            i \in 1..Len(call[o][a].todo) /\ call'[o][call[o][a].todo[i]].at = "idle"
      BY <2>1, <2>2, <2>4 DEF Listing
    <3>. QED BY <2>1, <2>3, <3>1 DEF Listing
  <2>6. Covered(call[o], a)' BY <2>1, <2>3 DEF Covered, Born
  <2>. QED BY <2>5, <2>6
<1>5. Untouched' BY <1>1 DEF OInv, Untouched, Origins
<1>6. NoOrphans'
  <2>1. \A b \in Activities : Passed(b)' <=> Over(b)' \/ ending'[b] # "none" BY DEF Passed
  <2>2. \A a, c \in Activities :
          Born(c) /\ parent[c] = a /\ ~late[c] /\ ending[a] # "none" => Passed(c)
    BY DEF OInv, NoOrphans, Passed
  <2>. QED BY <2>1, <2>2 DEF NoOrphans, Born
<1>. QED BY <1>2, <1>3, <1>4, <1>5, <1>6 DEF OInv

\* The steps of the activation, of the handler's call and of the beginning of a
\* disposal leave no orphan.
LEMMA StepOfOneKeepsOrphans ==
  ASSUME OInv, IInv', NEW a \in Activities,
         \/ BeginInitialization(a) \/ EndInitialization(a) \/ Resume(a)
         \/ BeginActivation(a) \/ EndActivation(a) \/ Fail(a)
         \/ BeginDisposal(a) \/ CallHandler(a)
  PROVE  OInv'
<1>. DEFINE s == status'[a]
            l == launching'[a]
            e == ending'[a]
<1>1. /\ UNCHANGED <<parent, children, late, call>>
      /\ \A b \in Activities \ {a} :
           status'[b] = status[b] /\ launching'[b] = launching[b] /\ ending'[b] = ending[b]
  BY DEF OInv, IInv, TypeOK, BeginInitialization, EndInitialization, Resume, BeginActivation,
         EndActivation, Fail, BeginDisposal, CallHandler, Freed, tracking, lifecycle
<1>2. /\ ~Born(a) => ending[a] = "none" /\ launching[a] = "none"
      /\ launching[a] \in {"requested", "initializing", "activating"} =>
           ending[a] \in {"none", "waiting"}
      /\ launching[a] \in Entering /\ ending[a] = "none" => ~Over(a)
  BY DEF OInv, IInv, Lives, Alive
<1>3. /\ status \in [Activities -> Statuses] /\ launching \in [Activities -> Launchings]
      /\ ending \in [Activities -> Endings]
  BY DEF OInv, IInv, TypeOK
<1>4. /\ s # "unborn" /\ Born(a)
      /\ Over(a) /\ ending[a] = "none" => s = status[a]
      /\ e = "none" <=> ending[a] = "none"
      /\ e = "over" <=> ending[a] = "over"
      /\ l = "threw" <=> launching[a] = "threw"
      /\ l \in Entering /\ e = "none" => s \notin Terminal
  <2>. USE <1>2, <1>3 DEF Born, Over, Terminal, Entering
  <2>1. CASE BeginInitialization(a) BY <2>1 DEF BeginInitialization, Freed
  <2>2. CASE EndInitialization(a) BY <2>2 DEF EndInitialization, Freed
  <2>3. CASE Resume(a) BY <2>3 DEF Resume
  <2>4. CASE BeginActivation(a) BY <2>4 DEF BeginActivation, Freed
  <2>5. CASE EndActivation(a) BY <2>5 DEF EndActivation, Freed
  <2>6. CASE Fail(a) BY <2>6 DEF Fail, Freed
  <2>7. CASE BeginDisposal(a) BY <2>7 DEF BeginDisposal
  <2>8. CASE CallHandler(a) BY <2>8 DEF CallHandler
  <2>. QED BY <2>1, <2>2, <2>3, <2>4, <2>5, <2>6, <2>7, <2>8
<1>. HIDE DEF s, l, e
<1>5. \A b \in Activities :
        /\ status'[b] # "unborn" <=> Born(b)
        /\ Passed(b) => status'[b] \in Terminal \/ ending'[b] # "none"
        /\ ending'[b] = "none" <=> ending[b] = "none"
        /\ ending'[b] = "over" <=> ending[b] = "over"
        /\ launching'[b] = "threw" <=> launching[b] = "threw"
  <2>. SUFFICES ASSUME NEW b \in Activities
       PROVE  /\ status'[b] # "unborn" <=> Born(b)
              /\ Passed(b) => status'[b] \in Terminal \/ ending'[b] # "none"
              /\ ending'[b] = "none" <=> ending[b] = "none"
              /\ ending'[b] = "over" <=> ending[b] = "over"
              /\ launching'[b] = "threw" <=> launching[b] = "threw"
    OBVIOUS
  <2>1. CASE b = a BY <1>4, <2>1 DEF Passed, Over, s, l, e
  <2>2. CASE b # a BY <1>1, <2>2 DEF Passed, Over, Born
  <2>. QED BY <2>1, <2>2
<1>6. Alive'
  <2>. SUFFICES ASSUME NEW b \in Activities, launching'[b] \in Entering, ending'[b] = "none"
       PROVE  status'[b] \notin Terminal
    BY DEF Alive, Over
  <2>1. CASE b = a BY <1>4, <2>1 DEF s, l, e
  <2>2. CASE b # a BY <1>1, <2>2 DEF OInv, Alive, Over
  <2>. QED BY <2>1, <2>2
<1>7. Joined'
  <2>1. /\ \A o \in Origins, b \in Activities :
             /\ call[o][b].at = "own" => ending'[b] # "none"
             /\ call[o][b].at \in {"succeeded", "failed", "resolved"} =>
                  status'[b] \in Terminal \/ ending'[b] # "none"
        /\ \A b \in Activities :
             ending'[b] \notin {"none", "over"} => \E o \in Origins : call[o][b].at = "own"
    BY <1>5 DEF OInv, Joined
  <2>. QED BY <1>1, <2>1 DEF Joined, Passed, Over
<1>8. Remembered'
  <2>1. \A b, c \in Activities :
          status'[c] # "unborn" /\ parent[c] = b =>
            \/ status'[c] \in Terminal \/ ending'[c] # "none"
            \/ \E i \in 1..Len(children[b]) : children[b][i] = c
    BY <1>5 DEF OInv, Remembered
  <2>. QED BY <1>1, <2>1 DEF Remembered, Passed, Over, Born
<1>9. \A b \in Activities : Passed(b) => Passed(b)' BY <1>5 DEF Passed, Over
<1>. QED BY <1>1, <1>5, <1>6, <1>7, <1>8, <1>9, SettledCallsKeep

\* Neither does the end of a disposal.
LEMMA FinishedKeepsOrphans ==
  ASSUME OInv, IInv', NEW a \in Activities, NEW s, NEW outcome, Finished(a, s, outcome)
  PROVE  OInv'
<1>1. /\ ending[a] = "running" /\ s \in Terminal
      /\ outcome \in {"succeeded", "failed"}
      /\ UNCHANGED <<parent, launching, children, late>>
  BY DEF Finished, Terminal
<1>2. Born(a) BY <1>1 DEF OInv, IInv, Lives
<1>3. \A b \in Activities :
        /\ status'[b] = IF b = a THEN s ELSE status[b]
        /\ ending'[b] = IF b = a THEN "over" ELSE ending[b]
  BY DEF OInv, IInv, TypeOK, Finished, OwnDisposed
<1>4. \A o \in Origins, b \in Activities :
        /\ call'[o][b].todo = call[o][b].todo
        /\ call'[o][b].at = IF b = a /\ call[o][b].at = "own" THEN outcome ELSE call[o][b].at
  BY FinishedCalls DEF OInv
<1>5. \A b \in Activities :
        /\ status'[b] # "unborn" <=> Born(b)
        /\ Passed(b) => status'[b] \in Terminal \/ ending'[b] # "none"
        /\ ending'[b] = "none" <=> ending[b] = "none"
        /\ launching'[b] = "threw" <=> launching[b] = "threw"
  BY <1>1, <1>2, <1>3 DEF Passed, Over, Born, Terminal
<1>6. Alive' BY <1>1, <1>3, <1>5 DEF OInv, Alive, Over
<1>7. Joined'
  <2>1. ASSUME NEW o \in Origins, NEW b \in Activities
        PROVE  /\ call'[o][b].at = "own" => ending'[b] # "none"
               /\ call'[o][b].at \in {"succeeded", "failed", "resolved"} =>
                    status'[b] \in Terminal \/ ending'[b] # "none"
    <3>1. CASE b = a BY <1>3, <3>1
    <3>2. CASE b # a
      <4>1. call'[o][b].at = call[o][b].at BY <1>4, <3>2
      <4>. QED BY <1>5, <4>1 DEF OInv, Joined
    <3>. QED BY <3>1, <3>2
  <2>2. ASSUME NEW b \in Activities, ending'[b] \notin {"none", "over"}
        PROVE  \E o \in Origins : call'[o][b].at = "own"
    <3>1. b # a /\ ending[b] \notin {"none", "over"} BY <1>3, <2>2
    <3>2. PICK o \in Origins : call[o][b].at = "own" BY <3>1 DEF OInv, Joined
    <3>3. call'[o][b].at = "own" BY <1>4, <3>1, <3>2
    <3>. QED BY <3>3
  <2>. QED BY <2>1, <2>2 DEF Joined, Passed, Over
<1>8. Remembered'
  <2>1. \A b, c \in Activities :
          status'[c] # "unborn" /\ parent[c] = b =>
            \/ status'[c] \in Terminal \/ ending'[c] # "none"
            \/ \E i \in 1..Len(children[b]) : children[b][i] = c
    BY <1>5 DEF OInv, Remembered
  <2>. QED BY <1>1, <2>1 DEF Remembered, Passed, Over, Born
<1>9. \A b \in Activities : Passed(b) => Passed(b)' BY <1>5 DEF Passed, Over
<1>10. \A o \in Origins, b \in Activities :
         /\ call'[o][b].at = "idle" <=> call[o][b].at = "idle"
         /\ call'[o][b].at = "children" => call[o][b].at = "children"
         /\ call'[o][b].todo = call[o][b].todo
  BY <1>1, <1>4
<1>. QED BY <1>1, <1>5, <1>6, <1>7, <1>8, <1>9, <1>10, SettledCallsKeep

\* What CleanUp does to the lists of children and to the calls.
LEMMA CleanedUp ==
  ASSUME IInv, NEW o \in Origins, NEW a \in Activities, CleanUp(o, a)
  PROVE  /\ \A q \in Origins, b \in Activities :
              /\ call'[q][b].todo = call[q][b].todo
              /\ call'[q][b].at =
                   IF q = o /\ b = a
                   THEN IF call[o][a].at = "succeeded" THEN "resolved" ELSE "rejected"
                   ELSE call[q][b].at
         /\ \A p \in Activities : \A j \in 1..Len(children[p]) :
              children[p][j] # a => \E i \in 1..Len(children'[p]) : children'[p][i] = children[p][j]
<1>. DEFINE new == [call[o][a] EXCEPT !.at = IF @ = "succeeded" THEN "resolved" ELSE "rejected"]
<1>1. /\ call \in [Origins -> [Activities -> Calls]] /\ call[o] \in [Activities -> Calls]
      /\ call[o][a] \in Calls
      /\ children \in [Activities -> Seq(Activities)]
  BY DEF IInv, TypeOK
<1>2. /\ new \in Calls /\ new.todo = call[o][a].todo
      /\ new.at = IF call[o][a].at = "succeeded" THEN "resolved" ELSE "rejected"
  BY <1>1 DEF Calls, Ats
<1>3. call' = [call EXCEPT ![o] = [call[o] EXCEPT ![a] = new]] BY <1>1 DEF CleanUp
<1>. HIDE DEF new
<1>4. \A q \in Origins, b \in Activities :
        call'[q][b] = IF q = o /\ b = a THEN new ELSE call[q][b]
  BY <1>1, <1>2, <1>3
<1>5. ASSUME NEW p \in Activities, NEW j \in 1..Len(children[p]), children[p][j] # a
      PROVE  \E i \in 1..Len(children'[p]) : children'[p][i] = children[p][j]
  <2>1. /\ children[p] \in Seq(Activities)
        /\ \A k, l \in 1..Len(children[p]) : children[p][k] = children[p][l] => k = l
    BY <1>1 DEF IInv, Family
  <2>2. CASE p = parent[a]
    <3>1. children'[p] = RemoveFirst(children[p], a) BY <2>2 DEF CleanUp
    <3>. QED BY <1>5, <2>1, <3>1, Removed
  <2>3. CASE p # parent[a]
    <3>1. children'[p] = children[p] BY <2>3 DEF CleanUp
    <3>. QED BY <3>1
  <2>. QED BY <2>2, <2>3
<1>. QED BY <1>2, <1>4, <1>5

\* An activity that leaves the list of its parent has passed.
LEMMA CleanUpKeepsOrphans ==
  ASSUME OInv, IInv', NEW o \in Origins, NEW a \in Activities, CleanUp(o, a)
  PROVE  OInv'
<1>1. /\ call[o][a].at \in {"succeeded", "failed"}
      /\ UNCHANGED <<parent, status, launching, ending, roots, late>>
  BY DEF CleanUp, lifecycle
<1>2. /\ \A q \in Origins, b \in Activities :
           /\ call'[q][b].todo = call[q][b].todo
           /\ call'[q][b].at =
                IF q = o /\ b = a
                THEN IF call[o][a].at = "succeeded" THEN "resolved" ELSE "rejected"
                ELSE call[q][b].at
      /\ \A p \in Activities : \A j \in 1..Len(children[p]) :
           children[p][j] # a => \E i \in 1..Len(children'[p]) : children'[p][i] = children[p][j]
  BY CleanedUp DEF OInv
<1>3. Passed(a) BY <1>1 DEF OInv, Joined
<1>4. \A b \in Activities :
        /\ status'[b] # "unborn" <=> Born(b)
        /\ Passed(b) => Passed(b)'
        /\ ending'[b] = "none" <=> ending[b] = "none"
        /\ launching'[b] = "threw" <=> launching[b] = "threw"
  BY <1>1 DEF Born, Passed, Over
<1>5. \A q \in Origins, b \in Activities :
        /\ call'[q][b].at = "idle" <=> call[q][b].at = "idle"
        /\ call'[q][b].at = "children" => call[q][b].at = "children"
        /\ call'[q][b].todo = call[q][b].todo
  BY <1>1, <1>2
<1>6. Alive' BY <1>1 DEF OInv, Alive, Over
<1>7. Joined'
  <2>1. \A q \in Origins, b \in Activities :
          /\ call'[q][b].at = "own" => ending[b] # "none"
          /\ call'[q][b].at \in {"succeeded", "failed", "resolved"} => Passed(b)
    BY <1>1, <1>2, <1>3 DEF OInv, Joined
  <2>2. \A b \in Activities :
          ending[b] \notin {"none", "over"} => \E q \in Origins : call'[q][b].at = "own"
    BY <1>1, <1>2 DEF OInv, Joined
  <2>. QED BY <1>1, <2>1, <2>2 DEF Joined, Passed, Over
<1>8. Remembered'
  <2>. SUFFICES ASSUME NEW p \in Activities, NEW c \in Activities,
                       Born(c), parent[c] = p, ~Passed(c)
       PROVE  \E i \in 1..Len(children'[p]) : children'[p][i] = c
    BY <1>1 DEF Remembered, Born, Passed, Over
  <2>1. PICK j \in 1..Len(children[p]) : children[p][j] = c BY DEF OInv, Remembered
  <2>2. c # a BY <1>3
  <2>. QED BY <1>2, <2>1, <2>2
<1>. QED BY <1>1, <1>4, <1>5, <1>6, <1>7, <1>8, SettledCallsKeep

\* A call whose child was not disposed is rejected, and goes no further.
LEMMA RejectionKeepsOrphans ==
  ASSUME OInv, IInv', NEW o \in Origins, NEW a \in Activities,
         call[o][a].at = "children", call' = [call EXCEPT ![o][a].at = "rejected"],
         UNCHANGED <<parent, status, launching, ending, tracking, late>>
  PROVE  OInv'
<1>. DEFINE new == [call[o][a] EXCEPT !.at = "rejected"]
<1>1. /\ call \in [Origins -> [Activities -> Calls]] /\ call[o] \in [Activities -> Calls]
      /\ call[o][a] \in Calls
  BY DEF OInv, IInv, TypeOK
<1>2. new \in Calls /\ new.todo = call[o][a].todo /\ new.at = "rejected"
  BY <1>1 DEF Calls, Ats
<1>3. call' = [call EXCEPT ![o] = [call[o] EXCEPT ![a] = new]] BY <1>1
<1>. HIDE DEF new
<1>4. \A q \in Origins, b \in Activities :
        call'[q][b] = IF q = o /\ b = a THEN new ELSE call[q][b]
  BY <1>1, <1>2, <1>3
<1>5. \A q \in Origins, b \in Activities :
        /\ call'[q][b].at = "idle" <=> call[q][b].at = "idle"
        /\ call'[q][b].at = "children" => call[q][b].at = "children"
        /\ call'[q][b].todo = call[q][b].todo
  BY <1>2, <1>4
<1>6. \A b \in Activities :
        /\ status'[b] # "unborn" <=> Born(b)
        /\ Passed(b) => Passed(b)'
        /\ ending'[b] = "none" <=> ending[b] = "none"
        /\ launching'[b] = "threw" <=> launching[b] = "threw"
  BY DEF Born, Passed, Over
<1>7. Alive' /\ Remembered' BY DEF OInv, Alive, Over, Remembered, Born, Passed, tracking
<1>8. Joined'
  <2>1. \A q \in Origins, b \in Activities :
          /\ call'[q][b].at = "own" => ending[b] # "none"
          /\ call'[q][b].at \in {"succeeded", "failed", "resolved"} => Passed(b)
    BY <1>2, <1>4 DEF OInv, Joined
  <2>2. \A b \in Activities :
          ending[b] \notin {"none", "over"} => \E q \in Origins : call'[q][b].at = "own"
    BY <1>4 DEF OInv, Joined
  <2>. QED BY <2>1, <2>2 DEF Joined, Passed, Over
<1>. QED BY <1>5, <1>6, <1>7, <1>8, SettledCallsKeep

\* Completing a channel has nothing to do with all this.
LEMMA RespondKeepsOrphans ==
  ASSUME OInv, IInv',
         UNCHANGED <<parent, status, launching, ending, children, call, late>>
  PROVE  OInv'
<1>1. \A b \in Activities :
        /\ status'[b] # "unborn" <=> Born(b)
        /\ Passed(b) => Passed(b)'
  BY DEF Born, Passed, Over
<1>2. Alive' /\ Joined' /\ Remembered'
  BY DEF OInv, Alive, Over, Joined, Remembered, Born, Passed
<1>. QED BY <1>1, <1>2, SettledCallsKeep

\* A child that is launched while its parent is being disposed is late; one that
\* is not late is in the list.
LEMMA LaunchKeepsOrphans ==
  ASSUME OInv, IInv', NEW p \in Activities \cup {App}, NEW a \in Activities, Launch(p, a)
  PROVE  OInv'
<1>1. /\ ~Born(a) /\ (p = App \/ (p \in Activities /\ Born(p) /\ ending[p] # "over"))
      /\ p # a
  BY AppAssumption DEF Launch
<1>2. /\ parent \in [Activities -> Activities \cup {App}]
      /\ status \in [Activities -> Statuses] /\ launching \in [Activities -> Launchings]
      /\ children \in [Activities -> Seq(Activities)] /\ late \in [Activities -> BOOLEAN]
      /\ \A o \in Origins, b \in Activities : call[o][b].todo \in Seq(Activities)
  BY DEF OInv, IInv, TypeOK, Calls
<1>3. /\ \A b \in Activities :
           /\ parent'[b] = IF b = a THEN p ELSE parent[b]
           /\ status'[b] = IF b = a THEN "created" ELSE status[b]
           /\ launching'[b] = IF b = a THEN "requested" ELSE launching[b]
           /\ children'[b] = IF b = p THEN Append(children[b], a) ELSE children[b]
      /\ \A b \in Activities \ {a} : late'[b] = late[b]
      /\ UNCHANGED <<ending, call>>
  BY <1>2 DEF Launch
<1>4. p # App /\ (\E o \in Origins : Underway(o, p)) => late'[a]
  BY <1>2 DEF Launch
<1>5. ending[a] = "none" /\ launching[a] = "none" BY <1>1 DEF OInv, IInv, Lives
<1>6. \A b \in Activities : status'[b] # "unborn" <=> Born(b) \/ b = a BY <1>3 DEF Born
<1>7. \A b \in Activities \ {a} : Passed(b)' <=> Passed(b) BY <1>3 DEF Passed, Over
<1>8. \A b \in Activities : Born(b) => parent[b] # a
  BY <1>1, AppAssumption DEF OInv, Founded
<1>9. \A o \in Origins, b \in Activities :
        /\ call[o][b].at # "idle" => Born(b) /\ b # a
        /\ \A i \in 1..Len(call[o][b].todo) :
             Born(call[o][b].todo[i]) /\ call[o][b].todo[i] # a
             /\ call[o][b].todo[i] \in Activities
  BY <1>1, <1>2 DEF OInv, IInv, Known
<1>10. Founded'
  <2>1. ASSUME NEW b \in Activities, status'[b] # "unborn"
        PROVE  parent'[b] = App \/ status'[parent'[b]] # "unborn"
    <3>1. CASE b = a BY <1>1, <1>3, <1>6, <3>1
    <3>2. CASE b # a
      <4>1. Born(b) /\ parent'[b] = parent[b] BY <1>3, <1>6, <2>1, <3>2
      <4>2. parent[b] = App \/ (parent[b] \in Activities /\ Born(parent[b]))
        BY <1>2, <4>1 DEF OInv, Founded
      <4>. QED BY <1>6, <4>1, <4>2
    <3>. QED BY <3>1, <3>2
  <2>2. ASSUME NEW S \in SUBSET Activities, S # {}, \A b \in S : status'[b] # "unborn"
        PROVE  \E b \in S : parent'[b] \notin S
    <3>1. CASE S \ {a} = {}
      <4>1. a \in S /\ parent'[a] = p BY <1>3, <2>2, <3>1
      <4>. QED BY <1>1, <3>1, <4>1
    <3>2. CASE S \ {a} # {}
      <4>1. \A b \in S \ {a} : Born(b) BY <1>6, <2>2
      <4>2. S \ {a} \in SUBSET Activities OBVIOUS
      <4>3. PICK b \in S \ {a} : parent[b] \notin S \ {a}
        BY <3>2, <4>1, <4>2 DEF OInv, Founded
      <4>4. parent'[b] = parent[b] /\ parent[b] # a BY <1>3, <1>8, <4>1
      <4>. QED BY <4>3, <4>4
    <3>. QED BY <3>1, <3>2
  <2>. QED BY <2>1, <2>2 DEF Founded, Born
<1>11. Visits'
  <2>. SUFFICES ASSUME NEW o \in Origins
       PROVE  \E s \in Activities \cup {App} :
                \A b \in Visited(call[o]) : b # s => parent'[b] \in Visited(call[o])
    BY <1>3 DEF Visits
  <2>1. \A b \in Visited(call[o]) : b \in Activities /\ parent'[b] = parent[b]
    BY <1>3, <1>9 DEF Visited
  <2>. QED BY <2>1 DEF OInv, Visits
<1>12. Snapshots'
  <2>. SUFFICES ASSUME NEW o \in Origins, NEW b \in Activities, call[o][b].at = "children"
       PROVE  Listing(call[o], b)' /\ Covered(call[o], b)'
    BY <1>3 DEF Snapshots
  <2>1. Listing(call[o], b) /\ Covered(call[o], b) BY DEF OInv, Snapshots
  <2>2. Listing(call[o], b)' BY <1>3, <1>9, <2>1 DEF Listing
  <2>3. ASSUME NEW c \in Activities, status'[c] # "unborn", parent'[c] = b, ~late'[c]
        PROVE  Passed(c)' \/ \E i \in 1..Len(call[o][b].todo) : call[o][b].todo[i] = c
    <3>1. CASE c = a
      <4>1. p = b /\ Underway(o, b) BY <1>3, <2>3, <3>1 DEF Underway
      <4>. QED BY <1>4, <2>3, <3>1, <4>1, AppAssumption
    <3>2. CASE c # a
      <4>1. Born(c) /\ parent[c] = b /\ ~late[c] BY <1>3, <1>6, <2>3, <3>2
      <4>2. Passed(c) \/ \E i \in 1..Len(call[o][b].todo) : call[o][b].todo[i] = c
        BY <2>1, <4>1 DEF Covered
      <4>. QED BY <1>7, <3>2, <4>2
    <3>. QED BY <3>1, <3>2
  <2>4. Covered(call[o], b)' BY <1>3, <2>3 DEF Covered, Born
  <2>. QED BY <2>2, <2>4
<1>13. Untouched' BY <1>3, <1>5 DEF OInv, Untouched
<1>14. Alive' BY <1>3 DEF OInv, Alive, Over, Terminal
<1>15. Joined'
  <2>1. \A o \in Origins, b \in Activities :
          call[o][b].at \in {"succeeded", "failed", "resolved"} => Passed(b)'
    BY <1>7, <1>9 DEF OInv, Joined
  <2>2. /\ \A o \in Origins, b \in Activities : call[o][b].at = "own" => ending[b] # "none"
        /\ \A b \in Activities :
             ending[b] \notin {"none", "over"} => \E o \in Origins : call[o][b].at = "own"
    BY DEF OInv, Joined
  <2>. QED BY <1>3, <2>1, <2>2 DEF Joined
<1>16. Remembered'
  <2>1. ASSUME NEW b \in Activities, NEW c \in Activities,
               status'[c] # "unborn", parent'[c] = b
        PROVE  Passed(c)' \/ \E i \in 1..Len(children'[b]) : children'[b][i] = c
    <3>1. children[b] \in Seq(Activities) BY <1>2
    <3>2. CASE c = a
      <4>1. children'[b] = Append(children[b], a) BY <1>3, <2>1, <3>2
      <4>2. Len(children[b]) + 1 \in 1..Len(children'[b])
            /\ children'[b][Len(children[b]) + 1] = a
        BY <3>1, <4>1
      <4>. QED BY <3>2, <4>2
    <3>3. CASE c # a
      <4>1. Born(c) /\ parent[c] = b BY <1>3, <1>6, <2>1, <3>3
      <4>2. Passed(c) \/ \E i \in 1..Len(children[b]) : children[b][i] = c
        BY <4>1 DEF OInv, Remembered
      <4>3. \A i \in 1..Len(children[b]) :
              i \in 1..Len(children'[b]) /\ children'[b][i] = children[b][i]
        <5>1. CASE b = p
          <6>1. children'[b] = Append(children[b], a) BY <1>3, <5>1
          <6>. QED BY <3>1, <6>1
        <5>2. CASE b # p BY <1>3, <5>2
        <5>. QED BY <5>1, <5>2
      <4>. QED BY <1>7, <3>3, <4>2, <4>3
    <3>. QED BY <3>2, <3>3
  <2>. QED BY <2>1 DEF Remembered, Born
<1>17. NoOrphans'
  <2>1. ASSUME NEW b \in Activities, NEW c \in Activities,
               status'[c] # "unborn", parent'[c] = b, ~late'[c], ending[b] # "none"
        PROVE  Passed(c)'
    <3>1. CASE c = a
      <4>1. p = b /\ ending[b] \notin {"none", "over"}
        BY <1>1, <1>3, <2>1, <3>1, AppAssumption
      <4>2. PICK o \in Origins : call[o][b].at = "own" BY <4>1 DEF OInv, Joined
      <4>3. Underway(o, b) BY <4>2 DEF Underway
      <4>. QED BY <1>4, <2>1, <3>1, <4>1, <4>3, AppAssumption
    <3>2. CASE c # a
      <4>1. Born(c) /\ parent[c] = b /\ ~late[c] BY <1>3, <1>6, <2>1, <3>2
      <4>2. Passed(c) BY <2>1, <4>1 DEF OInv, NoOrphans, Passed
      <4>. QED BY <1>7, <3>2, <4>2
    <3>. QED BY <3>1, <3>2
  <2>. QED BY <1>3, <2>1 DEF NoOrphans, Born, Passed
<1>. QED
  BY <1>10, <1>11, <1>12, <1>13, <1>14, <1>15, <1>16, <1>17 DEF OInv

\* The way down from a to a last activity without children: W is what is above it.
Way(a, W, last) ==
  /\ a \in W \cup {last}
  /\ \A b \in W \cup {last} :
       Born(b) /\ (b # a => \E c \in W : parent[b] = c /\ children[c][1] = b)
  /\ \A b \in W : children[b] # <<>>
  /\ children[last] = <<>>

\* What Dispose does, in terms of that way.
LEMMA DisposeGoesDown ==
  ASSUME IInv, NEW o \in Origins, NEW a \in Activities, Born(a),
         NEW calls \in [Activities -> Calls], Dispose(o, calls, a)
  PROVE  \E W \in SUBSET Activities, last \in Activities :
           /\ Way(a, W, last)
           /\ DisposeOwn(o, [b \in Activities |->
                IF b \in W THEN [at |-> "children", todo |-> children[b]] ELSE calls[b]], last)
<1>1. PICK path \in Descents(a) :
        LET above == {path[i] : i \in 1..(Len(path) - 1)}
            entered == [b \in Activities |->
              IF b \in above THEN [at |-> "children", todo |-> children[b]] ELSE calls[b]]
        IN  DisposeOwn(o, entered, path[Len(path)])
  BY DEF Dispose
<1>. DEFINE W == {path[i] : i \in 1..(Len(path) - 1)}
            last == path[Len(path)]
<1>2. Cardinality(Activities) \in Nat BY ActivitiesAssumption, FS_CardinalityType
<1>3. PICK n \in 1..Cardinality(Activities) : path \in [1..n -> Activities]
  BY <1>1 DEF Descents
<1>4. path \in Seq(Activities) /\ Len(path) = n /\ n \in Nat /\ n >= 1 BY <1>2, <1>3
<1>5. /\ path[1] = a
      /\ \A i \in 1..(n - 1) :
           children[path[i]] # <<>> /\ path[i + 1] = Head(children[path[i]])
      /\ children[last] = <<>>
  BY <1>1, <1>4 DEF Descents
<1>6. children \in [Activities -> Seq(Activities)] BY DEF IInv, TypeOK
<1>7. ASSUME NEW i \in 1..(n - 1)
      PROVE  /\ path[i] \in W /\ path[i] \in Activities /\ path[i + 1] \in Activities
             /\ children[path[i]][1] = path[i + 1]
             /\ parent[path[i + 1]] = path[i] /\ Born(path[i + 1]) /\ Born(path[i])
  <2>1. path[i] \in Activities /\ path[i + 1] \in Activities BY <1>3, <1>4
  <2>2. children[path[i]] \in Seq(Activities) BY <1>6, <2>1
  <2>3. 1 \in 1..Len(children[path[i]]) /\ Head(children[path[i]]) = children[path[i]][1]
    BY <1>5, <2>2
  <2>4. path[i] \in W BY <1>4
  <2>5. children[path[i]][1] = path[i + 1] BY <1>5, <2>3
  <2>6. parent[children[path[i]][1]] = path[i] /\ Born(children[path[i]][1]) /\ Born(path[i])
    BY <2>1, <2>3 DEF IInv, Family
  <2>. QED BY <2>1, <2>4, <2>5, <2>6
<1>8. /\ W \in SUBSET Activities /\ last \in Activities
      /\ W \cup {last} = {path[i] : i \in 1..n}
  <2>1. last = path[n] /\ n \in 1..n BY <1>4
  <2>2. W = {path[i] : i \in 1..(n - 1)} BY <1>4
  <2>3. \A i \in 1..n : path[i] \in Activities /\ (i = n \/ i \in 1..(n - 1)) BY <1>3, <1>4
  <2>. HIDE DEF W, last
  <2>. QED BY <1>4, <2>1, <2>2, <2>3
<1>9. Way(a, W, last)
  <2>1. a \in W \cup {last}
    <3>1. 1 \in 1..n BY <1>4
    <3>. QED BY <1>5, <1>8, <3>1
  <2>2. ASSUME NEW b \in W \cup {last}
        PROVE  Born(b) /\ (b # a => \E c \in W : parent[b] = c /\ children[c][1] = b)
    <3>1. PICK i \in 1..n : b = path[i] BY <1>8
    <3>2. CASE i = 1 BY <1>5, <3>1, <3>2
    <3>3. CASE i # 1
      <4>1. i - 1 \in 1..(n - 1) /\ (i - 1) + 1 = i BY <1>4, <3>3
      <4>2. /\ path[i - 1] \in W /\ children[path[i - 1]][1] = path[i]
            /\ parent[path[i]] = path[i - 1] /\ Born(path[i])
        BY <1>7, <4>1
      <4>. HIDE DEF W
      <4>. QED BY <3>1, <4>2
    <3>. QED BY <3>2, <3>3
  <2>3. \A b \in W : children[b] # <<>> BY <1>4, <1>5
  <2>. HIDE DEF W, last
  <2>. QED BY <1>5, <2>1, <2>2, <2>3 DEF Way
<1>10. DisposeOwn(o, [b \in Activities |->
         IF b \in W THEN [at |-> "children", todo |-> children[b]] ELSE calls[b]], last)
  BY <1>1
<1>. HIDE DEF W, last
<1>. QED BY <1>8, <1>9, <1>10

\* A call does not come twice to an activity: what is on the way down from an
\* activity it has not visited was not visited, nor was any child of it.
LEMMA WayIsNew ==
  ASSUME OInv, NEW o \in Origins, NEW a \in Activities, NEW W \in SUBSET Activities,
         NEW last \in Activities, Way(a, W, last), call[o][a].at = "idle",
         Visited(call[o]) = {} \/ parent[a] \in Visited(call[o])
  PROVE  /\ parent[a] \notin W \cup {last}
         /\ \A b \in Activities :
              b \in W \cup {last} \/ parent[b] \in W \cup {last} => call[o][b].at = "idle"
<1>. DEFINE P == W \cup {last}
            V == Visited(call[o])
<1>1. PICK s \in Activities \cup {App} : \A b \in V : b # s => parent[b] \in V
  BY DEF OInv, Visits
<1>2. /\ \A b \in P : Born(b) /\ (b # a => parent[b] \in P)
      /\ a \in P /\ P \in SUBSET Activities
  BY DEF Way
<1>3. \A b \in V : Born(b) /\ b \in Activities BY DEF Visited, OInv, IInv, Known
<1>4. V \in SUBSET Activities /\ a \notin V BY <1>3 DEF Visited
<1>5. CASE V = {}
  <2>1. parent[a] \notin P
    <3>. SUFFICES ASSUME parent[a] \in P PROVE FALSE OBVIOUS
    <3>. HIDE DEF P
    <3>1. \A b \in P : parent[b] \in P BY <1>2
    <3>. QED BY <1>2, <3>1 DEF OInv, Founded
  <2>. QED BY <1>5, <2>1 DEF Visited
<1>6. CASE parent[a] \in V
  <2>. HIDE DEF P, V
  <2>1. ~(s \in V /\ parent[s] \in P)
    <3>. SUFFICES ASSUME s \in V, parent[s] \in P PROVE FALSE OBVIOUS
    <3>1. \A b \in V \cup P : parent[b] \in V \cup P BY <1>1, <1>2, <1>6
    <3>2. V \cup P \in SUBSET Activities /\ V \cup P # {} BY <1>2, <1>4
    <3>3. \A b \in V \cup P : Born(b) BY <1>2, <1>3
    <3>. QED BY <3>1, <3>2, <3>3 DEF OInv, Founded
  <2>2. V \cap P = {}
    <3>. SUFFICES ASSUME V \cap P # {} PROVE FALSE OBVIOUS
    <3>1. \A b \in V \cap P : parent[b] \in V \cap P BY <1>1, <1>2, <1>4, <2>1
    <3>2. V \cap P \in SUBSET Activities BY <1>2
    <3>3. \A b \in V \cap P : Born(b) BY <1>3
    <3>. QED BY <3>1, <3>2, <3>3 DEF OInv, Founded
  <2>3. \A b \in V : parent[b] \notin P BY <1>1, <2>1, <2>2
  <2>4. \A b \in Activities : b \in P \/ parent[b] \in P => b \notin V BY <2>2, <2>3
  <2>5. parent[a] \notin P BY <1>6, <2>2
  <2>. QED BY <2>4, <2>5 DEF Visited, V, P
<1>. QED BY <1>5, <1>6

\* A call of o enters the disposal of last itself, on the way of W.
EntersDown(o, W, last) ==
  /\ UNCHANGED <<parent, status, children, late>>
  /\ \A b \in Activities :
       /\ ending'[b] = ending[b] \/ b = last
       /\ ending'[b] = "none" => ending[b] = "none"
       /\ ending'[b] = "over" <=> ending[b] = "over"
  /\ Over(last) => ending'[last] = ending[last]
  /\ ~Over(last) => ending'[last] # "none"
  /\ \A q \in Origins \ {o} : call'[q] = call[q]
  /\ \A b \in Activities :
       call'[o][b].at = IF b = last THEN IF Over(last) THEN "failed" ELSE "own"
                        ELSE IF b \in W THEN "children" ELSE call[o][b].at
  /\ \A b \in W \cup {last} : call[o][b].at # "own"

\* Such a step leaves no orphan, if what it enters has no child left.
LEMMA EnteringKeepsOrphans ==
  ASSUME OInv, IInv', NEW o \in Origins, NEW W \in SUBSET Activities,
         NEW last \in Activities, EntersDown(o, W, last),
         \A c \in Activities : Born(c) /\ parent[c] = last /\ ~late[c] => Passed(c),
         \A b \in Activities :
           call'[o][b].at = "children" =>
             Listing(call'[o], b) /\ Covered(call'[o], b),
         \E s \in Activities \cup {App} :
           \A b \in Visited(call'[o]) : b # s => parent[b] \in Visited(call'[o]),
         Untouched',
         \A b \in Activities : launching'[b] \in Entering => launching[b] \in Entering
  PROVE  OInv'
<1>1. UNCHANGED <<parent, status, children, late>> BY DEF EntersDown
<1>2. \A b \in Activities : Passed(b) => Over(b) \/ ending'[b] # "none"
  BY DEF Passed, EntersDown
<1>3. Founded' BY <1>1 DEF OInv, Founded, Born
<1>4. Visits'
  <2>. SUFFICES ASSUME NEW q \in Origins
       PROVE  \E s \in Activities \cup {App} :
                \A b \in Visited(call'[q]) : b # s => parent[b] \in Visited(call'[q])
    BY <1>1 DEF Visits
  <2>1. CASE q = o BY <2>1
  <2>2. CASE q # o
    <3>1. call'[q] = call[q] BY <2>2 DEF EntersDown
    <3>. QED BY <3>1 DEF OInv, Visits
  <2>. QED BY <2>1, <2>2
<1>5. Snapshots'
  <2>. SUFFICES ASSUME NEW q \in Origins, NEW b \in Activities, call'[q][b].at = "children"
       PROVE  Listing(call[q], b)' /\ Covered(call[q], b)'
    BY DEF Snapshots
  <2>1. Listing(call'[q], b) /\ Covered(call'[q], b)
    <3>1. CASE q = o BY <3>1
    <3>2. CASE q # o
      <4>1. call'[q] = call[q] BY <3>2 DEF EntersDown
      <4>. QED BY <4>1 DEF OInv, Snapshots
    <3>. QED BY <3>1, <3>2
  <2>2. Listing(call[q], b)' BY <1>1, <2>1 DEF Listing
  <2>3. \A c \in Activities : Born(c) /\ parent[c] = b /\ ~late[c] =>
          \/ Over(c) \/ ending'[c] # "none"
          \/ \E i \in 1..Len(call'[q][b].todo) : call'[q][b].todo[i] = c
    BY <1>2, <2>1 DEF Covered
  <2>4. Covered(call[q], b)' BY <1>1, <2>3 DEF Covered, Passed, Over, Born
  <2>. QED BY <2>2, <2>4
<1>6. Alive' BY <1>1 DEF OInv, Alive, Over, EntersDown
<1>7. Joined'
  <2>1. ASSUME NEW q \in Origins, NEW b \in Activities
        PROVE  /\ call'[q][b].at = "own" => ending'[b] # "none"
               /\ call'[q][b].at \in {"succeeded", "failed", "resolved"} =>
                    Over(b) \/ ending'[b] # "none"
    <3>1. CASE q = o /\ b = last BY <3>1 DEF EntersDown
    <3>2. CASE q # o \/ b # last
      <4>1. call'[q][b].at = call[q][b].at \/ call'[q][b].at = "children"
        BY <3>2 DEF EntersDown
      <4>2. ending[b] # "none" => ending'[b] # "none" BY DEF EntersDown
      <4>. QED BY <1>2, <4>1, <4>2 DEF OInv, Joined
    <3>. QED BY <3>1, <3>2
  <2>2. ASSUME NEW b \in Activities, ending'[b] \notin {"none", "over"}
        PROVE  \E q \in Origins : call'[q][b].at = "own"
    <3>1. CASE b = last /\ ~Over(last)
      <4>1. call'[o][b].at = "own" BY <3>1 DEF EntersDown
      <4>. QED BY <4>1
    <3>2. CASE ~(b = last /\ ~Over(last))
      <4>1. ending[b] = ending'[b] BY <3>2 DEF EntersDown
      <4>2. PICK q \in Origins : call[q][b].at = "own" BY <2>2, <4>1 DEF OInv, Joined
      <4>3. call'[q][b].at = "own"
        <5>1. CASE q # o BY <4>2, <5>1 DEF EntersDown
        <5>2. CASE q = o
          <6>1. b \notin W \cup {last} BY <4>2, <5>2 DEF EntersDown
          <6>. QED BY <4>2, <5>2, <6>1 DEF EntersDown
        <5>. QED BY <5>1, <5>2
      <4>. QED BY <4>3
    <3>. QED BY <3>1, <3>2
  <2>. QED BY <1>1, <2>1, <2>2 DEF Joined, Passed, Over
<1>8. Remembered'
  <2>1. \A b, c \in Activities : Born(c) /\ parent[c] = b =>
          \/ Over(c) \/ ending'[c] # "none"
          \/ \E i \in 1..Len(children[b]) : children[b][i] = c
    BY <1>2 DEF OInv, Remembered
  <2>. QED BY <1>1, <2>1 DEF Remembered, Passed, Over, Born
<1>9. NoOrphans'
  <2>1. ASSUME NEW b \in Activities, NEW c \in Activities,
               Born(c), parent[c] = b, ~late[c], ending'[b] # "none"
        PROVE  Over(c) \/ ending'[c] # "none"
    <3>1. CASE b = last BY <1>2, <2>1, <3>1
    <3>2. CASE b # last
      <4>1. ending[b] # "none" BY <2>1, <3>2 DEF EntersDown
      <4>2. Passed(c) BY <2>1, <4>1 DEF OInv, NoOrphans, Passed
      <4>. QED BY <1>2, <4>2
    <3>. QED BY <3>1, <3>2
  <2>. QED BY <1>1, <2>1 DEF NoOrphans, Over, Born
<1>. QED BY <1>3, <1>4, <1>5, <1>6, <1>7, <1>8, <1>9 DEF OInv

\* The calls of o on their way of W down to last, where none is yet.
Prepared(o, W, last, f) ==
  /\ f \in [Activities -> Calls]
  /\ \A b \in Activities :
       f[b].at = IF b \in W \ {last} THEN "children" ELSE call[o][b].at
  /\ \A b \in W \cup {last} : call[o][b].at # "own"

\* DisposeOwn, when the calls of o before it are those of f.
LEMMA OwnIsEntering ==
  ASSUME IInv, NEW o \in Origins, NEW W \in SUBSET Activities, NEW last \in Activities,
         NEW f, Prepared(o, W, last, f), DisposeOwn(o, f, last),
         UNCHANGED <<parent, status, children, late>>
  PROVE  /\ EntersDown(o, W, last)
         /\ \A b \in Activities \ {last} : call'[o][b] = f[b]
<1>. DEFINE own == [at |-> IF status[last] \in Terminal THEN "failed" ELSE "own", todo |-> <<>>]
            mine == [f EXCEPT ![last] = own]
<1>1. /\ call \in [Origins -> [Activities -> Calls]] /\ ending \in [Activities -> Endings]
      /\ last \in Activities
  BY DEF IInv, TypeOK
<1>2. own.at = IF Over(last) THEN "failed" ELSE "own" BY DEF Over
<1>3. call' = [call EXCEPT ![o] = mine] BY DEF DisposeOwn
<1>. HIDE DEF own
<1>4. \A b \in Activities : mine[b] = IF b = last THEN own ELSE f[b] BY DEF Prepared
<1>. HIDE DEF mine
<1>5. \A q \in Origins : call'[q] = IF q = o THEN mine ELSE call[q] BY <1>1, <1>3
<1>6. /\ \A b \in Activities :
           /\ ending'[b] = ending[b] \/ b = last
           /\ ending'[b] = "none" => ending[b] = "none"
           /\ ending'[b] = "over" <=> ending[b] = "over"
      /\ Over(last) => ending'[last] = ending[last]
      /\ ~Over(last) => ending'[last] # "none"
  BY <1>1 DEF DisposeOwn, Over
<1>7. \A b \in Activities :
        call'[o][b].at = IF b = last THEN IF Over(last) THEN "failed" ELSE "own"
                         ELSE IF b \in W THEN "children" ELSE call[o][b].at
  BY <1>2, <1>4, <1>5 DEF Prepared
<1>8. \A b \in Activities \ {last} : call'[o][b] = f[b] BY <1>4, <1>5
<1>9. \A q \in Origins \ {o} : call'[q] = call[q] BY <1>5
<1>. QED BY <1>6, <1>7, <1>8, <1>9 DEF EntersDown, Prepared

\* Entering a disposal all the way down leaves no orphan.
LEMMA DisposeKeepsOrphans ==
  ASSUME OInv, IInv', NEW o \in Origins, NEW a \in Activities, Born(a),
         NEW calls \in [Activities -> Calls], Dispose(o, calls, a),
         UNCHANGED <<parent, status, children, late>>,
         \A b \in Activities : calls[b].at = call[o][b].at,
         \A b \in Activities :
           call[o][b].at = "children" =>
             /\ Listing(calls, b) /\ Covered(calls, b)
             /\ \A i \in 2..Len(calls[b].todo) : calls[b].todo[i] # a,
         call[o][a].at = "idle",
         Visited(call[o]) = {} \/ parent[a] \in Visited(call[o]),
         Untouched',
         \A b \in Activities : launching'[b] \in Entering => launching[b] \in Entering
  PROVE  OInv'
<1>. DEFINE down(W) == [b \in Activities |->
              IF b \in W THEN [at |-> "children", todo |-> children[b]] ELSE calls[b]]
<1>1. PICK W \in SUBSET Activities, last \in Activities :
        Way(a, W, last) /\ DisposeOwn(o, down(W), last)
  BY DisposeGoesDown DEF OInv
<1>2. /\ children \in [Activities -> Seq(Activities)]
      /\ \A b \in Activities : calls[b].todo \in Seq(Activities) /\ Len(calls[b].todo) \in Nat
  BY DEF OInv, IInv, TypeOK, Calls
<1>3. last \notin W /\ children[last] = <<>> BY <1>1 DEF Way
<1>4. /\ parent[a] \notin W \cup {last}
      /\ \A b \in Activities :
           b \in W \cup {last} \/ parent[b] \in W \cup {last} => call[o][b].at = "idle"
  BY <1>1, WayIsNew
<1>5. \A b \in Activities :
        LET e == [at |-> "children", todo |-> children[b]]
        IN  e \in Calls /\ e.at = "children" /\ e.todo = children[b]
  BY <1>2 DEF Calls, Ats
<1>6. PICK f \in [Activities -> Calls] :
        /\ f = down(W)
        /\ \A b \in W : f[b].at = "children" /\ f[b].todo = children[b]
        /\ \A b \in Activities \ W : f[b] = calls[b]
  <2>1. down(W) \in [Activities -> Calls] BY <1>5
  <2>2. /\ \A b \in W : down(W)[b].at = "children" /\ down(W)[b].todo = children[b]
        /\ \A b \in Activities \ W : down(W)[b] = calls[b]
    OBVIOUS
  <2>. HIDE DEF down
  <2>. QED BY <2>1, <2>2
<1>. HIDE DEF down
<1>7. DisposeOwn(o, f, last) BY <1>1, <1>6
<1>8. \A b \in Activities : f[b].at = IF b \in W \ {last} THEN "children" ELSE call[o][b].at
  BY <1>3, <1>6
<1>9. \A b \in W \cup {last} : call[o][b].at # "own" BY <1>4
<1>10. /\ EntersDown(o, W, last)
       /\ \A b \in Activities \ {last} : call'[o][b] = f[b]
  <2>1. IInv BY DEF OInv
  <2>2. Prepared(o, W, last, f) BY <1>8, <1>9 DEF Prepared
  <2>. QED BY <1>7, <2>1, <2>2, OwnIsEntering
<1>11. \A b \in Activities :
         call'[o][b].at = IF b = last THEN IF Over(last) THEN "failed" ELSE "own"
                          ELSE IF b \in W THEN "children" ELSE call[o][b].at
  BY <1>10 DEF EntersDown
<1>12. ASSUME NEW c \in Activities, Born(c), parent[c] = last PROVE Passed(c)
  BY <1>3, <1>12 DEF OInv, Remembered
<1>13. ASSUME NEW b \in Activities, call'[o][b].at = "children"
       PROVE  Listing(call'[o], b) /\ Covered(call'[o], b)
  <2>1. CASE b \in W
    <3>1. call'[o][b].todo = children[b] BY <1>3, <1>6, <1>10, <2>1
    <3>2. /\ children[b] \in Seq(Activities) /\ Len(children[b]) \in Nat \ {0}
          /\ \A i \in 1..Len(children[b]) : children[b][i] \in Activities
      BY <1>1, <1>2, <2>1 DEF Way
    <3>3. /\ \A i \in 1..Len(children[b]) : parent[children[b][i]] = b
          /\ \A i, j \in 1..Len(children[b]) : children[b][i] = children[b][j] => i = j
      BY DEF OInv, IInv, Family
    <3>4. ASSUME NEW i \in 2..Len(children[b]) PROVE call'[o][children[b][i]].at = "idle"
      <4>. DEFINE x == children[b][i]
      <4>1. x \in Activities /\ parent[x] = b /\ i # 1 /\ i \in 1..Len(children[b])
            /\ 1 \in 1..Len(children[b])
        BY <3>2, <3>3
      <4>2. x # children[b][1] BY <3>3, <4>1
      <4>. HIDE DEF x
      <4>3. x # a BY <1>4, <2>1, <4>1
      <4>4. x \notin W \cup {last} BY <1>1, <4>1, <4>2, <4>3 DEF Way
      <4>5. call[o][x].at = "idle" BY <1>4, <2>1, <4>1
      <4>6. call'[o][x].at = "idle" BY <1>11, <4>1, <4>4, <4>5
      <4>. QED BY <4>6 DEF x
    <3>5. Listing(call'[o], b) BY <3>1, <3>2, <3>3, <3>4 DEF Listing
    <3>6. Covered(call'[o], b) BY <3>1 DEF OInv, Remembered, Covered
    <3>. QED BY <3>5, <3>6
  <2>2. CASE b \notin W
    <3>1. b # last BY <1>11, <1>13
    <3>2. call'[o][b] = calls[b] /\ call[o][b].at = "children"
      BY <1>6, <1>10, <1>11, <1>13, <2>2, <3>1
    <3>3. /\ Listing(calls, b) /\ Covered(calls, b)
          /\ \A i \in 2..Len(calls[b].todo) : calls[b].todo[i] # a
      BY <3>2
    <3>4. ASSUME NEW i \in 2..Len(calls[b].todo) PROVE call'[o][calls[b].todo[i]].at = "idle"
      <4>. DEFINE x == calls[b].todo[i]
      <4>1. i \in 1..Len(calls[b].todo) BY <1>2
      <4>2. x \in Activities /\ parent[x] = b /\ x # a /\ calls[x].at = "idle"
        BY <1>2, <3>3, <4>1 DEF Listing
      <4>. HIDE DEF x
      <4>3. call[o][x].at = "idle" BY <4>2
      <4>4. x \notin W \cup {last} BY <1>1, <2>2, <4>2 DEF Way
      <4>5. call'[o][x].at = "idle" BY <1>11, <4>2, <4>3, <4>4
      <4>. QED BY <4>5 DEF x
    <3>5. Listing(call'[o], b) BY <3>2, <3>3, <3>4 DEF Listing
    <3>6. Covered(call'[o], b) BY <3>2, <3>3 DEF Covered
    <3>. QED BY <3>5, <3>6
  <2>. QED BY <2>1, <2>2
<1>14. \E s \in Activities \cup {App} :
         \A b \in Visited(call'[o]) : b # s => parent[b] \in Visited(call'[o])
  <2>. DEFINE V == Visited(call[o])
              N == Visited(call'[o])
  <2>1. N = V \cup W \cup {last} /\ V \subseteq Activities BY <1>11 DEF Visited
  <2>2. \A b \in W \cup {last} : b # a => parent[b] \in W BY <1>1 DEF Way
  <2>3. a \in W \cup {last} BY <1>1 DEF Way
  <2>4. CASE V = {} BY <2>1, <2>2, <2>4
  <2>5. CASE parent[a] \in V
    <3>1. PICK s \in Activities \cup {App} : \A b \in V : b # s => parent[b] \in V
      BY DEF OInv, Visits
    <3>. HIDE DEF V, N
    <3>2. \A b \in N : b # s => parent[b] \in N BY <2>1, <2>2, <2>5, <3>1
    <3>. QED BY <3>2 DEF N
  <2>. QED BY <2>4, <2>5
<1>. QED BY <1>10, <1>12, <1>13, <1>14, EnteringKeepsOrphans

\* Neither does a call of dispose(), by a user or for a failed handler.
LEMMA CallsKeepOrphans ==
  ASSUME OInv, IInv', NEW a \in Activities,
         HandlerThrows(a) \/ \E u \in Users : UserDisposes(u, a)
  PROVE  OInv'
<1>1. PICK o \in Origins :
        /\ Dispose(o, call[o], a) /\ Born(a) /\ Visited(call[o]) = {}
        /\ UNCHANGED <<parent, status, children, late>>
        /\ \A b \in Activities :
             IF b = o THEN launching'[b] = "threw" ELSE launching'[b] = launching[b]
  <2>1. CASE HandlerThrows(a)
    <3>1. /\ a \in Origins /\ Dispose(a, call[a], a)
          /\ UNCHANGED <<parent, status, children, late>>
          /\ launching[a] = "running" /\ launching' = [launching EXCEPT ![a] = "threw"]
      BY <2>1 DEF HandlerThrows, Origins, tracking
    <3>2. Born(a) BY <3>1 DEF OInv, IInv, Lives
    <3>3. Visited(call[a]) = {} BY <3>1 DEF OInv, Untouched
    <3>4. \A b \in Activities :
            IF b = a THEN launching'[b] = "threw" ELSE launching'[b] = launching[b]
      BY <3>1 DEF OInv, IInv, TypeOK
    <3>. QED BY <3>1, <3>2, <3>3, <3>4
  <2>2. ASSUME NEW u \in Users, UserDisposes(u, a)
        PROVE  /\ u \in Origins /\ Dispose(u, call[u], a) /\ Born(a) /\ Visited(call[u]) = {}
               /\ UNCHANGED <<parent, status, children, late>>
               /\ \A b \in Activities : b # u /\ launching'[b] = launching[b]
    <3>1. /\ u \in Origins /\ Dispose(u, call[u], a) /\ Born(a)
          /\ UNCHANGED <<parent, status, children, late>>
          /\ \A b \in Activities : launching'[b] = launching[b]
      BY <2>2 DEF UserDisposes, Origins, tracking
    <3>2. Visited(call[u]) = {}
      <4>1. \A b \in Activities : call[u][b] = Idle BY <2>2 DEF UserDisposes
      <4>2. Idle.at = "idle" BY DEF Idle
      <4>. QED BY <4>1, <4>2 DEF Visited
    <3>. QED BY <3>1, <3>2, UsersAssumption
  <2>. QED BY <2>1, <2>2
<1>2. \A b \in Activities : call[o][b].at = "idle" BY <1>1 DEF Visited
<1>3. call[o] \in [Activities -> Calls] BY DEF OInv, IInv, TypeOK
<1>4. Untouched'
  <2>. SUFFICES ASSUME NEW b \in Activities, launching'[b] # "threw"
       PROVE  Visited(call'[b]) = {}
    BY DEF Untouched
  <2>1. launching[b] # "threw" /\ b \in Origins /\ b # o BY <1>1 DEF Origins
  <2>2. call \in [Origins -> [Activities -> Calls]] BY DEF OInv, IInv, TypeOK
  <2>3. call'[b] = call[b] BY <1>1, <2>1, <2>2 DEF Dispose, DisposeOwn
  <2>. QED BY <2>1, <2>3 DEF OInv, Untouched
<1>5. \A b \in Activities : launching'[b] \in Entering => launching[b] \in Entering
  BY <1>1 DEF Entering
<1>. QED BY <1>1, <1>2, <1>3, <1>4, <1>5, DisposeKeepsOrphans

\* A call that goes on to the next child, or to the activity itself once all of
\* them are disposed.
LEMMA AfterChildKeepsOrphans ==
  ASSUME OInv, IInv', NEW o \in Origins, NEW a \in Activities, AfterChild(o, a)
  PROVE  OInv'
<1>. DEFINE todo == call[o][a].todo
<1>1. /\ call[o][a].at = "children"
      /\ UNCHANGED <<parent, status, launching, tracking, open, late>>
      /\ UNCHANGED <<parent, status, children, late>>
  BY DEF AfterChild, tracking
<1>2. /\ call \in [Origins -> [Activities -> Calls]] /\ call[o] \in [Activities -> Calls]
      /\ call[o][a] \in Calls /\ todo \in Seq(Activities) /\ Len(todo) \in Nat
      /\ \A b \in Activities : call[o][b] \in Calls /\ call[o][b].todo \in Seq(Activities)
  BY DEF OInv, IInv, TypeOK, Calls
<1>3. \A b \in Activities : call[o][b].at = "children" =>
        Listing(call[o], b) /\ Covered(call[o], b)
  BY DEF OInv, Snapshots
<1>4. /\ Len(todo) # 0 /\ 1 \in 1..Len(todo) /\ Head(todo) = todo[1]
      /\ \A i, j \in 1..Len(todo) : todo[i] = todo[j] => i = j
      /\ \A i \in 1..Len(todo) : parent[todo[i]] = a /\ todo[i] \in Activities
      /\ \A i \in 2..Len(todo) : call[o][todo[i]].at = "idle" /\ i \in 1..Len(todo)
  BY <1>1, <1>2, <1>3 DEF Listing
<1>5. call[o][Head(todo)].at = "resolved" => Passed(todo[1])
  BY <1>4 DEF OInv, Joined
<1>6. Untouched'
  <2>1. \A b \in Activities : b \in Origins => (o = b => launching[b] = "threw")
    BY <1>1 DEF OInv, Untouched, Visited
  <2>2. \A q \in Origins \ {o} : call'[q] = call[q]
    <3>1. CASE call' = [call EXCEPT ![o][a].at = "rejected"] BY <1>2, <3>1
    <3>2. CASE DisposeOwn(o, call[o], a) BY <1>2, <3>2 DEF DisposeOwn
    <3>3. CASE Dispose(o, [call[o] EXCEPT ![a].todo = Tail(@)], todo[2])
      BY <1>2, <3>3 DEF Dispose, DisposeOwn
    <3>. QED BY <3>1, <3>2, <3>3 DEF AfterChild
  <2>. QED BY <1>1, <2>1, <2>2 DEF OInv, Untouched, Origins
<1>7. CASE call' = [call EXCEPT ![o][a].at = "rejected"] /\ UNCHANGED ending
  BY <1>1, <1>7, RejectionKeepsOrphans
<1>8. CASE /\ call[o][Head(todo)].at = "resolved" /\ Len(todo) > 1
           /\ Dispose(o, [call[o] EXCEPT ![a].todo = Tail(@)], todo[2])
  <2>. DEFINE new == [call[o][a] EXCEPT !.todo = Tail(todo)]
              calls == [call[o] EXCEPT ![a] = new]
              rest == Tail(todo)
  <2>1. /\ rest \in Seq(Activities) /\ Len(rest) = Len(todo) - 1
        /\ \A i \in 1..Len(rest) : rest[i] = todo[i + 1] /\ i + 1 \in 1..Len(todo)
        /\ \A i \in 2..Len(todo) : i - 1 \in 1..Len(rest) /\ rest[i - 1] = todo[i]
    BY <1>2, <1>8
  <2>2. new \in Calls /\ new.at = "children" /\ new.todo = rest
    BY <1>1, <1>2, <2>1 DEF Calls
  <2>3. [call[o] EXCEPT ![a].todo = Tail(@)] = calls BY <1>2
  <2>4. Dispose(o, calls, todo[2]) BY <1>8, <2>3
  <2>. HIDE DEF new
  <2>5. /\ calls \in [Activities -> Calls]
        /\ \A b \in Activities : calls[b] = IF b = a THEN new ELSE call[o][b]
    BY <1>2, <2>2
  <2>6. \A b \in Activities : calls[b].at = call[o][b].at BY <1>1, <2>2, <2>5
  <2>. HIDE DEF calls
  <2>7. /\ 2 \in 1..Len(todo) /\ todo[2] \in Activities /\ parent[todo[2]] = a
        /\ call[o][todo[2]].at = "idle"
    <3>1. 2 \in 2..Len(todo) /\ 2 \in 1..Len(todo) BY <1>2, <1>8
    <3>. QED BY <1>4, <3>1
  <2>8. Born(todo[2]) BY <2>7 DEF OInv, IInv, Known
  <2>9. parent[todo[2]] \in Visited(call[o]) BY <1>1, <2>7 DEF Visited
  <2>10. /\ Listing(calls, a) /\ Covered(calls, a)
         /\ \A i \in 2..Len(calls[a].todo) : calls[a].todo[i] # todo[2]
    <3>. HIDE DEF todo, rest
    <3>1. calls[a].todo = rest BY <2>2, <2>5
    <3>2. Len(rest) # 0 /\ Len(rest) \in Nat BY <1>2, <1>8, <2>1
    <3>3. \A i, j \in 1..Len(rest) : rest[i] = rest[j] => i = j
      <4>. SUFFICES ASSUME NEW i \in 1..Len(rest), NEW j \in 1..Len(rest), rest[i] = rest[j]
           PROVE i = j
        OBVIOUS
      <4>1. i + 1 = j + 1 BY <1>4, <2>1
      <4>. QED BY <4>1, <3>2
    <3>4. \A i \in 1..Len(rest) : parent[rest[i]] = a BY <1>4, <2>1
    <3>5. ASSUME NEW i \in 2..Len(rest)
          PROVE  calls[rest[i]].at = "idle" /\ rest[i] # todo[2]
      <4>1. i \in 1..Len(rest) /\ i + 1 \in 2..Len(todo) /\ i + 1 # 2
        BY <1>2, <2>1, <3>2
      <4>2. rest[i] = todo[i + 1] /\ rest[i] \in Activities BY <1>4, <2>1, <4>1
      <4>3. call[o][rest[i]].at = "idle" BY <1>4, <4>1, <4>2
      <4>4. rest[i] # todo[2] BY <1>4, <2>7, <4>1, <4>2
      <4>. QED BY <2>6, <4>2, <4>3, <4>4
    <3>6. Listing(calls, a) BY <3>1, <3>2, <3>3, <3>4, <3>5 DEF Listing
    <3>7. ASSUME NEW c \in Activities, Born(c), parent[c] = a, ~late[c]
          PROVE  Passed(c) \/ \E i \in 1..Len(rest) : rest[i] = c
      <4>1. Passed(c) \/ \E i \in 1..Len(todo) : todo[i] = c
        BY <1>1, <1>3, <3>7 DEF Covered, todo
      <4>2. \A i \in 1..Len(todo) : i = 1 \/ i \in 2..Len(todo) BY <1>2
      <4>. QED BY <1>5, <1>8, <2>1, <4>1, <4>2
    <3>8. Covered(calls, a) BY <3>1, <3>7 DEF Covered
    <3>. QED BY <3>1, <3>5, <3>6, <3>8
  <2>11. ASSUME NEW b \in Activities, call[o][b].at = "children", b # a
         PROVE  /\ Listing(calls, b) /\ Covered(calls, b)
                /\ \A i \in 2..Len(calls[b].todo) : calls[b].todo[i] # todo[2]
    <3>1. calls[b] = call[o][b] BY <2>5, <2>11
    <3>2. Listing(call[o], b) /\ Covered(call[o], b) BY <1>3, <2>11
    <3>3. \A i \in 1..Len(call[o][b].todo) : call[o][b].todo[i] \in Activities BY <1>2
    <3>4. Len(call[o][b].todo) \in Nat BY <1>2
    <3>5. \A i \in 2..Len(call[o][b].todo) :
            /\ i \in 1..Len(call[o][b].todo)
            /\ calls[call[o][b].todo[i]].at = "idle" /\ call[o][b].todo[i] # todo[2]
      BY <2>6, <2>7, <2>11, <3>2, <3>3, <3>4, SMTT(20) DEF Listing
    <3>6. Listing(calls, b) BY <3>1, <3>2, <3>5 DEF Listing
    <3>7. Covered(calls, b) BY <3>1, <3>2 DEF Covered
    <3>. QED BY <3>1, <3>5, <3>6, <3>7
  <2>12. \A b \in Activities : call[o][b].at = "children" =>
           /\ Listing(calls, b) /\ Covered(calls, b)
           /\ \A i \in 2..Len(calls[b].todo) : calls[b].todo[i] # todo[2]
    BY <2>10, <2>11
  <2>13. \A b \in Activities : launching'[b] \in Entering => launching[b] \in Entering
    BY <1>1
  <2>. HIDE DEF todo
  <2>. QED
    BY <1>1, <1>6, <2>4, <2>5, <2>6, <2>7, <2>8, <2>9, <2>12, <2>13, DisposeKeepsOrphans
<1>9. CASE /\ call[o][Head(todo)].at = "resolved" /\ Len(todo) = 1
           /\ DisposeOwn(o, call[o], a)
  <2>1. \A c \in Activities : Born(c) /\ parent[c] = a /\ ~late[c] => Passed(c)
    <3>1. \A c \in Activities : Born(c) /\ parent[c] = a /\ ~late[c] =>
            Passed(c) \/ \E i \in 1..Len(todo) : todo[i] = c
      BY <1>1, <1>3 DEF Covered
    <3>2. \A i \in 1..Len(todo) : i = 1 BY <1>9
    <3>. QED BY <1>5, <1>9, <3>1, <3>2
  <2>2. /\ EntersDown(o, {}, a)
        /\ \A b \in Activities \ {a} : call'[o][b] = call[o][b]
    <3>1. IInv BY DEF OInv
    <3>2. Prepared(o, {}, a, call[o]) BY <1>1, <1>2 DEF Prepared
    <3>3. {} \in SUBSET Activities OBVIOUS
    <3>. QED BY <1>1, <1>9, <3>1, <3>2, <3>3, OwnIsEntering
  <2>3. call'[o][a].at \in {"failed", "own"} BY <2>2 DEF EntersDown
  <2>4. ASSUME NEW b \in Activities, call'[o][b].at = "children"
        PROVE  Listing(call'[o], b) /\ Covered(call'[o], b)
    <3>1. b # a /\ call'[o][b] = call[o][b] BY <2>2, <2>3, <2>4
    <3>2. Listing(call[o], b) /\ Covered(call[o], b) BY <1>3, <2>4, <3>1
    <3>3. /\ \A i \in 1..Len(call[o][b].todo) : call[o][b].todo[i] \in Activities
          /\ Len(call[o][b].todo) \in Nat
      BY <1>2
    <3>4. \A i \in 2..Len(call[o][b].todo) :
            i \in 1..Len(call[o][b].todo) /\ call'[o][call[o][b].todo[i]].at = "idle"
      BY <1>1, <2>2, <3>2, <3>3 DEF Listing
    <3>5. Listing(call'[o], b) BY <3>1, <3>2, <3>4 DEF Listing
    <3>6. Covered(call'[o], b) BY <3>1, <3>2 DEF Covered
    <3>. QED BY <3>5, <3>6
  <2>5. Visited(call'[o]) = Visited(call[o]) BY <1>1, <2>2, <2>3 DEF Visited
  <2>6. \E s \in Activities \cup {App} :
          \A b \in Visited(call'[o]) : b # s => parent[b] \in Visited(call'[o])
    BY <2>5 DEF OInv, Visits
  <2>7. \A b \in Activities : launching'[b] \in Entering => launching[b] \in Entering
    BY <1>1
  <2>8. {} \in SUBSET Activities OBVIOUS
  <2>. QED BY <1>6, <2>1, <2>2, <2>4, <2>6, <2>7, <2>8, EnteringKeepsOrphans
<1>. QED BY <1>7, <1>8, <1>9 DEF AfterChild

\* Every step keeps the invariant.
LEMMA StepKeepsOrphans == OInv /\ [Next]_vars => OInv'
<1>. SUFFICES ASSUME OInv, [Next]_vars PROVE OInv' OBVIOUS
<1>1. IInv' BY StepKeeps DEF OInv
<1>2. ASSUME NEW a \in Activities, Run(a) PROVE OInv'
  <2>1. CASE EndDisposal(a)
    <3>1. Finished(a, "disposed", "succeeded") \/ Finished(a, "error", "failed")
      BY <2>1 DEF EndDisposal, Finished
    <3>. QED BY <1>1, <3>1, FinishedKeepsOrphans
  <2>2. CASE FailDisposal(a)
    <3>1. Finished(a, "error", "failed") BY <2>2 DEF FailDisposal, Finished, tracking
    <3>. QED BY <1>1, <3>1, FinishedKeepsOrphans
  <2>3. CASE ~EndDisposal(a) /\ ~FailDisposal(a)
    <3>1. \/ BeginInitialization(a) \/ EndInitialization(a) \/ Resume(a)
          \/ BeginActivation(a) \/ EndActivation(a) \/ Fail(a)
          \/ BeginDisposal(a) \/ CallHandler(a)
      BY <1>2, <2>3 DEF Run
    <3>. QED BY <1>1, <3>1, StepOfOneKeepsOrphans
  <2>. QED BY <2>1, <2>2, <2>3
<1>3. ASSUME NEW a \in Activities, HandlerThrows(a) PROVE OInv'
  BY <1>1, <1>3, CallsKeepOrphans
<1>4. ASSUME NEW a \in Activities, NEW u \in Users, UserDisposes(u, a) PROVE OInv'
  BY <1>1, <1>4, CallsKeepOrphans
<1>5. ASSUME NEW a \in Activities, Respond(a) PROVE OInv'
  BY <1>1, <1>5, RespondKeepsOrphans DEF Respond, lifecycle, tracking
<1>6. ASSUME NEW a \in Activities, NEW p \in Activities \cup {App}, Launch(p, a) PROVE OInv'
  BY <1>1, <1>6, LaunchKeepsOrphans
<1>7. ASSUME NEW o \in Origins, NEW a \in Activities, Continue(o, a) PROVE OInv'
  BY <1>1, <1>7, AfterChildKeepsOrphans, CleanUpKeepsOrphans DEF Continue
<1>8. CASE UNCHANGED vars
  BY <1>1, <1>8, RespondKeepsOrphans DEF vars, lifecycle, tracking
<1>. QED BY <1>2, <1>3, <1>4, <1>5, <1>6, <1>7, <1>8 DEF Next

\* The invariant behind it: an origin comes down the tree, once to each activity,
\* and its snapshots hold what has not yet passed.
THEOREM OrphansInductive == Spec => []OInv
<1>1. Init => OInv BY InitHasNoOrphans
<1>2. OInv /\ [Next]_vars => OInv' BY StepKeepsOrphans
<1>. QED BY <1>1, <1>2, PTL DEF Spec

\* In a tree of any depth and any order of calls: when an activity begins to
\* dispose itself, no child that was there before has been left behind.
THEOREM OrphansNone == Spec => []NoOrphans
<1>1. OInv => NoOrphans BY DEF OInv
<1>. QED BY <1>1, OrphansInductive, PTL
-----------------------------------------------------------------------------
(***************************************************************************)
(* The channel, for all sets of responses and readers and for all bounds.  *)
(* The methods of a stream act on its buffer b, its waiters w, the flag d  *)
(* and the answers a; s is what was sent and q who asked.  The lemmas say  *)
(* that each of them keeps a stream orderly, and that an orderly stream is *)
(* what ResponseStream promises.                                           *)
(***************************************************************************)

Typed(b, w, d, a, s, q) ==
  /\ b \in Seq(Responses) /\ s \in Seq(Responses)
  /\ w \in Seq(Readers) /\ q \in Seq(Readers)
  /\ d \in BOOLEAN /\ a \in Seq(Answers)

\* Readers wait only while there is nothing to read, and the answers run
\* ahead of the responses only at the end of the stream.
Fed(b, w, d, a, s) ==
  /\ w # <<>> => b = <<>> /\ d = FALSE
  /\ Len(a) # Len(s) - Len(b) => d = TRUE /\ b = <<>>

InOrder(b, a, s) ==
  /\ Len(s) - Len(b) \in 0..Len(a)
  /\ \A i \in 1..Len(a) : a[i].done <=> i > Len(s) - Len(b)
  /\ \A i \in 1..(Len(s) - Len(b)) : a[i].value = <<s[i]>>
  /\ \A i \in 1..Len(b) : b[i] = s[Len(s) - Len(b) + i]

InTurn(w, a, q) ==
  /\ Len(q) = Len(a) + Len(w)
  /\ \A i \in 1..Len(a) : a[i].reader = q[i]
  /\ \A i \in 1..Len(w) : w[i] = q[Len(a) + i]

Orderly(b, w, d, a, s, q) ==
  Typed(b, w, d, a, s, q) /\ Fed(b, w, d, a, s) /\ InOrder(b, a, s) /\ InTurn(w, a, q)

\* What an answer is made of.
LEMMA Fields ==
  /\ \A rd \in Readers, r \in Responses : Value(rd, r) \in Answers
  /\ \A rd \in Readers : End(rd) \in Answers
  /\ \A rd, r : Value(rd, r).reader = rd /\ ~Value(rd, r).done /\ Value(rd, r).value = <<r>>
  /\ \A rd : End(rd).reader = rd /\ End(rd).done
  /\ \A x \in Answers : x.done \in BOOLEAN
<1>1. /\ \A rd \in Readers, r \in Responses : Value(rd, r) \in Answers
      /\ \A rd \in Readers : End(rd) \in Answers
  BY DEF Answers, Value, End
<1>2. \A rd, r : Value(rd, r).reader = rd /\ ~Value(rd, r).done /\ Value(rd, r).value = <<r>>
  BY DEF Value
<1>3. \A rd : End(rd).reader = rd /\ End(rd).done
  BY DEF End
<1>4. \A x \in Answers : x.done \in BOOLEAN
  BY DEF Answers
<1> QED
  BY <1>1, <1>2, <1>3, <1>4

\* pushToStream with a waiter.
LEMMA ServeKeepsOrder ==
  ASSUME NEW b, NEW w, NEW a, NEW s, NEW q, NEW r \in Responses,
         Orderly(b, w, FALSE, a, s, q), w # <<>>
  PROVE  Orderly(b, Tail(w), FALSE, Append(a, Value(Head(w), r)), Append(s, r), q)
<1> DEFINE w1 == Tail(w)
           a1 == Append(a, Value(Head(w), r))
           s1 == Append(s, r)
<1>1. Typed(b, w, FALSE, a, s, q) /\ InOrder(b, a, s) /\ InTurn(w, a, q)
  BY DEF Orderly
<1>2. b = <<>> /\ Len(b) = 0 /\ Len(a) = Len(s) /\ Len(s) \in Nat
  BY <1>1 DEF Orderly, Fed, Typed
<1>3. Typed(b, w1, FALSE, a1, s1, q)
  BY <1>1, Fields DEF Typed
<1>4. /\ Len(a1) = Len(a) + 1 /\ a1[Len(a) + 1] = Value(Head(w), r)
      /\ \A i \in 1..Len(a) : a1[i] = a[i]
  BY <1>1 DEF Typed
<1>5. /\ Len(s1) = Len(s) + 1 /\ s1[Len(s) + 1] = r
      /\ \A i \in 1..Len(s) : s1[i] = s[i]
  BY <1>1 DEF Typed
<1>6. /\ Len(w) \in Nat /\ Len(w1) = Len(w) - 1
      /\ \A i \in 1..Len(w1) : w1[i] = w[i + 1]
  BY <1>1 DEF Typed
<1> HIDE DEF w1, a1, s1
<1>7. Fed(b, w1, FALSE, a1, s1)
  BY <1>2, <1>4, <1>5 DEF Fed
<1>8. InOrder(b, a1, s1)
  <2>1. \A i \in 1..Len(a1) : a1[i].done <=> i > Len(s1)
    BY <1>1, <1>2, <1>4, <1>5, Fields DEF InOrder
  <2>2. ASSUME NEW i \in 1..Len(s1) PROVE a1[i].value = <<s1[i]>>
    <3>1. CASE i = Len(s) + 1
      BY <1>2, <1>4, <1>5, <3>1, Fields
    <3>2. CASE i # Len(s) + 1
      <4>1. i \in 1..Len(s) /\ i \in 1..Len(a)
        BY <1>2, <1>5, <3>2
      <4>2. a[i].value = <<s[i]>>
        BY <1>1, <1>2, <4>1 DEF InOrder
      <4> QED
        BY <1>4, <1>5, <4>1, <4>2
    <3> QED
      BY <3>1, <3>2
  <2> QED
    BY <1>2, <1>4, <1>5, <2>1, <2>2 DEF InOrder
<1>9. InTurn(w1, a1, q)
  <2>1. w[1] = q[Len(a) + 1] /\ Head(w) = w[1]
    BY <1>1, <1>6 DEF InTurn, Typed
  <2>2. ASSUME NEW i \in 1..Len(a1) PROVE a1[i].reader = q[i]
    <3>1. CASE i = Len(a) + 1
      BY <1>4, <2>1, <3>1, Fields
    <3>2. CASE i # Len(a) + 1
      <4>1. i \in 1..Len(a)
        BY <1>2, <1>4, <3>2
      <4> QED
        BY <1>1, <1>4, <4>1 DEF InTurn
    <3> QED
      BY <3>1, <3>2
  <2>3. ASSUME NEW i \in 1..Len(w1) PROVE w1[i] = q[Len(a1) + i]
    <3>1. i + 1 \in 1..Len(w) /\ w1[i] = w[i + 1]
      BY <1>6
    <3>2. w[i + 1] = q[Len(a) + (i + 1)]
      BY <1>1, <3>1 DEF InTurn
    <3>3. Len(a1) = Len(a) + 1
      BY <1>4
    <3>4. Len(a) + (i + 1) = Len(a1) + i
      BY <1>2, <3>3
    <3> QED
      BY <3>1, <3>2, <3>4
  <2>4. Len(q) = Len(a1) + Len(w1)
    BY <1>1, <1>2, <1>4, <1>6 DEF InTurn
  <2> QED
    BY <2>2, <2>3, <2>4 DEF InTurn
<1> QED
  BY <1>3, <1>7, <1>8, <1>9 DEF Orderly, w1, a1, s1

\* pushToStream without a waiter.
LEMMA BufferKeepsOrder ==
  ASSUME NEW b, NEW a, NEW s, NEW q, NEW r \in Responses, NEW w,
         Orderly(b, w, FALSE, a, s, q), w = <<>>
  PROVE  Orderly(Append(b, r), w, FALSE, a, Append(s, r), q)
<1> DEFINE b1 == Append(b, r)
           s1 == Append(s, r)
<1>1. Typed(b, w, FALSE, a, s, q) /\ InOrder(b, a, s) /\ InTurn(w, a, q)
  BY DEF Orderly
<1>2. Len(a) = Len(s) - Len(b) /\ Len(s) \in Nat /\ Len(b) \in Nat
  BY <1>1 DEF Orderly, Fed, Typed
<1>3. Typed(b1, w, FALSE, a, s1, q)
  BY <1>1 DEF Typed
<1>4. Len(b1) = Len(b) + 1 /\ b1[Len(b) + 1] = r /\ \A i \in 1..Len(b) : b1[i] = b[i]
  BY <1>1 DEF Typed
<1>5. Len(s1) = Len(s) + 1 /\ s1[Len(s) + 1] = r /\ \A i \in 1..Len(s) : s1[i] = s[i]
  BY <1>1 DEF Typed
<1> HIDE DEF b1, s1
<1>6. Len(s1) - Len(b1) = Len(s) - Len(b)
  BY <1>2, <1>4, <1>5
<1>7. Fed(b1, w, FALSE, a, s1)
  BY <1>2, <1>6 DEF Fed
<1>8. InOrder(b1, a, s1)
  <2>1. \A i \in 1..(Len(s) - Len(b)) : i \in 1..Len(s)
    BY <1>2
  <2>2. \A i \in 1..(Len(s) - Len(b)) : a[i].value = <<s1[i]>>
    BY <1>1, <1>5, <2>1 DEF InOrder
  <2>3. ASSUME NEW i \in 1..Len(b1) PROVE b1[i] = s1[Len(s) - Len(b) + i]
    <3>1. CASE i = Len(b) + 1
      BY <1>2, <1>4, <1>5, <3>1
    <3>2. CASE i # Len(b) + 1
      <4>1. i \in 1..Len(b) /\ Len(s) - Len(b) + i \in 1..Len(s)
        BY <1>1, <1>2, <1>4, <3>2 DEF InOrder
      <4> QED
        BY <1>1, <1>4, <1>5, <4>1 DEF InOrder
    <3> QED
      BY <3>1, <3>2
  <2> QED
    BY <1>1, <1>6, <2>2, <2>3 DEF InOrder
<1> QED
  BY <1>1, <1>3, <1>7, <1>8 DEF Orderly, b1, s1

\* terminateStream.
LEMMA EndKeepsOrder ==
  ASSUME NEW b, NEW w, NEW a, NEW s, NEW q, Orderly(b, w, FALSE, a, s, q)
  PROVE  Orderly(b, <<>>, TRUE, a \o [i \in 1..Len(w) |-> End(w[i])], s, q)
<1> DEFINE e == [i \in 1..Len(w) |-> End(w[i])]
           a1 == a \o e
<1>1. Typed(b, w, FALSE, a, s, q) /\ InOrder(b, a, s) /\ InTurn(w, a, q)
  BY DEF Orderly
<1>2. /\ Len(a) = Len(s) - Len(b) /\ Len(a) \in Nat /\ Len(w) \in Nat
      /\ Len(w) # 0 => b = <<>>
  BY <1>1 DEF Orderly, Fed, Typed
<1>3. e \in Seq(Answers) /\ Len(e) = Len(w) /\ \A i \in 1..Len(w) : e[i] = End(w[i])
  <2>1. \A i \in 1..Len(w) : End(w[i]) \in Answers
    BY <1>1, Fields DEF Typed
  <2>2. e \in [1..Len(w) -> Answers]
    BY <2>1
  <2> QED
    BY <1>2, <2>2
<1> HIDE DEF e
<1>4. /\ a1 \in Seq(Answers) /\ Len(a1) = Len(a) + Len(w)
      /\ \A i \in 1..Len(a) : a1[i] = a[i]
      /\ \A i \in 1..Len(w) : a1[Len(a) + i] = End(w[i])
  <2>1. a \in Seq(Answers) /\ e \in Seq(Answers)
    BY <1>1, <1>3 DEF Typed
  <2>2. /\ a1 \in Seq(Answers) /\ Len(a1) = Len(a) + Len(e)
        /\ \A i \in 1..Len(a1) : a1[i] = IF i <= Len(a) THEN a[i] ELSE e[i - Len(a)]
    BY <2>1, ConcatProperties
  <2> HIDE DEF a1
  <2>3. ASSUME NEW i \in 1..Len(a) PROVE a1[i] = a[i]
    <3>1. i \in 1..Len(a1) /\ i <= Len(a)
      BY <1>2, <1>3, <2>2
    <3> QED
      BY <2>2, <3>1
  <2>4. ASSUME NEW i \in 1..Len(w) PROVE a1[Len(a) + i] = End(w[i])
    <3>1. Len(a) + i \in 1..Len(a1) /\ ~(Len(a) + i <= Len(a)) /\ Len(a) + i - Len(a) = i
      BY <1>2, <1>3, <2>2
    <3>2. a1[Len(a) + i] = e[i]
      BY <2>2, <3>1
    <3> QED
      BY <1>3, <3>2
  <2> QED
    BY <1>3, <2>2, <2>3, <2>4
<1> HIDE DEF a1
<1>5. Typed(b, <<>>, TRUE, a1, s, q)
  BY <1>1, <1>4 DEF Typed
<1>6. Fed(b, <<>>, TRUE, a1, s)
  <2>1. Len(a1) = Len(a) + Len(w)
    BY <1>4
  <2>2. Len(a1) # Len(a) => Len(w) # 0
    BY <1>2, <2>1
  <2> QED
    BY <1>2, <2>2 DEF Fed
<1>7. ASSUME NEW i \in 1..Len(a1), i \notin 1..Len(a)
      PROVE  /\ i - Len(a) \in 1..Len(w)
             /\ i > Len(a)
             /\ a1[i] = End(w[i - Len(a)])
  <2>1. i - Len(a) \in 1..Len(w) /\ i > Len(a) /\ Len(a) + (i - Len(a)) = i
    BY <1>2, <1>4, <1>7
  <2>2. a1[Len(a) + (i - Len(a))] = End(w[i - Len(a)])
    BY <1>4, <2>1
  <2> QED
    BY <2>1, <2>2
<1>8. InOrder(b, a1, s)
  <2>1. ASSUME NEW i \in 1..Len(a1) PROVE a1[i].done <=> i > Len(s) - Len(b)
    <3>1. CASE i \in 1..Len(a)
      BY <1>1, <1>4, <3>1 DEF InOrder
    <3>2. CASE i \notin 1..Len(a)
      <4>1. a1[i].done
        BY <1>7, <3>2, Fields
      <4>2. i > Len(a)
        BY <1>7, <3>2
      <4> QED
        BY <1>2, <4>1, <4>2
    <3> QED
      BY <3>1, <3>2
  <2>2. \A i \in 1..(Len(s) - Len(b)) : a1[i].value = <<s[i]>>
    BY <1>1, <1>2, <1>4 DEF InOrder
  <2>3. Len(s) - Len(b) \in 0..Len(a1)
    BY <1>2, <1>4
  <2> QED
    BY <1>1, <2>1, <2>2, <2>3 DEF InOrder
<1>9. InTurn(<<>>, a1, q)
  <2>1. ASSUME NEW i \in 1..Len(a1) PROVE a1[i].reader = q[i]
    <3>1. CASE i \in 1..Len(a)
      BY <1>1, <1>4, <3>1 DEF InTurn
    <3>2. CASE i \notin 1..Len(a)
      <4>1. w[i - Len(a)] = q[Len(a) + (i - Len(a))]
        BY <1>1, <1>7, <3>2 DEF InTurn
      <4>2. Len(a) + (i - Len(a)) = i
        BY <1>2, <1>4
      <4>3. a1[i].reader = w[i - Len(a)]
        BY <1>7, <3>2, Fields
      <4> QED
        BY <4>1, <4>2, <4>3
    <3> QED
      BY <3>1, <3>2
  <2>2. Len(q) = Len(a1) + Len(<<>>)
    BY <1>1, <1>2, <1>4 DEF InTurn
  <2> QED
    BY <2>1, <2>2 DEF InTurn
<1> QED
  BY <1>5, <1>6, <1>8, <1>9 DEF Orderly, a1, e

\* next() while the buffer holds something.
LEMMA TakeKeepsOrder ==
  ASSUME NEW b, NEW w, NEW d, NEW a, NEW s, NEW q, NEW rd \in Readers,
         Orderly(b, w, d, a, s, q), b # <<>>
  PROVE  Orderly(Tail(b), w, d, Append(a, Value(rd, Head(b))), s, Append(q, rd))
<1> DEFINE b1 == Tail(b)
           a1 == Append(a, Value(rd, Head(b)))
           q1 == Append(q, rd)
<1>1. Typed(b, w, d, a, s, q) /\ InOrder(b, a, s) /\ InTurn(w, a, q)
  BY DEF Orderly
<1>2. /\ w = <<>> /\ Len(w) = 0
      /\ Len(a) = Len(s) - Len(b) /\ Len(a) \in Nat
  BY <1>1 DEF Orderly, Fed, Typed
<1>3. /\ Len(b) \in Nat /\ Len(b) > 0 /\ Len(b1) = Len(b) - 1
      /\ Head(b) = b[1] /\ Head(b) \in Responses
      /\ \A i \in 1..Len(b1) : b1[i] = b[i + 1]
  BY <1>1 DEF Typed
<1>4. Typed(b1, w, d, a1, s, q1)
  BY <1>1, <1>3, Fields DEF Typed
<1>5. /\ Len(a1) = Len(a) + 1 /\ a1[Len(a) + 1] = Value(rd, b[1])
      /\ \A i \in 1..Len(a) : a1[i] = a[i]
  BY <1>1, <1>3 DEF Typed
<1>6. /\ Len(q1) = Len(q) + 1 /\ q1[Len(q) + 1] = rd
      /\ \A i \in 1..Len(q) : q1[i] = q[i]
  BY <1>1 DEF Typed
<1>7. Len(q) = Len(a) /\ Len(s) - Len(b1) = Len(a) + 1 /\ Len(s) \in Nat
  BY <1>1, <1>2, <1>3 DEF InTurn, Typed
<1> HIDE DEF b1, a1, q1
<1>11. \A i \in 1..Len(a1) : i # Len(a) + 1 => i \in 1..Len(a)
  <2>1. Len(a1) = Len(a) + 1
    BY <1>5
  <2> QED
    BY <1>2, <2>1
<1>8. Fed(b1, w, d, a1, s)
  BY <1>2, <1>5, <1>7 DEF Fed
<1>9. InOrder(b1, a1, s)
  <2>1. ASSUME NEW i \in 1..Len(a1) PROVE ~a1[i].done
    <3>1. CASE i = Len(a) + 1
      BY <1>5, <3>1, Fields
    <3>2. CASE i # Len(a) + 1
      <4>1. i \in 1..Len(a)
        BY <1>11, <3>2
      <4>2. ~(i > Len(s) - Len(b))
        BY <1>2, <4>1
      <4>3. a[i] \in Answers
        BY <1>1, <4>1 DEF Typed
      <4> QED
        BY <1>1, <1>5, <4>1, <4>2, <4>3, Fields DEF InOrder
    <3> QED
      BY <3>1, <3>2
  <2>2. ASSUME NEW i \in 1..Len(a1) PROVE a1[i].value = <<s[i]>>
    <3>1. CASE i = Len(a) + 1
      <4>1. b[1] = s[Len(s) - Len(b) + 1]
        BY <1>1, <1>3 DEF InOrder
      <4> QED
        BY <1>2, <1>5, <3>1, <4>1, Fields
    <3>2. CASE i # Len(a) + 1
      <4>1. i \in 1..Len(a) /\ i \in 1..(Len(s) - Len(b))
        BY <1>2, <1>11, <3>2
      <4> QED
        BY <1>1, <1>5, <4>1 DEF InOrder
    <3> QED
      BY <3>1, <3>2
  <2>3. ASSUME NEW i \in 1..Len(b1) PROVE b1[i] = s[Len(s) - Len(b1) + i]
    <3>1. i + 1 \in 1..Len(b) /\ b1[i] = b[i + 1]
      BY <1>3
    <3>2. b[i + 1] = s[Len(s) - Len(b) + (i + 1)]
      BY <1>1, <3>1 DEF InOrder
    <3>3. Len(s) - Len(b) + (i + 1) = Len(s) - Len(b1) + i
      BY <1>3, <1>7
    <3> QED
      BY <3>1, <3>2, <3>3
  <2>4. \A i \in 1..Len(a1) : ~(i > Len(s) - Len(b1))
    BY <1>2, <1>5, <1>7
  <2>5. Len(s) - Len(b1) \in 0..Len(a1) /\ 1..(Len(s) - Len(b1)) = 1..Len(a1)
    BY <1>2, <1>5, <1>7
  <2> QED
    BY <2>1, <2>2, <2>3, <2>4, <2>5 DEF InOrder
<1>10. InTurn(w, a1, q1)
  <2>1. ASSUME NEW i \in 1..Len(a1) PROVE a1[i].reader = q1[i]
    <3>1. CASE i = Len(a) + 1
      BY <1>5, <1>6, <1>7, <3>1, Fields
    <3>2. CASE i # Len(a) + 1
      <4>1. i \in 1..Len(a)
        BY <1>11, <3>2
      <4>2. i \in 1..Len(q)
        BY <1>7, <4>1
      <4> QED
        BY <1>1, <1>5, <1>6, <4>1, <4>2 DEF InTurn
    <3> QED
      BY <3>1, <3>2
  <2>2. Len(q1) = Len(a1) + Len(w) /\ \A i \in 1..Len(w) : FALSE
    BY <1>2, <1>5, <1>6, <1>7
  <2> QED
    BY <2>1, <2>2 DEF InTurn
<1> QED
  BY <1>4, <1>8, <1>9, <1>10 DEF Orderly, b1, a1, q1

\* next() after the end, with nothing left to read.
LEMMA TellKeepsOrder ==
  ASSUME NEW b, NEW w, NEW a, NEW s, NEW q, NEW rd \in Readers,
         Orderly(b, w, TRUE, a, s, q), b = <<>>
  PROVE  Orderly(b, w, TRUE, Append(a, End(rd)), s, Append(q, rd))
<1> DEFINE a1 == Append(a, End(rd))
           q1 == Append(q, rd)
<1>1. Typed(b, w, TRUE, a, s, q) /\ InOrder(b, a, s) /\ InTurn(w, a, q)
  BY DEF Orderly
<1>2. /\ w = <<>> /\ Len(w) = 0 /\ Len(b) = 0 /\ Len(s) - Len(b) = Len(s)
      /\ Len(s) \in Nat /\ Len(a) \in Nat /\ Len(s) \in 0..Len(a)
  BY <1>1 DEF Orderly, Fed, Typed, InOrder
<1>3. Typed(b, w, TRUE, a1, s, q1)
  BY <1>1, Fields DEF Typed
<1>4. /\ Len(a1) = Len(a) + 1 /\ a1[Len(a) + 1] = End(rd)
      /\ \A i \in 1..Len(a) : a1[i] = a[i]
  BY <1>1 DEF Typed
<1>5. /\ Len(q) = Len(a) /\ Len(q1) = Len(a) + 1 /\ q1[Len(a) + 1] = rd
      /\ \A i \in 1..Len(a) : q1[i] = q[i]
  <2>1. Len(q) = Len(a) /\ q \in Seq(Readers)
    BY <1>1, <1>2 DEF InTurn, Typed
  <2> QED
    BY <2>1
<1> HIDE DEF a1, q1
<1>6. Fed(b, w, TRUE, a1, s)
  BY <1>2 DEF Fed
<1>7. InOrder(b, a1, s)
  <2>1. ASSUME NEW i \in 1..Len(a1) PROVE a1[i].done <=> i > Len(s)
    <3>1. CASE i = Len(a) + 1
      BY <1>2, <1>4, <3>1, Fields
    <3>2. CASE i # Len(a) + 1
      <4>1. i \in 1..Len(a)
        BY <1>2, <1>4, <3>2
      <4> QED
        BY <1>1, <1>2, <1>4, <4>1 DEF InOrder
    <3> QED
      BY <3>1, <3>2
  <2>2. ASSUME NEW i \in 1..Len(s) PROVE a1[i].value = <<s[i]>>
    <3>1. i \in 1..Len(a)
      BY <1>2
    <3> QED
      BY <1>1, <1>2, <1>4, <3>1 DEF InOrder
  <2>3. Len(s) \in 0..Len(a1) /\ \A i \in 1..Len(b) : FALSE
    BY <1>2, <1>4
  <2> QED
    BY <1>2, <2>1, <2>2, <2>3 DEF InOrder
<1>8. InTurn(w, a1, q1)
  <2>1. ASSUME NEW i \in 1..Len(a1) PROVE a1[i].reader = q1[i]
    <3>1. CASE i = Len(a) + 1
      BY <1>4, <1>5, <3>1, Fields
    <3>2. CASE i # Len(a) + 1
      <4>1. i \in 1..Len(a)
        BY <1>2, <1>4, <3>2
      <4> QED
        BY <1>1, <1>4, <1>5, <4>1 DEF InTurn
    <3> QED
      BY <3>1, <3>2
  <2>2. Len(q1) = Len(a1) + Len(w) /\ \A i \in 1..Len(w) : FALSE
    BY <1>2, <1>4, <1>5
  <2> QED
    BY <2>1, <2>2 DEF InTurn
<1> QED
  BY <1>3, <1>6, <1>7, <1>8 DEF Orderly, a1, q1

\* next() with nothing to read yet.
LEMMA WaitKeepsOrder ==
  ASSUME NEW b, NEW w, NEW a, NEW s, NEW q, NEW rd \in Readers,
         Orderly(b, w, FALSE, a, s, q), b = <<>>
  PROVE  Orderly(b, Append(w, rd), FALSE, a, s, Append(q, rd))
<1> DEFINE w1 == Append(w, rd)
           q1 == Append(q, rd)
<1>1. Typed(b, w, FALSE, a, s, q) /\ InOrder(b, a, s) /\ InTurn(w, a, q)
  BY DEF Orderly
<1>2. /\ Len(a) = Len(s) - Len(b) /\ Len(a) \in Nat /\ Len(w) \in Nat
      /\ Len(q) = Len(a) + Len(w)
  BY <1>1 DEF Orderly, Fed, Typed, InTurn
<1>3. Typed(b, w1, FALSE, a, s, q1)
  BY <1>1 DEF Typed
<1>4. /\ Len(w1) = Len(w) + 1 /\ w1[Len(w) + 1] = rd
      /\ \A i \in 1..Len(w) : w1[i] = w[i]
  BY <1>1 DEF Typed
<1>5. /\ Len(q1) = Len(q) + 1 /\ q1[Len(q) + 1] = rd
      /\ \A i \in 1..Len(q) : q1[i] = q[i]
  BY <1>1 DEF Typed
<1> HIDE DEF w1, q1
<1>6. Fed(b, w1, FALSE, a, s)
  BY <1>2 DEF Fed
<1>7. InTurn(w1, a, q1)
  <2>1. ASSUME NEW i \in 1..Len(a) PROVE a[i].reader = q1[i]
    <3>1. i \in 1..Len(q)
      BY <1>2
    <3> QED
      BY <1>1, <1>5, <3>1 DEF InTurn
  <2>2. ASSUME NEW i \in 1..Len(w1) PROVE w1[i] = q1[Len(a) + i]
    <3>1. CASE i = Len(w) + 1
      BY <1>2, <1>4, <1>5, <3>1
    <3>2. CASE i # Len(w) + 1
      <4>1. i \in 1..Len(w) /\ Len(a) + i \in 1..Len(q)
        BY <1>2, <1>4, <3>2
      <4> QED
        BY <1>1, <1>4, <1>5, <4>1 DEF InTurn
    <3> QED
      BY <3>1, <3>2
  <2>3. Len(q1) = Len(a) + Len(w1)
    BY <1>2, <1>4, <1>5
  <2> QED
    BY <2>1, <2>2, <2>3 DEF InTurn
<1> QED
  BY <1>1, <1>3, <1>6, <1>7 DEF Orderly, w1, q1
-----------------------------------------------------------------------------
\* The other modes leave the stream alone.
Unused ==
  /\ buffer = <<>> /\ waiters = <<>> /\ answers = <<>> /\ asked = <<>>
  /\ done = FALSE

\* The inductive invariant.
ChannelInv ==
  /\ mode \in Modes /\ complete \in BOOLEAN /\ deferred \in Settlements
  /\ sent \in Seq(Responses)
  /\ mode # "streaming" => Unused
  /\ mode = "streaming" => done = complete
  /\ mode = "streaming" => Orderly(buffer, waiters, done, answers, sent, asked)
  /\ deferred = "pending" => mode = "awaitable" /\ complete = FALSE

\* A new responder is an empty stream, or none.
LEMMA InitChannelInv == ResponderInit => ChannelInv
<1> SUFFICES ASSUME ResponderInit PROVE ChannelInv
  OBVIOUS
<1>1. mode \in Modes /\ Unused /\ sent = <<>> /\ complete = (mode = "detached")
  BY DEF ResponderInit, Unused
<1>2. complete \in BOOLEAN /\ (mode # "detached" => complete = FALSE)
  BY <1>1, Zenon
<1>3. deferred \in Settlements /\ (deferred = "pending" => mode = "awaitable")
  BY DEF ResponderInit, Settlements
<1>4. Orderly(<<>>, <<>>, FALSE, <<>>, <<>>, <<>>)
  BY DEF Orderly, Typed, Fed, InOrder, InTurn
<1>5. mode = "streaming" => done = complete
  BY <1>1, <1>2 DEF Unused
<1>6. mode = "streaming" => Orderly(buffer, waiters, done, answers, sent, asked)
  BY <1>1, <1>4 DEF Unused
<1>7. deferred = "pending" => mode = "awaitable" /\ complete = FALSE
  BY <1>2, <1>3
<1> QED
  BY <1>1, <1>2, <1>3, <1>5, <1>6, <1>7 DEF ChannelInv

\* pushToStream, with or without a waiter.
LEMMA PushKeepsOrder ==
  ASSUME NEW r \in Responses, done = FALSE,
         Orderly(buffer, waiters, done, answers, sent, asked)
  PROVE  LET s == AfterPush(Stream, r)
         IN  /\ s.done = FALSE
             /\ Orderly(s.buffer, s.waiters, FALSE, s.answers, Append(sent, r), asked)
<1>1. CASE waiters # <<>>
  <2>1. Orderly(buffer, Tail(waiters), FALSE, Append(answers, Value(Head(waiters), r)),
                Append(sent, r), asked)
    BY <1>1, ServeKeepsOrder
  <2> QED
    BY <1>1, <2>1 DEF AfterPush, Stream
<1>2. CASE waiters = <<>>
  <2>1. Orderly(Append(buffer, r), waiters, FALSE, answers, Append(sent, r), asked)
    BY <1>2, BufferKeepsOrder
  <2> QED
    BY <1>2, <2>1 DEF AfterPush, Stream
<1> QED
  BY <1>1, <1>2

\* terminateStream, whatever the stream was before.
LEMMA EndingKeepsOrder ==
  ASSUME NEW t, NEW s1, Orderly(t.buffer, t.waiters, FALSE, t.answers, s1, asked),
         t = [buffer |-> t.buffer, waiters |-> t.waiters, done |-> t.done,
              answers |-> t.answers],
         Becomes(AfterTerminate(t))
  PROVE  done' = TRUE /\ waiters' = <<>>
           /\ Orderly(buffer', waiters', done', answers', s1, asked)
<1>1. Orderly(t.buffer, <<>>, TRUE,
              t.answers \o [i \in 1..Len(t.waiters) |-> End(t.waiters[i])], s1, asked)
  BY EndKeepsOrder
<1>2. /\ AfterTerminate(t).buffer = t.buffer /\ AfterTerminate(t).waiters = <<>>
      /\ AfterTerminate(t).done = TRUE
      /\ AfterTerminate(t).answers =
           t.answers \o [i \in 1..Len(t.waiters) |-> End(t.waiters[i])]
  BY DEF AfterTerminate
<1> QED
  BY <1>1, <1>2 DEF Becomes

\* respond.* while the stream is open.
LEMMA PushChannelInv ==
  ASSUME ChannelInv, NEW r \in Responses, Push(r)
  PROVE  ChannelInv'
<1>1. /\ mode = "streaming" /\ done = FALSE /\ complete = FALSE
      /\ Orderly(buffer, waiters, done, answers, sent, asked)
  BY DEF ChannelInv, Push
<1>2. /\ Becomes(AfterPush(Stream, r)) /\ sent' = Append(sent, r)
      /\ UNCHANGED <<mode, complete, deferred, asked>>
  BY DEF Push
<1>3. done' = FALSE /\ Orderly(buffer', waiters', FALSE, answers', Append(sent, r), asked)
  BY <1>1, <1>2, PushKeepsOrder DEF Becomes
<1>4. sent' \in Seq(Responses)
  BY <1>2 DEF ChannelInv
<1> QED
  BY <1>1, <1>2, <1>3, <1>4 DEF ChannelInv

\* complete(), with or without a last response.
LEMMA CompleteChannelInv ==
  ASSUME ChannelInv, Complete
  PROVE  ChannelInv'
<1>1. /\ mode = "streaming" /\ done = FALSE
      /\ Orderly(buffer, waiters, FALSE, answers, sent, asked)
  BY DEF ChannelInv, Complete
<1>2. complete' = TRUE /\ UNCHANGED <<mode, deferred, asked>>
  BY DEF Complete
<1>3. done' = TRUE /\ sent' \in Seq(Responses)
        /\ Orderly(buffer', waiters', done', answers', sent', asked)
  <2>1. CASE Becomes(AfterTerminate(Stream)) /\ UNCHANGED sent
    <3>1. /\ Stream = [buffer |-> Stream.buffer, waiters |-> Stream.waiters,
                       done |-> Stream.done, answers |-> Stream.answers]
          /\ Orderly(Stream.buffer, Stream.waiters, FALSE, Stream.answers, sent, asked)
      BY <1>1 DEF Stream
    <3>2. done' = TRUE /\ Orderly(buffer', waiters', done', answers', sent, asked)
      BY <2>1, <3>1, EndingKeepsOrder
    <3> QED
      BY <2>1, <3>2 DEF ChannelInv
  <2>2. ASSUME NEW r \in Responses, Becomes(AfterTerminate(AfterPush(Stream, r))),
               sent' = Append(sent, r)
        PROVE  done' = TRUE /\ sent' \in Seq(Responses)
                 /\ Orderly(buffer', waiters', done', answers', sent', asked)
    <3> DEFINE t == AfterPush(Stream, r)
    <3>1. t = [buffer |-> t.buffer, waiters |-> t.waiters, done |-> t.done,
               answers |-> t.answers]
      BY DEF AfterPush, Stream
    <3>2. Orderly(t.buffer, t.waiters, FALSE, t.answers, sent', asked)
      BY <1>1, <2>2, PushKeepsOrder
    <3> HIDE DEF t
    <3>3. Becomes(AfterTerminate(t))
      BY <2>2 DEF t
    <3>4. done' = TRUE /\ Orderly(buffer', waiters', done', answers', sent', asked)
      BY <3>1, <3>2, <3>3, EndingKeepsOrder
    <3> QED
      BY <2>2, <3>4 DEF ChannelInv
  <2> QED
    BY <2>1, <2>2 DEF Complete
<1> QED
  BY <1>1, <1>2, <1>3 DEF ChannelInv

\* dispose(), in each of the modes.
LEMMA DisposeChannelInv ==
  ASSUME ChannelInv, DisposeResponder
  PROVE  ChannelInv'
<1>1. complete = FALSE /\ complete' = TRUE /\ UNCHANGED <<mode, sent, asked>>
  BY DEF DisposeResponder
<1>2. deferred' \in Settlements /\ deferred' # "pending"
  BY DEF DisposeResponder, ChannelInv, Settlements
<1>3. CASE mode = "streaming"
  <2>1. Becomes(AfterTerminate(Stream))
    BY <1>3 DEF DisposeResponder
  <2>2. /\ Stream = [buffer |-> Stream.buffer, waiters |-> Stream.waiters,
                     done |-> Stream.done, answers |-> Stream.answers]
        /\ Orderly(Stream.buffer, Stream.waiters, FALSE, Stream.answers, sent, asked)
    BY <1>1, <1>3 DEF Stream, ChannelInv
  <2>3. done' = TRUE /\ Orderly(buffer', waiters', done', answers', sent, asked)
    BY <2>1, <2>2, EndingKeepsOrder
  <2> QED
    BY <1>1, <1>2, <1>3, <2>3 DEF ChannelInv
<1>4. CASE mode # "streaming"
  <2>1. UNCHANGED <<buffer, waiters, done, answers>>
    BY <1>4 DEF DisposeResponder
  <2> QED
    BY <1>1, <1>2, <1>4, <2>1 DEF ChannelInv, Unused
<1> QED
  BY <1>3, <1>4

\* next(), in each of its three ways.
LEMMA ReadChannelInv ==
  ASSUME ChannelInv, NEW reader \in Readers, Read(reader)
  PROVE  ChannelInv'
<1>1. /\ mode = "streaming" /\ done \in BOOLEAN
      /\ Orderly(buffer, waiters, done, answers, sent, asked)
  BY DEF ChannelInv, Read
<1>2. /\ asked' = Append(asked, reader)
      /\ UNCHANGED <<mode, complete, deferred, done, sent>>
  BY DEF Read
<1>3. Orderly(buffer', waiters', done, answers', sent, Append(asked, reader))
  <2>1. CASE /\ buffer # <<>>
             /\ buffer' = Tail(buffer)
             /\ answers' = Append(answers, Value(reader, Head(buffer)))
             /\ UNCHANGED waiters
    BY <1>1, <2>1, TakeKeepsOrder
  <2>2. CASE /\ buffer = <<>> /\ done
             /\ answers' = Append(answers, End(reader))
             /\ UNCHANGED <<buffer, waiters>>
    <3>1. done = TRUE
      BY <1>1, <2>2
    <3> QED
      BY <1>1, <2>2, <3>1, TellKeepsOrder
  <2>3. CASE /\ buffer = <<>> /\ ~done
             /\ waiters' = Append(waiters, reader)
             /\ UNCHANGED <<buffer, answers>>
    <3>1. done = FALSE
      BY <1>1, <2>3
    <3> QED
      BY <1>1, <2>3, <3>1, WaitKeepsOrder
  <2> QED
    BY <2>1, <2>2, <2>3 DEF Read
<1> QED
  BY <1>1, <1>2, <1>3 DEF ChannelInv

\* Every step keeps the invariant.
LEMMA StepChannelInv == ChannelInv /\ [ResponderNext]_responderVars => ChannelInv'
<1> SUFFICES ASSUME ChannelInv, [ResponderNext]_responderVars PROVE ChannelInv'
  OBVIOUS
<1>1. ASSUME NEW r \in Responses, Settle(r) PROVE ChannelInv'
  <2>1. /\ sent' \in Seq(Responses) /\ deferred' \in Settlements
        /\ deferred' # "pending" /\ complete' \in BOOLEAN
    BY <1>1 DEF ChannelInv, Settle, Settlements
  <2> QED
    BY <1>1, <2>1 DEF ChannelInv, Settle, Unused
<1>2. ASSUME NEW r \in Responses, Push(r) PROVE ChannelInv'
  BY <1>2, PushChannelInv
<1>3. CASE Complete
  BY <1>3, CompleteChannelInv
<1>4. CASE DisposeResponder
  BY <1>4, DisposeChannelInv
<1>5. ASSUME NEW reader \in Readers, Read(reader) PROVE ChannelInv'
  BY <1>5, ReadChannelInv
<1>6. CASE UNCHANGED responderVars
  BY <1>6 DEF ChannelInv, Unused, responderVars
<1> QED
  BY <1>1, <1>2, <1>3, <1>4, <1>5, <1>6 DEF ResponderNext

\* The invariant holds in every reachable state.
THEOREM ChannelInductive == ResponderSpec => []ChannelInv
<1> QED
  BY InitChannelInv, StepChannelInv, PTL DEF ResponderSpec
-----------------------------------------------------------------------------
\* Every variable keeps to its kind.
THEOREM ChannelTypeCorrect == ResponderSpec => []ResponderTypeOK
<1>1. ASSUME ChannelInv PROVE ResponderTypeOK
  <2>1. done \in BOOLEAN /\ buffer \in Seq(Responses) /\ waiters \in Seq(Readers)
          /\ asked \in Seq(Readers) /\ answers \in Seq(Answers)
    <3>1. CASE mode = "streaming"
      BY <1>1, <3>1 DEF ChannelInv, Orderly, Typed
    <3>2. CASE mode # "streaming"
      <4>1. Unused
        BY <1>1, <3>2 DEF ChannelInv
      <4>2. done \in BOOLEAN
        BY <4>1, Zenon DEF Unused
      <4>3. /\ buffer \in Seq(Responses) /\ waiters \in Seq(Readers)
            /\ asked \in Seq(Readers) /\ answers \in Seq(Answers)
        BY <4>1 DEF Unused
      <4> QED
        BY <4>2, <4>3
    <3> QED
      BY <3>1, <3>2
  <2> QED
    BY <1>1, <2>1 DEF ChannelInv, ResponderTypeOK
<1> QED
  BY <1>1, ChannelInductive, PTL

\* A stream delivers the responses in the order they were sent, each of them
\* to exactly one call of next(), for any number of readers and responses.
THEOREM ResponsesArriveInOrder == ResponderSpec => []InOrderExactlyOnce
<1>1. ChannelInv => InOrderExactlyOnce
  BY DEF ChannelInv, Orderly, InOrder, InOrderExactlyOnce, Taken
<1> QED
  BY <1>1, ChannelInductive, PTL

\* Readers are served in the order they asked.
THEOREM ReadersAreServedInTurn == ResponderSpec => []ServedInTurn
<1>1. ASSUME ChannelInv PROVE ServedInTurn
  <2>1. CASE mode = "streaming"
    BY <1>1, <2>1 DEF ChannelInv, Orderly, InTurn, ServedInTurn
  <2>2. CASE mode # "streaming"
    BY <1>1, <2>2 DEF ChannelInv, Unused, ServedInTurn
  <2> QED
    BY <2>1, <2>2
<1> QED
  BY <1>1, ChannelInductive, PTL

\* A channel that is closed leaves nobody waiting.
THEOREM ClosingLeavesNobodyWaiting == ResponderSpec => []NobodyStranded
<1>1. ASSUME ChannelInv PROVE NobodyStranded
  <2>1. CASE mode = "streaming"
    BY <1>1, <2>1 DEF ChannelInv, Orderly, Fed, NobodyStranded
  <2>2. CASE mode # "streaming"
    BY <1>1, <2>2 DEF ChannelInv, Unused, NobodyStranded
  <2> QED
    BY <2>1, <2>2
<1> QED
  BY <1>1, ChannelInductive, PTL

-----------------------------------------------------------------------------
(***************************************************************************)
(* ActivityResponder implements ResponseStream: the initial states are     *)
(* states of a new stream, and every method is one step of the stream or   *)
(* none.                                                                   *)
(***************************************************************************)

\* What the stream has handed out, and whether somebody was told of the end.
TakenBar == IF mode = "streaming" THEN Taken ELSE Len(sent)
ToldBar == \E i \in 1..Len(answers) : answers[i].done

\* The answers run ahead of the responses exactly when somebody was told.
Ahead ==
  /\ Len(sent) \in Nat /\ Len(buffer) \in Nat /\ Len(answers) \in Nat
  /\ Len(waiters) \in Nat
  /\ TakenBar = Len(sent) - Len(buffer)
  /\ TakenBar \in 0..Len(sent)
  /\ ToldBar <=> Len(answers) > TakenBar

\* While the channel is open, the answers and the responses are level, and
\* somebody waits only if there is nothing to read.
Level ==
  complete = FALSE =>
    /\ ~ToldBar
    /\ mode = "streaming" => Len(answers) = TakenBar
    /\ waiters # <<>> => buffer = <<>> /\ TakenBar = Len(sent)
    /\ waiters = <<>> <=> Len(waiters) = 0

Inv == ChannelInv /\ Ahead /\ Level

\* What an orderly stream says of who has been told.
LEMMA ToldIsAhead == ChannelInv => Ahead
<1> SUFFICES ASSUME ChannelInv PROVE Ahead
  OBVIOUS
<1>1. CASE mode # "streaming"
  <2>1. buffer = <<>> /\ answers = <<>> /\ waiters = <<>> /\ sent \in Seq(Responses)
    BY <1>1 DEF ChannelInv, Unused
  <2>2. ~ToldBar
    BY <2>1 DEF ToldBar
  <2> QED
    BY <1>1, <2>1, <2>2 DEF TakenBar, Ahead
<1>2. CASE mode = "streaming"
  <2>1. /\ Typed(buffer, waiters, done, answers, sent, asked)
        /\ InOrder(buffer, answers, sent)
    BY <1>2 DEF ChannelInv, Orderly
  <2>2. /\ Len(sent) \in Nat /\ Len(buffer) \in Nat /\ Len(answers) \in Nat
        /\ Len(waiters) \in Nat
    BY <2>1 DEF Typed
  <2>3. TakenBar = Len(sent) - Len(buffer) /\ TakenBar \in 0..Len(answers)
    BY <1>2, <2>1 DEF TakenBar, Taken, InOrder
  <2>4. \A i \in 1..Len(answers) : answers[i].done <=> i > TakenBar
    BY <2>1, <2>3 DEF InOrder
  <2>5. ASSUME ToldBar PROVE Len(answers) > TakenBar
    <3>1. PICK i \in 1..Len(answers) : answers[i].done
      BY <2>5 DEF ToldBar
    <3> QED
      BY <2>2, <2>3, <2>4, <3>1
  <2>6. ASSUME Len(answers) > TakenBar PROVE ToldBar
    <3>1. Len(answers) \in 1..Len(answers)
      BY <2>2, <2>3, <2>6
    <3>2. answers[Len(answers)].done
      BY <2>4, <2>6, <3>1
    <3> QED
      BY <3>1, <3>2 DEF ToldBar
  <2>7. TakenBar \in 0..Len(sent)
    BY <2>2, <2>3
  <2> QED
    BY <2>2, <2>3, <2>5, <2>6, <2>7 DEF Ahead
<1> QED
  BY <1>1, <1>2

\* What an orderly stream says of who waits while it is open.
LEMMA OpenIsLevel == ChannelInv => Level
<1> SUFFICES ASSUME ChannelInv, complete = FALSE
             PROVE  /\ ~ToldBar
                    /\ mode = "streaming" => Len(answers) = TakenBar
                    /\ waiters # <<>> => buffer = <<>> /\ TakenBar = Len(sent)
                    /\ waiters = <<>> <=> Len(waiters) = 0
  BY DEF Level
<1>1. CASE mode # "streaming"
  <2>1. answers = <<>> /\ waiters = <<>>
    BY <1>1 DEF ChannelInv, Unused
  <2> QED
    BY <1>1, <2>1 DEF ToldBar
<1>2. CASE mode = "streaming"
  <2>1. /\ done = FALSE /\ Fed(buffer, waiters, done, answers, sent)
        /\ waiters \in Seq(Readers)
    BY <1>2 DEF ChannelInv, Orderly, Typed
  <2>2. TakenBar = Len(sent) - Len(buffer) /\ Len(sent) \in Nat /\ Len(answers) \in Nat
    BY ToldIsAhead DEF Ahead
  <2>3. Len(answers) = TakenBar
    BY <2>1, <2>2 DEF Fed
  <2>4. ~ToldBar
    BY <2>2, <2>3, ToldIsAhead DEF Ahead
  <2>5. waiters # <<>> => buffer = <<>> /\ TakenBar = Len(sent)
    BY <2>1, <2>2 DEF Fed
  <2> QED
    BY <2>1, <2>3, <2>4, <2>5
<1> QED
  BY <1>1, <1>2
-----------------------------------------------------------------------------
\* What pushToStream does to the lengths.
LEMMA PushLengths ==
  ASSUME Inv, mode = "streaming", complete = FALSE, NEW r \in Responses
  PROVE  LET s == AfterPush(Stream, r)
         IN  /\ Len(s.waiters) \in Nat /\ Len(s.answers) \in Nat /\ Len(s.buffer) \in Nat
             /\ s.answers \in Seq(Answers) /\ s.waiters \in Seq(Readers)
             /\ \/ /\ TakenBar = Len(sent)
                   /\ Len(s.buffer) = 0 /\ Len(s.answers) = Len(answers) + 1
                \/ /\ Len(s.waiters) = 0 /\ Len(s.answers) = Len(answers)
                   /\ Len(s.buffer) = Len(buffer) + 1
<1>1. /\ buffer \in Seq(Responses) /\ waiters \in Seq(Readers) /\ answers \in Seq(Answers)
      /\ waiters # <<>> => buffer = <<>> /\ TakenBar = Len(sent)
  BY DEF Inv, Level, ChannelInv, Orderly, Typed
<1>2. CASE waiters # <<>>
  <2>1. Head(waiters) \in Readers /\ Tail(waiters) \in Seq(Readers)
    BY <1>1, <1>2
  <2>2. Value(Head(waiters), r) \in Answers
    BY <2>1, Fields
  <2>3. AfterPush(Stream, r) =
          [buffer |-> buffer, waiters |-> Tail(waiters), done |-> done,
           answers |-> Append(answers, Value(Head(waiters), r))]
    BY <1>2 DEF AfterPush, Stream
  <2>4. /\ Append(answers, Value(Head(waiters), r)) \in Seq(Answers)
        /\ Len(Append(answers, Value(Head(waiters), r))) = Len(answers) + 1
        /\ Len(answers) \in Nat
    BY <1>1, <2>2
  <2> QED
    BY <1>1, <1>2, <2>1, <2>3, <2>4
<1>3. CASE waiters = <<>>
  <2>1. AfterPush(Stream, r) =
          [buffer |-> Append(buffer, r), waiters |-> waiters, done |-> done,
           answers |-> answers]
    BY <1>3 DEF AfterPush, Stream
  <2> QED
    BY <1>1, <1>3, <2>1
<1> QED
  BY <1>2, <1>3

\* What terminateStream does to the lengths.
LEMMA EndLengths ==
  ASSUME NEW t, t.answers \in Seq(Answers), t.waiters \in Seq(Readers),
         Becomes(AfterTerminate(t))
  PROVE  /\ buffer' = t.buffer
         /\ Len(answers') = Len(t.answers) + Len(t.waiters)
<1> DEFINE e == [i \in 1..Len(t.waiters) |-> End(t.waiters[i])]
<1>1. e \in Seq(Answers) /\ Len(e) = Len(t.waiters)
  <2>1. \A i \in 1..Len(t.waiters) : End(t.waiters[i]) \in Answers
    BY Fields
  <2>2. e \in [1..Len(t.waiters) -> Answers] /\ Len(t.waiters) \in Nat
    BY <2>1
  <2> QED
    BY <2>2
<1>2. AfterTerminate(t).buffer = t.buffer /\ AfterTerminate(t).answers = t.answers \o e
  BY DEF AfterTerminate
<1> HIDE DEF e
<1>3. Len(t.answers \o e) = Len(t.answers) + Len(e)
  BY <1>1, ConcatProperties
<1> QED
  BY <1>1, <1>2, <1>3 DEF Becomes
-----------------------------------------------------------------------------
\* A new responder is a new stream, closed if it is detached.
LEMMA InitRefines == ResponderInit => Channel!Init
<1> SUFFICES ASSUME ResponderInit PROVE Channel!Init
  OBVIOUS
<1>1. complete \in BOOLEAN /\ sent = <<>> /\ buffer = <<>> /\ answers = <<>>
  BY Zenon DEF ResponderInit
<1>2. TakenBar = 0
  BY <1>1 DEF TakenBar, Taken
<1>3. ~ToldBar
  BY <1>1 DEF ToldBar
<1> QED
  BY <1>1, <1>2, <1>3 DEF Channel!Init, TakenBar, ToldBar

\* The steps of the stream, in terms of the responder.
LEMMA SendStep ==
  ASSUME NEW r \in Responses, complete = FALSE, complete' = FALSE,
         sent' = Append(sent, r), ~ToldBar, ~ToldBar',
         TakenBar' = TakenBar \/ (TakenBar = Len(sent) /\ TakenBar' = TakenBar + 1)
  PROVE  Channel!Next
<1>1. ToldBar' = ToldBar
  BY Zenon DEF ToldBar
<1> QED
  BY <1>1 DEF Channel!Next, Channel!Send, TakenBar, ToldBar

\* Completing a channel, with or without a last response, is a step of the stream.
LEMMA CloseStep ==
  ASSUME complete = FALSE, complete' = TRUE,
         \/ sent' = sent /\ TakenBar' = TakenBar
         \/ /\ \E r \in Responses : sent' = Append(sent, r)
            /\ TakenBar' = TakenBar \/ (TakenBar = Len(sent) /\ TakenBar' = TakenBar + 1),
         ~ToldBar, ToldBar' => TakenBar' = Len(sent')
  PROVE  Channel!Next
<1>1. ToldBar' = ToldBar \/ (ToldBar' = TRUE /\ TakenBar' = Len(sent'))
  BY Zenon DEF ToldBar
<1> QED
  BY <1>1 DEF Channel!Next, Channel!Close, TakenBar, ToldBar

\* A settled promise is a channel closed by its only response.
LEMMA SettleRefines ==
  ASSUME Inv, NEW r \in Responses, Settle(r)
  PROVE  Channel!Next
<1>1. /\ mode = "awaitable" /\ mode' = mode /\ complete = FALSE /\ complete' = TRUE
      /\ sent' = Append(sent, r) /\ answers' = answers /\ sent \in Seq(Responses)
  BY DEF Settle, Inv, ChannelInv
<1>2. TakenBar = Len(sent) /\ TakenBar' = Len(sent') /\ Len(sent') = Len(sent) + 1
  BY <1>1 DEF TakenBar
<1>3. ~ToldBar
  BY <1>1 DEF Inv, Level
<1>4. TakenBar = Len(sent) /\ TakenBar' = TakenBar + 1
  BY <1>2
<1> QED
  BY <1>1, <1>2, <1>3, <1>4, CloseStep

\* A response pushed is a response sent, taken at once if a reader waits.
LEMMA PushRefines ==
  ASSUME Inv, Inv', NEW r \in Responses, Push(r)
  PROVE  Channel!Next
<1>1. /\ mode = "streaming" /\ complete = FALSE /\ complete' = FALSE
      /\ sent' = Append(sent, r) /\ Becomes(AfterPush(Stream, r)) /\ sent \in Seq(Responses)
  BY DEF Push, Inv, ChannelInv
<1>2. Len(sent') = Len(sent) + 1 /\ Len(sent) \in Nat
  BY <1>1
<1>3. ~ToldBar /\ ~ToldBar'
  BY <1>1 DEF Inv, Level
<1>4. /\ TakenBar = Len(sent) - Len(buffer) /\ TakenBar' = Len(sent') - Len(buffer')
      /\ Len(buffer) \in Nat /\ Len(buffer') \in Nat
  BY DEF Inv, Ahead
<1>5. (TakenBar = Len(sent) /\ Len(buffer') = 0) \/ Len(buffer') = Len(buffer) + 1
  BY <1>1, PushLengths DEF Becomes
<1>6. TakenBar' = TakenBar \/ (TakenBar = Len(sent) /\ TakenBar' = TakenBar + 1)
  BY <1>2, <1>4, <1>5
<1> QED
  BY <1>1, <1>3, <1>6, SendStep

\* complete() closes the stream; only a reader who has everything is told.
LEMMA CompleteRefines ==
  ASSUME Inv, Inv', Complete
  PROVE  Channel!Next
<1>1. mode = "streaming" /\ complete = FALSE /\ complete' = TRUE
  BY DEF Complete, Inv, ChannelInv
<1>2. /\ ~ToldBar /\ Len(answers) = TakenBar
      /\ waiters # <<>> => buffer = <<>> /\ TakenBar = Len(sent)
      /\ waiters = <<>> <=> Len(waiters) = 0
  BY <1>1 DEF Inv, Level
<1>3. /\ TakenBar = Len(sent) - Len(buffer) /\ Len(sent) \in Nat /\ Len(buffer) \in Nat
      /\ TakenBar' = Len(sent') - Len(buffer') /\ Len(buffer') \in Nat
      /\ ToldBar' <=> Len(answers') > TakenBar'
      /\ Len(answers) \in Nat /\ Len(waiters) \in Nat
  BY DEF Inv, Ahead
<1>4. CASE Becomes(AfterTerminate(Stream)) /\ UNCHANGED sent
  <2>1. Stream.answers = answers /\ Stream.waiters = waiters /\ Stream.buffer = buffer
    BY DEF Stream
  <2>2. answers \in Seq(Answers) /\ waiters \in Seq(Readers)
    BY <1>1 DEF Inv, ChannelInv, Orderly, Typed
  <2>3. buffer' = buffer /\ Len(answers') = Len(answers) + Len(waiters)
    BY <1>4, <2>1, <2>2, EndLengths
  <2>4. TakenBar' = TakenBar
    BY <1>3, <1>4, <2>3
  <2>5. ToldBar' => Len(waiters) # 0
    BY <1>2, <1>3, <2>3, <2>4
  <2>6. ToldBar' => TakenBar' = Len(sent')
    BY <1>2, <1>4, <2>4, <2>5
  <2> QED
    BY <1>1, <1>2, <1>4, <2>4, <2>6, CloseStep
<1>5. ASSUME NEW r \in Responses, Becomes(AfterTerminate(AfterPush(Stream, r))),
             sent' = Append(sent, r)
      PROVE  Channel!Next
  <2> DEFINE t == AfterPush(Stream, r)
  <2>1. /\ Len(t.waiters) \in Nat /\ Len(t.answers) \in Nat /\ Len(t.buffer) \in Nat
        /\ t.answers \in Seq(Answers) /\ t.waiters \in Seq(Readers)
        /\ \/ /\ TakenBar = Len(sent)
              /\ Len(t.buffer) = 0 /\ Len(t.answers) = Len(answers) + 1
           \/ /\ Len(t.waiters) = 0 /\ Len(t.answers) = Len(answers)
              /\ Len(t.buffer) = Len(buffer) + 1
    BY <1>1, PushLengths
  <2> HIDE DEF t
  <2>2. buffer' = t.buffer /\ Len(answers') = Len(t.answers) + Len(t.waiters)
    <3>1. Becomes(AfterTerminate(t))
      BY <1>5 DEF t
    <3> QED
      BY <2>1, <3>1, EndLengths
  <2>3. Len(sent') = Len(sent) + 1
    <3>1. sent \in Seq(Responses)
      BY DEF Inv, ChannelInv
    <3> QED
      BY <1>5, <3>1
  <2>4. TakenBar' = Len(sent) + 1 - Len(t.buffer)
    BY <1>3, <2>2, <2>3
  <2>5. \/ TakenBar = Len(sent) /\ TakenBar' = Len(sent) + 1
        \/ TakenBar' = TakenBar /\ Len(answers') = Len(answers)
    <3>1. CASE TakenBar = Len(sent) /\ Len(t.buffer) = 0
      BY <1>3, <2>4, <3>1
    <3>2. CASE /\ Len(t.waiters) = 0 /\ Len(t.answers) = Len(answers)
               /\ Len(t.buffer) = Len(buffer) + 1
      BY <1>3, <2>2, <2>4, <3>2
    <3> QED
      BY <2>1, <3>1, <3>2
  <2>6. TakenBar' = TakenBar \/ (TakenBar = Len(sent) /\ TakenBar' = TakenBar + 1)
    BY <2>5
  <2>7. ToldBar' => TakenBar' = Len(sent')
    BY <1>2, <1>3, <2>3, <2>5
  <2> QED
    BY <1>1, <1>2, <1>5, <2>6, <2>7, CloseStep
<1> QED
  BY <1>4, <1>5 DEF Complete

\* dispose() closes the channel without a response.
LEMMA DisposeRefines ==
  ASSUME Inv, Inv', DisposeResponder
  PROVE  Channel!Next
<1>1. complete = FALSE /\ complete' = TRUE /\ sent' = sent /\ mode' = mode
  BY DEF DisposeResponder, Inv, ChannelInv
<1>2. /\ ~ToldBar
      /\ mode = "streaming" => Len(answers) = TakenBar
      /\ waiters # <<>> => TakenBar = Len(sent)
      /\ waiters = <<>> <=> Len(waiters) = 0
  BY <1>1 DEF Inv, Level
<1>3. /\ TakenBar = Len(sent) - Len(buffer) /\ TakenBar' = Len(sent') - Len(buffer')
      /\ ToldBar' <=> Len(answers') > TakenBar'
      /\ Len(answers) \in Nat /\ Len(waiters) \in Nat
  BY DEF Inv, Ahead
<1>4. CASE mode = "streaming"
  <2>1. Stream.answers = answers /\ Stream.waiters = waiters /\ Stream.buffer = buffer
    BY DEF Stream
  <2>2. answers \in Seq(Answers) /\ waiters \in Seq(Readers) /\ Becomes(AfterTerminate(Stream))
    BY <1>4 DEF Inv, ChannelInv, Orderly, Typed, DisposeResponder
  <2>3. buffer' = buffer /\ Len(answers') = Len(answers) + Len(waiters)
    BY <2>1, <2>2, EndLengths
  <2>4. TakenBar' = TakenBar
    BY <1>1, <1>3, <2>3
  <2>5. ToldBar' => Len(waiters) # 0
    BY <1>2, <1>3, <1>4, <2>3, <2>4
  <2>6. ToldBar' => TakenBar' = Len(sent')
    BY <1>1, <1>2, <2>4, <2>5
  <2> QED
    BY <1>1, <1>2, <2>4, <2>6, CloseStep
<1>5. CASE mode # "streaming"
  <2>1. TakenBar' = TakenBar /\ (ToldBar' <=> ToldBar)
    BY <1>1, <1>5 DEF TakenBar, ToldBar, DisposeResponder
  <2> QED
    BY <1>1, <1>2, <2>1, CloseStep
<1> QED
  BY <1>4, <1>5

\* next() takes a response, is told of the end, or waits unseen.
LEMMA ReadRefines ==
  ASSUME Inv, Inv', NEW reader \in Readers, Read(reader)
  PROVE  Channel!Next \/ UNCHANGED Channel!streamVars
<1>1. /\ mode = "streaming" /\ done = complete
      /\ buffer \in Seq(Responses) /\ answers \in Seq(Answers)
      /\ Fed(buffer, waiters, done, answers, sent)
  BY DEF Read, Inv, ChannelInv, Orderly, Typed
<1>2. sent' = sent /\ complete' = complete
  BY DEF Read
<1>3. /\ TakenBar = Len(sent) - Len(buffer) /\ TakenBar' = Len(sent') - Len(buffer')
      /\ ToldBar <=> Len(answers) > TakenBar
      /\ ToldBar' <=> Len(answers') > TakenBar'
      /\ Len(answers) \in Nat /\ Len(sent) \in Nat /\ Len(buffer) \in Nat
  BY DEF Inv, Ahead
<1>4. CASE /\ buffer # <<>>
           /\ buffer' = Tail(buffer)
           /\ answers' = Append(answers, Value(reader, Head(buffer)))
  <2>1. /\ Len(buffer) > 0 /\ Len(buffer') = Len(buffer) - 1
        /\ Len(answers') = Len(answers) + 1
    BY <1>1, <1>4
  <2>2. TakenBar < Len(sent) /\ TakenBar' = TakenBar + 1 /\ (ToldBar' <=> ToldBar)
    BY <1>2, <1>3, <2>1
  <2>3. ToldBar' = ToldBar
    BY <2>2, Zenon DEF ToldBar
  <2> QED
    BY <1>2, <2>2, <2>3 DEF Channel!Next, Channel!Take, TakenBar, ToldBar
<1>5. CASE /\ buffer = <<>> /\ done
           /\ answers' = Append(answers, End(reader))
           /\ UNCHANGED buffer
  <2>1. Len(buffer) = 0 /\ Len(answers') = Len(answers) + 1
    BY <1>1, <1>5
  <2>2. TakenBar = Len(sent) /\ TakenBar' = TakenBar
    BY <1>2, <1>3, <1>5, <2>1
  <2>3. TakenBar \in 0..Len(answers)
    BY <1>1 DEF Inv, ChannelInv, Orderly, InOrder, TakenBar, Taken
  <2>4. ToldBar'
    BY <1>3, <2>1, <2>2, <2>3
  <2>5. ToldBar' = TRUE
    BY <2>4, Zenon DEF ToldBar
  <2> QED
    BY <1>1, <1>2, <1>5, <2>2, <2>5 DEF Channel!Next, Channel!Tell, TakenBar, ToldBar
<1>6. CASE UNCHANGED <<buffer, answers>>
  <2>1. mode' = mode
    BY DEF Read
  <2>2. TakenBar' = TakenBar /\ ToldBar' = ToldBar
    BY <1>2, <1>6, <2>1 DEF TakenBar, Taken, ToldBar
  <2> QED
    BY <1>2, <2>2 DEF Channel!streamVars, TakenBar, ToldBar
<1> QED
  BY <1>4, <1>5, <1>6 DEF Read

\* Every step of a responder is a step of the stream, or none.
LEMMA StepRefines ==
  Inv /\ Inv' /\ [ResponderNext]_responderVars => [Channel!Next]_Channel!streamVars
<1> SUFFICES ASSUME Inv, Inv', [ResponderNext]_responderVars
             PROVE  Channel!Next \/ UNCHANGED Channel!streamVars
  OBVIOUS
<1>1. CASE UNCHANGED responderVars
  BY <1>1 DEF responderVars, Channel!streamVars, Taken
<1> QED
  BY <1>1, SettleRefines, PushRefines, CompleteRefines, DisposeRefines, ReadRefines DEF ResponderNext

\* A response channel keeps its promise, whatever its mode: responses are
\* delivered in order and once, it closes for good, and nobody is told of
\* the end while there is something left to read (ActivityResponder.ts).
THEOREM ResponderImplementsStream == ResponderSpec => ImplementsStream
<1>1. ResponderSpec => Channel!Spec
  BY InitRefines, StepRefines, ChannelInductive, ToldIsAhead, OpenIsLevel, PTL DEF Inv, ResponderSpec, Channel!Spec
<1> QED
  BY <1>1 DEF ImplementsStream
=============================================================================
